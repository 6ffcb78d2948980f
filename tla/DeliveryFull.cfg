CONSTANTS
  e1 = e1
  e2 = e2
  e3 = e3
  a1 = a1
  Event = {e1, e2, e3}
  Assignment = {a1}
  Refused = {e2, e3}
  MaxOutbox = 2
  BatchLimit = 2
  MaxFaults = 1
  MaxResets = 0
SPECIFICATION FairSpec
PROPERTIES FullQueueDrains
CHECK_DEADLOCK FALSE
