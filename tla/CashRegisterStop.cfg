CONSTANTS
  MaxTime = 3
  MaxAmount = 1
  MaxEntries = 2
  MaxCounts = 2
SPECIFICATION Spec
PROPERTIES
  StopIsSound
CHECK_DEADLOCK FALSE
