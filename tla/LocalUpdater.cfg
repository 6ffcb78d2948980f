CONSTANTS
  MaxVersion = 3
  MaxRequests = 2
  MaxBeats = 1
  MaxFaults = 2
SPECIFICATION Spec
INVARIANTS
  TypeOK
  InstallsOnce
  SucceededIsTrue
PROPERTIES
  RequestSettles
CHECK_DEADLOCK FALSE
