CONSTANTS
  MaxTime = 3
  MaxAmount = 1
  MaxEntries = 2
  MaxCounts = 2
SPECIFICATION Spec
INVARIANTS
  TypeOK
  CountsExplained
PROPERTIES
  OnlyRefundsOverdraw
CHECK_DEADLOCK FALSE
