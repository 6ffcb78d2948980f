CONSTANTS
  MaxEvents = 4
  MaxOvertaken = 0
  MaxStaff = 0
  MaxRefusals = 0
  Unknowns = {"lost", "closed"}
SPECIFICATION Spec
INVARIANTS
  ClosedRunNotRunning
CHECK_DEADLOCK FALSE
