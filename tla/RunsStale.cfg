CONSTANTS
  MaxEvents = 3
  MaxOvertaken = 0
  MaxStaff = 0
  MaxRefusals = 0
  Unknowns = {}
SPECIFICATION Spec
PROPERTIES
  StaleEventsOnlyReviewed
CHECK_DEADLOCK FALSE
