CONSTANTS
  MaxEvents = 4
  MaxOvertaken = 1
  MaxStaff = 2
  MaxRefusals = 1
  Unknowns = {"lost", "closed"}
SPECIFICATION Spec
INVARIANTS
  TypeOK
  EndNotBeforeStart
  BookedOnce
  ResultClosesRun
  ReportBooked
PROPERTIES
  FinalStateSticks
  StaffUsageStands
  OutcomeStands
  DeletedRunStays
CHECK_DEADLOCK FALSE
