CONSTANTS
  Slot = {s1, s2}
  Spool = {x1, x2}
  Staff = {p1}
  NoSpool = NoSpool
  Article = Article
  MaxObservations = 3
  MaxStaffOps = 1
  MaxChanges = 3
SPECIFICATION Spec
INVARIANTS
  TypeOK
  OneOpenMount
  MountsFollowTrays
PROPERTIES
  ManualMountKept
  ObservationsApplied
CHECK_DEADLOCK FALSE
