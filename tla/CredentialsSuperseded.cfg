CONSTANTS
  d1 = d1
  d2 = d2
  s1 = s1
  s2 = s2
  NoSecret = NoSecret
  Daemon = {d1, d2}
  Secret = {s1, s2}
  MaxCred = 3
  MaxFaults = 0
SPECIFICATION Spec
INVARIANTS
  EarlierCredentialsRejected
CHECK_DEADLOCK FALSE
