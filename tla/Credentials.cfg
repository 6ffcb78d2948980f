CONSTANTS
  d1 = d1
  d2 = d2
  s1 = s1
  s2 = s2
  NoSecret = NoSecret
  Daemon = {d1, d2}
  Secret = {s1, s2}
  MaxCred = 3
  MaxFaults = 1
SPECIFICATION Spec
SYMMETRY DaemonSymmetry
INVARIANTS
  TypeOK
  SecretEnrollsOneDaemon
  FirstSecretNotWasted
  HandoverCoversOneFailure
PROPERTIES
  CredentialsSerial
CHECK_DEADLOCK FALSE
