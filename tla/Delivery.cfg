CONSTANTS
  e1 = e1
  e2 = e2
  e3 = e3
  a1 = a1
  Event = {e1, e2, e3}
  Assignment = {a1}
  Refused = {e3}
  MaxOutbox = 2
  BatchLimit = 2
  MaxFaults = 2
  MaxResets = 1
SPECIFICATION FairSpec
INVARIANTS TypeOK LocalSequencesUnique DeletedOnlyWhenHeld QuarantinedOnlyWhenSettled OnlyRefusedQuarantined LedgerUnique
PROPERTIES ImplementsLedger EveryEventSettles
CHECK_DEADLOCK FALSE
