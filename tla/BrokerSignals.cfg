\* A signal that is settled and raised again.
SPECIFICATION BrokerSpec
CONSTANTS
  Turn = {"t1"}
  NoTurn = "none"
  session <- SameSession
  captured <- Untracked
  Signal = {"BLOCKED"}
  MaxConsumed = 0
  MaxRevision = 1
  MaxLog = 6
  BatchLimit = 2
INVARIANTS
  UnresolvedSignalsHaveCases
CHECK_DEADLOCK FALSE
