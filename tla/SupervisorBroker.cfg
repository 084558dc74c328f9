\* Two turns of one Work Item and a broker that lags behind the ledger.
SPECIFICATION BrokerSpec
CONSTANTS
  Turn = {"t1", "t2"}
  NoTurn = "none"
  session <- SameSession
  captured <- LaterTurn
  Signal = {"REOPEN_REQUEST", "BLOCKED"}
  MaxConsumed = 1
  MaxRevision = 3
  MaxLog = 8
  BatchLimit = 2
CONSTRAINT Focused
INVARIANTS
  RetiredStaysRetired
  EvidenceIsUpToDate
  UndisposedHaveCases
  EarlyConsumptionsHaveCases
  SignalsHaveCases
  StaleCandidatesHaveOneCase
PROPERTIES
  FindingsAreKept
CHECK_DEADLOCK FALSE
