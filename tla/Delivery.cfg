\* A daemon that reviews and delivers while the ledger grows.
SPECIFICATION LiveSpec
CONSTANTS
  Turn = {"t1"}
  NoTurn = "none"
  session <- SameSession
  captured <- AllTracked
  Signal = {"BLOCKED"}
  MaxConsumed = 1
  MaxRevision = 2
  MaxLog = 5
  BatchLimit = 2
  ReviewLimit = 1
  MayCrash = TRUE
PROPERTIES
  OnlyOpenIssuesAreReserved
  OnlyFailedWakesAreRepeated
  EveryCaseIsReviewed
  EveryIssueReachesLead
CHECK_DEADLOCK FALSE
