\* Every order of Stops, hook failures, polls and deadlines of one turn.
SPECIFICATION Spec
CONSTANTS
  Response = {"report", "final", "line"}
  Nothing = "nothing"
  length <- Lengths
  MaxResponses = 3
  MaxChars = 12000
  SignificantDrop = 600
  ResultWait = 1
  PendingWait = 1
  MaxEvents = 4
INVARIANTS
  ReportIsKept
  NoInterimResult
PROPERTY CaptureEnds
CHECK_DEADLOCK FALSE
