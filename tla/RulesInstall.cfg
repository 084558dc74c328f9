\* Two instruction files, two runs, three disturbances.
SPECIFICATION Spec
CONSTANTS
  Clients = 2
  MaxRuns = 2
  MaxHarm = 3
INVARIANTS NothingIsDestroyed FailureRestores SuccessHidesNothing
CHECK_DEADLOCK FALSE
