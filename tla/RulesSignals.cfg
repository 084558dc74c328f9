\* One run and two signals: is what was committed rolled back?
SPECIFICATION Spec
CONSTANTS
  Clients = 2
  MaxRuns = 1
  MaxHarm = 2
INVARIANT InterruptedRestores
CHECK_DEADLOCK FALSE
