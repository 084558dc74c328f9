\* The documented recovery of a claim whose Peer is verified to be gone.
SPECIFICATION Spec
CONSTANTS
  Call = {"c1", "c2", "c3"}
  Process = {"p1", "p2"}
  Repository = {"r1", "r2"}
  NoSession = NoSession
  Arguments <- Starts
INVARIANTS
  RecoveryIsPossible
CHECK_DEADLOCK FALSE
