\* Three disturbances of a daemon with three configurations.
SPECIFICATION Spec
CONSTANTS
  Identity = {"old", "new", "other"}
  Session = {"s1", "s2"}
  SessionOf <- Sessions
  Workspace = {w1, w2, w3, w4}
  Nothing = nothing
  MaxHarm = 3
INVARIANTS
  AgentsAreKnown
PROPERTIES
  EventuallyReady
