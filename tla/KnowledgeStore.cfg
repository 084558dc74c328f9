\* Writers, readers and the operator on two documents, with two mishaps.
SPECIFICATION Spec
CONSTANTS
  Process = {p, q}
  Id = {d, e}
  Content = {x, y}
  Missing = Missing
  Malformed = Malformed
  NoIndex = NoIndex
  Nobody = Nobody
  MaxCalls = 3
  MaxHarm = 2
SYMMETRY Alike
INVARIANT IndexIsCurrent
PROPERTY CommitsAreAtomic
CHECK_DEADLOCK FALSE
