\* Runs that are refused, forced, killed and repeated on edited files.
SPECIFICATION Spec
CONSTANTS
  Latest = 3
  Scope = {"workspace", "repo"}
  File = {"policy", "checker"}
  Region = {"top", "rest"}
  Absent = Absent
  Partial = Partial
  LocalText = {a, b}
  TemplateText = {0, 1, 2, 3}
  MaxEdits = 2
  scopeOf <- Scopes
  Template <- Templates
  strategy <- Strategies
SYMMETRY TextsAlike
INVARIANTS
  NothingLocalIsLost
  RecordIsNotAhead
  PreflightSuffices
CHECK_DEADLOCK FALSE
