SPECIFICATION Spec
CONSTANTS
  Task = {t1, t2}
  User = {ann, bob}
  Scenarios <- MCScenarios
  Ttl = 2
  Span = 1
  SessionAge = 3
  StateAge = 1
  MaxNow = 6
  MaxLosses = 1
SYMMETRY MCSymmetry
INVARIANTS
  GoodTokensPass
  SessionsHaveUsers
PROPERTIES
  WithdrawnKeysFade
\* When the scenario allows no more, nothing has to happen.
CHECK_DEADLOCK FALSE
