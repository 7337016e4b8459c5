\* Two requests with one key at once.
CONSTANTS
  x1 = x1
  x2 = x2
  k1 = k1
  k2 = k2
  Executors = {x1, x2}
  Keys = {k1, k2}
  InitialStatus = "active"
  Serial = FALSE
  Lossy = FALSE
CHECK_DEADLOCK FALSE
SPECIFICATION Spec
INVARIANT OneSagaPerKey
