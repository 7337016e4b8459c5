\* One promotion of an active tenant; the answer of a call may be lost.
CONSTANTS
  x1 = x1
  x2 = x2
  k1 = k1
  k2 = k2
  Executors = {x1}
  Keys = {k1, k2}
  InitialStatus = "active"
  Serial = TRUE
  Lossy = TRUE
CHECK_DEADLOCK FALSE
SPECIFICATION Spec
INVARIANT NoUnroutableTenant
