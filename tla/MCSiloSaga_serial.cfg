\* Two requests, one after the other; calls fail, processes die; no answer is lost.
CONSTANTS
  x1 = x1
  x2 = x2
  k1 = k1
  k2 = k2
  Executors = {x1, x2}
  Keys = {k1, k2}
  InitialStatus = "active"
  Serial = TRUE
  Lossy = FALSE
CHECK_DEADLOCK FALSE
SPECIFICATION FairSpec
INVARIANTS
  TypeOK
  CompletedIsServed
PROPERTIES
  RollbackIsExact
  RefinesTenantRouting
  EventuallyClosed
