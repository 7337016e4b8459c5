\* Two requests at once for a tenant that is still provisioning; answers are lost.
CONSTANTS
  x1 = x1
  x2 = x2
  k1 = k1
  k2 = k2
  Executors = {x1, x2}
  Keys = {k1, k2}
  InitialStatus = "provisioning"
  Serial = FALSE
  Lossy = TRUE
CHECK_DEADLOCK FALSE
SPECIFICATION Spec
SYMMETRY RequestSymmetry
INVARIANTS
  RefIsPopulated
  StepsInOrder
