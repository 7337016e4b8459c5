\* Two calls at once over three learners and one seat.
CONSTANTS
  l1 = l1
  l2 = l2
  l3 = l3
  c1 = c1
  c2 = c2
  NoLimit = NoLimit
  Nobody = Nobody
  Tiers = {"pool", "silo"}
  Learners = {l1, l2, l3}
  Calls = {c1, c2}
  Policies <- TwoPolicies
  MaxCapacity = 1
SPECIFICATION Spec
SYMMETRY CallSymmetry
INVARIANTS
  TypeOK
  OverbookingIsBounded
  ApprovedHasRow
  SeatedIsRequested
