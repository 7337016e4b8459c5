\* Two learners, one call at a time, an open section with one seat.
CONSTANTS
  l1 = l1
  l2 = l2
  l3 = l3
  c1 = c1
  c2 = c2
  NoLimit = NoLimit
  Nobody = Nobody
  Tiers = {"pool"}
  Learners = {l1, l2}
  Calls = {c1}
  Policies <- OnePolicy
  MaxCapacity = 1
SPECIFICATION Spec
PROPERTY EnrolledIsActive
