------------------------- MODULE MCSelfRegistration -------------------------
(* Instances of SelfRegistration for TLC. *)
EXTENDS SelfRegistration, TLC

CONSTANTS l1, l2, l3, c1, c2

Open == [open |-> TRUE, approval |-> FALSE, capacity |-> 1]
ByApproval == [open |-> TRUE, approval |-> TRUE, capacity |-> NoLimit]

TwoPolicies == {Open, ByApproval}
OnePolicy == {Open}

CallSymmetry == Permutations(Learners) \union Permutations(Calls)
=============================================================================
