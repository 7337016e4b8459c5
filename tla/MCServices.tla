----------------------------- MODULE MCServices -----------------------------
(* Instances of the services for TLC. *)
EXTENDS Services

CONSTANTS school, section, u1

\* A section whose class refers to its school.
MCKind == [e \in Records |-> IF e = section THEN "class" ELSE "org"]
MCRefs == [e \in Records |-> IF e = section THEN {school} ELSE {}]
MCUnlabelledLearners == {u1}
=============================================================================
