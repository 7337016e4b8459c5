--------------------------- MODULE MCOutboxRelay ---------------------------
(* Instances of OutboxRelay for TLC.  Where MaxBegun is less than the number of *)
(* events, they are what producers choose from: every subset of that size.      *)
EXTENDS OutboxRelay, TLC

CONSTANTS a, b, e1, e2, e3, e4, e5, u1, u2, u3, h1, h2, h3

OneTenantOrder == (a :> 1)
TwoTenantOrder == (a :> 1 @@ b :> 2)

\* Events of one tenant.
OneTenant == (e1 :> a @@ e2 :> a)
TwoAndOne == (e1 :> {u1, u2} @@ e2 :> {u1})
OneTenantOfThree == (e1 :> a @@ e2 :> a @@ e3 :> a)
TwoAndOnes == (e1 :> {u1, u2} @@ e2 :> {u1} @@ e3 :> {u1})

\* Four events of the older tenant, one of the younger.  e3 is for an unknown user
\* and e4 for more users than fit; e1 and e2 are deliverable, but not both in the
\* time of one drain.
TwoTenants == (e1 :> a @@ e2 :> a @@ e3 :> a @@ e4 :> a @@ e5 :> b)
OneWide == (e1 :> {u1} @@ e2 :> {u1} @@ e3 :> {u2} @@ e4 :> {u1, u3} @@ e5 :> {u1})

RequestSymmetry == Permutations(Requests)
=============================================================================
