--------------------------- MODULE EventDelivery ---------------------------
(***************************************************************************)
(* What the outbox, the relay and the notification inbox promise together, *)
(* without saying how: an event whose transaction committed may notify its *)
(* recipients once, all of them in one step, and never again.              *)
(***************************************************************************)
EXTENDS Naturals

CONSTANTS Events,        \* the domain events
          Users,         \* the users of the platform
          RecipientsOf   \* the users each event names

VARIABLES committed,     \* events whose business transaction committed
          tally          \* tally[e][u]: notifications user u has for event e

vars == <<committed, tally>>

Silence == [u \in Users |-> 0]
Told(e) == [u \in Users |-> IF u \in RecipientsOf[e] THEN 1 ELSE 0]

Init ==
  /\ committed = {}
  /\ tally = [e \in Events |-> Silence]

Commit(e) ==
  /\ e \notin committed
  /\ committed' = committed \union {e}
  /\ UNCHANGED tally

Notify(e) ==
  /\ e \in committed
  /\ tally[e] = Silence
  /\ tally' = [tally EXCEPT ![e] = Told(e)]
  /\ UNCHANGED committed

Next == \E e \in Events : Commit(e) \/ Notify(e)

Spec == Init /\ [][Next]_vars
=============================================================================
