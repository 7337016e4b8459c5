-------------------------- MODULE SelfRegistration --------------------------
(***************************************************************************)
(* The seats of one section: enrollments, the self-registration policy and *)
(* the requests of learners, under calls that run at the same time.        *)
(*                                                                         *)
(* A step is one statement of a READ COMMITTED transaction (pool tier) or  *)
(* one that commits on its own (silo tier).  What a call read may be stale *)
(* when it writes.  A transaction's last write and its COMMIT are one step,*)
(* since nothing is read or waited for in between; the only write that is  *)
(* uncommitted for longer is the INSERT into enrollment.                   *)
(***************************************************************************)
EXTENDS Integers, FiniteSets

CONSTANTS
  Learners,     \* users of the tenant
  Calls,        \* requests to the service in flight at once
  Policies,     \* what PUT /registration-policy may set
  Tiers,        \* the tiers the tenant may have
  NoLimit,      \* capacity null
  Nobody,       \* the learner of a call that has not begun
  MaxCapacity   \* the largest capacity of a policy that has one

ASSUME TierAssumption == Tiers \subseteq {"pool", "silo"}
ASSUME PolicyAssumption ==
  /\ MaxCapacity \in Nat
  /\ NoLimit \notin Int
  /\ Policies \subseteq
       [open : BOOLEAN, approval : BOOLEAN, capacity : 0..MaxCapacity \union {NoLimit}]
ASSUME CallAssumption ==
  /\ IsFiniteSet(Calls) /\ Calls # {}
  /\ IsFiniteSet(Learners) /\ Nobody \notin Learners

VARIABLES
  tier,        \* of the tenant; "silo": withTenant opens no transaction
  policy,      \* self_registration_policy of the section
  enrollment,  \* enrollment.status by learner: none, active, ended
  origin,      \* history: of an active row, the kind of call that made it (none: staff, sync)
  request,     \* self_registration_request.status by learner
  pc,          \* per call: the statement it executes next
  op,          \* per call: register, approve, deny
  learner,     \* per call: whom it is about
  seen         \* per call: the policy it read

callVars == <<op, learner, seen>>
vars == <<tier, policy, enrollment, origin, request, pc, callVars>>

\* No row: nobody registers, and decide() finds no capacity.
NoPolicy == [open |-> FALSE, approval |-> FALSE, capacity |-> NoLimit]

Resting == {"idle", "enrolled"}  \* enrolled: idle, after the answer "enrolled"
Ops == {"register", "approve", "deny"}

Init ==
  /\ tier \in Tiers
  /\ policy = NoPolicy
  /\ enrollment = [l \in Learners |-> "none"]
  /\ origin = [l \in Learners |-> "none"]
  /\ request = [l \in Learners |-> "none"]
  /\ pc = [c \in Calls |-> "idle"]
  /\ op = [c \in Calls |-> "register"]
  /\ learner = [c \in Calls |-> Nobody]
  /\ seen = [c \in Calls |-> NoPolicy]

\* The call goes on to its next statement ...
Goto(c, statement) == pc' = [pc EXCEPT ![c] = statement] /\ UNCHANGED callVars

\* ... or is over, and its local variables with it.
End(c, rest) ==
  /\ pc' = [pc EXCEPT ![c] = rest]
  /\ op' = [op EXCEPT ![c] = "register"]
  /\ learner' = [learner EXCEPT ![c] = Nobody]
  /\ seen' = [seen EXCEPT ![c] = NoPolicy]

Active == {l \in Learners : enrollment[l] = "active"}

\* Its transaction has inserted the learner's row and has not committed.
Inserting(c) == pc[c] = "inserted"
Unlocked(l) == \A d \in Calls : Inserting(d) => learner[d] # l

-----------------------------------------------------------------------------
(* selfRegister and decide *)

Begin(c) ==
  /\ pc[c] \in Resting
  /\ \E o \in Ops, l \in Learners :
       /\ op' = [op EXCEPT ![c] = o]
       /\ learner' = [learner EXCEPT ![c] = l]
       /\ pc' = [pc EXCEPT ![c] = IF o = "register" THEN "policy" ELSE "request"]
  /\ UNCHANGED <<tier, policy, enrollment, origin, request, seen>>

\* decide: not_found and not_pending end the call.
ReadRequest(c) ==
  /\ pc[c] = "request"
  /\ \/ request[learner[c]] # "pending" /\ End(c, "idle")
     \/ request[learner[c]] = "pending" /\ Goto(c, IF op[c] = "deny" THEN "deny" ELSE "policy")
  /\ UNCHANGED <<tier, policy, enrollment, origin, request>>

Deny(c) ==
  /\ pc[c] = "deny"
  /\ request' = [request EXCEPT ![learner[c]] = "denied"]
  /\ End(c, "idle")
  /\ UNCHANGED <<tier, policy, enrollment, origin>>

\* loadPolicy: a section that is not open is closed to learners, not to deciders.
ReadPolicy(c) ==
  /\ pc[c] = "policy"
  /\ \/ op[c] = "register" /\ ~policy.open /\ End(c, "idle")
     \/ /\ op[c] = "register" => policy.open
        /\ seen' = [seen EXCEPT ![c] = policy]
        /\ pc' = [pc EXCEPT ![c] = IF op[c] = "register" THEN "isEnrolled"
                                   ELSE IF policy.capacity = NoLimit THEN "enroll" ELSE "count"]
        /\ UNCHANGED <<op, learner>>
  /\ UNCHANGED <<tier, policy, enrollment, origin, request>>

\* already_enrolled ends the call; only a limited section is counted.
IsEnrolled(c) ==
  /\ pc[c] = "isEnrolled"
  /\ \/ enrollment[learner[c]] = "active" /\ End(c, "idle")
     \/ /\ enrollment[learner[c]] # "active"
        /\ Goto(c, IF seen[c].capacity # NoLimit THEN "count"
                   ELSE IF seen[c].approval THEN "queue" ELSE "enroll")
  /\ UNCHANGED <<tier, policy, enrollment, origin, request>>

\* mutant: > for >=.
AtCapacityLate(c) == Cardinality(Active) > seen[c].capacity

AtCapacity(c) == Cardinality(Active) >= seen[c].capacity

\* activeCount: a full section wait-lists a learner and refuses a decider.
Count(c) ==
  /\ pc[c] = "count"
  /\ \/ op[c] = "register" /\ Goto(c, IF seen[c].approval \/ AtCapacity(c) THEN "queue" ELSE "enroll")
     \/ op[c] # "register" /\ AtCapacity(c) /\ End(c, "idle")
     \/ op[c] # "register" /\ ~AtCapacity(c) /\ Goto(c, "enroll")
  /\ UNCHANGED <<tier, policy, enrollment, origin, request>>

\* mutant: a status that the CHECK constraint does not know.
QueueAsWaitlisted(c) ==
  /\ pc[c] = "queue"
  /\ request' = [request EXCEPT ![learner[c]] = "waitlisted"]
  /\ End(c, "idle")
  /\ UNCHANGED <<tier, policy, enrollment, origin>>

\* upsertRequest(pending), whatever the request was before.
Queue(c) ==
  /\ pc[c] = "queue"
  /\ request' = [request EXCEPT ![learner[c]] = "pending"]
  /\ End(c, "idle")
  /\ UNCHANGED <<tier, policy, enrollment, origin>>

\* The row of the call's learner appears.
Seat(c) ==
  /\ enrollment' = [enrollment EXCEPT ![learner[c]] = "active"]
  /\ origin' = [origin EXCEPT ![learner[c]] =
       IF seen[c].capacity = NoLimit THEN "unlimited" ELSE "limited"]

\* mutant: an uncommitted row of another transaction counts as a conflict.
EnrollWithoutWaiting(c) ==
  /\ pc[c] = "enroll"
  /\ IF enrollment[learner[c]] = "none" /\ Unlocked(learner[c])
       THEN IF tier = "pool"
              THEN Goto(c, "inserted") /\ UNCHANGED <<enrollment, origin>>
              ELSE Goto(c, "record") /\ Seat(c)
       ELSE Goto(c, "record") /\ UNCHANGED <<enrollment, origin>>
  /\ UNCHANGED <<tier, policy, request>>

\* INSERT INTO enrollment ... ON CONFLICT DO NOTHING: a row in any status is a
\* conflict, an uncommitted row of another transaction is waited for.
Enroll(c) ==
  /\ pc[c] = "enroll"
  /\ Unlocked(learner[c])
  /\ \/ /\ enrollment[learner[c]] # "none"
        /\ Goto(c, "record")
        /\ UNCHANGED <<enrollment, origin>>
     \/ /\ enrollment[learner[c]] = "none" /\ tier = "pool"
        /\ Goto(c, "inserted")
        /\ UNCHANGED <<enrollment, origin>>
     \/ /\ enrollment[learner[c]] = "none" /\ tier = "silo"
        /\ Goto(c, "record")
        /\ Seat(c)
  /\ UNCHANGED <<tier, policy, request>>

\* The request becomes approved, the transaction commits, the answer is "enrolled".
Record(c) ==
  /\ pc[c] \in {"inserted", "record"}
  /\ request' = [request EXCEPT ![learner[c]] = "approved"]
  /\ IF Inserting(c) THEN Seat(c) ELSE UNCHANGED <<enrollment, origin>>
  /\ End(c, "enrolled")
  /\ UNCHANGED <<tier, policy>>

\* mutant: the connection of a failed transaction commits what it holds.
EndEarlyCommits(c) ==
  /\ pc[c] \notin Resting
  /\ IF Inserting(c) THEN Seat(c) ELSE UNCHANGED <<enrollment, origin>>
  /\ End(c, "idle")
  /\ UNCHANGED <<tier, policy, request>>

\* A statement fails, the service stops, or the tenant has no learner role: the
\* transaction rolls back; what a silo statement wrote stays.
EndEarly(c) ==
  /\ pc[c] \notin Resting
  /\ End(c, "idle")
  /\ UNCHANGED <<tier, policy, enrollment, origin, request>>

-----------------------------------------------------------------------------
(* The other writers: one statement each. *)

\* setPolicy
SetPolicy ==
  /\ policy' \in Policies
  /\ UNCHANGED <<tier, enrollment, origin, request, pc, callVars>>

\* createEnrollment, by staff: neither policy nor capacity are asked.
Place(l) ==
  /\ enrollment[l] = "none"
  /\ Unlocked(l)
  /\ enrollment' = [enrollment EXCEPT ![l] = "active"]
  /\ origin' = [origin EXCEPT ![l] = "none"]
  /\ UNCHANGED <<tier, policy, request, pc, callVars>>

\* dropEnrollment and completeEnrollment: withdrawn and completed are both ended.
Leave(l) ==
  /\ enrollment[l] = "active"
  /\ enrollment' = [enrollment EXCEPT ![l] = "ended"]
  /\ origin' = [origin EXCEPT ![l] = "none"]
  /\ UNCHANGED <<tier, policy, request, pc, callVars>>

\* upsertEnrollment of a roster sync, DO UPDATE: the source's status, whatever the
\* row was, if there was one.
Sync(l) ==
  /\ Unlocked(l)
  /\ \/ /\ enrollment' = [enrollment EXCEPT ![l] = "active"]
        /\ origin' = [origin EXCEPT ![l] = IF enrollment[l] = "active" THEN @ ELSE "none"]
     \/ /\ enrollment' = [enrollment EXCEPT ![l] = "ended"]
        /\ origin' = [origin EXCEPT ![l] = "none"]
  /\ UNCHANGED <<tier, policy, request, pc, callVars>>

Step(c) ==
  \/ ReadRequest(c) \/ Deny(c) \/ ReadPolicy(c) \/ IsEnrolled(c)
  \/ Count(c) \/ Queue(c) \/ Enroll(c) \/ Record(c)

Next ==
  \/ \E c \in Calls : Begin(c) \/ Step(c) \/ EndEarly(c)
  \/ SetPolicy
  \/ \E l \in Learners : Place(l) \/ Leave(l) \/ Sync(l)

Spec == Init /\ [][Next]_vars

-----------------------------------------------------------------------------
(* Properties *)

TypeOK ==
  /\ tier \in Tiers
  /\ policy \in Policies \union {NoPolicy}
  /\ enrollment \in [Learners -> {"none", "active", "ended"}]
  /\ origin \in [Learners -> {"none", "limited", "unlimited"}]
  /\ request \in [Learners -> {"none", "pending", "approved", "denied"}]
  /\ pc \in [Calls -> Resting \union {"request", "deny", "policy", "isEnrolled", "count",
                                      "queue", "enroll", "inserted", "record"}]
  /\ op \in [Calls -> Ops]
  /\ learner \in [Calls -> Learners \union {Nobody}]
  /\ seen \in [Calls -> Policies \union {NoPolicy}]

\* Learners who sit on a seat that was taken under a capacity.
Seated == {l \in Active : origin[l] = "limited"}

\* Count and insert are not atomic, so the capacity can be exceeded; by no more
\* than the calls that run at once less one, however long it goes on and
\* whatever staff, roster syncs, learners and policies do meanwhile.
OverbookingIsBounded == Cardinality(Seated) <= MaxCapacity + Cardinality(Calls) - 1

\* An approved request stands for an enrollment row, in either tier: enroll()
\* comes first, and a call that found a row found a committed one.
ApprovedHasRow == \A l \in Learners : request[l] = "approved" => enrollment[l] # "none"

\* In the pool tier nobody gets a row by registering without a request that
\* says so: row and request commit together.
SeatedIsRequested ==
  tier = "pool" =>
    \A l \in Learners : origin[l] \in {"limited", "unlimited"} => request[l] # "none"

\* "`enrolled` = active immediately" (selfreg.ts): who is answered "enrolled"
\* has an active enrollment at that moment.
EnrolledIsActive ==
  [][\A c \in Calls : pc[c] # "enrolled" /\ pc'[c] = "enrolled"
       => enrollment'[learner[c]] = "active"]_vars
=============================================================================
