----------------------- MODULE SelfRegistration_proofs -----------------------
(***************************************************************************)
(* How far a section can be overbooked, and what an approved request       *)
(* stands for, for any number of learners, calls and policies.             *)
(*                                                                         *)
(* A call is counting on a seat from the moment it has found one free      *)
(* until it takes it or gives up.  When it finds one, fewer than           *)
(* MaxCapacity seats are taken and at most all calls are counting on one;  *)
(* from then on every seat that is taken is one less counted on.  So       *)
(* taken plus counted-on seats stay below MaxCapacity + Cardinality(Calls).*)
(*                                                                         *)
(* With one call at a time a decision is final (PendingInv).               *)
(***************************************************************************)
EXTENDS SelfRegistration, FiniteSetTheorems, TLAPS

Counting == {c \in Calls : pc[c] \in {"enroll", "inserted"} /\ seen[c].capacity # NoLimit}

Promised == Cardinality(Seated) + Cardinality(Counting) <= MaxCapacity + Cardinality(Calls) - 1

\* A call in progress is about a learner, and counts under a limited policy only.
CallInv ==
  /\ \A c \in Calls : pc[c] \notin Resting => learner[c] \in Learners
  /\ \A c \in Calls : pc[c] = "count" => seen[c].capacity # NoLimit

\* An uncommitted row is the only one of its learner.
LockInv ==
  /\ \A c \in Calls : Inserting(c) => tier = "pool" /\ enrollment[learner[c]] = "none"
  /\ \A c, d \in Calls : Inserting(c) /\ Inserting(d) /\ learner[c] = learner[d] => c = d

\* A call that is about to record an approval found a row or wrote one.
RecordInv == \A c \in Calls : pc[c] = "record" => enrollment[learner[c]] # "none"

IInv ==
  /\ TypeOK
  /\ CallInv
  /\ LockInv
  /\ RecordInv
  /\ ApprovedHasRow
  /\ SeatedIsRequested
  /\ Promised

-----------------------------------------------------------------------------
(* The shape of a step. *)

USE PolicyAssumption, CallAssumption, TierAssumption

LEMMA NoPolicyType ==
  NoPolicy \in [open : BOOLEAN, approval : BOOLEAN, capacity : 0..MaxCapacity \union {NoLimit}]
  BY DEF NoPolicy

\* What every policy a call can have read looks like.
LEMMA SeenType ==
  ASSUME TypeOK, NEW c \in Calls
  PROVE  seen[c].capacity \in 0..MaxCapacity \union {NoLimit}
  BY NoPolicyType DEF TypeOK

LEMMA InitType == Init => TypeOK
  BY DEF Init, TypeOK, Resting, Ops

LEMMA EndType ==
  ASSUME TypeOK, NEW c \in Calls, NEW rest \in Resting, End(c, rest)
  PROVE  /\ pc' \in [Calls -> Resting \union {"request", "deny", "policy", "isEnrolled",
                                  "count", "queue", "enroll", "inserted", "record"}]
         /\ op' \in [Calls -> Ops]
         /\ learner' \in [Calls -> Learners \union {Nobody}]
         /\ seen' \in [Calls -> Policies \union {NoPolicy}]
  BY DEF TypeOK, End, Ops, Resting

LEMMA SeatType ==
  ASSUME TypeOK, NEW c \in Calls, Seat(c)
  PROVE  /\ enrollment' \in [Learners -> {"none", "active", "ended"}]
         /\ origin' \in [Learners -> {"none", "limited", "unlimited"}]
  BY DEF TypeOK, Seat

LEMMA NextType ==
  ASSUME TypeOK, [Next]_vars
  PROVE  TypeOK'
<1>1. ASSUME NEW c \in Calls, Begin(c) PROVE TypeOK'
  BY <1>1 DEF TypeOK, Begin, Ops, Resting
<1>2. ASSUME NEW c \in Calls, ReadRequest(c) PROVE TypeOK'
  BY <1>2, EndType DEF TypeOK, ReadRequest, Goto, callVars, Resting
<1>3. ASSUME NEW c \in Calls, Deny(c) PROVE TypeOK'
  BY <1>3, EndType DEF TypeOK, Deny, Resting
<1>4. ASSUME NEW c \in Calls, ReadPolicy(c) PROVE TypeOK'
  BY <1>4, EndType DEF TypeOK, ReadPolicy, Resting
<1>5. ASSUME NEW c \in Calls, IsEnrolled(c) PROVE TypeOK'
  BY <1>5, EndType DEF TypeOK, IsEnrolled, Goto, callVars, Resting
<1>6. ASSUME NEW c \in Calls, Count(c) PROVE TypeOK'
  BY <1>6, EndType DEF TypeOK, Count, Goto, callVars, Resting
<1>7. ASSUME NEW c \in Calls, Queue(c) PROVE TypeOK'
  BY <1>7, EndType DEF TypeOK, Queue, Resting
<1>8. ASSUME NEW c \in Calls, Enroll(c) PROVE TypeOK'
  BY <1>8, SeatType DEF TypeOK, Enroll, Goto, callVars, Resting
<1>9. ASSUME NEW c \in Calls, Record(c) PROVE TypeOK'
  BY <1>9, EndType, SeatType DEF TypeOK, Record, Resting
<1>10. ASSUME NEW c \in Calls, EndEarly(c) PROVE TypeOK'
  BY <1>10, EndType DEF TypeOK, EndEarly, Resting
<1>11. CASE SetPolicy
  BY <1>11 DEF TypeOK, SetPolicy, callVars
<1>12. ASSUME NEW l \in Learners, Place(l) PROVE TypeOK'
  BY <1>12 DEF TypeOK, Place, callVars
<1>13. ASSUME NEW l \in Learners, Leave(l) PROVE TypeOK'
  BY <1>13 DEF TypeOK, Leave, callVars
<1>14. ASSUME NEW l \in Learners, Sync(l) PROVE TypeOK'
  BY <1>14 DEF TypeOK, Sync, callVars
<1>15. CASE UNCHANGED vars
  BY <1>15 DEF TypeOK, vars, callVars
<1>16. QED
  BY <1>1, <1>2, <1>3, <1>4, <1>5, <1>6, <1>7, <1>8, <1>9, <1>10, <1>11, <1>12, <1>13, <1>14,
     <1>15
     DEF Next, Step

-----------------------------------------------------------------------------
(* Calls, locks and rows. *)

\* A call in progress stays about its learner.
LEMMA NextCall ==
  ASSUME TypeOK, CallInv, [Next]_vars
  PROVE  CallInv'
<1> USE DEF CallInv, TypeOK
<1>1. ASSUME NEW c \in Calls, Begin(c) PROVE CallInv'
  BY <1>1 DEF Begin, Resting
<1>2. ASSUME NEW c \in Calls, ReadRequest(c) PROVE CallInv'
  BY <1>2 DEF ReadRequest, Goto, End, callVars, Resting
<1>3. ASSUME NEW c \in Calls, Deny(c) PROVE CallInv'
  BY <1>3 DEF Deny, End, Resting
<1>4. ASSUME NEW c \in Calls, ReadPolicy(c) PROVE CallInv'
  BY <1>4 DEF ReadPolicy, End, Resting
<1>5. ASSUME NEW c \in Calls, IsEnrolled(c) PROVE CallInv'
  BY <1>5 DEF IsEnrolled, Goto, End, callVars, Resting
<1>6. ASSUME NEW c \in Calls, Count(c) PROVE CallInv'
  BY <1>6 DEF Count, Goto, End, callVars, Resting
<1>7. ASSUME NEW c \in Calls, Queue(c) PROVE CallInv'
  BY <1>7 DEF Queue, End, Resting
<1>8. ASSUME NEW c \in Calls, Enroll(c) PROVE CallInv'
  BY <1>8 DEF Enroll, Goto, callVars, Resting
<1>9. ASSUME NEW c \in Calls, Record(c) PROVE CallInv'
  BY <1>9 DEF Record, End, Resting
<1>10. ASSUME NEW c \in Calls, EndEarly(c) PROVE CallInv'
  BY <1>10 DEF EndEarly, End, Resting
<1>11. CASE SetPolicy
  BY <1>11 DEF SetPolicy, callVars
<1>12. ASSUME NEW l \in Learners, Place(l) PROVE CallInv'
  BY <1>12 DEF Place, callVars
<1>13. ASSUME NEW l \in Learners, Leave(l) PROVE CallInv'
  BY <1>13 DEF Leave, callVars
<1>14. ASSUME NEW l \in Learners, Sync(l) PROVE CallInv'
  BY <1>14 DEF Sync, callVars
<1>15. CASE UNCHANGED vars
  BY <1>15 DEF vars, callVars
<1>16. QED
  BY <1>1, <1>2, <1>3, <1>4, <1>5, <1>6, <1>7, <1>8, <1>9, <1>10, <1>11, <1>12, <1>13, <1>14,
     <1>15
     DEF Next, Step

RowsInv == LockInv /\ RecordInv /\ ApprovedHasRow /\ SeatedIsRequested

\* A step of a call that writes neither rows nor requests and does not come to
\* hold a row keeps what is known of them.
LEMMA ReadKeepsRows ==
  ASSUME TypeOK, CallInv, RowsInv, NEW c \in Calls,
         UNCHANGED <<tier, enrollment, origin, request>>,
         \A d \in Calls : pc'[d] \in {"inserted", "record"} =>
                            pc'[d] = pc[d] /\ learner'[d] = learner[d]
  PROVE  RowsInv'
  BY DEF RowsInv, LockInv, RecordInv, ApprovedHasRow, SeatedIsRequested, Inserting

LEMMA NextRowsInv ==
  ASSUME TypeOK, CallInv, RowsInv, [Next]_vars
  PROVE  RowsInv'
<1> USE DEF TypeOK
<1>1. ASSUME NEW c \in Calls, Begin(c) PROVE RowsInv'
  BY <1>1, ReadKeepsRows DEF Begin, Resting
<1>2. ASSUME NEW c \in Calls, ReadRequest(c) PROVE RowsInv'
  BY <1>2, ReadKeepsRows DEF ReadRequest, Goto, End, callVars
<1>3. ASSUME NEW c \in Calls, Deny(c) PROVE RowsInv'
  BY <1>3 DEF Deny, End, CallInv, Resting, RowsInv, LockInv, RecordInv, ApprovedHasRow,
              SeatedIsRequested, Inserting
<1>4. ASSUME NEW c \in Calls, ReadPolicy(c) PROVE RowsInv'
  BY <1>4, ReadKeepsRows DEF ReadPolicy, End
<1>5. ASSUME NEW c \in Calls, IsEnrolled(c) PROVE RowsInv'
  BY <1>5, ReadKeepsRows DEF IsEnrolled, Goto, End, callVars
<1>6. ASSUME NEW c \in Calls, Count(c) PROVE RowsInv'
  BY <1>6, ReadKeepsRows DEF Count, Goto, End, callVars
<1>7. ASSUME NEW c \in Calls, Queue(c) PROVE RowsInv'
  BY <1>7 DEF Queue, End, CallInv, Resting, RowsInv, LockInv, RecordInv, ApprovedHasRow,
              SeatedIsRequested, Inserting
<1>8. ASSUME NEW c \in Calls, Enroll(c) PROVE RowsInv'
  <2> USE DEF Enroll, Goto, callVars, CallInv, Resting
  <2>1. LockInv'
    BY <1>8 DEF RowsInv, LockInv, Inserting, Unlocked, Seat
  <2>2. RecordInv'
    BY <1>8 DEF RowsInv, RecordInv, Seat
  <2>3. ApprovedHasRow'
    BY <1>8 DEF RowsInv, ApprovedHasRow, Seat
  <2>4. SeatedIsRequested'
    BY <1>8 DEF RowsInv, SeatedIsRequested, Seat
  <2>5. QED
    BY <2>1, <2>2, <2>3, <2>4 DEF RowsInv
<1>9. ASSUME NEW c \in Calls, Record(c) PROVE RowsInv'
  <2> USE DEF Record, End, CallInv, Resting
  <2>1. LockInv'
    BY <1>9 DEF RowsInv, LockInv, Inserting, Seat
  <2>2. RecordInv'
    BY <1>9 DEF RowsInv, RecordInv, Inserting, Seat
  <2>3. ApprovedHasRow'
    BY <1>9 DEF RowsInv, RecordInv, ApprovedHasRow, Inserting, Seat
  <2>4. SeatedIsRequested'
    BY <1>9 DEF RowsInv, SeatedIsRequested, Inserting, Seat
  <2>5. QED
    BY <2>1, <2>2, <2>3, <2>4 DEF RowsInv
<1>10. ASSUME NEW c \in Calls, EndEarly(c) PROVE RowsInv'
  BY <1>10, ReadKeepsRows DEF EndEarly, End
<1>11. CASE SetPolicy
  BY <1>11 DEF SetPolicy, callVars, RowsInv, LockInv, RecordInv, ApprovedHasRow,
               SeatedIsRequested, Inserting
<1>12. ASSUME NEW l \in Learners, Place(l) PROVE RowsInv'
  BY <1>12 DEF Place, Unlocked, callVars, RowsInv, LockInv, RecordInv, ApprovedHasRow,
               SeatedIsRequested, Inserting
<1>13. ASSUME NEW l \in Learners, Leave(l) PROVE RowsInv'
  BY <1>13 DEF Leave, callVars, RowsInv, LockInv, RecordInv, ApprovedHasRow,
               SeatedIsRequested, Inserting
<1>14. ASSUME NEW l \in Learners, Sync(l) PROVE RowsInv'
  <2> USE DEF callVars
  <2>1. /\ UNCHANGED <<tier, request, pc, learner>> /\ Unlocked(l)
        /\ enrollment'[l] # "none"
        /\ \A k \in Learners \ {l} : enrollment'[k] = enrollment[k]
    BY <1>14 DEF Sync
  <2>2. LockInv'
    <3>1. \A d \in Calls : Inserting(d) => learner[d] \in Learners \ {l}
      BY <2>1 DEF CallInv, Resting, Inserting, Unlocked
    <3>2. QED
      BY <2>1, <3>1 DEF RowsInv, LockInv, Inserting
  <2>3. RecordInv'
    <3>1. \A d \in Calls : pc[d] = "record" => learner[d] \in Learners
      BY DEF CallInv, Resting
    <3>2. QED
      BY <2>1, <3>1 DEF RowsInv, RecordInv
  <2>4. ApprovedHasRow'
    BY <2>1 DEF RowsInv, ApprovedHasRow
  <2>5. SeatedIsRequested'
    BY <1>14 DEF Sync, RowsInv, SeatedIsRequested
  <2>6. QED
    BY <2>2, <2>3, <2>4, <2>5 DEF RowsInv
<1>15. CASE UNCHANGED vars
  BY <1>15 DEF vars, callVars, RowsInv, LockInv, RecordInv, ApprovedHasRow,
               SeatedIsRequested, Inserting
<1>16. QED
  BY <1>1, <1>2, <1>3, <1>4, <1>5, <1>6, <1>7, <1>8, <1>9, <1>10, <1>11, <1>12, <1>13, <1>14,
     <1>15
     DEF Next, Step

-----------------------------------------------------------------------------
(* Seats taken and seats counted on. *)

LEMMA Finite ==
  /\ IsFiniteSet(Seated) /\ Cardinality(Seated) \in Nat
  /\ IsFiniteSet(Counting) /\ Cardinality(Counting) \in Nat
  /\ IsFiniteSet(Active) /\ Cardinality(Active) \in Nat
  /\ Cardinality(Calls) \in Nat
<1>1. Seated \subseteq Learners /\ Active \subseteq Learners /\ Counting \subseteq Calls
  BY DEF Seated, Active, Counting
<1>2. IsFiniteSet(Seated) /\ IsFiniteSet(Counting) /\ IsFiniteSet(Active)
  BY <1>1, FS_Subset
<1>3. QED
  BY <1>2, FS_CardinalityType

LEMMA FiniteNext ==
  /\ IsFiniteSet(Seated') /\ Cardinality(Seated') \in Nat
  /\ IsFiniteSet(Counting') /\ Cardinality(Counting') \in Nat
<1>1. Seated' \subseteq Learners /\ Counting' \subseteq Calls
  BY DEF Seated, Active, Counting
<1>2. IsFiniteSet(Seated') /\ IsFiniteSet(Counting')
  BY <1>1, FS_Subset
<1>3. QED
  BY <1>2, FS_CardinalityType

\* Nobody sits down and nobody starts counting on a seat.
LEMMA Fewer ==
  ASSUME Promised, Seated' \subseteq Seated, Counting' \subseteq Counting
  PROVE  Promised'
<1>1. Cardinality(Seated') <= Cardinality(Seated)
  BY Finite, FS_Subset
<1>2. Cardinality(Counting') <= Cardinality(Counting)
  BY Finite, FS_Subset
<1>3. QED
  BY <1>1, <1>2, Finite, FiniteNext DEF Promised

\* A call takes the seat it counted on.
LEMMA Taken ==
  ASSUME Promised, NEW c \in Counting, NEW l,
         Seated' \subseteq Seated \union {l}, Counting' \subseteq Counting \ {c}
  PROVE  Promised'
<1>1. Cardinality(Counting \ {c}) = Cardinality(Counting) - 1 /\ IsFiniteSet(Counting \ {c})
  BY Finite, FS_RemoveElement
<1>2. Cardinality(Counting') <= Cardinality(Counting) - 1
  BY <1>1, FS_Subset
<1>3. /\ IsFiniteSet(Seated \union {l})
      /\ Cardinality(Seated \union {l}) <= Cardinality(Seated) + 1
  <2>1. IsFiniteSet(Seated) /\ Cardinality(Seated) \in Nat
    BY Finite
  <2>2. /\ IsFiniteSet(Seated \union {l})
        /\ Cardinality(Seated \union {l}) =
             IF l \in Seated THEN Cardinality(Seated) ELSE Cardinality(Seated) + 1
    BY <2>1, FS_AddElement
  <2>3. QED
    BY <2>1, <2>2
<1>4. Cardinality(Seated') <= Cardinality(Seated) + 1
  <2>1. Cardinality(Seated') <= Cardinality(Seated \union {l})
    BY <1>3, FS_Subset
  <2>2. Cardinality(Seated \union {l}) \in Nat
    BY <1>3, FS_CardinalityType
  <2>3. QED
    BY <1>3, <2>1, <2>2, Finite, FiniteNext
<1>5. QED
  BY <1>2, <1>4, Finite, FiniteNext DEF Promised

\* A call finds a free seat: fewer than MaxCapacity are taken.
LEMMA Found ==
  ASSUME TypeOK, NEW c \in Calls, seen[c].capacity # NoLimit, ~AtCapacity(c),
         Seated' = Seated
  PROVE  Promised'
<1>1. seen[c].capacity \in 0..MaxCapacity
  BY SeenType
<1>2. Cardinality(Active) < MaxCapacity
  BY <1>1, Finite DEF AtCapacity
<1>3. Cardinality(Seated) <= Cardinality(Active)
  <2>1. Seated \in SUBSET Active
    BY DEF Seated
  <2>2. QED
    BY <2>1, Finite, FS_Subset
<1>4. Cardinality(Counting') <= Cardinality(Calls)
  <2>1. Counting' \in SUBSET Calls
    BY DEF Counting
  <2>2. QED
    BY <2>1, FS_Subset
<1>5. QED
  BY <1>2, <1>3, <1>4, Finite, FiniteNext DEF Promised

\* A call that leaves the rows alone and goes anywhere but to the INSERT.
LEMMA Elsewhere ==
  ASSUME TypeOK, Promised, NEW c \in Calls,
         UNCHANGED <<enrollment, origin>>,
         \A d \in Calls : pc'[d] \in {"enroll", "inserted"} /\ seen'[d].capacity # NoLimit =>
           pc[d] \in {"enroll", "inserted"} /\ seen[d].capacity # NoLimit
  PROVE  Promised'
<1>1. Seated' \subseteq Seated
  BY DEF Seated, Active
<1>2. Counting' \subseteq Counting
  BY DEF Counting
<1>3. QED
  BY <1>1, <1>2, Fewer

\* A call takes a seat: of those it counted on, or one without a limit.
LEMMA SeatKeeps ==
  ASSUME TypeOK, CallInv, Promised, NEW c \in Calls,
         pc[c] \in {"enroll", "inserted"}, pc'[c] \notin {"enroll", "inserted"},
         enrollment[learner[c]] = "none", Seat(c),
         \A d \in Calls : d # c => pc'[d] = pc[d] /\ seen'[d] = seen[d]
  PROVE  Promised'
<1>1. learner[c] \in Learners
  BY DEF CallInv, Resting
<1>2. Counting' \subseteq Counting \ {c}
  BY DEF Counting
<1>3. CASE seen[c].capacity # NoLimit
  <2>1. Seated' \subseteq Seated \union {learner[c]}
    BY <1>1 DEF Seated, Active, Seat, TypeOK
  <2>2. c \in Counting
    BY <1>3 DEF Counting
  <2>3. QED
    BY <1>2, <2>1, <2>2, Taken
<1>4. CASE seen[c].capacity = NoLimit
  <2>1. Seated' \subseteq Seated
    BY <1>1, <1>4 DEF Seated, Active, Seat, TypeOK
  <2>2. QED
    BY <1>2, <2>1, Fewer
<1>5. QED
  BY <1>3, <1>4

LEMMA NextPromised ==
  ASSUME TypeOK, CallInv, LockInv, Promised, [Next]_vars
  PROVE  Promised'
<1> USE DEF TypeOK
<1>1. ASSUME NEW c \in Calls, Begin(c) PROVE Promised'
  BY <1>1, Elsewhere DEF Begin, Resting
<1>2. ASSUME NEW c \in Calls, ReadRequest(c) PROVE Promised'
  BY <1>2, Elsewhere DEF ReadRequest, Goto, End, callVars
<1>3. ASSUME NEW c \in Calls, Deny(c) PROVE Promised'
  BY <1>3, Elsewhere DEF Deny, End
<1>4. ASSUME NEW c \in Calls, ReadPolicy(c) PROVE Promised'
  BY <1>4, Elsewhere DEF ReadPolicy, End
<1>5. ASSUME NEW c \in Calls, IsEnrolled(c) PROVE Promised'
  BY <1>5, Elsewhere DEF IsEnrolled, Goto, End, callVars
<1>6. ASSUME NEW c \in Calls, Count(c) PROVE Promised'
  <2>1. CASE AtCapacity(c)
    BY <1>6, <2>1, Elsewhere DEF Count, Goto, End, callVars
  <2>2. CASE ~AtCapacity(c)
    <3>1. seen[c].capacity # NoLimit
      BY <1>6 DEF CallInv, Count
    <3>2. Seated' = Seated
      BY <1>6 DEF Seated, Active, Count
    <3>3. QED
      BY <2>2, <3>1, <3>2, Found
  <2>3. QED
    BY <2>1, <2>2
<1>7. ASSUME NEW c \in Calls, Queue(c) PROVE Promised'
  BY <1>7, Elsewhere DEF Queue, End
<1>8. ASSUME NEW c \in Calls, Enroll(c) PROVE Promised'
  <2>1. CASE Seat(c) /\ enrollment[learner[c]] = "none" /\ Goto(c, "record")
    BY <1>8, <2>1, SeatKeeps DEF Enroll, Goto, callVars
  <2>2. CASE UNCHANGED <<enrollment, origin>> /\ (Goto(c, "record") \/ Goto(c, "inserted"))
    BY <1>8, <2>2, Elsewhere DEF Enroll, Goto, callVars
  <2>3. QED
    BY <1>8, <2>1, <2>2 DEF Enroll
<1>9. ASSUME NEW c \in Calls, Record(c) PROVE Promised'
  <2>1. CASE Inserting(c)
    <3>1. enrollment[learner[c]] = "none"
      BY <2>1 DEF LockInv
    <3>2. QED
      BY <1>9, <2>1, <3>1, SeatKeeps DEF Record, End, Inserting
  <2>2. CASE ~Inserting(c)
    BY <1>9, <2>2, Elsewhere DEF Record, End
  <2>3. QED
    BY <2>1, <2>2
<1>10. ASSUME NEW c \in Calls, EndEarly(c) PROVE Promised'
  BY <1>10, Elsewhere DEF EndEarly, End
<1>11. CASE SetPolicy
  <2>1. Seated' \subseteq Seated /\ Counting' \subseteq Counting
    BY <1>11 DEF SetPolicy, callVars, Seated, Active, Counting
  <2>2. QED
    BY <2>1, Fewer
<1>12. ASSUME NEW l \in Learners, Place(l) PROVE Promised'
  <2>1. Seated' \subseteq Seated /\ Counting' \subseteq Counting
    BY <1>12 DEF Place, callVars, Seated, Active, Counting
  <2>2. QED
    BY <2>1, Fewer
<1>13. ASSUME NEW l \in Learners, Leave(l) PROVE Promised'
  <2>1. Seated' \subseteq Seated /\ Counting' \subseteq Counting
    BY <1>13 DEF Leave, callVars, Seated, Active, Counting
  <2>2. QED
    BY <2>1, Fewer
<1>14. ASSUME NEW l \in Learners, Sync(l) PROVE Promised'
  <2>1. Seated' \subseteq Seated /\ Counting' \subseteq Counting
    BY <1>14 DEF Sync, callVars, Seated, Active, Counting
  <2>2. QED
    BY <2>1, Fewer
<1>15. CASE UNCHANGED vars
  <2>1. Seated' \subseteq Seated /\ Counting' \subseteq Counting
    BY <1>15 DEF vars, callVars, Seated, Active, Counting
  <2>2. QED
    BY <2>1, Fewer
<1>16. QED
  BY <1>1, <1>2, <1>3, <1>4, <1>5, <1>6, <1>7, <1>8, <1>9, <1>10, <1>11, <1>12, <1>13, <1>14,
     <1>15
     DEF Next, Step

-----------------------------------------------------------------------------
(* Theorems *)

LEMMA InitInv == Init => IInv
<1> SUFFICES ASSUME Init PROVE IInv
  OBVIOUS
<1>1. TypeOK
  BY InitType
<1>2. CallInv /\ LockInv /\ RecordInv /\ ApprovedHasRow /\ SeatedIsRequested
  BY DEF Init, CallInv, LockInv, RecordInv, ApprovedHasRow, SeatedIsRequested, Resting, Inserting
<1>3. Promised
  <2>1. Seated = {} /\ Counting = {}
    BY DEF Init, Seated, Active, Counting
  <2>2. Cardinality(Seated) = 0 /\ Cardinality(Counting) = 0
    BY <2>1, FS_EmptySet
  <2>3. Cardinality(Calls) \in Nat /\ Cardinality(Calls) # 0
    BY Finite, FS_EmptySet
  <2>4. QED
    BY <2>2, <2>3 DEF Promised
<1>4. QED
  BY <1>1, <1>2, <1>3 DEF IInv

\* The inductive invariant of the seats of a section, in either tier.
THEOREM SeatInvariant == Spec => []IInv
<1>1. IInv /\ [Next]_vars => IInv'
  <2> SUFFICES ASSUME IInv, [Next]_vars PROVE IInv'
    OBVIOUS
  <2>1. TypeOK' /\ CallInv'
    BY NextType, NextCall DEF IInv
  <2>2. RowsInv'
    BY NextRowsInv DEF IInv, RowsInv
  <2>3. Promised'
    BY NextPromised DEF IInv
  <2>4. QED
    BY <2>1, <2>2, <2>3 DEF IInv, RowsInv
<1>2. QED
  BY InitInv, <1>1, PTL DEF Spec

\* Every reachable state of a section is well typed.
THEOREM RegistrationTypeCorrect == Spec => []TypeOK
<1>1. IInv => TypeOK
  BY DEF IInv
<1>2. QED
  BY <1>1, SeatInvariant, PTL

\* Count-then-insert overbooks a section by at most the calls that run at once
\* less one, whatever staff, learners and policies do meanwhile.
THEOREM OverbookingBound == Spec => []OverbookingIsBounded
<1>1. IInv => OverbookingIsBounded
  BY Finite DEF IInv, Promised, OverbookingIsBounded
<1>2. QED
  BY <1>1, SeatInvariant, PTL

\* One call at a time never overbooks.
THEOREM NoOverbookingAlone ==
  ASSUME Cardinality(Calls) = 1
  PROVE  Spec => [](Cardinality(Seated) <= MaxCapacity)
<1>1. IInv => Cardinality(Seated) <= MaxCapacity
  BY Finite DEF IInv, Promised
<1>2. QED
  BY <1>1, SeatInvariant, PTL

\* An approved request stands for an enrollment row, in the silo tier too.
THEOREM ApprovalHasRow == Spec => []ApprovedHasRow
<1>1. IInv => ApprovedHasRow
  BY DEF IInv
<1>2. QED
  BY <1>1, SeatInvariant, PTL

\* Nobody sits on a seat taken by registering without a request that says so.
THEOREM SeatHasRequest == Spec => []SeatedIsRequested
<1>1. IInv => SeatedIsRequested
  BY DEF IInv
<1>2. QED
  BY <1>1, SeatInvariant, PTL

-----------------------------------------------------------------------------
(* Decisions: decide reads the request and writes it later, whatever it is by then. *)

\* With one call at a time, who is about to decide has found the request pending,
\* and it is so still.
PendingInv == \A c \in Calls :
  /\ pc[c] = "deny" => op[c] = "deny"
  /\ op[c] # "register" /\ pc[c] \notin Resting \union {"request"} => request[learner[c]] = "pending"

\* Only a request that is pending becomes denied.
DenialIsOfPending ==
  \A l \in Learners : request[l] # "denied" /\ request'[l] = "denied" => request[l] = "pending"

LEMMA NextPending ==
  ASSUME Cardinality(Calls) = 1, TypeOK, CallInv, PendingInv, [Next]_vars
  PROVE  PendingInv' /\ DenialIsOfPending
<1>1. PICK c : Calls = {c}
  BY FS_Singleton
<1>2. \A d \in Calls : d = c
  BY <1>1
<1>3. CASE Begin(c) \/ ReadRequest(c) \/ ReadPolicy(c) \/ IsEnrolled(c) \/ Count(c) \/ Enroll(c)
  BY <1>2, <1>3 DEF TypeOK, PendingInv, DenialIsOfPending, Begin, ReadRequest, ReadPolicy,
                    IsEnrolled, Count, Enroll, Goto, End, callVars, Resting, Ops
<1>4. CASE Deny(c) \/ Queue(c) \/ Record(c) \/ EndEarly(c)
  <2>1. pc'[c] \in {"idle", "enrolled"}
    BY <1>1, <1>4 DEF Deny, Queue, Record, EndEarly, End, TypeOK
  <2>2. CASE Deny(c)
    <3>1. learner[c] \in Learners /\ request[learner[c]] = "pending"
      BY <1>1, <2>2 DEF Deny, PendingInv, CallInv, Resting
    <3>2. \A l \in Learners : l # learner[c] => request'[l] = request[l]
      BY <2>2, <3>1 DEF Deny, TypeOK
    <3>3. DenialIsOfPending
      BY <3>1, <3>2 DEF DenialIsOfPending
    <3>4. QED
      BY <1>2, <2>1, <3>3 DEF PendingInv, Resting
  <2>3. CASE Queue(c) \/ Record(c) \/ EndEarly(c)
    <3>1. \A l \in Learners : request'[l] # "denied" \/ request'[l] = request[l]
      BY <2>3 DEF Queue, Record, EndEarly, TypeOK
    <3>2. DenialIsOfPending
      BY <3>1 DEF DenialIsOfPending
    <3>3. QED
      BY <1>2, <2>1, <3>2 DEF PendingInv, Resting
  <2>4. QED
    BY <1>4, <2>2, <2>3
<1>5. CASE SetPolicy \/ (\E l \in Learners : Place(l) \/ Leave(l) \/ Sync(l)) \/ UNCHANGED vars
  BY <1>5 DEF SetPolicy, Place, Leave, Sync, vars, callVars, PendingInv, DenialIsOfPending
<1>6. QED
  BY <1>1, <1>3, <1>4, <1>5 DEF Next, Step

\* With one call at a time a decision stands: a learner whose request was approved is
\* never denied afterwards unless the request was made again.
THEOREM DecisionsStandAlone ==
  ASSUME Cardinality(Calls) = 1
  PROVE  Spec => [][DenialIsOfPending]_vars
<1>1. Init => PendingInv
  BY DEF Init, PendingInv, Resting
<1>2. IInv /\ PendingInv /\ [Next]_vars => PendingInv'
  BY NextPending DEF IInv
<1>3. IInv /\ PendingInv /\ [Next]_vars => [DenialIsOfPending]_vars
  BY NextPending DEF IInv
<1>4. QED
  BY SeatInvariant, <1>1, <1>2, <1>3, PTL DEF Spec
=============================================================================
