------------------------- MODULE OutboxRelay_proofs -------------------------
(***************************************************************************)
(* Exactly-once notification in the pool tier, and at most once in either, *)
(* for any number of tenants, events, concurrent passes and requests.      *)
(*                                                                         *)
(* An event is settled when nobody is owed anything for it: it is not      *)
(* routed, names nobody, or its claim in event_inbox is committed.  The    *)
(* inductive invariant says that every decision of the relay (to count a   *)
(* row as delivered, to stamp it, to go on to a later row) is taken after  *)
(* the events it covers are settled, and that settled is for ever.         *)
(***************************************************************************)
EXTENDS OutboxRelay, TLAPS

Settled(e) == e \in Subscribed /\ RecipientsOf[e] # {} => inbox[e] = "claimed"

\* The claim of a request that inserts: in the silo tier it has committed.
Held == IF Tier = "pool" THEN "held" ELSE "claimed"

\* One request at most inserts for a claim, and the event of a claim committed.
LockInv ==
  /\ \A h \in Requests : req[h] = "inserting" => inbox[ev[h]] = Held
  /\ \A h, k \in Requests :
       req[h] = "inserting" /\ req[k] = "inserting" /\ ev[h] = ev[k] => h = k
  /\ \A h \in Requests : req[h] # "free" => row[ev[h]] = "committed"
  /\ \A e \in Events : inbox[e] # "free" => row[e] = "committed"

\* Pool: the visible rows are those of the committed claims, all of them.
InboxInv == Tier = "pool" =>
  \A e \in Events : notified[e] = IF inbox[e] = "claimed" THEN Told(e) ELSE Silence

\* Silo: rows are of claims and for who is named, and while a request inserts the
\* visible rows are the ones it inserted.
OwnInv == Tier = "silo" =>
  /\ \A e \in Events : inbox[e] = "free" => notified[e] = Silence
  /\ \A e \in Events, u \in Users : notified[e][u] <= Told(e)[u]
  /\ \A h \in Requests :
       IF req[h] = "inserting"
         THEN \A u \in Users : notified[ev[h]][u] = IF u \in inserted[h] THEN 1 ELSE 0
         ELSE inserted[h] = {}

\* A 2xx answer is given for a committed claim only.
AnswerInv == \A h \in Requests : req[h] = "ok" => inbox[ev[h]] = "claimed"

\* A request is for an event; a pass awaits the request for one of its rows, and
\* a request has one caller.
CallInv ==
  /\ \A h \in Requests : req[h] # "free" => ev[h] \in Events
  /\ \A p \in Passes :
       /\ pass[p] = "awaiting" <=> call[p] # None
       /\ call[p] # None => req[call[p]] # "free" /\ ev[call[p]] \in rows[p]
  /\ \A p, q \in Passes : call[p] # None /\ call[p] = call[q] => p = q

\* What is counted as delivered or stamped is settled.
StampInv ==
  /\ \A p \in Passes : \A e \in delivered[p] : Settled(e)
  /\ \A e \in published : Settled(e)

\* The history of an event: it began after the events in it had committed.
HistoryInv ==
  /\ \A e \in Events : occurred[e] <= clock
  /\ \A f \in Events : \A e \in after[f] :
       /\ row[e] = "committed"
       /\ TenantOf[e] = TenantOf[f]
       /\ occurred[e] < occurred[f]

\* Whatever an undelivered row came after is undelivered in the same drain, or settled.
RowsInv ==
  \A p \in Passes : \A f \in rows[p] :
    /\ row[f] = "committed"
    /\ \A e \in after[f] : e \in rows[p] \/ Settled(e)

\* Whatever a requested or claimed event came after is settled.
CausalInv ==
  /\ \A h \in Requests : req[h] # "free" => \A e \in after[ev[h]] : Settled(e)
  /\ \A f \in Events : inbox[f] # "free" => \A e \in after[f] : Settled(e)

IInv ==
  /\ TypeOK
  /\ LockInv
  /\ InboxInv
  /\ OwnInv
  /\ AnswerInv
  /\ CallInv
  /\ StampInv
  /\ HistoryInv
  /\ RowsInv
  /\ CausalInv

-----------------------------------------------------------------------------
(* Type correctness, in either tier. *)

USE TenantAssumption, EventAssumption, NoneAssumption, TierAssumption

\* A transaction that runs out of time ends the way a failure ends it.
LEMMA Expiries ==
  /\ \A p \in Passes : DrainExpires(p) => PassAborts(p)
  /\ \A h \in Requests : IngestExpires(h) => RejectRow(h) \/ HandlerAborts(h)
  BY DEF DrainExpires, PassAborts, Refused, IngestExpires, IngestLate, RejectRow, HandlerAborts

LEMMA InitType == Init => TypeOK
  BY DEF Init, TypeOK, Silence

LEMMA AddRowsType ==
  ASSUME TypeOK, NEW e, NEW us, AddRows(e, us)
  PROVE  notified' \in [Events -> [Users -> Nat]]
<1>1. CASE e \in Events
  <2>1. notified[e] \in [Users -> Nat]
    BY <1>1 DEF TypeOK
  <2>2. [u \in Users |-> notified[e][u] + (IF u \in us THEN 1 ELSE 0)] \in [Users -> Nat]
    BY <2>1
  <2>3. QED
    BY <1>1, <2>2 DEF TypeOK, AddRows
<1>2. CASE e \notin Events
  BY <1>2 DEF TypeOK, AddRows
<1>3. QED
  BY <1>1, <1>2

LEMMA ReplyType ==
  ASSUME TypeOK, NEW h \in Requests, NEW answer \in {"ok", "failed"}, Reply(h, answer)
  PROVE  /\ req' \in [Requests -> {"free", "claiming", "inserting", "ok", "failed"}]
         /\ ev' \in [Requests -> Events \union {None}]
         /\ inserted' \in [Requests -> SUBSET Users]
<1>1. /\ req \in [Requests -> {"free", "claiming", "inserting", "ok", "failed"}]
      /\ ev \in [Requests -> Events \union {None}] /\ inserted \in [Requests -> SUBSET Users]
  BY DEF TypeOK
<1>2. CASE Awaited(h)
  BY <1>1, <1>2 DEF Reply
<1>3. CASE ~Awaited(h)
  BY <1>1, <1>3 DEF Reply, Release
<1>4. QED
  BY <1>2, <1>3

LEMMA HandlerType ==
  ASSUME TypeOK, NEW h \in Requests, NEW answer \in {"ok", "failed"}, Reply(h, answer),
         UNCHANGED <<producerVars, active, published, passVars, spent>>,
         inbox' \in [Events -> {"free", "held", "claimed"}],
         notified' \in [Events -> [Users -> Nat]]
  PROVE  TypeOK'
<1>1. /\ req' \in [Requests -> {"free", "claiming", "inserting", "ok", "failed"}]
      /\ ev' \in [Requests -> Events \union {None}]
      /\ inserted' \in [Requests -> SUBSET Users]
  BY ReplyType
<1>2. QED
  BY <1>1 DEF TypeOK, producerVars, passVars

LEMMA NextType ==
  ASSUME TypeOK, CallInv, [Next]_vars
  PROVE  TypeOK'
<1> USE DEF producerVars, passVars, handlerVars, consumerVars
<1>1. ASSUME NEW e \in Events, Begin(e) PROVE TypeOK'
  BY <1>1 DEF TypeOK, Begin, Committed
<1>2. ASSUME NEW e \in Events, End(e) PROVE TypeOK'
  BY <1>2 DEF TypeOK, End
<1>3. ASSUME NEW t \in Tenants, Deactivate(t) PROVE TypeOK'
  BY <1>3 DEF TypeOK, Deactivate
<1>4. ASSUME NEW p \in Passes, StartPass(p) PROVE TypeOK'
  BY <1>4 DEF TypeOK, StartPass
<1>5. ASSUME NEW p \in Passes, OpenDrain(p) PROVE TypeOK'
  BY <1>5 DEF TypeOK, OpenDrain, NextTenant, Unpublished, Committed
<1>6. ASSUME NEW p \in Passes, NEW e \in Events, DeliverToNobody(p, e) PROVE TypeOK'
  BY <1>6 DEF TypeOK, DeliverToNobody, MarkDelivered
<1>7. ASSUME NEW p \in Passes, NEW e \in Events, Post(p, e) PROVE TypeOK'
  BY <1>7 DEF TypeOK, Post
<1>8. ASSUME NEW p \in Passes, Answered(p) PROVE TypeOK'
  BY <1>8 DEF TypeOK, CallInv, Answered, MarkDelivered, Release
<1>9. ASSUME NEW p \in Passes, AnswerFails(p) PROVE TypeOK'
  BY <1>9 DEF TypeOK, AnswerFails, Refused, Throw, Release
<1>10. ASSUME NEW p \in Passes, Stamp(p) PROVE TypeOK'
  BY <1>10 DEF TypeOK, Stamp
<1>11. ASSUME NEW p \in Passes, EndPass(p) PROVE TypeOK'
  BY <1>11 DEF TypeOK, EndPass
<1>12. ASSUME NEW h \in Requests, Claim(h) PROVE TypeOK'
  BY <1>12 DEF TypeOK, Claim
<1>13. ASSUME NEW h \in Requests, Dedupe(h) PROVE TypeOK'
  BY <1>13, HandlerType DEF TypeOK, Dedupe
<1>14. ASSUME NEW h \in Requests, Insert(h) PROVE TypeOK'
  <2>1. notified' \in [Events -> [Users -> Nat]]
    BY <1>14, AddRowsType DEF Insert, TypeOK
  <2>2. inserted' \in [Requests -> SUBSET Users]
    BY <1>14 DEF TypeOK, CallInv, Insert
  <2>3. QED
    BY <1>14, <2>1, <2>2 DEF TypeOK, Insert
<1>15. ASSUME NEW h \in Requests, Commit(h) PROVE TypeOK'
  <2>1. notified' \in [Events -> [Users -> Nat]]
    BY <1>15, AddRowsType DEF Commit, TypeOK
  <2>2. inbox' \in [Events -> {"free", "held", "claimed"}]
    BY <1>15 DEF Commit, TypeOK
  <2>3. QED
    BY <1>15, <2>1, <2>2, HandlerType DEF Commit
<1>16. ASSUME NEW h \in Requests, RejectRow(h) PROVE TypeOK'
  <2>1. inbox' \in [Events -> {"free", "held", "claimed"}]
    BY <1>16 DEF TypeOK, RejectRow, Rollback
  <2>2. QED
    BY <1>16, <2>1, HandlerType DEF TypeOK, RejectRow, Rollback
<1>17. ASSUME NEW p \in Passes, PassAborts(p) PROVE TypeOK'
  BY <1>17 DEF TypeOK, PassAborts, Throw, Release
<1>18. ASSUME NEW h \in Requests, HandlerAborts(h) PROVE TypeOK'
  <2>1. inbox' \in [Events -> {"free", "held", "claimed"}]
    BY <1>18 DEF TypeOK, HandlerAborts, Rollback
  <2>2. QED
    BY <1>18, <2>1, HandlerType DEF TypeOK, HandlerAborts, Rollback
<1>19. CASE UNCHANGED vars
  BY <1>19 DEF TypeOK, vars
<1>20. QED
  BY <1>1, <1>2, <1>3, <1>4, <1>5, <1>6, <1>7, <1>8, <1>9, <1>10, <1>11, <1>12,
     <1>13, <1>14, <1>15, <1>16, <1>17, <1>18, <1>19, Expiries DEF Next, Undisturbed, PassStep,
     HandlerStep, Outage

LEMMA NextCall ==
  ASSUME TypeOK, CallInv, [Next]_vars
  PROVE  CallInv'
<1> USE DEF producerVars, passVars, handlerVars, consumerVars
<1>1. ASSUME NEW e \in Events, Begin(e) PROVE CallInv'
  BY <1>1 DEF TypeOK, CallInv, Begin, Committed
<1>2. ASSUME NEW e \in Events, End(e) PROVE CallInv'
  BY <1>2 DEF TypeOK, CallInv, End
<1>3. ASSUME NEW t \in Tenants, Deactivate(t) PROVE CallInv'
  BY <1>3 DEF TypeOK, CallInv, Deactivate
<1>4. ASSUME NEW p \in Passes, StartPass(p) PROVE CallInv'
  BY <1>4 DEF TypeOK, CallInv, StartPass
<1>5. ASSUME NEW p \in Passes, OpenDrain(p) PROVE CallInv'
  BY <1>5 DEF TypeOK, CallInv, OpenDrain, NextTenant, Unpublished, Committed
<1>6. ASSUME NEW p \in Passes, NEW e \in Events, DeliverToNobody(p, e)
      PROVE  CallInv'
  BY <1>6 DEF TypeOK, CallInv, DeliverToNobody, MarkDelivered
<1>7. ASSUME NEW p \in Passes, NEW e \in Events, Post(p, e) PROVE CallInv'
  <2>1. PICK h \in Requests :
          /\ req[h] = "free"
          /\ req' = [req EXCEPT ![h] = "claiming"]
          /\ ev' = [ev EXCEPT ![h] = e]
          /\ call' = [call EXCEPT ![p] = h]
    BY <1>7 DEF Post
  <2>2. \A q \in Passes : call[q] # h
    BY <2>1 DEF CallInv
  <2>3. h # None /\ e \in rows[p] /\ rows' = rows /\ pass' = [pass EXCEPT ![p] = "awaiting"]
    BY <1>7 DEF Post, Oldest
  <2>4. \A q \in Passes : q # p => call'[q] = call[q] /\ pass'[q] = pass[q]
    BY <2>1, <2>3 DEF TypeOK
  <2>5. call'[p] = h /\ pass'[p] = "awaiting" /\ req'[h] = "claiming" /\ ev'[h] = e
    BY <2>1, <2>3 DEF TypeOK
  <2>6. \A k \in Requests : k # h => req'[k] = req[k] /\ ev'[k] = ev[k]
    BY <2>1 DEF TypeOK
  <2>7. \A q \in Passes :
          /\ pass'[q] = "awaiting" <=> call'[q] # None
          /\ call'[q] # None => req'[call'[q]] # "free" /\ ev'[call'[q]] \in rows'[q]
    <3>1. TAKE q \in Passes
    <3>2. CASE q = p
      BY <3>2, <2>3, <2>5
    <3>3. CASE q # p
      <4>1. call[q] # None => call[q] \in Requests /\ call[q] # h
        BY <2>2 DEF TypeOK
      <4>2. QED
        BY <3>3, <4>1, <2>3, <2>4, <2>6 DEF CallInv
    <3>4. QED
      BY <3>2, <3>3
  <2>8. \A q, r \in Passes : call'[q] # None /\ call'[q] = call'[r] => q = r
    BY <2>2, <2>4, <2>5 DEF CallInv
  <2>9. \A k \in Requests : req'[k] # "free" => ev'[k] \in Events
    BY <2>5, <2>6 DEF CallInv
  <2>10. QED
    BY <2>7, <2>8, <2>9 DEF CallInv
<1>8. ASSUME NEW p \in Passes, Answered(p) PROVE CallInv'
  BY <1>8 DEF TypeOK, CallInv, Answered, MarkDelivered, Release
<1>9. ASSUME NEW p \in Passes, AnswerFails(p) PROVE CallInv'
  BY <1>9 DEF TypeOK, CallInv, AnswerFails, Refused, Throw, Release
<1>10. ASSUME NEW p \in Passes, Stamp(p) PROVE CallInv'
  BY <1>10 DEF TypeOK, CallInv, Stamp
<1>11. ASSUME NEW p \in Passes, EndPass(p) PROVE CallInv'
  BY <1>11 DEF TypeOK, CallInv, EndPass
<1>12. ASSUME NEW h \in Requests, Claim(h) PROVE CallInv'
  BY <1>12 DEF TypeOK, CallInv, Claim
<1>13. ASSUME NEW h \in Requests, Dedupe(h) PROVE CallInv'
  BY <1>13 DEF TypeOK, CallInv, Dedupe, Reply, Release, Awaited
<1>14. ASSUME NEW h \in Requests, Insert(h) PROVE CallInv'
  BY <1>14 DEF TypeOK, CallInv, Insert, AddRows
<1>15. ASSUME NEW h \in Requests, Commit(h) PROVE CallInv'
  BY <1>15, SMTT(30) DEF TypeOK, CallInv, Commit, AddRows, Reply, Release, Awaited
<1>16. ASSUME NEW h \in Requests, RejectRow(h) PROVE CallInv'
  BY <1>16 DEF TypeOK, CallInv, RejectRow, Rollback, Reply, Release, Awaited
<1>17. ASSUME NEW p \in Passes, PassAborts(p) PROVE CallInv'
  <2>1. /\ pass' = [pass EXCEPT ![p] = "idle"] /\ call' = [call EXCEPT ![p] = None]
        /\ rows' = [rows EXCEPT ![p] = {}]
    BY <1>17 DEF PassAborts, Throw
  <2>2. \A q \in Passes :
          q # p => pass'[q] = pass[q] /\ call'[q] = call[q] /\ rows'[q] = rows[q]
    BY <2>1 DEF TypeOK
  <2>3. pass'[p] = "idle" /\ call'[p] = None
    BY <2>1 DEF TypeOK
  <2>4. \A k \in Requests : k # call[p] => req'[k] = req[k] /\ ev'[k] = ev[k]
    BY <1>17 DEF PassAborts, Release, TypeOK
  <2>5. \A k \in Requests : req'[k] # "free" => req[k] # "free" /\ ev'[k] = ev[k]
    BY <1>17 DEF PassAborts, Release, TypeOK
  <2>6. \A q \in Passes :
          /\ pass'[q] = "awaiting" <=> call'[q] # None
          /\ call'[q] # None => req'[call'[q]] # "free" /\ ev'[call'[q]] \in rows'[q]
    <3>1. TAKE q \in Passes
    <3>2. CASE q = p
      BY <3>2, <2>3
    <3>3. CASE q # p
      <4>1. call[q] # None => call[q] \in Requests /\ call[q] # call[p]
        BY <3>3 DEF TypeOK, CallInv
      <4>2. QED
        BY <3>3, <4>1, <2>2, <2>4 DEF CallInv
    <3>4. QED
      BY <3>2, <3>3
  <2>7. \A q, r \in Passes : call'[q] # None /\ call'[q] = call'[r] => q = r
    BY <2>2, <2>3 DEF CallInv
  <2>8. QED
    BY <2>5, <2>6, <2>7 DEF CallInv
<1>18. ASSUME NEW h \in Requests, HandlerAborts(h) PROVE CallInv'
  BY <1>18 DEF TypeOK, CallInv, HandlerAborts, Rollback, Reply, Release, Awaited
<1>19. CASE UNCHANGED vars
  BY <1>19 DEF TypeOK, CallInv, vars
<1>20. QED
  BY <1>1, <1>2, <1>3, <1>4, <1>5, <1>6, <1>7, <1>8, <1>9, <1>10, <1>11, <1>12,
     <1>13, <1>14, <1>15, <1>16, <1>17, <1>18, <1>19, Expiries DEF Next, Undisturbed, PassStep,
     HandlerStep, Outage

-----------------------------------------------------------------------------
(* Which steps touch what. *)

\* Only producers write the outbox.
LEMMA ProducerFrame ==
  ASSUME [Next]_vars
  PROVE
    \/ \E e \in Events : Begin(e)
    \/ \E e \in Events : End(e)
    \/ UNCHANGED <<row, clock, occurred, after>>
<1> USE DEF producerVars, passVars, handlerVars, consumerVars
<1>1. CASE UNCHANGED vars \/ \E t \in Tenants : Deactivate(t)
  BY <1>1 DEF vars, Deactivate
<1>2. ASSUME NEW p \in Passes, NEW e \in Events, DeliverToNobody(p, e) \/ Post(p, e)
      PROVE  UNCHANGED <<row, clock, occurred, after>>
  BY <1>2 DEF DeliverToNobody, Post
<1>3. ASSUME NEW p \in Passes,
             \/ StartPass(p) \/ OpenDrain(p) \/ Answered(p) \/ AnswerFails(p)
             \/ Stamp(p) \/ EndPass(p) \/ PassAborts(p)
      PROVE  UNCHANGED <<row, clock, occurred, after>>
  BY <1>3 DEF StartPass, OpenDrain, Answered, AnswerFails, Throw, Stamp, EndPass, PassAborts
<1>4. ASSUME NEW h \in Requests,
             \/ Claim(h) \/ Dedupe(h) \/ Insert(h) \/ Commit(h)
             \/ RejectRow(h) \/ HandlerAborts(h)
      PROVE  UNCHANGED <<row, clock, occurred, after>>
  BY <1>4 DEF Claim, Dedupe, Insert, Commit, RejectRow, HandlerAborts, Rollback
<1>5. QED
  BY <1>1, <1>2, <1>3, <1>4, Expiries DEF Next, Undisturbed, PassStep, HandlerStep, Outage

\* Only these steps of a pass change what it owes, has delivered or stamps.
LEMMA RelayFrame ==
  ASSUME [Next]_vars
  PROVE
    \/ \E p \in Passes : OpenDrain(p)
    \/ \E p \in Passes, e \in Events : DeliverToNobody(p, e)
    \/ \E p \in Passes : Answered(p)
    \/ \E p \in Passes : AnswerFails(p)
    \/ \E p \in Passes : Stamp(p)
    \/ \E p \in Passes : PassAborts(p)
    \/ UNCHANGED <<rows, delivered, published>>
<1> USE DEF producerVars, passVars, handlerVars, consumerVars
<1>1. CASE UNCHANGED vars \/ (\E e \in Events : Begin(e) \/ End(e)) \/ \E t \in Tenants : Deactivate(t)
  BY <1>1 DEF vars, Begin, End, Deactivate
<1>2. ASSUME NEW p \in Passes, StartPass(p) \/ EndPass(p) PROVE UNCHANGED <<rows, delivered, published>>
  BY <1>2 DEF StartPass, EndPass
<1>3. ASSUME NEW p \in Passes, NEW e \in Events, Post(p, e)
      PROVE  UNCHANGED <<rows, delivered, published>>
  BY <1>3 DEF Post
<1>4. ASSUME NEW h \in Requests, HandlerStep(h) \/ HandlerAborts(h)
      PROVE  UNCHANGED <<rows, delivered, published>>
  <2>1. CASE Claim(h) \/ Dedupe(h) \/ Insert(h) \/ Commit(h)
    BY <2>1 DEF Claim, Dedupe, Insert, Commit
  <2>2. CASE RejectRow(h) \/ HandlerAborts(h)
    BY <2>2 DEF RejectRow, HandlerAborts, Rollback
  <2>3. QED
    BY <1>4, <2>1, <2>2, Expiries DEF HandlerStep
<1>5. QED
  BY <1>1, <1>2, <1>3, <1>4, Expiries DEF Next, Undisturbed, PassStep, Outage

\* The life of a request, and of the claims.
LEMMA RequestFrame ==
  ASSUME [Next]_vars
  PROVE
    \/ \E p \in Passes, e \in Events : Post(p, e)
    \/ \E p \in Passes : Answered(p)
    \/ \E p \in Passes : AnswerFails(p)
    \/ \E p \in Passes : PassAborts(p)
    \/ \E h \in Requests : Claim(h)
    \/ \E h \in Requests : Dedupe(h)
    \/ \E h \in Requests : Commit(h)
    \/ \E h \in Requests : RejectRow(h)
    \/ \E h \in Requests : HandlerAborts(h)
    \/ UNCHANGED <<req, ev, inbox>>
<1> USE DEF producerVars, passVars, handlerVars, consumerVars
<1>1. CASE UNCHANGED vars \/ (\E e \in Events : Begin(e) \/ End(e)) \/ \E t \in Tenants : Deactivate(t)
  BY <1>1 DEF vars, Begin, End, Deactivate
<1>2. ASSUME NEW p \in Passes, StartPass(p) \/ OpenDrain(p) \/ Stamp(p) \/ EndPass(p)
      PROVE  UNCHANGED <<req, ev, inbox>>
  BY <1>2 DEF StartPass, OpenDrain, Stamp, EndPass
<1>3. ASSUME NEW p \in Passes, NEW e \in Events, DeliverToNobody(p, e)
      PROVE  UNCHANGED <<req, ev, inbox>>
  BY <1>3 DEF DeliverToNobody
<1>4. ASSUME NEW h \in Requests, Insert(h) PROVE UNCHANGED <<req, ev, inbox>>
  BY <1>4 DEF Insert
<1>5. QED
  BY <1>1, <1>2, <1>3, <1>4, Expiries DEF Next, Undisturbed, PassStep, HandlerStep, Outage

\* In the pool tier only a handler's transaction boundaries are visible.
LEMMA InboxFrame ==
  ASSUME Tier = "pool", [Next]_vars
  PROVE
    \/ \E h \in Requests : Claim(h)
    \/ \E h \in Requests : Commit(h)
    \/ \E h \in Requests : RejectRow(h)
    \/ \E h \in Requests : HandlerAborts(h)
    \/ UNCHANGED <<inbox, notified>>
<1> USE DEF producerVars, passVars, handlerVars, consumerVars
<1>1. CASE UNCHANGED vars \/ (\E e \in Events : Begin(e) \/ End(e)) \/ \E t \in Tenants : Deactivate(t)
  BY <1>1 DEF vars, Begin, End, Deactivate
<1>2. ASSUME NEW p \in Passes, PassStep(p) \/ PassAborts(p) PROVE UNCHANGED <<inbox, notified>>
  BY <1>2, Expiries DEF PassStep, PassAborts, StartPass, OpenDrain, DeliverToNobody, Post, Answered,
    AnswerFails, Throw, Stamp, EndPass
<1>3. ASSUME NEW h \in Requests, Dedupe(h) \/ Insert(h) PROVE UNCHANGED <<inbox, notified>>
  BY <1>3 DEF Dedupe, Insert
<1>4. QED
  BY <1>1, <1>2, <1>3, Expiries DEF Next, Undisturbed, HandlerStep, Outage

\* Who changes the rows of an event, or what a request has inserted of them.
LEMMA InsertFrame ==
  ASSUME Tier = "silo", TypeOK, CallInv, [Next]_vars
  PROVE
    \/ \E p \in Passes, e \in Events : Post(p, e)
    \/ \E h \in Requests : Release(h) /\ UNCHANGED <<inbox, notified>>
    \/ \E h \in Requests : Claim(h)
    \/ \E h \in Requests : Insert(h)
    \/ \E h \in Requests, answer \in {"ok", "failed"} :
         Reply(h, answer) /\ UNCHANGED <<inbox, notified>>
    \/ UNCHANGED <<req, ev, inserted, inbox, notified>>
<1> USE DEF producerVars, passVars, handlerVars, consumerVars
<1>1. CASE UNCHANGED vars
  BY <1>1 DEF vars
<1>2. ASSUME NEW p \in Passes, Answered(p) \/ AnswerFails(p) \/ PassAborts(p)
      PROVE  \/ \E h \in Requests : Release(h) /\ UNCHANGED <<inbox, notified>>
             \/ UNCHANGED <<req, ev, inserted, inbox, notified>>
  <2>1. pass[p] = "awaiting" => call[p] \in Requests
    BY DEF TypeOK, CallInv
  <2>2. CASE Answered(p)
    BY <2>1, <2>2 DEF Answered
  <2>3. CASE AnswerFails(p)
    BY <2>1, <2>3 DEF AnswerFails, Refused, Throw
  <2>4. CASE PassAborts(p)
    BY <2>1, <2>4 DEF PassAborts, Throw
  <2>5. QED
    BY <1>2, <2>2, <2>3, <2>4
<1>3. ASSUME NEW h \in Requests, Dedupe(h) \/ Commit(h)
      PROVE  Reply(h, "ok") /\ UNCHANGED <<inbox, notified>>
  BY <1>3 DEF Dedupe, Commit
<1>4. ASSUME NEW h \in Requests, RejectRow(h) \/ HandlerAborts(h)
      PROVE  Reply(h, "failed") /\ UNCHANGED <<inbox, notified>>
  BY <1>4 DEF RejectRow, HandlerAborts, Rollback
<1>5. ASSUME NEW e \in Events, Begin(e) \/ End(e) PROVE UNCHANGED <<req, ev, inserted, inbox, notified>>
  BY <1>5 DEF Begin, End
<1>6. ASSUME NEW t \in Tenants, Deactivate(t) PROVE UNCHANGED <<req, ev, inserted, inbox, notified>>
  BY <1>6 DEF Deactivate
<1>7. ASSUME NEW p \in Passes,
             StartPass(p) \/ OpenDrain(p) \/ Stamp(p) \/ EndPass(p) \/ \E e \in Events : DeliverToNobody(p, e)
      PROVE  UNCHANGED <<req, ev, inserted, inbox, notified>>
  BY <1>7 DEF StartPass, OpenDrain, Stamp, EndPass, DeliverToNobody
<1>8. QED
  BY <1>1, <1>2, <1>3, <1>4, <1>5, <1>6, <1>7, Expiries DEF Next, Undisturbed, PassStep, HandlerStep, Outage

-----------------------------------------------------------------------------
(* The invariant, one conjunct at a time. *)

\* A committed claim is never undone.
LEMMA ClaimStays ==
  ASSUME TypeOK, CallInv, LockInv, [Next]_vars
  PROVE  \A e \in Events : inbox[e] = "claimed" => inbox'[e] = "claimed"
<1> USE DEF producerVars, passVars, handlerVars, consumerVars
<1>1. ASSUME NEW h \in Requests, Claim(h)
      PROVE  \A e \in Events : inbox[e] = "claimed" => inbox'[e] = "claimed"
  BY <1>1 DEF TypeOK, CallInv, LockInv, Claim
<1>2. ASSUME NEW h \in Requests, Commit(h)
      PROVE  \A e \in Events : inbox[e] = "claimed" => inbox'[e] = "claimed"
  BY <1>2 DEF TypeOK, CallInv, LockInv, Commit, AddRows, Reply, Release
<1>3. ASSUME NEW h \in Requests, RejectRow(h)
      PROVE  \A e \in Events : inbox[e] = "claimed" => inbox'[e] = "claimed"
  BY <1>3 DEF TypeOK, CallInv, LockInv, Held, RejectRow, Rollback, Reply, Release
<1>4. ASSUME NEW h \in Requests, HandlerAborts(h)
      PROVE  \A e \in Events : inbox[e] = "claimed" => inbox'[e] = "claimed"
  BY <1>4 DEF TypeOK, CallInv, LockInv, Held, HandlerAborts, Rollback, Reply, Release
<1>5. CASE UNCHANGED <<req, ev, inbox>>
  BY <1>5 DEF TypeOK, CallInv, LockInv
<1>6. QED
  BY <1>1, <1>2, <1>3, <1>4, <1>5, RequestFrame
     DEF Post, Answered, AnswerFails, PassAborts, Throw, Dedupe

\* A committed outbox row stays committed, and its history is fixed.
LEMMA RowStays ==
  ASSUME TypeOK, [Next]_vars
  PROVE  \A f \in Events : row[f] = "committed" => row'[f] = "committed" /\ after'[f] = after[f]
<1> USE DEF producerVars, passVars, handlerVars, consumerVars
<1>1. ASSUME NEW e \in Events, Begin(e)
      PROVE  \A f \in Events :
               row[f] = "committed" => row'[f] = "committed" /\ after'[f] = after[f]
  BY <1>1 DEF TypeOK, Begin, Committed
<1>2. ASSUME NEW e \in Events, End(e)
      PROVE  \A f \in Events :
               row[f] = "committed" => row'[f] = "committed" /\ after'[f] = after[f]
  BY <1>2 DEF TypeOK, End
<1>3. CASE UNCHANGED <<row, clock, occurred, after>>
  BY <1>3 DEF TypeOK
<1>4. QED
  BY <1>1, <1>2, <1>3, ProducerFrame

\* Ending a request touches no other, and leaves its own event in place.
LEMMA ReleaseEnds ==
  ASSUME TypeOK, NEW h \in Requests, Release(h)
  PROVE  \A k \in Requests : req'[k] # "free" => k # h /\ req'[k] = req[k] /\ ev'[k] = ev[k]
  BY DEF TypeOK, Release

LEMMA ReplyEnds ==
  ASSUME TypeOK, NEW h \in Requests, NEW answer \in {"ok", "failed"}, Reply(h, answer)
  PROVE  \A k \in Requests :
           req'[k] # "free" =>
             /\ req'[k] = IF k = h THEN answer ELSE req[k]
             /\ ev'[k] = ev[k]
  BY DEF TypeOK, Reply, Release

LEMMA LockKept ==
  ASSUME CallInv, LockInv,
         \A k \in Requests : req'[k] # "free" => req[k] # "free" /\ ev'[k] = ev[k],
         \A k \in Requests :
           req'[k] = "inserting" => req[k] = "inserting" /\ inbox'[ev[k]] = Held,
         \A e \in Events : inbox'[e] # "free" => inbox[e] # "free",
         \A e \in Events : row[e] = "committed" => row'[e] = "committed"
  PROVE  LockInv'
<1>1. \A h \in Requests : req'[h] = "inserting" => inbox'[ev'[h]] = Held
  OBVIOUS
<1>2. \A h, k \in Requests :
        req'[h] = "inserting" /\ req'[k] = "inserting" /\ ev'[h] = ev'[k] => h = k
  BY DEF LockInv
<1>3. \A h \in Requests : req'[h] # "free" => row'[ev'[h]] = "committed"
  BY DEF LockInv, CallInv
<1>4. \A e \in Events : inbox'[e] # "free" => row'[e] = "committed"
  BY DEF LockInv
<1>5. QED
  BY <1>1, <1>2, <1>3, <1>4 DEF LockInv

\* A claim is held by the one request that inserted it.
LEMMA NextLock ==
  ASSUME TypeOK, CallInv, LockInv, RowsInv, [Next]_vars
  PROVE  LockInv'
<1> USE DEF producerVars, passVars, handlerVars, consumerVars
<1>1. \A e \in Events : row[e] = "committed" => row'[e] = "committed" /\ after'[e] = after[e]
  BY RowStays
<1>2. ASSUME NEW p \in Passes, NEW e \in Events, Post(p, e) PROVE LockInv'
  BY <1>2, <1>1 DEF TypeOK, CallInv, LockInv, RowsInv, Post, Oldest
<1>3. ASSUME NEW p \in Passes, Answered(p) PROVE LockInv'
  BY <1>3, <1>1
     DEF TypeOK, CallInv, LockInv, RowsInv, Answered, MarkDelivered, Release
<1>4. ASSUME NEW p \in Passes, AnswerFails(p) PROVE LockInv'
  BY <1>4, <1>1
     DEF TypeOK, CallInv, LockInv, RowsInv, AnswerFails, Refused, Throw, Release
<1>5. ASSUME NEW p \in Passes, PassAborts(p) PROVE LockInv'
  <2>1. \A k \in Requests : req'[k] # "free" => req'[k] = req[k] /\ ev'[k] = ev[k]
    <3>1. CASE pass[p] = "awaiting" /\ req[call[p]] = "ok"
      <4>1. call[p] \in Requests /\ Release(call[p])
        BY <1>5, <3>1 DEF TypeOK, CallInv, PassAborts
      <4>2. QED
        BY <4>1, ReleaseEnds
    <3>2. CASE ~(pass[p] = "awaiting" /\ req[call[p]] = "ok")
      BY <1>5, <3>2 DEF PassAborts
    <3>3. QED
      BY <3>1, <3>2
  <2>2. inbox' = inbox
    BY <1>5 DEF PassAborts, Throw
  <2>3. /\ \A k \in Requests : req'[k] # "free" => req[k] # "free" /\ ev'[k] = ev[k]
        /\ \A k \in Requests :
             req'[k] = "inserting" => req[k] = "inserting" /\ inbox'[ev[k]] = Held
        /\ \A e \in Events : inbox'[e] # "free" => inbox[e] # "free"
    BY <2>1, <2>2 DEF TypeOK, CallInv, LockInv
  <2>4. QED
    BY <1>1, <2>1, <2>3, LockKept
<1>6. ASSUME NEW h \in Requests, Claim(h) PROVE LockInv'
  BY <1>6, <1>1 DEF TypeOK, CallInv, LockInv, RowsInv, Held, Claim
<1>7. ASSUME NEW h \in Requests, Dedupe(h) PROVE LockInv'
  <2>1. \A k \in Requests :
          req'[k] # "free" =>
            /\ req'[k] = IF k = h THEN "ok" ELSE req[k]
            /\ ev'[k] = ev[k]
    BY <1>7, ReplyEnds DEF Dedupe
  <2>2. req[h] = "claiming" /\ inbox' = inbox
    BY <1>7 DEF Dedupe
  <2>3. /\ \A k \in Requests : req'[k] # "free" => req[k] # "free" /\ ev'[k] = ev[k]
        /\ \A k \in Requests :
             req'[k] = "inserting" => req[k] = "inserting" /\ inbox'[ev[k]] = Held
        /\ \A e \in Events : inbox'[e] # "free" => inbox[e] # "free"
    BY <2>1, <2>2 DEF TypeOK, CallInv, LockInv
  <2>4. QED
    BY <1>1, <2>1, <2>3, LockKept
<1>8. ASSUME NEW h \in Requests, Commit(h) PROVE LockInv'
  <2>1. \A k \in Requests :
          req'[k] # "free" =>
            /\ req'[k] = IF k = h THEN "ok" ELSE req[k]
            /\ ev'[k] = ev[k]
    BY <1>8, ReplyEnds DEF Commit
  <2>2. req[h] = "inserting" /\ inbox' = IF Tier = "pool" THEN [inbox EXCEPT ![ev[h]] = "claimed"] ELSE inbox
    BY <1>8 DEF Commit
  <2>3. \A k \in Requests : req'[k] # "free" => req[k] # "free" /\ ev'[k] = ev[k]
    BY <2>1, <2>2
  <2>4. \A k \in Requests :
          req'[k] = "inserting" => k # h /\ req[k] = "inserting" /\ ev[k] \in Events /\ ev[k] # ev[h]
    BY <2>1, <2>2 DEF CallInv, LockInv
  <2>5. ev[h] \in Events /\ inbox[ev[h]] # "free"
    BY <2>2 DEF CallInv, LockInv, Held
  <2>6. \A e \in Events : e # ev[h] => inbox'[e] = inbox[e]
    BY <2>2 DEF TypeOK
  <2>7. \A k \in Requests : req'[k] = "inserting" => inbox'[ev[k]] = Held
    BY <2>4, <2>6 DEF LockInv
  <2>8. \A e \in Events : inbox'[e] # "free" => inbox[e] # "free"
    BY <2>5, <2>6
  <2>9. QED
    BY <1>1, <2>1, <2>3, <2>4, <2>7, <2>8, LockKept
<1>9. ASSUME NEW h \in Requests, RejectRow(h) PROVE LockInv'
  <2>1. \A k \in Requests :
          req'[k] # "free" =>
            /\ req'[k] = IF k = h THEN "failed" ELSE req[k]
            /\ ev'[k] = ev[k]
    BY <1>9, ReplyEnds DEF RejectRow, Doomed, Rollback
  <2>2. req[h] = "inserting" /\ inbox' = IF Tier = "pool" THEN [inbox EXCEPT ![ev[h]] = "free"] ELSE inbox
    BY <1>9 DEF RejectRow, Doomed, Rollback
  <2>3. /\ \A k \in Requests : req'[k] # "free" => req[k] # "free" /\ ev'[k] = ev[k]
        /\ \A k \in Requests :
             req'[k] = "inserting" => req[k] = "inserting" /\ inbox'[ev[k]] = Held
        /\ \A e \in Events : inbox'[e] # "free" => inbox[e] # "free"
    BY <2>1, <2>2 DEF TypeOK, CallInv, LockInv
  <2>4. QED
    BY <1>1, <2>1, <2>3, LockKept
<1>10. ASSUME NEW h \in Requests, HandlerAborts(h) PROVE LockInv'
  <2>1. \A k \in Requests :
          req'[k] # "free" =>
            /\ req'[k] = IF k = h THEN "failed" ELSE req[k]
            /\ ev'[k] = ev[k]
    BY <1>10, ReplyEnds DEF HandlerAborts, Rollback
  <2>2. /\ req[h] \in {"claiming", "inserting"}
        /\ inbox' = IF Tier = "pool" /\ req[h] = "inserting"
                      THEN [inbox EXCEPT ![ev[h]] = "free"] ELSE inbox
    BY <1>10 DEF HandlerAborts, Rollback
  <2>3. /\ \A k \in Requests : req'[k] # "free" => req[k] # "free" /\ ev'[k] = ev[k]
        /\ \A k \in Requests :
             req'[k] = "inserting" => req[k] = "inserting" /\ inbox'[ev[k]] = Held
        /\ \A e \in Events : inbox'[e] # "free" => inbox[e] # "free"
    BY <2>1, <2>2 DEF TypeOK, CallInv, LockInv
  <2>4. QED
    BY <1>1, <2>1, <2>3, LockKept
<1>11. CASE UNCHANGED <<req, ev, inbox>>
  BY <1>11, <1>1 DEF TypeOK, CallInv, LockInv, RowsInv
<1>12. QED
  BY <1>2, <1>3, <1>4, <1>5, <1>6, <1>7, <1>8, <1>9, <1>10, <1>11, RequestFrame

\* Rows appear with the commit of their claim.
LEMMA NextInbox ==
  ASSUME Tier = "pool", TypeOK, CallInv, LockInv, InboxInv, [Next]_vars
  PROVE  InboxInv'
<1> USE DEF producerVars, passVars, handlerVars, consumerVars
<1>1. ASSUME NEW h \in Requests, Claim(h) PROVE InboxInv'
  <2>1. inbox[ev[h]] = "free" /\ inbox' = [inbox EXCEPT ![ev[h]] = "held"] /\ notified' = notified
    BY <1>1 DEF Claim
  <2>2. QED
    BY <2>1 DEF TypeOK, InboxInv, Told, Silence
<1>2. ASSUME NEW h \in Requests, Commit(h) PROVE InboxInv'
  <2>1. ev[h] \in Events /\ inbox[ev[h]] = "held"
    BY <1>2 DEF Commit, CallInv, LockInv, Held
  <2>2. notified[ev[h]] = Silence
    BY <2>1 DEF InboxInv
  <2>3. [u \in Users |-> notified[ev[h]][u] + (IF u \in inserted[h] THEN 1 ELSE 0)]
        = Told(ev[h])
    BY <1>2, <2>2 DEF Commit, Told, Silence
  <2>4. notified' = [notified EXCEPT ![ev[h]] = Told(ev[h])]
    BY <1>2, <2>3 DEF Commit, AddRows
  <2>5. inbox' = [inbox EXCEPT ![ev[h]] = "claimed"]
    BY <1>2 DEF Commit
  <2>6. QED
    BY <2>1, <2>4, <2>5 DEF TypeOK, InboxInv, Told
<1>3. ASSUME NEW h \in Requests, RejectRow(h) PROVE InboxInv'
  <2>1. /\ notified' = notified
        /\ \/ inbox' = inbox
           \/ req[h] = "inserting" /\ inbox' = [inbox EXCEPT ![ev[h]] = "free"]
    BY <1>3 DEF RejectRow, Rollback
  <2>2. req[h] = "inserting" => inbox[ev[h]] = "held"
    BY DEF LockInv, Held
  <2>3. ASSUME NEW e \in Events
        PROVE  inbox'[e] = inbox[e] \/ (inbox[e] = "held" /\ inbox'[e] = "free")
    BY <2>1, <2>2 DEF TypeOK
  <2>4. QED
    BY <2>1, <2>3 DEF InboxInv, Told, Silence
<1>4. ASSUME NEW h \in Requests, HandlerAborts(h) PROVE InboxInv'
  <2>1. /\ notified' = notified
        /\ \/ inbox' = inbox
           \/ req[h] = "inserting" /\ inbox' = [inbox EXCEPT ![ev[h]] = "free"]
    BY <1>4 DEF HandlerAborts, Rollback
  <2>2. req[h] = "inserting" => inbox[ev[h]] = "held"
    BY DEF LockInv, Held
  <2>3. ASSUME NEW e \in Events
        PROVE  inbox'[e] = inbox[e] \/ (inbox[e] = "held" /\ inbox'[e] = "free")
    BY <2>1, <2>2 DEF TypeOK
  <2>4. QED
    BY <2>1, <2>3 DEF InboxInv, Told, Silence
<1>5. CASE UNCHANGED <<inbox, notified>>
  BY <1>5 DEF TypeOK, CallInv, LockInv, InboxInv, Told, Silence
<1>6. QED
  BY <1>1, <1>2, <1>3, <1>4, <1>5, InboxFrame

\* A request that is answered or given up has inserted nothing, and the others go on.
LEMMA InsertedEnds ==
  ASSUME TypeOK, NEW h \in Requests, NEW answer \in {"ok", "failed"},
         Reply(h, answer) \/ Release(h)
  PROVE  /\ req'[h] # "inserting" /\ inserted'[h] = {}
         /\ \A k \in Requests \ {h} : req'[k] = req[k] /\ ev'[k] = ev[k] /\ inserted'[k] = inserted[k]
  BY DEF TypeOK, Reply, Release

\* Silo: rows become visible one by one, each for the request that inserts it.
LEMMA NextOwn ==
  ASSUME TypeOK, CallInv, LockInv, OwnInv, [Next]_vars
  PROVE  OwnInv'
<1> SUFFICES ASSUME Tier = "silo" PROVE OwnInv'
  BY DEF OwnInv
<1> USE DEF producerVars, passVars, handlerVars, consumerVars
<1>1. ASSUME NEW p \in Passes, NEW e \in Events, Post(p, e) PROVE OwnInv'
  <2>1. PICK h \in Requests : req[h] = "free" /\ req' = [req EXCEPT ![h] = "claiming"]
                              /\ ev' = [ev EXCEPT ![h] = e]
    BY <1>1 DEF Post
  <2>2. UNCHANGED <<inserted, inbox, notified>>
    BY <1>1 DEF Post
  <2>3. QED
    BY <2>1, <2>2 DEF TypeOK, OwnInv
<1>2. ASSUME NEW h \in Requests, NEW answer \in {"ok", "failed"},
             Reply(h, answer) \/ Release(h), UNCHANGED <<inbox, notified>>
      PROVE  OwnInv'
  <2>1. /\ req'[h] # "inserting" /\ inserted'[h] = {}
        /\ \A k \in Requests \ {h} : req'[k] = req[k] /\ ev'[k] = ev[k] /\ inserted'[k] = inserted[k]
    BY <1>2, InsertedEnds
  <2>2. QED
    BY <1>2, <2>1 DEF OwnInv
<1>3. ASSUME NEW h \in Requests, Claim(h) PROVE OwnInv'
  <2>1. /\ req[h] = "claiming" /\ req' = [req EXCEPT ![h] = "inserting"]
        /\ inbox[ev[h]] = "free" /\ inbox' = [inbox EXCEPT ![ev[h]] = "claimed"]
        /\ UNCHANGED <<ev, inserted, notified>>
    BY <1>3 DEF Claim
  <2>2. ev[h] \in Events
    BY <2>1 DEF CallInv
  <2>3. notified[ev[h]] = Silence /\ inserted[h] = {}
    BY <2>1, <2>2 DEF OwnInv
  <2>4. \A u \in Users : notified[ev[h]][u] = 0
    BY <2>3 DEF Silence
  <2>5. \A e \in Events : inbox'[e] = "free" => notified'[e] = Silence
    BY <2>1, <2>2 DEF TypeOK, OwnInv
  <2>6. \A e \in Events, u \in Users : notified'[e][u] <= Told(e)[u]
    BY <2>1 DEF OwnInv
  <2>7. ASSUME NEW k \in Requests
        PROVE  IF req'[k] = "inserting"
                 THEN \A u \in Users : notified'[ev'[k]][u] = IF u \in inserted'[k] THEN 1 ELSE 0
                 ELSE inserted'[k] = {}
    <3>1. CASE k = h
      BY <2>1, <2>3, <2>4, <3>1 DEF TypeOK
    <3>2. CASE k # h
      BY <2>1, <3>2 DEF TypeOK, OwnInv
    <3>3. QED
      BY <3>1, <3>2
  <2>8. QED
    BY <2>5, <2>6, <2>7 DEF OwnInv
<1>4. ASSUME NEW h \in Requests, Insert(h) PROVE OwnInv'
  <2>1. PICK u \in RecipientsOf[ev[h]] \ inserted[h] :
          inserted' = [inserted EXCEPT ![h] = @ \union {u}] /\ AddRows(ev[h], {u})
    BY <1>4 DEF Insert
  <2>2. req[h] = "inserting" /\ UNCHANGED <<req, ev, inbox>>
    BY <1>4 DEF Insert
  <2>3. ev[h] \in Events /\ u \in Users
    BY <2>1, <2>2 DEF CallInv
  <2>4. notified' = [notified EXCEPT ![ev[h]] = [v \in Users |-> notified[ev[h]][v] + (IF v \in {u} THEN 1 ELSE 0)]]
    BY <2>1 DEF AddRows
  <2>5. \A v \in Users : notified[ev[h]][v] = IF v \in inserted[h] THEN 1 ELSE 0
    BY <2>2 DEF OwnInv
  <2>6. \A v \in Users : notified'[ev[h]][v] = IF v \in inserted[h] \union {u} THEN 1 ELSE 0
    BY <2>1, <2>3, <2>4, <2>5 DEF TypeOK
  <2>7. \A e \in Events \ {ev[h]} : notified'[e] = notified[e]
    BY <2>4 DEF TypeOK
  <2>8. inbox[ev[h]] = "claimed"
    BY <2>2 DEF LockInv, Held
  <2>9. \A e \in Events : inbox'[e] = "free" => notified'[e] = Silence
    BY <2>2, <2>7, <2>8 DEF OwnInv
  <2>10. ASSUME NEW e \in Events, NEW v \in Users PROVE notified'[e][v] <= Told(e)[v]
    <3>1. CASE e = ev[h] /\ v = u
      <4>1. Told(e)[v] = 1
        BY <2>1, <3>1 DEF Told
      <4>2. QED
        BY <2>6, <3>1, <4>1
    <3>2. CASE e = ev[h] /\ v # u
      <4>1. notified'[e][v] = notified[e][v]
        BY <2>5, <2>6, <3>2
      <4>2. QED
        BY <4>1 DEF OwnInv
    <3>3. CASE e # ev[h]
      BY <2>7, <3>3 DEF OwnInv
    <3>4. QED
      BY <3>1, <3>2, <3>3
  <2>11. ASSUME NEW k \in Requests
         PROVE  IF req'[k] = "inserting"
                  THEN \A v \in Users : notified'[ev'[k]][v] = IF v \in inserted'[k] THEN 1 ELSE 0
                  ELSE inserted'[k] = {}
    <3>1. CASE k = h
      <4>1. inserted'[k] = inserted[h] \union {u}
        BY <2>1, <3>1 DEF TypeOK
      <4>2. QED
        BY <2>2, <2>6, <3>1, <4>1
    <3>2. CASE k # h
      <4>1. inserted'[k] = inserted[k]
        BY <2>1, <3>2 DEF TypeOK
      <4>2. req[k] = "inserting" => ev[k] \in Events \ {ev[h]}
        BY <2>2, <3>2 DEF CallInv, LockInv
      <4>3. QED
        BY <2>2, <2>7, <4>1, <4>2 DEF OwnInv
    <3>3. QED
      BY <3>1, <3>2
  <2>12. QED
    BY <2>9, <2>10, <2>11 DEF OwnInv
<1>5. CASE UNCHANGED <<req, ev, inserted, inbox, notified>>
  BY <1>5 DEF OwnInv
<1>6. QED
  BY <1>1, <1>2, <1>3, <1>4, <1>5, InsertFrame

\* A positive answer follows the commit of the claim.
LEMMA NextAnswer ==
  ASSUME TypeOK, CallInv, LockInv, AnswerInv, [Next]_vars
  PROVE  AnswerInv'
<1> USE DEF producerVars, passVars, handlerVars, consumerVars
<1>1. \A e \in Events : inbox[e] = "claimed" => inbox'[e] = "claimed"
  BY ClaimStays
<1>2. ASSUME NEW p \in Passes, NEW e \in Events, Post(p, e) PROVE AnswerInv'
  BY <1>2, <1>1 DEF TypeOK, CallInv, LockInv, AnswerInv, Post, Oldest
<1>3. ASSUME NEW p \in Passes, Answered(p) PROVE AnswerInv'
  <2>1. call[p] \in Requests /\ Release(call[p]) /\ inbox' = inbox
    BY <1>3 DEF TypeOK, CallInv, Answered
  <2>2. \A k \in Requests : req'[k] = "ok" => req[k] = "ok" /\ ev'[k] = ev[k]
    BY <2>1, ReleaseEnds
  <2>3. QED
    BY <2>1, <2>2 DEF AnswerInv
<1>4. ASSUME NEW p \in Passes, AnswerFails(p) PROVE AnswerInv'
  <2>1. call[p] \in Requests /\ Release(call[p]) /\ inbox' = inbox
    BY <1>4 DEF TypeOK, CallInv, AnswerFails, Refused, Throw
  <2>2. \A k \in Requests : req'[k] = "ok" => req[k] = "ok" /\ ev'[k] = ev[k]
    BY <2>1, ReleaseEnds
  <2>3. QED
    BY <2>1, <2>2 DEF AnswerInv
<1>5. ASSUME NEW p \in Passes, PassAborts(p) PROVE AnswerInv'
  <2>1. inbox' = inbox
    BY <1>5 DEF PassAborts, Throw
  <2>2. \A k \in Requests : req'[k] = "ok" => req[k] = "ok" /\ ev'[k] = ev[k]
    BY <1>5 DEF PassAborts, Release, TypeOK
  <2>3. QED
    BY <2>1, <2>2 DEF AnswerInv
<1>6. ASSUME NEW h \in Requests, Claim(h) PROVE AnswerInv'
  <2>1. req' = [req EXCEPT ![h] = "inserting"] /\ ev' = ev
    BY <1>6 DEF Claim
  <2>2. QED
    BY <2>1, <1>1 DEF TypeOK, CallInv, AnswerInv
<1>7. ASSUME NEW h \in Requests, Dedupe(h) PROVE AnswerInv'
  BY <1>7, <1>1 DEF TypeOK, CallInv, LockInv, AnswerInv, Dedupe, Reply, Release
<1>8. ASSUME NEW h \in Requests, Commit(h) PROVE AnswerInv'
  <2>1. \A k \in Requests :
          req'[k] # "free" =>
            /\ req'[k] = IF k = h THEN "ok" ELSE req[k]
            /\ ev'[k] = ev[k]
    BY <1>8, ReplyEnds DEF Commit
  <2>2. inbox'[ev[h]] = "claimed" /\ ev[h] \in Events
    BY <1>8 DEF Commit, TypeOK, CallInv, LockInv, Held
  <2>3. QED
    BY <1>1, <2>1, <2>2 DEF CallInv, AnswerInv
<1>9. ASSUME NEW h \in Requests, RejectRow(h) PROVE AnswerInv'
  BY <1>9, <1>1
     DEF TypeOK, CallInv, LockInv, AnswerInv, RejectRow, Rollback, Reply, Release
<1>10. ASSUME NEW h \in Requests, HandlerAborts(h) PROVE AnswerInv'
  BY <1>10, <1>1 DEF TypeOK, CallInv, LockInv, AnswerInv, HandlerAborts, Rollback,
     Reply, Release
<1>11. CASE UNCHANGED <<req, ev, inbox>>
  BY <1>11, <1>1 DEF TypeOK, CallInv, LockInv, AnswerInv
<1>12. QED
  BY <1>2, <1>3, <1>4, <1>5, <1>6, <1>7, <1>8, <1>9, <1>10, <1>11, RequestFrame

\* A pass delivers and stamps settled rows only.
LEMMA NextStamp ==
  ASSUME TypeOK, CallInv, LockInv, AnswerInv, StampInv, [Next]_vars
  PROVE  StampInv'
<1> USE DEF producerVars, passVars, handlerVars, consumerVars
<1>1. \A e \in Events : inbox[e] = "claimed" => inbox'[e] = "claimed"
  BY ClaimStays
<1>2. ASSUME NEW p \in Passes, OpenDrain(p) PROVE StampInv'
  BY <1>2, <1>1 DEF TypeOK, CallInv, AnswerInv, StampInv, Settled, OpenDrain,
     NextTenant, Unpublished, Committed
<1>3. ASSUME NEW p \in Passes, NEW e \in Events, DeliverToNobody(p, e)
      PROVE  StampInv'
  BY <1>3, <1>1 DEF TypeOK, CallInv, AnswerInv, StampInv, Settled, DeliverToNobody,
     MarkDelivered, Oldest
<1>4. ASSUME NEW p \in Passes, Answered(p) PROVE StampInv'
  BY <1>4, <1>1 DEF TypeOK, CallInv, AnswerInv, StampInv, Settled, Answered,
     MarkDelivered, Release
<1>5. ASSUME NEW p \in Passes, AnswerFails(p) PROVE StampInv'
  BY <1>5, <1>1 DEF TypeOK, CallInv, AnswerInv, StampInv, Settled, AnswerFails,
     Refused, Throw, Release
<1>6. ASSUME NEW p \in Passes, Stamp(p) PROVE StampInv'
  BY <1>6, <1>1 DEF TypeOK, CallInv, AnswerInv, StampInv, Settled, Stamp
<1>7. ASSUME NEW p \in Passes, PassAborts(p) PROVE StampInv'
  BY <1>7, <1>1
     DEF TypeOK, CallInv, AnswerInv, StampInv, Settled, PassAborts, Throw, Release
<1>8. CASE UNCHANGED <<rows, delivered, published>>
  BY <1>8, <1>1 DEF TypeOK, CallInv, AnswerInv, StampInv, Settled
<1>9. QED
  BY <1>2, <1>3, <1>4, <1>5, <1>6, <1>7, <1>8, RelayFrame

\* What committed before an event began has a smaller occurred_at.
LEMMA NextHistory ==
  ASSUME TypeOK, HistoryInv, [Next]_vars
  PROVE  HistoryInv'
<1> USE DEF producerVars, passVars, handlerVars, consumerVars
<1>1. ASSUME NEW e \in Events, Begin(e) PROVE HistoryInv'
  BY <1>1 DEF TypeOK, HistoryInv, Begin, Committed
<1>2. ASSUME NEW e \in Events, End(e) PROVE HistoryInv'
  BY <1>2 DEF TypeOK, HistoryInv, End
<1>3. CASE UNCHANGED <<row, clock, occurred, after>>
  BY <1>3 DEF TypeOK, HistoryInv
<1>4. QED
  BY <1>1, <1>2, <1>3, ProducerFrame

\* A drain selects everything of its tenant that is not settled.
LEMMA NextRows ==
  ASSUME TypeOK, CallInv, LockInv, AnswerInv, StampInv, HistoryInv, RowsInv, [Next]_vars
  PROVE  RowsInv'
<1> USE DEF producerVars, passVars, handlerVars, consumerVars
<1>1. \A e \in Events : inbox[e] = "claimed" => inbox'[e] = "claimed"
  BY ClaimStays
<1>2. \A e \in Events : row[e] = "committed" => row'[e] = "committed" /\ after'[e] = after[e]
  BY RowStays
<1>3. ASSUME NEW p \in Passes, OpenDrain(p) PROVE RowsInv'
  <2>1. PICK t \in Tenants : rows' = [rows EXCEPT ![p] = Unpublished(t)]
    BY <1>3 DEF OpenDrain
  <2>2. ASSUME NEW f \in Unpublished(t), NEW e \in after[f]
        PROVE  e \in Unpublished(t) \/ Settled(e)
    BY <2>2 DEF Unpublished, Committed, TypeOK, HistoryInv, StampInv
  <2>3. row' = row /\ after' = after /\ inbox' = inbox
    BY <1>3 DEF OpenDrain
  <2>4. \A f \in Unpublished(t) : row[f] = "committed"
    BY DEF Unpublished, Committed
  <2>5. QED
    BY <2>1, <2>2, <2>3, <2>4 DEF TypeOK, RowsInv, Settled
<1>4. ASSUME NEW p \in Passes, NEW e \in Events, DeliverToNobody(p, e)
      PROVE  RowsInv'
  BY <1>4, <1>1, <1>2 DEF TypeOK, CallInv, AnswerInv, RowsInv, Settled,
     DeliverToNobody, MarkDelivered, Oldest
<1>5. ASSUME NEW p \in Passes, Answered(p) PROVE RowsInv'
  BY <1>5, <1>1, <1>2 DEF TypeOK, CallInv, AnswerInv, RowsInv, Settled, Answered,
     MarkDelivered, Release
<1>6. ASSUME NEW p \in Passes, AnswerFails(p) PROVE RowsInv'
  BY <1>6, <1>1, <1>2 DEF TypeOK, CallInv, AnswerInv, RowsInv, Settled,
     AnswerFails, Refused, Throw, Release
<1>7. ASSUME NEW p \in Passes, Stamp(p) PROVE RowsInv'
  BY <1>7, <1>1, <1>2 DEF TypeOK, CallInv, AnswerInv, RowsInv, Settled, Stamp
<1>8. ASSUME NEW p \in Passes, PassAborts(p) PROVE RowsInv'
  BY <1>8, <1>1, <1>2
     DEF TypeOK, CallInv, AnswerInv, RowsInv, Settled, PassAborts, Throw, Release
<1>9. CASE UNCHANGED <<rows, delivered, published>>
  BY <1>9, <1>1, <1>2 DEF TypeOK, CallInv, AnswerInv, RowsInv, Settled
<1>10. QED
  BY <1>3, <1>4, <1>5, <1>6, <1>7, <1>8, <1>9, RelayFrame

LEMMA CausalKept ==
  ASSUME TypeOK, CallInv, LockInv, CausalInv,
         \A k \in Requests : req'[k] # "free" => req[k] # "free" /\ ev'[k] = ev[k],
         \A e \in Events : inbox'[e] # "free" => inbox[e] # "free",
         \A e \in Events : inbox[e] = "claimed" => inbox'[e] = "claimed",
         \A e \in Events :
           row[e] = "committed" => row'[e] = "committed" /\ after'[e] = after[e]
  PROVE  CausalInv'
<1>1. \A f \in Events : row[f] = "committed" /\ (\A e \in after[f] : Settled(e))
        => \A e \in after'[f] : Settled(e)'
  BY DEF TypeOK, Settled
<1>2. \A h \in Requests : req'[h] # "free" => \A e \in after'[ev'[h]] : Settled(e)'
  BY <1>1 DEF CallInv, LockInv, CausalInv
<1>3. \A f \in Events : inbox'[f] # "free" => \A e \in after'[f] : Settled(e)'
  BY <1>1 DEF LockInv, CausalInv
<1>4. QED
  BY <1>2, <1>3 DEF CausalInv

\* A request is sent for the oldest row, so its predecessors are settled.
LEMMA NextCausal ==
  ASSUME TypeOK, CallInv, LockInv, HistoryInv, RowsInv, CausalInv, [Next]_vars
  PROVE  CausalInv'
<1> USE DEF producerVars, passVars, handlerVars, consumerVars
<1>1. \A e \in Events : inbox[e] = "claimed" => inbox'[e] = "claimed"
  BY ClaimStays
<1>2. \A e \in Events : row[e] = "committed" => row'[e] = "committed" /\ after'[e] = after[e]
  BY RowStays
<1>3. ASSUME NEW p \in Passes, NEW e \in Events, Post(p, e) PROVE CausalInv'
  <2>1. \A f \in after[e] : Settled(f)
    <3>1. \A f \in after[e] : f \in rows[p] \/ Settled(f)
      BY <1>3 DEF Post, Oldest, RowsInv
    <3>2. \A f \in after[e] : occurred[f] < occurred[e] /\ occurred[f] \in Nat /\ occurred[e] \in Nat
      BY DEF HistoryInv, TypeOK
    <3>3. \A f \in rows[p] : occurred[e] <= occurred[f]
      BY <1>3 DEF Post, Oldest
    <3>4. QED
      BY <3>1, <3>2, <3>3
  <2>2. row[e] = "committed"
    BY <1>3 DEF Post, Oldest, RowsInv
  <2>3. PICK h \in Requests :
          /\ req' = [req EXCEPT ![h] = "claiming"]
          /\ ev' = [ev EXCEPT ![h] = e]
    BY <1>3 DEF Post
  <2>4. \A k \in Requests :
          req'[k] # "free" => ev'[k] = e \/ (req[k] # "free" /\ ev'[k] = ev[k])
    BY <2>3 DEF TypeOK
  <2>5. inbox' = inbox
    BY <1>3 DEF Post
  <2>6. ASSUME NEW f \in Events, row[f] = "committed", \A g \in after[f] : Settled(g)
        PROVE  \A g \in after'[f] : Settled(g)'
    BY <1>1, <1>2, <2>6 DEF TypeOK, Settled
  <2>7. ASSUME NEW k \in Requests, req'[k] # "free"
        PROVE  \A g \in after'[ev'[k]] : Settled(g)'
    <3>1. CASE ev'[k] = e
      BY <2>1, <2>2, <2>6, <3>1
    <3>2. CASE req[k] # "free" /\ ev'[k] = ev[k]
      <4>1. ev[k] \in Events /\ row[ev[k]] = "committed" /\ \A g \in after[ev[k]] : Settled(g)
        BY <3>2 DEF CallInv, LockInv, CausalInv
      <4>2. QED
        BY <2>6, <3>2, <4>1
    <3>3. QED
      BY <2>4, <2>7, <3>1, <3>2
  <2>8. ASSUME NEW f \in Events, inbox'[f] # "free"
        PROVE  \A g \in after'[f] : Settled(g)'
    <3>1. row[f] = "committed" /\ \A g \in after[f] : Settled(g)
      BY <2>5, <2>8 DEF LockInv, CausalInv
    <3>2. QED
      BY <2>6, <3>1
  <2>9. QED
    BY <2>7, <2>8 DEF CausalInv
<1>4. ASSUME NEW p \in Passes, Answered(p) PROVE CausalInv'
  <2>1. call[p] \in Requests /\ Release(call[p]) /\ inbox' = inbox
    BY <1>4 DEF TypeOK, CallInv, Answered
  <2>2. \A k \in Requests : req'[k] # "free" => req[k] # "free" /\ ev'[k] = ev[k]
    BY <2>1, ReleaseEnds
  <2>3. /\ \A k \in Requests : req'[k] # "free" => req[k] # "free" /\ ev'[k] = ev[k]
        /\ \A e \in Events : inbox'[e] # "free" => inbox[e] # "free"
    BY <2>1, <2>2
  <2>4. QED
    BY <1>1, <1>2, <2>3, CausalKept
<1>5. ASSUME NEW p \in Passes, AnswerFails(p) PROVE CausalInv'
  BY <1>5, <1>1, <1>2 DEF TypeOK, CallInv, LockInv, CausalInv, Settled,
     AnswerFails, Refused, Throw, Release
<1>6. ASSUME NEW p \in Passes, PassAborts(p) PROVE CausalInv'
  <2>1. \A k \in Requests : req'[k] # "free" => req'[k] = req[k] /\ ev'[k] = ev[k]
    <3>1. CASE pass[p] = "awaiting" /\ req[call[p]] = "ok"
      <4>1. call[p] \in Requests /\ Release(call[p])
        BY <1>6, <3>1 DEF TypeOK, CallInv, PassAborts
      <4>2. QED
        BY <4>1, ReleaseEnds
    <3>2. CASE ~(pass[p] = "awaiting" /\ req[call[p]] = "ok")
      BY <1>6, <3>2 DEF PassAborts
    <3>3. QED
      BY <3>1, <3>2
  <2>2. inbox' = inbox
    BY <1>6 DEF PassAborts, Throw
  <2>3. /\ \A k \in Requests : req'[k] # "free" => req[k] # "free" /\ ev'[k] = ev[k]
        /\ \A e \in Events : inbox'[e] # "free" => inbox[e] # "free"
    BY <2>1, <2>2 DEF TypeOK, CallInv, LockInv
  <2>4. QED
    BY <1>1, <1>2, <2>1, <2>3, CausalKept
<1>7. ASSUME NEW h \in Requests, Claim(h) PROVE CausalInv'
  BY <1>7, <1>1, <1>2 DEF TypeOK, CallInv, LockInv, CausalInv, Settled, Claim
<1>8. ASSUME NEW h \in Requests, Dedupe(h) PROVE CausalInv'
  <2>1. \A k \in Requests :
          req'[k] # "free" =>
            /\ req'[k] = IF k = h THEN "ok" ELSE req[k]
            /\ ev'[k] = ev[k]
    BY <1>8, ReplyEnds DEF Dedupe
  <2>2. req[h] = "claiming" /\ inbox' = inbox
    BY <1>8 DEF Dedupe
  <2>3. /\ \A k \in Requests : req'[k] # "free" => req[k] # "free" /\ ev'[k] = ev[k]
        /\ \A e \in Events : inbox'[e] # "free" => inbox[e] # "free"
    BY <2>1, <2>2 DEF TypeOK, CallInv, LockInv
  <2>4. QED
    BY <1>1, <1>2, <2>1, <2>3, CausalKept
<1>9. ASSUME NEW h \in Requests, Commit(h) PROVE CausalInv'
  <2>1. \A k \in Requests :
          req'[k] # "free" =>
            /\ req'[k] = IF k = h THEN "ok" ELSE req[k]
            /\ ev'[k] = ev[k]
    BY <1>9, ReplyEnds DEF Commit
  <2>2. req[h] = "inserting" /\ inbox' = IF Tier = "pool" THEN [inbox EXCEPT ![ev[h]] = "claimed"] ELSE inbox
    BY <1>9 DEF Commit
  <2>3. /\ \A k \in Requests : req'[k] # "free" => req[k] # "free" /\ ev'[k] = ev[k]
        /\ \A e \in Events : inbox'[e] # "free" => inbox[e] # "free"
    BY <2>1, <2>2 DEF TypeOK, CallInv, LockInv, Held
  <2>4. QED
    BY <1>1, <1>2, <2>1, <2>3, CausalKept
<1>10. ASSUME NEW h \in Requests, RejectRow(h) PROVE CausalInv'
  <2>1. \A k \in Requests :
          req'[k] # "free" =>
            /\ req'[k] = IF k = h THEN "failed" ELSE req[k]
            /\ ev'[k] = ev[k]
    BY <1>10, ReplyEnds DEF RejectRow, Doomed, Rollback
  <2>2. req[h] = "inserting" /\ inbox' = IF Tier = "pool" THEN [inbox EXCEPT ![ev[h]] = "free"] ELSE inbox
    BY <1>10 DEF RejectRow, Doomed, Rollback
  <2>3. /\ \A k \in Requests : req'[k] # "free" => req[k] # "free" /\ ev'[k] = ev[k]
        /\ \A e \in Events : inbox'[e] # "free" => inbox[e] # "free"
    BY <2>1, <2>2 DEF TypeOK, CallInv, LockInv
  <2>4. QED
    BY <1>1, <1>2, <2>1, <2>3, CausalKept
<1>11. ASSUME NEW h \in Requests, HandlerAborts(h) PROVE CausalInv'
  <2>1. \A k \in Requests :
          req'[k] # "free" =>
            /\ req'[k] = IF k = h THEN "failed" ELSE req[k]
            /\ ev'[k] = ev[k]
    BY <1>11, ReplyEnds DEF HandlerAborts, Rollback
  <2>2. /\ req[h] \in {"claiming", "inserting"}
        /\ inbox' = IF Tier = "pool" /\ req[h] = "inserting"
                      THEN [inbox EXCEPT ![ev[h]] = "free"] ELSE inbox
    BY <1>11 DEF HandlerAborts, Rollback
  <2>3. /\ \A k \in Requests : req'[k] # "free" => req[k] # "free" /\ ev'[k] = ev[k]
        /\ \A e \in Events : inbox'[e] # "free" => inbox[e] # "free"
    BY <2>1, <2>2 DEF TypeOK, CallInv, LockInv
  <2>4. QED
    BY <1>1, <1>2, <2>1, <2>3, CausalKept
<1>12. CASE UNCHANGED <<req, ev, inbox>>
  BY <1>12, <1>1, <1>2 DEF TypeOK, CallInv, LockInv, CausalInv, Settled
<1>13. QED
  BY <1>3, <1>4, <1>5, <1>6, <1>7, <1>8, <1>9, <1>10, <1>11, <1>12, RequestFrame

-----------------------------------------------------------------------------
LEMMA InitInv == Init => IInv
<1>1. Init => CallInv
  BY DEF Init, CallInv
<1>2. Init => LockInv /\ InboxInv /\ OwnInv /\ AnswerInv
  <2> SUFFICES ASSUME Init PROVE LockInv /\ InboxInv /\ OwnInv /\ AnswerInv
    OBVIOUS
  <2>1. LockInv /\ InboxInv /\ AnswerInv
    BY DEF Init, LockInv, InboxInv, AnswerInv
  <2>2. \A e \in Events, u \in Users : notified[e] = Silence /\ Silence[u] = 0 /\ Told(e)[u] \in {0, 1}
    BY DEF Init, Silence, Told
  <2>3. QED
    BY <2>1, <2>2 DEF Init, OwnInv
<1>3. Init => StampInv /\ HistoryInv /\ RowsInv /\ CausalInv
  BY DEF Init, StampInv, HistoryInv, RowsInv, CausalInv
<1>4. QED
  BY <1>1, <1>2, <1>3, InitType DEF IInv

LEMMA NextInv ==
  ASSUME IInv, [Next]_vars
  PROVE  IInv'
<1>1. TypeOK' /\ CallInv'
  BY NextType, NextCall DEF IInv
<1>2. LockInv' /\ InboxInv' /\ OwnInv' /\ AnswerInv'
  BY NextLock, NextInbox, NextOwn, NextAnswer DEF IInv, InboxInv
<1>3. StampInv' /\ HistoryInv'
  BY NextStamp, NextHistory DEF IInv
<1>4. RowsInv' /\ CausalInv'
  BY NextRows, NextCausal DEF IInv
<1>5. QED
  BY <1>1, <1>2, <1>3, <1>4 DEF IInv

\* Every reachable state is well typed, in either tier, for any number of
\* tenants, events, passes and requests.
THEOREM TypeCorrect == Spec => []TypeOK
<1>1. Init => TypeOK /\ CallInv
  BY InitType, InitInv DEF IInv
<1>2. TypeOK /\ CallInv /\ [Next]_vars => (TypeOK /\ CallInv)'
  BY NextType, NextCall
<1>3. QED
  BY <1>1, <1>2, PTL DEF Spec

\* The invariant that every decision of the relay rests on, in either tier: what it
\* counts as delivered, stamps or passes over is settled in event_inbox.
THEOREM RelayInvariant == Spec => []IInv
<1>1. IInv /\ [Next]_vars => IInv'
  BY NextInv
<1>2. QED
  BY InitInv, <1>1, PTL DEF Spec

\* A retry never duplicates a notification, in either tier: however often and by
\* however many passes at once an event is delivered, and wherever a request that
\* inserts dies, a recipient has at most one row for it.
THEOREM NoDuplicateNotification == Spec => []AtMostOnce
<1>1. IInv => AtMostOnce
  <2> SUFFICES ASSUME IInv, NEW e \in Events, NEW u \in Users
               PROVE  notified[e][u] <= 1
    BY DEF AtMostOnce
  <2>1. Told(e)[u] \in {0, 1} /\ Silence[u] = 0 /\ notified[e][u] \in Nat
    BY DEF Told, Silence, IInv, TypeOK
  <2>2. CASE Tier = "pool"
    <3>1. notified[e] = Told(e) \/ notified[e] = Silence
      BY <2>2 DEF IInv, InboxInv
    <3>2. QED
      BY <2>1, <3>1
  <2>3. CASE Tier = "silo"
    <3>1. notified[e][u] <= Told(e)[u]
      BY <2>3 DEF IInv, OwnInv
    <3>2. QED
      BY <2>1, <3>1
  <2>4. QED
    BY <2>2, <2>3
<1>2. QED
  BY <1>1, RelayInvariant, PTL

\* Rows for an event are for those its payload names, once it has committed.
OnlyWhoIsNamed == \A e \in Events :
  /\ \A u \in Users \ RecipientsOf[e] : notified[e][u] = 0
  /\ row[e] # "committed" => notified[e] = Silence

\* Nobody is told of an event whom its payload does not name, and nobody before
\* the transaction that wrote the event committed, in either tier.
THEOREM OnlyTheNamedAreTold == Spec => []OnlyWhoIsNamed
<1>1. IInv => OnlyWhoIsNamed
  <2> SUFFICES ASSUME IInv, NEW e \in Events
               PROVE  /\ \A u \in Users \ RecipientsOf[e] : notified[e][u] = 0
                      /\ row[e] # "committed" => notified[e] = Silence
    BY DEF OnlyWhoIsNamed
  <2>1. \A u \in Users : notified[e][u] \in Nat
    BY DEF IInv, TypeOK
  <2>2. \A u \in Users \ RecipientsOf[e] : Told(e)[u] = 0 /\ Silence[u] = 0
    BY DEF Told, Silence
  <2>3. row[e] # "committed" => inbox[e] = "free"
    BY DEF IInv, LockInv
  <2>4. CASE Tier = "pool"
    <3>1. notified[e] = IF inbox[e] = "claimed" THEN Told(e) ELSE Silence
      BY <2>4 DEF IInv, InboxInv
    <3>2. QED
      BY <2>2, <2>3, <3>1
  <2>5. CASE Tier = "silo"
    <3>1. /\ \A u \in Users : notified[e][u] <= Told(e)[u]
          /\ inbox[e] = "free" => notified[e] = Silence
      BY <2>5 DEF IInv, OwnInv
    <3>2. QED
      BY <2>1, <2>2, <2>3, <3>1
  <2>6. QED
    BY <2>4, <2>5
<1>2. QED
  BY <1>1, RelayInvariant, PTL

\* In either tier a request that inserted and is not interrupted has told everybody
\* the event names by the time it answers: only what dies in between loses rows.
THEOREM CompletedIsWhole ==
  Spec => [][\A h \in Requests : Commit(h) => notified'[ev[h]] = Told(ev[h])]_vars
<1>1. IInv /\ [Next]_vars
      => [\A h \in Requests : Commit(h) => notified'[ev[h]] = Told(ev[h])]_vars
  <2> SUFFICES ASSUME IInv, NEW h \in Requests, Commit(h)
               PROVE  notified'[ev[h]] = Told(ev[h])
    OBVIOUS
  <2>1. req[h] = "inserting" /\ inserted[h] = RecipientsOf[ev[h]]
    BY DEF Commit
  <2>2. ev[h] \in Events /\ inbox[ev[h]] = Held
    BY <2>1 DEF IInv, CallInv, LockInv
  <2>3. notified[ev[h]] \in [Users -> Nat] /\ notified[ev[h]] = [u \in Users |-> notified[ev[h]][u]]
    BY <2>2 DEF IInv, TypeOK
  <2>4. CASE Tier = "pool"
    <3>1. notified[ev[h]] = Silence
      BY <2>2, <2>4 DEF IInv, InboxInv, Held
    <3>2. notified'[ev[h]] = [u \in Users |-> notified[ev[h]][u] + (IF u \in inserted[h] THEN 1 ELSE 0)]
      BY <2>2, <2>4 DEF Commit, AddRows, IInv, TypeOK
    <3>3. QED
      BY <2>1, <3>1, <3>2 DEF Silence, Told
  <2>5. CASE Tier = "silo"
    <3>1. notified' = notified
      BY <2>5 DEF Commit, consumerVars
    <3>2. \A u \in Users : notified[ev[h]][u] = IF u \in inserted[h] THEN 1 ELSE 0
      BY <2>1, <2>5 DEF IInv, OwnInv
    <3>3. QED
      BY <2>1, <2>3, <3>1, <3>2 DEF Told
  <2>6. QED
    BY <2>4, <2>5
<1>2. QED
  BY <1>1, RelayInvariant, PTL DEF Spec

\* A stamp follows the claim, and a claim follows those of earlier events.
ClaimedInOrder ==
  /\ \A e \in published : Settled(e)
  /\ \A f \in Events : inbox[f] # "free" => \A e \in after[f] : Settled(e)

\* In either tier what the relay has stamped, if it is routed and names somebody,
\* was claimed for good, and an event is claimed only after those that had
\* committed in its tenant when it began.
THEOREM ClaimsAreInOrder == Spec => []ClaimedInOrder
<1>1. IInv => ClaimedInOrder
  BY DEF IInv, StampInv, CausalInv, ClaimedInOrder
<1>2. QED
  BY <1>1, RelayInvariant, PTL

\* What the relay has stamped as published has been notified to everybody it
\* names, if its type is routed: no failure between the claim, the rows, the
\* answer and the stamp loses a notification.
THEOREM NoLostNotification ==
  ASSUME Tier = "pool"
  PROVE  Spec => []StampedIsNotified
<1>1. IInv => StampedIsNotified
  <2> SUFFICES ASSUME IInv, NEW e \in published \intersect Subscribed
               PROVE  notified[e] = Told(e)
    BY DEF StampedIsNotified
  <2>1. e \in Events /\ Settled(e)
    BY DEF IInv, TypeOK, StampInv
  <2>2. RecipientsOf[e] = {} => Told(e) = Silence
    BY DEF Told, Silence
  <2>3. QED
    BY <2>1, <2>2 DEF IInv, InboxInv, Settled
<1>2. QED
  BY <1>1, RelayInvariant, PTL

\* Notifications respect causality within a tenant: nobody is told of an event
\* before the recipients of an event that had committed when it began.
THEOREM CausalNotification ==
  ASSUME Tier = "pool"
  PROVE  Spec => []CausalOrder
<1>1. IInv => CausalOrder
  <2> SUFFICES ASSUME IInv, NEW f \in Events, NEW e \in after[f] \intersect Subscribed,
                      RecipientsOf[e] # {}, notified[f] # Silence
               PROVE  notified[e] # Silence
    BY DEF CausalOrder
  <2>1. e \in Events
    BY DEF IInv, TypeOK
  <2>2. inbox[f] = "claimed"
    BY DEF IInv, InboxInv
  <2>3. inbox[e] = "claimed"
    BY <2>2 DEF IInv, CausalInv, Settled
  <2>4. notified[e] = Told(e)
    BY <2>1, <2>3 DEF IInv, InboxInv
  <2>5. PICK u \in Users : u \in RecipientsOf[e]
    BY <2>1
  <2>6. Told(e)[u] = 1 /\ Silence[u] = 0
    BY <2>5 DEF Told, Silence
  <2>7. QED
    BY <2>4, <2>6
<1>2. QED
  BY <1>1, RelayInvariant, PTL

\* A claim in event_inbox stands for all of its rows: they commit together.
THEOREM ClaimAndRowsTogether ==
  ASSUME Tier = "pool"
  PROVE  Spec => []ClaimIsWhole
<1>1. IInv => ClaimIsWhole
  BY DEF IInv, InboxInv, ClaimIsWhole
<1>2. QED
  BY <1>1, RelayInvariant, PTL

\* The outbox, the relay and the inbox together implement EventDelivery: a
\* committed event notifies all of its recipients in one step, once.
THEOREM RelayImplementsDelivery ==
  ASSUME Tier = "pool"
  PROVE  Spec => RefinesEventDelivery
<1> USE DEF Delivery!vars, Delivery!Silence, Delivery!Told, Silence, Told, Committed
<1>1. Init => Delivery!Init
  BY DEF Init, Delivery!Init
<1>2. IInv /\ [Next]_vars => [Delivery!Next]_(Delivery!vars)
  <2> SUFFICES ASSUME IInv, [Next]_vars
               PROVE  Delivery!Next \/ UNCHANGED <<Committed, notified>>
    BY DEF Delivery!Next
  <2> USE DEF producerVars, passVars, handlerVars, consumerVars
  <2>1. CASE UNCHANGED <<inbox, notified>>
    <3>1. ASSUME NEW e \in Events, Begin(e) PROVE UNCHANGED <<Committed, notified>>
      BY <3>1, <2>1 DEF Begin, IInv, TypeOK
    <3>2. ASSUME NEW e \in Events, End(e)
          PROVE  Delivery!Next \/ UNCHANGED <<Committed, notified>>
      <4>1. CASE row'[e] = "committed"
        <5>1. e \notin Committed /\ Committed' = Committed \union {e}
          BY <3>2, <4>1 DEF End, IInv, TypeOK
        <5>2. QED
          BY <5>1, <2>1 DEF Delivery!Next, Delivery!Commit
      <4>2. CASE row'[e] # "committed"
        BY <3>2, <4>2, <2>1 DEF End, IInv, TypeOK
      <4>3. QED
        BY <4>1, <4>2
    <3>3. CASE UNCHANGED <<row, clock, occurred, after>>
      BY <3>3, <2>1
    <3>4. QED
      BY <3>1, <3>2, <3>3, ProducerFrame
  <2>2. ASSUME NEW h \in Requests, Claim(h) PROVE UNCHANGED <<Committed, notified>>
    BY <2>2 DEF Claim
  <2>3. ASSUME NEW h \in Requests, Commit(h) PROVE Delivery!Next
    <3>1. ev[h] \in Events /\ inbox[ev[h]] = "held" /\ row[ev[h]] = "committed"
      BY <2>3 DEF Commit, IInv, CallInv, LockInv, Held
    <3>2. notified[ev[h]] = Silence
      BY <3>1 DEF IInv, InboxInv
    <3>3. [u \in Users |-> notified[ev[h]][u] + (IF u \in inserted[h] THEN 1 ELSE 0)]
          = Told(ev[h])
      BY <2>3, <3>2 DEF Commit
    <3>4. notified' = [notified EXCEPT ![ev[h]] = Told(ev[h])] /\ Committed' = Committed
      BY <2>3, <3>3 DEF Commit, AddRows
    <3>5. Delivery!Notify(ev[h])
      BY <3>1, <3>2, <3>4 DEF Delivery!Notify
    <3>6. QED
      BY <3>1, <3>5 DEF Delivery!Next
  <2>4. ASSUME NEW h \in Requests, RejectRow(h)
        PROVE  UNCHANGED <<Committed, notified>>
    BY <2>4 DEF RejectRow, Rollback
  <2>5. ASSUME NEW h \in Requests, HandlerAborts(h)
        PROVE  UNCHANGED <<Committed, notified>>
    BY <2>5 DEF HandlerAborts, Rollback
  <2>6. QED
    BY <2>1, <2>2, <2>3, <2>4, <2>5, InboxFrame
<1>3. QED
  BY <1>1, <1>2, RelayInvariant, PTL DEF Spec, RefinesEventDelivery, Delivery!Spec
=============================================================================
