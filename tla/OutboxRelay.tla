---------------------------- MODULE OutboxRelay ----------------------------
(***************************************************************************)
(* The transactional outbox, the relay worker that drains it, and the      *)
(* notification service that consumes it.                                  *)
(*                                                                         *)
(*   producer transactions  --commit-->  event_outbox                      *)
(*   relay pass (runOnce)   --select, POST /events, stamp-->  consumer     *)
(*   notification handler   --claim event_inbox, insert rows, commit-->    *)
(*                                                                         *)
(* A step is one database statement, one transaction boundary or one HTTP  *)
(* hand-over.  Passes run concurrently (the poll loop, POST /relay/run and *)
(* every further relay instance), a pass may die at any point, and the     *)
(* handler it called goes on without it.                                   *)
(***************************************************************************)
EXTENDS Naturals, FiniteSets

CONSTANTS
  Tenants,       \* tenant ids
  CreatedAt,     \* [Tenants -> Nat], the order in which listTenantIds lists them
  Events,        \* outbox row ids
  TenantOf,      \* [Events -> Tenants]
  Users,         \* user ids
  RecipientsOf,  \* [Events -> SUBSET Users], payload.recipientIds
  Subscribed,    \* events of a type the relay routes to the notification service
  UnknownUsers,  \* ids that violate notification.user_id's foreign key
  Passes,        \* executions of OutboxRelay.runOnce
  Requests,      \* POST /events requests in flight at once
  None,          \* no event, no request
  Tier,          \* "pool": withTenant is one transaction; "silo": it is none
  TimeLimit,     \* work that an interactive transaction has time for: a unit for
                 \* each row inserted and, in a drain, for each row delivered
  MaxBegun,      \* bound: producer transactions that ever begin
  MaxOpen        \* bound: producer transactions open at once

ASSUME TenantAssumption ==
  /\ TenantOf \in [Events -> Tenants]
  /\ CreatedAt \in [Tenants -> Nat]
ASSUME EventAssumption ==
  /\ RecipientsOf \in [Events -> SUBSET Users]
  /\ Subscribed \subseteq Events
  /\ UnknownUsers \subseteq Users
ASSUME NoneAssumption == None \notin Events \union Requests
ASSUME TierAssumption == Tier \in {"pool", "silo"}
ASSUME LimitAssumption == TimeLimit \in Nat
ASSUME BoundAssumption == MaxBegun \in Nat /\ MaxOpen \in Nat

VARIABLES
  row,        \* producer transaction of an event: idle, open, committed, aborted
  clock,      \* the database clock
  occurred,   \* event_outbox.occurred_at
  after,      \* history: same-tenant events already committed when it began
  active,     \* tenants with status 'active'
  published,  \* events with published_at set
  pass,       \* per pass: idle, walking, draining, awaiting
  todo,       \* per pass: tenants it has listed and not visited
  rows,       \* per pass: selected rows not yet delivered
  delivered,  \* per pass: deliveredIds
  call,       \* per pass: the request it awaits
  spent,      \* per pass: units of time since its drain began
  req,        \* per request: free, claiming, inserting, ok, failed
  ev,         \* per request: its message_id
  inserted,   \* per request: recipients whose rows it has inserted
  inbox,      \* event_inbox entry of an event: free, held (uncommitted), claimed
  notified    \* notified[e][u]: visible notification rows

producerVars == <<row, clock, occurred, after>>
passVars     == <<pass, todo, rows, delivered, call>>
handlerVars  == <<req, ev, inserted>>
consumerVars == <<inbox, notified>>
vars == <<producerVars, active, published, passVars, spent, handlerVars, consumerVars>>

Silence == [u \in Users |-> 0]
Told(e) == [u \in Users |-> IF u \in RecipientsOf[e] THEN 1 ELSE 0]

Committed == {e \in Events : row[e] = "committed"}

Init ==
  /\ row = [e \in Events |-> "idle"]
  /\ clock = 0
  /\ occurred = [e \in Events |-> 0]
  /\ after = [e \in Events |-> {}]
  /\ active = Tenants
  /\ published = {}
  /\ pass = [p \in Passes |-> "idle"]
  /\ todo = [p \in Passes |-> {}]
  /\ rows = [p \in Passes |-> {}]
  /\ delivered = [p \in Passes |-> {}]
  /\ call = [p \in Passes |-> None]
  /\ spent = [p \in Passes |-> 0]
  /\ req = [h \in Requests |-> "free"]
  /\ ev = [h \in Requests |-> None]
  /\ inserted = [h \in Requests |-> {}]
  /\ inbox = [e \in Events |-> "free"]
  /\ notified = [e \in Events |-> Silence]

-----------------------------------------------------------------------------
(* Producers: a domain service writes its change and the outbox row in one *)
(* transaction; occurred_at defaults to now(), the transaction's START.    *)

Begin(e) ==
  /\ row[e] = "idle"
  /\ clock < MaxBegun /\ Cardinality({f \in Events : row[f] = "open"}) < MaxOpen
  /\ row' = [row EXCEPT ![e] = "open"]
  /\ clock' = clock + 1
  /\ occurred' = [occurred EXCEPT ![e] = clock + 1]
  /\ after' = [after EXCEPT ![e] = {f \in Committed : TenantOf[f] = TenantOf[e]}]
  /\ UNCHANGED <<active, published, passVars, spent, handlerVars, consumerVars>>

End(e) ==
  /\ row[e] = "open"
  /\ \E outcome \in {"committed", "aborted"} : row' = [row EXCEPT ![e] = outcome]
  /\ UNCHANGED <<clock, occurred, after, active, published, passVars, spent,
                 handlerVars, consumerVars>>

\* Offboarding marks the tenant 'deleted'; listTenantIds no longer lists it.
Deactivate(t) ==
  /\ t \in active
  /\ active' = active \ {t}
  /\ UNCHANGED <<producerVars, published, passVars, spent, handlerVars, consumerVars>>

-----------------------------------------------------------------------------
(* The relay pass: OutboxRelay.runOnce over drainTenant.                   *)

StartPass(p) ==
  /\ pass[p] = "idle"
  /\ pass' = [pass EXCEPT ![p] = "walking"]
  /\ todo' = [todo EXCEPT ![p] = active]
  /\ UNCHANGED <<producerVars, active, published, rows, delivered, call, spent,
                 handlerVars, consumerVars>>

NextTenant(p, t) ==
  /\ t \in todo[p]
  /\ \A s \in todo[p] : CreatedAt[t] <= CreatedAt[s]

\* drainTenant's SELECT ... WHERE published_at IS NULL
Unpublished(t) == {e \in Committed \ published : TenantOf[e] = t}

OpenDrain(p) ==
  /\ pass[p] = "walking"
  /\ \E t \in Tenants :
       /\ NextTenant(p, t)
       /\ todo' = [todo EXCEPT ![p] = @ \ {t}]
       /\ rows' = [rows EXCEPT ![p] = Unpublished(t)]
  /\ delivered' = [delivered EXCEPT ![p] = {}]
  /\ pass' = [pass EXCEPT ![p] = "draining"]
  /\ UNCHANGED <<producerVars, active, published, call, spent, handlerVars, consumerVars>>

\* Mutant: the SELECT without its ORDER BY.
OldestUnordered(p, e) == e \in rows[p]

\* ORDER BY occurred_at ASC
Oldest(p, e) ==
  /\ e \in rows[p]
  /\ \A f \in rows[p] : occurred[e] <= occurred[f]

\* The row counts as delivered and the loop moves on.
MarkDelivered(p, e) ==
  /\ rows' = [rows EXCEPT ![p] = @ \ {e}]
  /\ delivered' = [delivered EXCEPT ![p] = @ \union {e}]

\* InProcessTransport finds no handler for the type, or the handler finds no
\* recipients: deliver() resolves and nobody is told.
DeliverToNobody(p, e) ==
  /\ pass[p] = "draining"
  /\ Oldest(p, e)
  /\ e \notin Subscribed \/ RecipientsOf[e] = {}
  /\ MarkDelivered(p, e)
  /\ UNCHANGED <<producerVars, active, published, pass, todo, call, spent,
                 handlerVars, consumerVars>>

\* Mutant: the request carries the row's occurred_at for its message_id.
PostWrongId(p, e) ==
  /\ pass[p] = "draining"
  /\ Oldest(p, e)
  /\ e \in Subscribed /\ RecipientsOf[e] # {}
  /\ \E h \in Requests :
       /\ req[h] = "free"
       /\ req' = [req EXCEPT ![h] = "claiming"]
       /\ ev' = [ev EXCEPT ![h] = occurred[e]]
       /\ call' = [call EXCEPT ![p] = h]
  /\ pass' = [pass EXCEPT ![p] = "awaiting"]
  /\ UNCHANGED <<producerVars, active, published, todo, rows, delivered, spent, inserted,
                 consumerVars>>

Post(p, e) ==
  /\ pass[p] = "draining"
  /\ Oldest(p, e)
  /\ e \in Subscribed /\ RecipientsOf[e] # {}
  /\ \E h \in Requests :
       /\ req[h] = "free"
       /\ req' = [req EXCEPT ![h] = "claiming"]
       /\ ev' = [ev EXCEPT ![h] = e]
       /\ call' = [call EXCEPT ![p] = h]
  /\ pass' = [pass EXCEPT ![p] = "awaiting"]
  /\ UNCHANGED <<producerVars, active, published, todo, rows, delivered, spent, inserted,
                 consumerVars>>

\* The answer is read, or there is nobody left to read it.
Release(h) ==
  /\ req' = [req EXCEPT ![h] = "free"]
  /\ ev' = [ev EXCEPT ![h] = None]
  /\ inserted' = [inserted EXCEPT ![h] = {}]

\* The 2xx answer arrives.
Answered(p) ==
  /\ pass[p] = "awaiting"
  /\ req[call[p]] = "ok"
  /\ MarkDelivered(p, ev[call[p]])
  /\ Release(call[p])
  /\ call' = [call EXCEPT ![p] = None]
  /\ spent' = [spent EXCEPT ![p] = @ + 1]
  /\ pass' = [pass EXCEPT ![p] = "draining"]
  /\ UNCHANGED <<producerVars, active, published, todo, consumerVars>>

\* withTenant opens the drain's transaction without options: Prisma rolls it back
\* when its time is up.  Deliveries go on, the next statement throws.
DrainLate(p) == Tier = "pool" /\ spent[p] > TimeLimit

\* One UPDATE stamps every delivered row and the transaction commits.
Stamp(p) ==
  /\ pass[p] = "draining"
  /\ rows[p] = {}
  /\ ~DrainLate(p)
  /\ published' = published \union delivered[p]
  /\ pass' = [pass EXCEPT ![p] = "walking"]
  /\ delivered' = [delivered EXCEPT ![p] = {}]
  /\ spent' = [spent EXCEPT ![p] = 0]
  /\ UNCHANGED <<producerVars, active, todo, rows, call, handlerVars, consumerVars>>

EndPass(p) ==
  /\ pass[p] = "walking"
  /\ todo[p] = {}
  /\ pass' = [pass EXCEPT ![p] = "idle"]
  /\ UNCHANGED <<producerVars, active, published, todo, rows, delivered, call, spent,
                 handlerVars, consumerVars>>

\* A throw out of drainTenant ends the WHOLE pass.  The drain's transaction
\* rolls back, so nothing is stamped, and the tenants still to visit are not
\* visited.  A handler that is running is not told.
Throw(p) ==
  /\ pass' = [pass EXCEPT ![p] = "idle"]
  /\ todo' = [todo EXCEPT ![p] = {}]
  /\ rows' = [rows EXCEPT ![p] = {}]
  /\ delivered' = [delivered EXCEPT ![p] = {}]
  /\ call' = [call EXCEPT ![p] = None]
  /\ spent' = [spent EXCEPT ![p] = 0]
  /\ UNCHANGED <<producerVars, active, published, consumerVars>>

Refused(p) == pass[p] = "awaiting" /\ req[call[p]] = "failed"

\* A non-2xx answer.
AnswerFails(p) ==
  /\ Refused(p)
  /\ Throw(p)
  /\ Release(call[p])

\* The UPDATE of a drain that took too long, though every row was delivered.
DrainExpires(p) ==
  /\ pass[p] = "draining"
  /\ rows[p] = {}
  /\ DrainLate(p)
  /\ Throw(p)
  /\ UNCHANGED handlerVars

\* A lost answer, a lost connection, a crash of the worker, a drain that was slow
\* for another reason than its work.
PassAborts(p) ==
  /\ pass[p] # "idle"
  /\ ~Refused(p)
  /\ Throw(p)
  /\ IF pass[p] = "awaiting" /\ req[call[p]] = "ok"
       THEN Release(call[p]) ELSE UNCHANGED handlerVars

-----------------------------------------------------------------------------
(* The notification service: POST /events and NotificationStore.ingestEvent.*)

Awaited(h) == \E p \in Passes : call[p] = h

\* The handler ends; nobody reads the answer of a request whose pass is gone.
Reply(h, answer) ==
  IF Awaited(h)
    THEN /\ req' = [req EXCEPT ![h] = answer]
         /\ inserted' = [inserted EXCEPT ![h] = {}]
         /\ UNCHANGED ev
    ELSE Release(h)

\* Mutant: ON CONFLICT DO UPDATE, which claims an event again.
ClaimAgain(h) ==
  /\ req[h] = "claiming"
  /\ inbox[ev[h]] # "held"
  /\ inbox' = [inbox EXCEPT ![ev[h]] = IF Tier = "pool" THEN "held" ELSE "claimed"]
  /\ req' = [req EXCEPT ![h] = "inserting"]
  /\ UNCHANGED <<producerVars, active, published, passVars, spent, ev, inserted, notified>>

\* INSERT INTO event_inbox ... ON CONFLICT DO NOTHING.  Against an uncommitted
\* claim of another transaction the statement waits.
Claim(h) ==
  /\ req[h] = "claiming"
  /\ inbox[ev[h]] = "free"
  /\ inbox' = [inbox EXCEPT ![ev[h]] = IF Tier = "pool" THEN "held" ELSE "claimed"]
  /\ req' = [req EXCEPT ![h] = "inserting"]
  /\ UNCHANGED <<producerVars, active, published, passVars, spent, ev, inserted, notified>>

\* Mutant: an uncommitted claim of another request counts as processed.
DedupeEarly(h) ==
  /\ req[h] = "claiming"
  /\ inbox[ev[h]] # "free"
  /\ Reply(h, "ok")
  /\ UNCHANGED <<producerVars, active, published, passVars, spent, consumerVars>>

\* Mutant: a redelivery is answered with a conflict.
DedupeRefuses(h) ==
  /\ req[h] = "claiming"
  /\ inbox[ev[h]] = "claimed"
  /\ Reply(h, "failed")
  /\ UNCHANGED <<producerVars, active, published, passVars, spent, consumerVars>>

\* rowCount 0: the event was processed before.
Dedupe(h) ==
  /\ req[h] = "claiming"
  /\ inbox[ev[h]] = "claimed"
  /\ Reply(h, "ok")
  /\ UNCHANGED <<producerVars, active, published, passVars, spent, consumerVars>>

AddRows(e, us) ==
  notified' = [notified EXCEPT ![e] = [u \in Users |-> @[u] + (IF u \in us THEN 1 ELSE 0)]]

\* There is no time left for the recipients that have no row yet.
IngestLate(h) ==
  /\ Tier = "pool"
  /\ req[h] = "inserting"
  /\ inserted[h] # RecipientsOf[ev[h]]
  /\ Cardinality(inserted[h]) >= TimeLimit

\* insertNotification, one recipient at a time; outside a transaction the row
\* is visible at once.  The drain that awaits the answer has less time too.
Insert(h) ==
  /\ req[h] = "inserting"
  /\ ~IngestLate(h)
  /\ \E u \in (RecipientsOf[ev[h]] \ inserted[h]) \ UnknownUsers :
       /\ inserted' = [inserted EXCEPT ![h] = @ \union {u}]
       /\ IF Tier = "silo" THEN AddRows(ev[h], {u}) ELSE UNCHANGED notified
  /\ spent' = [p \in Passes |-> IF call[p] = h THEN spent[p] + 1 ELSE spent[p]]
  /\ UNCHANGED <<producerVars, active, published, passVars, req, ev, inbox>>

\* Mutant: the transaction commits before every recipient has its row.
CommitEarly(h) ==
  /\ req[h] = "inserting"
  /\ IF Tier = "pool"
       THEN /\ inbox' = [inbox EXCEPT ![ev[h]] = "claimed"]
            /\ AddRows(ev[h], inserted[h])
       ELSE UNCHANGED consumerVars
  /\ Reply(h, "ok")
  /\ UNCHANGED <<producerVars, active, published, passVars, spent>>

\* The callback returns: in the pool tier the claim and every row commit here.
Commit(h) ==
  /\ req[h] = "inserting"
  /\ inserted[h] = RecipientsOf[ev[h]]
  /\ IF Tier = "pool"
       THEN /\ inbox' = [inbox EXCEPT ![ev[h]] = "claimed"]
            /\ AddRows(ev[h], inserted[h])
       ELSE UNCHANGED consumerVars
  /\ Reply(h, "ok")
  /\ UNCHANGED <<producerVars, active, published, passVars, spent>>

\* Mutants: the claim commits in a transaction of its own; the connection of a
\* failed transaction goes back to the pool without a ROLLBACK.
RollbackKeepsClaim(h) ==
  /\ inbox' = IF Tier = "pool" /\ req[h] = "inserting"
                THEN [inbox EXCEPT ![ev[h]] = "claimed"] ELSE inbox
  /\ Reply(h, "failed")
  /\ UNCHANGED <<producerVars, active, published, passVars, spent, notified>>
RollbackKeepsLock(h) ==
  /\ Reply(h, "failed")
  /\ UNCHANGED <<producerVars, active, published, passVars, spent, consumerVars>>

\* ingestEvent throws: a transaction rolls back, statements that committed on
\* their own stay.
Rollback(h) ==
  /\ inbox' = IF Tier = "pool" /\ req[h] = "inserting"
                THEN [inbox EXCEPT ![ev[h]] = "free"] ELSE inbox
  /\ Reply(h, "failed")
  /\ UNCHANGED <<producerVars, active, published, passVars, spent, notified>>

Doomed(h) ==
  req[h] = "inserting" /\ (RecipientsOf[ev[h]] \ inserted[h]) \intersect UnknownUsers # {}

\* A recipient that is no user violates the foreign key, at every retry.
RejectRow(h) ==
  /\ Doomed(h)
  /\ Rollback(h)

\* So does an audience that takes longer than the transaction may.
IngestExpires(h) ==
  /\ IngestLate(h)
  /\ Rollback(h)

\* Any other failure: a connection lost, the service stopped, a wait too long.
HandlerAborts(h) ==
  /\ req[h] \in {"claiming", "inserting"}
  /\ ~Doomed(h)
  /\ Rollback(h)

-----------------------------------------------------------------------------
PassStep(p) ==
  \/ StartPass(p)
  \/ OpenDrain(p)
  \/ \E e \in Events : DeliverToNobody(p, e) \/ Post(p, e)
  \/ Answered(p)
  \/ AnswerFails(p)
  \/ Stamp(p)
  \/ DrainExpires(p)
  \/ EndPass(p)
HandlerStep(h) ==
  \/ Claim(h) \/ Dedupe(h) \/ Insert(h) \/ Commit(h)
  \/ RejectRow(h) \/ IngestExpires(h)

Outage == (\E p \in Passes : PassAborts(p)) \/ (\E h \in Requests : HandlerAborts(h))

Undisturbed ==
  \/ \E e \in Events : Begin(e) \/ End(e)
  \/ \E t \in Tenants : Deactivate(t)
  \/ \E p \in Passes : PassStep(p)
  \/ \E h \in Requests : HandlerStep(h)

Next == Undisturbed \/ Outage

Spec == Init /\ [][Next]_vars

\* runForever starts a pass again and again and every started statement ends.
\* Outages are transient: from some point on every step is an ordinary one (some
\* ordinary steps look like an outage, such as the end of an empty pass, and stay
\* allowed).  The time limit of a transaction is no outage: work that does not fit
\* expires at every retry.  Nothing is assumed of producers or of tenants.
Fairness ==
  /\ \A p \in Passes : WF_vars(PassStep(p))
  /\ \A h \in Requests : WF_vars(HandlerStep(h))
  /\ <>[][Undisturbed]_vars

FairSpec == Spec /\ Fairness

-----------------------------------------------------------------------------
(* Properties *)

TypeOK ==
  /\ row \in [Events -> {"idle", "open", "committed", "aborted"}]
  /\ clock \in Nat
  /\ occurred \in [Events -> Nat]
  /\ after \in [Events -> SUBSET Events]
  /\ active \subseteq Tenants
  /\ published \subseteq Events
  /\ pass \in [Passes -> {"idle", "walking", "draining", "awaiting"}]
  /\ todo \in [Passes -> SUBSET Tenants]
  /\ rows \in [Passes -> SUBSET Events]
  /\ delivered \in [Passes -> SUBSET Events]
  /\ call \in [Passes -> Requests \union {None}]
  /\ spent \in [Passes -> Nat]
  /\ req \in [Requests -> {"free", "claiming", "inserting", "ok", "failed"}]
  /\ ev \in [Requests -> Events \union {None}]
  /\ inserted \in [Requests -> SUBSET Users]
  /\ inbox \in [Events -> {"free", "held", "claimed"}]
  /\ notified \in [Events -> [Users -> Nat]]

\* A retry can never duplicate a notification (consumer.ts, notification
\* store.ts): however often an event is delivered, and by however many passes
\* at once, each recipient has at most one row for it.
AtMostOnce == \A e \in Events, u \in Users : notified[e][u] <= 1

\* published_at is the relay's statement that the event needs no more work: no
\* transient failure may lose a notification of a stamped, routed event.
StampedIsNotified ==
  \A e \in published \intersect Subscribed : notified[e] = Told(e)

\* Events publish in causal order within a tenant (drainTenant): when an event
\* began after another of its tenant had committed, its recipients are never
\* notified before those of the other.
CausalOrder ==
  \A f \in Events : \A e \in after[f] \intersect Subscribed :
    /\ RecipientsOf[e] # {}
    /\ notified[f] # Silence
    => notified[e] # Silence

\* The claim in event_inbox and the rows it stands for appear together
\* (ingestEvent): once no request is inserting for a claimed event, every
\* recipient has its row.
ClaimIsWhole ==
  \A e \in Events :
    /\ inbox[e] = "claimed"
    /\ \A h \in Requests : req[h] = "inserting" => ev[h] # e
    => notified[e] = Told(e)

\* What the relay stamps has reached everybody its payload names, whatever its
\* type (the relay's main.ts: publishes each row to the platform's consumers).
StampedReachesRecipients == \A e \in published : notified[e] = Told(e)

\* The three components together behave like EventDelivery.
Delivery == INSTANCE EventDelivery WITH committed <- Committed, tally <- notified
RefinesEventDelivery == Delivery!Spec

\* An event that can never be ingested: a recipient is no user, or the rows do not
\* fit in a transaction.
Poisoned(x) ==
  /\ row[x] = "committed"
  /\ x \in Subscribed
  /\ \/ RecipientsOf[x] \intersect UnknownUsers # {}
     \/ Tier = "pool" /\ Cardinality(RecipientsOf[x]) > TimeLimit

\* A backlog that can never be stamped: delivering it takes longer than a
\* transaction may, even when every row of it is a redelivery.
Posted(t) == {e \in Unpublished(t) \intersect Subscribed : RecipientsOf[e] # {}}
Overdue(t) == Tier = "pool" /\ Cardinality(Posted(t)) > TimeLimit

Ahead(x, e) == occurred[x] <= occurred[e]
SameTenant(x, e) == TenantOf[x] = TenantOf[e]
Older(t, e) == CreatedAt[t] < CreatedAt[TenantOf[e]]

\* What no retry gets past on the way to e: a poisoned event ahead of it in its
\* tenant, or the end of every pass at a tenant created before.
Obstructed(e) ==
  \/ \E x \in Events : Poisoned(x) /\ SameTenant(x, e) /\ Ahead(x, e)
  \/ \E x \in Events : Poisoned(x) /\ TenantOf[x] \in active /\ Older(TenantOf[x], e)
  \/ \E t \in active : Overdue(t) /\ Older(t, e)

\* And what no retry gets past between its delivery and its stamp: whatever makes
\* its tenant's drain throw, since the stamps roll back with it.
RolledBack(e) ==
  \/ \E x \in Events : Poisoned(x) /\ SameTenant(x, e)
  \/ Overdue(TenantOf[e])

Drained(e) == row[e] = "committed" /\ TenantOf[e] \in active

\* Every routed event that committed reaches its recipients, in whatever order the
\* passes, the outages and the expiries of transactions come: one that stays owed
\* to them, in a tenant that stays active, is obstructed for ever.
EventuallyNotified ==
  \A e \in Subscribed :
    <>[](Drained(e) /\ notified[e] # Told(e)) => <>[]Obstructed(e)

\* Every event that committed is stamped, so that it is not delivered at every
\* pass: a first delivery that took too long is made good by a redelivery, which
\* event_inbox answers at once.
EventuallyStamped ==
  \A e \in Events :
    <>[](Drained(e) /\ e \notin published) => <>[](Obstructed(e) \/ RolledBack(e))
=============================================================================
