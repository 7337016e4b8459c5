# A TLA+ verification of the LMS platform's coordination logic

The repository is a multi-tenant learning platform: some twenty Fastify services
over one PostgreSQL schema (`database/schema.sql`), shared packages
(`packages/*`) and two Next.js applications (`apps/*`).  Most handlers are CRUD
inside one transaction.  What is hard sits where several transactions,
processes or HTTP calls have to agree: the outbox and its relay, the promotion
of a tenant to its own database, seats and requests in self-registration, the
audit chain, roster synchronisation, video processing, token rotation, and the
many look-then-write handlers of the smaller services.  This directory models
that part, checks it with TLC and proves the centre of it with TLAPS.

Everything is parameterised by `CONSTANTS`, with the assumptions named in the
modules that declare them.  `PROJECT.json` ties each definition to the lines it
models, each run to its properties, and each property to a mutation of the
modelled code that breaks it.  Paths below are relative to the repository root.

| File | Content |
| --- | --- |
| `EventDelivery.tla` | abstract specification: a committed event notifies its recipients, once, all at a time |
| `OutboxRelay.tla` | outbox, relay worker and notification inbox, statement by statement |
| `OutboxRelay_proofs.tla` | the inductive invariant and ten theorems |
| `MCOutboxRelay.tla`, `MCOutboxRelay_*.cfg` | TLC instances |
| `TenantRouting.tla` | abstract specification: when a tenant may be routed to its own database |
| `SiloSaga.tla` | the pool-to-silo promotion saga |
| `SiloSaga_proofs.tla` | the inductive invariants and ten theorems |
| `MCSiloSaga.tla`, `MCSiloSaga_*.cfg` | TLC instances |
| `SelfRegistration.tla` | enrollments, self-registration policy and requests of a section under concurrent transactions |
| `SelfRegistration_proofs.tla` | the inductive invariant and seven theorems |
| `MCSelfRegistration.tla`, `MCSelfRegistration_*.cfg` | TLC instances |
| `Sessions.tla` | identity: refresh tokens, rotation and re-use |
| `AuditChain.tla` | audit: the hash chain under appends, tampering and `verify` |
| `Billing.tla` | billing: subscription transitions and invoice numbers |
| `RosterSync.tla` | sis: `runSync` with id map, watermark and overlapping runs |
| `QuizAttempts.tla` | assessment: starting and submitting attempts, and the pool of connections |
| `VideoPipeline.tla` | video: the pipelines of an asset, its status and its events |
| `AttendanceSession.tla`, `AttendanceSession_outbox.cfg` | attendance: the sessions of a meeting, marks, finalizing |
| `AssignmentGroups.tla` | assignment: the groups of an assignment |
| `RateLimiter.tla` | packages/ratelimit: both limiters |
| `ChatCeiling.tla` | ai: the daily ceiling on chat |
| `PageVersions.tla` | content: drafts, publication and reading of a page |
| `Services.tla`, `MCServices.tla`, `MCServices.cfg` | the eleven services above side by side, and their TLC instance |
| `RosterSync_proofs.tla`, `AttendanceSession_proofs.tla` | inductive invariants and theorems of these two |
| `Allowances_proofs.tla` | what a caller may use up: inductive invariants and theorems of `Sessions`, `QuizAttempts`, `ChatCeiling` and `RateLimiter` |
| `RacingCalls_proofs.tla` | what two calls contend for: inductive invariants and theorems of `AssignmentGroups`, `PageVersions`, `Billing`, `VideoPipeline` and `AuditChain` |
| `Services_proofs.tla` | the composition implements each of the eleven services and has their properties |

To repeat a run: `tlc -workers 2 -config MCOutboxRelay_safety.cfg MCOutboxRelay`;
to repeat the proofs: `tlapm OutboxRelay_proofs.tla`, and so for each `*_proofs.tla`.

## 1. Inventory

### How the parts interact

* A **client** talks to `gateway`, which verifies the token, limits the rate and
  proxies to a service.  Services call each other over HTTP in few places: the
  relay posts to notification, attendance asks enrollment and user-org, tenant
  asks every service to export and purge at offboarding.
* Every store runs its statements inside **`withTenant`** (`packages/db`): in the
  `pool` tier one transaction with `app.tenant_id` set for row-level security; in
  the `silo` tier the callback runs on the tenant's own database, without a
  transaction.
* **Domain events**: a service inserts an `event_outbox` row in the transaction of
  its change; the `relay` delivers the unpublished rows to `notification`, which
  deduplicates them in `event_inbox`.
* The **tenant row** (`tier`, `database_ref`, `status`) is shared state: `tenant`
  writes it, `withTenant` routes by it, the relay lists tenants by it.

### Components

State kept, operations that change it, what makes it hard, what makes it correct.
"Planned" names a module of the plan in section 2 that is not written.

| Component | State | Operations | Hard behaviour | Correct when | Status |
| --- | --- | --- | --- | --- | --- |
| relay | stamps in `event_outbox`, progress of a pass | `runOnce`, `drainTenant`, `deliver`, `POST /relay/run` | passes run at the same time; crash between delivery and stamp; order; a poisoned row; a transaction that must end in time | stamped events were notified, order respects causality, every event that no retry is bound to fail on is stamped in the end | `OutboxRelay` |
| notification | `event_inbox`, `notification`, preferences | `POST /events`, `ingestEvent`, `markRead`, preferences, digest | claim and rows must commit together; duplicates | at most one notification per event and recipient | `OutboxRelay`; inbox reading planned |
| packages/events | routing table | `deliver`, `createEnvelope` | unrouted types | every stamped event reached whom it names | `OutboxRelay` |
| packages/db | tenant routing | `withTenant` | two tiers with different atomicity | statements of a callback commit together | as seen by the two models |
| tenant: promotion | `tenant_silo_migration`, tenant row, Neon project | `promote-to-silo`, `promoteToSilo`, `compensate` | partial failure, lost answers, crash, two promotions | traffic is never routed to a database that is not ready; rollback is exact; runs close | `SiloSaga` |
| tenant: registry | tenant row, branding, delegation | provision, set status, branding, delegation | few writers | - | the writers of the row in `SiloSaga` |
| tenant: offboarding | purge results | `offboard` | fan-out with partial failure | deleted only when all purged | the write of the tenant row in `OutboxRelay` and `SiloSaga`; the purge is not modelled, as no service has the endpoint |
| enrollment, self-registration | `enrollment`, policies, requests | `selfRegister`, `decide`, enroll, drop | count-then-insert under READ COMMITTED, two deciders, two tiers | overbooking is bounded, an approval stands for a row, an answer is true | `SelfRegistration` |
| audit | hash chain | `append`, `verify` | two appends on one head, sort by transaction start | an untampered chain verifies | `AuditChain` |
| billing | subscriptions, seats, invoices | `transition`, `setSeats`, `createInvoice` | check-then-update, COUNT+1 numbers | canceled is final, numbers have no gap | `Billing` |
| assessment | quizzes, attempts, responses | `startAttempt`, `submitAttempt` | attempt limits, double submit, nested transactions on a bounded pool | attempts within the limit, one response per question, no pool deadlock | `QuizAttempts` |
| video | assets, renditions, captions | pipeline, `transcode` | two pipelines on one asset, fire-and-forget after a restart | status and events tell one story | `VideoPipeline` |
| attendance | sessions, records | `setRecords`, `finalizeSession` | events in a second transaction | one session per meeting, who is flagged is announced | `AttendanceSession` |
| assignment | groups, submissions, annotations | `addMember`, submit, annotate | sibling-group check-then-insert | one group per user and assignment | `AssignmentGroups` |
| content | pages, versions, SCORM attempts | `updatePage`, `publishPage` | drafts that outlive a publication | publishing does not go back, a read has a version | `PageVersions`; SCORM planned |
| sis | id map, runs, watermark | `runSync` | watermark at the end of the run, skipped records | every source record arrives, once | `RosterSync` |
| identity | sessions, refresh tokens, roles | login, refresh, logout, roles | rotation in three transactions | one live token per family, none in an ended one | `Sessions` |
| grading | grade items, scores, releases | upsert, release | weights and rounding | totals match their definition | planned: Gradebook |
| packages/ratelimit, gateway | counters per window | `check` | window edges, a pipeline that is no transaction, answers without a count | bounded rate, Retry-After is enough | `RateLimiter` |
| ai | daily usage, conversations | chat, question drafts | check, call the model, charge | spending stays near the ceiling | `ChatCeiling` |
| rubric, course, discussion, announcement, calendar, user-org, lti, analytics, reporting, search, mobile-bff, packages/auth | rows of their own | CRUD, reads, signatures, text | little or none beyond single statements | - | not modelled, reasons in `PROJECT.json` |
| apps, blob, config, i18n, logger, observability, types, ui, scripts | - | presentation, configuration, I/O | - | - | not modelled |

The hazards of the code, each at its line, with the properties that guard it or
the module that will, are in `PROJECT.json`.

## 2. Plan

In the order of what hurts most when it is wrong:

1. **Outbox, relay, inbox** (done).  `EventDelivery` is the abstract
   specification, `OutboxRelay` composes producers, relay and consumer.  Theorems:
   in both tiers type correctness, no duplicate, nobody told who is not named, a
   request that gets through has told everybody, claims in order; in the pool tier
   no loss, causal order, claims are whole, refinement.
2. **Promotion saga** (done).  `TenantRouting` abstract, `SiloSaga` detailed.
   Theorems: in every mode `TypeOK`, `RefIsPopulated`, `StepsInOrder` and what may
   bring an offboarded tenant back; with `Serial` and without `Lossy`,
   `CompletedIsServed`, `RollbackIsExact` and the refinement.
3. **SelfRegistration** (done): policies, requests, `selfRegister`, `decide` and the
   other writers of `enrollment`, statement by statement.
4. **Sessions**, **QuizAttempts**, **RosterSync**, **VideoPipeline**,
   **AttendanceSession**, **AuditChain**, **Billing**, **AssignmentGroups**,
   **RateLimiter**, **ChatCeiling**, **PageVersions** (done): one module each,
   composed in `Services` (section 6).  Proved: the type invariant and every safety
   property of each, and that the composition has them too.
5. **Notification inbox** (left): markRead, preferences, the digest beside
   `ingestEvent`.
6. **ScormAttempts** (left): `saveScormAttempt` is an upsert in which the last
   writer wins, so a late write of a runtime can take a completion back.
7. **Gradebook** and rubric scores (left) as operators, against reference
   definitions.

Modules that will be proved about use no `RECURSIVE` operator, one action per
operation, and invariants that are conjunctions of named parts; proofs go to a
module `<Name>_proofs`, and those of the smaller ones together to
`Allowances_proofs` (what a caller may use up: tokens, attempts, the daily ceiling,
the rate) and `RacingCalls_proofs` (rows that two calls contend for).

## 3. The outbox, the relay and the inbox

### The code

A producer inserts its event with its change (`services/*/src/*.prisma.ts`, for
example `services/tenant/src/store.prisma.ts` on provisioning); `occurred_at` is
`now()`, the start of that transaction.  `OutboxRelay.runOnce`
(`services/relay/src/store.ts`) lists the active tenants in order of creation and
drains one after the other.  `drainTenant` (`store.prisma.ts`) selects the rows
with `published_at IS NULL` in order of `occurred_at`, delivers them one at a
time and stamps all that were delivered with one UPDATE, inside one interactive
transaction that holds no lock on the rows.  `withTenant` opens it without options,
so Prisma ends it after five seconds, and likewise the transaction of a consumer.
Delivery is a `POST /events` to the
notification service, for the types `main.ts` subscribes; its store claims
`event_inbox (tenant_id, message_id)` with `ON CONFLICT DO NOTHING` and inserts
the recipients' rows.  `runForever` repeats passes; `POST /relay/run` starts one
beside it, and nothing keeps a second relay from running.

### The model

| State | Code |
| --- | --- |
| `row`, `occurred` | the producer's transaction, `event_outbox.occurred_at` |
| `clock` | the database clock; a tick per transaction started |
| `after` | history, no code: which events of the tenant had committed when the event's transaction began |
| `active` | tenants `listTenantIds` returns |
| `published` | rows with `published_at` |
| `pass`, `todo`, `rows`, `delivered`, `call` | the local state of one `runOnce`/`drainTenant` |
| `spent` | the time since the drain's transaction began, in units of work |
| `req`, `ev`, `inserted` | one `POST /events` request and the transaction of its `ingestEvent` |
| `inbox` | `event_inbox` entries; `held` is inserted and not committed |
| `notified` | visible `notification` rows per event and user |

A step is a statement, a transaction boundary or an HTTP hand-over.  `Begin`,
`End`: a producer.  `StartPass`, `OpenDrain`, `DeliverToNobody`, `Post`,
`Answered`, `AnswerFails`, `Stamp`, `EndPass`: the pass.  `Claim`, `Dedupe`,
`Insert`, `Commit`, `RejectRow`: the handler.  `PassAborts`, `HandlerAborts`:
everything that can end one of them from outside: a lost answer, a lost
connection, a crash, a wait or a statement that takes longer than usual.  A pass
that ends leaves its request running; the answer then goes nowhere.

The time limit of a transaction is no such accident where the work itself takes too
long, since it then recurs at every retry.  Time passes with the work that grows: a
row inserted (`Insert`) and, in a drain, a row delivered (`Answered`) take a unit
each, and a drain that awaits the answer pays for the inserts too.  A transaction has
`TimeLimit` units: in a drain that took more the deliveries go on and the UPDATE
throws (`DrainLate`, `DrainExpires`), and an `ingestEvent` that used them all up has
no time for a further recipient (`IngestLate`, `IngestExpires`).  In the silo tier
there is no transaction to expire.

Abstractions.  `RecipientsOf` is what `planDeliveries` leaves of
`payload.recipientIds`; the rows of a recipient's channels are one unit, since
one callback inserts them all.  An event with no recipients left is answered at
once (`DeliverToNobody`).  It is a set: a payload that names a user twice, who would
then get two rows from one insert loop, is left out.  The only refusals that recur at
every retry are a recipient that is no user, which violates the foreign key, and an
audience that takes too long; a payload that fails validation is refused as
deterministically and behaves like the first.  A statement
against an uncommitted claim waits, as PostgreSQL makes it: `Claim` and `Dedupe`
are both disabled while the entry is `held`.  Tenants are deactivated only (the
code's only such writer is offboarding).  The history variable `after` is read
by properties and by no action.

### Runs

| Run | Instance | Shows |
| --- | --- | --- |
| `outbox_safety` | one tenant, three events of which any two are produced (two recipients and one; the third is not routed), two passes, three requests, pool tier, time for two units of work; 494 580 states under symmetry of requests | `TypeOK`, `AtMostOnce`, `StampedIsNotified`, `CausalOrder`, `ClaimIsWhole`, and the refinement of `EventDelivery` |
| `outbox_liveness` | two tenants, five events of which any three are produced, one after the other, time for one unit of work, one pass, one request; 268 906 states | `EventuallyNotified`, `EventuallyStamped` |
| `outbox_silo` | silo tier | violation of `ClaimIsWhole` (finding 1) |
| `outbox_unrouted` | one unrouted event with recipients | violation of `StampedReachesRecipients` (finding 2) |

Bounds.  Two passes and three requests are the least with which two passes
deliver the same row while a request of an earlier, dead pass still holds its
claim.  Two events of a tenant are what the order is about, and two recipients
what makes a half-inserted event possible.  `Events` are the candidates from which
producers choose: `MaxBegun` bounds the transactions that ever begin, and the clock
with it, and `MaxOpen` those open at once, so a run covers every choice of that size.
The second tenant matters only for starvation, so it is in the liveness instance.
There the older tenant has four candidates: two that are deliverable, but whose
deliveries do not fit together in the time of one drain, one for an unknown user, and
one for two users, who do not fit in the time of one `ingestEvent`; the younger tenant
has one that is routed and deliverable.  Three of the five give every backlog that can
hold it up: the poisoned event, the wide one, the overdue pair, and one that is slow
at the first delivery and in time at the second.  One open transaction at a time is
enough because the order of commits is a matter of the safety instance.  The theorems
of section 7 remove the bounds for everything but liveness.

Fairness.  `WF(PassStep(p))`: `runForever` starts a pass again and again and a
pass goes on until it ends, with or without an error.  `WF(HandlerStep(h))`: a
statement that was sent ends.  `<>[][Undisturbed]`: outages are transient; from
some point on no connection is lost, no process killed and no transaction slow for
another reason than its work.  Without the last one nothing could be promised, since
a relay that is killed before each stamp never stamps.  The time limit is not assumed
away: `DrainExpires` and `IngestExpires` are steps of the pass and of the handler,
forced whenever the work is too much, for ever.  Nothing is assumed of producers or of offboarding.  Weak fairness
of a handler is enough although claims exclude each other: the holder of a claim
always ends and either commits it, after which everybody else can answer, or
frees it.

`EventuallyNotified` and `EventuallyStamped` say exactly what the code does not keep
moving.  An event that committed in a tenant that stays active and is never notified
must be obstructed for ever (`Obstructed`): a poisoned event, for an unknown user or
for more users than a transaction has time for (`Poisoned`), is ahead of it in its
tenant; or such an event, or a backlog whose redeliveries alone do not fit in a drain
(`Overdue`), belongs to a tenant created earlier, so that each pass ends there.  An
event that is never stamped is obstructed, or its own tenant's drain throws at each
pass for one of these reasons (`RolledBack`): the events ahead of a poisoned one are
notified but never stamped, and each pass delivers them again.  Nothing else excuses:
a backlog that takes too long only because its inserts are paid for by the first drain
is stamped by a later one.

## 4. The promotion of a tenant to a silo

### The code

`POST /tenants/:id/promote-to-silo` (`services/tenant/src/silo.routes.ts`) replays
a known idempotency key, refuses a tenant that is not `pool`, and awaits
`promoteToSilo` (`silo.saga.ts`).  The engine looks the key up again, reads the
tenant, inserts the run (`startRun`, `ON CONFLICT` returns the row that is there)
and executes provision, migrate, copy, repoint, flip; before each it marks the run
in flight, after each it appends the step.  If anything throws it records the
error and compensates the completed steps from the last one back; a compensation
that throws leaves the run `compensation_failed`.

### The model

| State | Code |
| --- | --- |
| `tier`, `ref`, `status` | the tenant row |
| `project`, `branch`, `made` | the tenant's Neon project, its branch and how many were made; a branch's number stands for its connection reference |
| `migrated`, `copied` | branches on which `runMigrations`, `copyTenantData` ended |
| `run` | the `tenant_silo_migration` row of a key |
| `pc`, `key`, `step`, `undo`, `seen`, `prevRef`, `target` | the local variables of one call of the handler and the engine |

Each awaited call is an action.  It takes effect and returns, or throws without
effect (`CallFails`, `CompensationThrows`), or, with `Lossy`, takes effect and
throws because its answer was lost.  `Die` is the death of the process, or a
throw outside the engine's `try`.  `Offboard` is the other writer of the tenant
row.  The Neon port is modelled from its interface and its use (`silo.ts`,
`silo.neon.ts`): creating a project or a branch is idempotent on the tenant,
deleting what is gone is no error.  `provisioning` is the schema's default for
`tenant.status`: it is found in rows that were inserted without a status, while
`provisionTenant` inserts `active`; the engine has code for both, so both are
instances.

`Serial` restricts a model to requests that do not overlap, and `Lossy` allows
lost answers.  They are modes of the environment, not of the code, and say under
what circumstances each property holds.

### Runs

| Run | Instance | Shows |
| --- | --- | --- |
| `saga_serial` | two requests in turn, with one key or two, an active tenant, calls throw and the process dies, offboarding on the way; 163 694 states | `TypeOK`, `CompletedIsServed`, `RollbackIsExact`, refinement of `TenantRouting` (a tenant is routed only to a database that is ready), `EventuallyClosed` |
| `saga_concurrent` | two requests at once, a provisioning tenant, lost answers; 1 650 949 states under symmetry | `RefIsPopulated`, `StepsInOrder`: what survives overlap and loss |
| `saga_unroutable` | one request, lost answers | violation of `NoUnroutableTenant` (finding 3) |
| `saga_second` | two requests at once | violation of `OneSagaPerKey` (finding 4) |

Two requests are enough for the hand-over from one promotion to the next (a run
that rolled back, failed to, or died, and a run that starts on what it left), and
two keys for both kinds of replay.  A serial instance with three requests was
explored as well (350 121 states under symmetry) and showed nothing new.  The
number of branches is bounded by the number of requests.

What does not hold when promotions overlap: with two keys both engines use the one
project of the tenant, and the compensation of the one that fails deletes the
database the other has routed the tenant to.  So the refinement and
`CompletedIsServed` are stated for promotions that do not overlap.  Nor do
they survive lost answers, by finding 3.

Fairness.  `WF(Execute(x))`: a call that was made returns or throws.  Requests
need not come and the process may die at any time; `EventuallyClosed` excuses the
runs whose process did, because nothing in the code resumes them.

Visible in the model and claimed by no property, as no document says what should
happen: a project that was created before `createBranch` threw is never deleted
(a later promotion reuses it); a tenant that is offboarded while it is promoted
from `provisioning` becomes `active` again at the flip.

## 5. The seats of a section

### The code

A section has an optional policy: open or not, by approval or not, an optional
capacity.  `selfRegister` (`services/enrollment/src/selfreg.prisma.ts`) reads the
policy, looks for an active row of the learner, counts the active rows if there is
a capacity, and either leaves a pending request or inserts the row (`ON CONFLICT
DO NOTHING`) and marks the request approved.  `decide` reads a pending request,
reads the policy and counts again, inserts and marks.  All of that is one
`withTenant` callback: a READ COMMITTED transaction without locks in the pool
tier, separate statements in the silo tier.  Staff (`createEnrollment`,
`dropEnrollment`, `completeEnrollment` in `store.prisma.ts`) and the roster sync
(`upsertEnrollment` in `services/sis/src/store.prisma.ts`) write the same rows and
ask for no capacity.

### The model

| State | Code |
| --- | --- |
| `tier` | the tenant's tier, fixed in `Init` |
| `policy` | the `self_registration_policy` row; `NoPolicy` when there is none |
| `enrollment` | `enrollment.status` of a learner's row; withdrawn, completed and inactive are `ended` |
| `request` | `self_registration_request.status` |
| `pc`, `op`, `learner`, `seen` | one call: its next statement, what it is, whom it is about, the policy it read |
| `origin` | history, no code: whether an active row came from staff or a sync, from a call under a capacity, or from one without |

A step is a statement.  The last write of a transaction and its COMMIT are one
step, because nothing is read or waited for between them; the only write that
stays uncommitted for longer is the INSERT into `enrollment` (`pc = "inserted"`),
and a statement that meets such a row waits, as PostgreSQL makes it
(`Unlocked`).  `EndEarly` is a failed statement, a stopped service or a tenant
without a learner role.  `enrolled` is the idle state after that answer.  One
learner has one request, by its unique key, so a decision is about a learner.
Rows are not deleted here: purging a tenant or erasing a user is outside the model.
`origin` is read by properties and by no action.

### Runs

| Run | Instance | Shows |
| --- | --- | --- |
| `registration_seats` | two calls at once, three learners, one seat; an open policy with capacity one and one by approval without limit; both tiers; 3 033 550 states under symmetry | `TypeOK`, `OverbookingIsBounded`, `ApprovedHasRow`, `SeatedIsRequested` |
| `registration_answer` | one call at a time, two learners, pool tier | violation of `EnrolledIsActive` (finding 5) |

Bounds.  With capacity one and two calls the bound of `OverbookingIsBounded` is
two seats and it is reached, so three learners are the least that could break it.
Two policies are enough for a call to hold one and act under the other, for the
limited and unlimited path and for both ways to wait for approval.

Nothing keeps the capacity itself: two calls may count one free seat and both
take it.  The property says how far that goes, over any length of time: seats
taken under a capacity exceed the largest one by at most the number of calls at
once less one.  A call whose policy has no limit, staff and the sync are not asked
about capacity, which is why `Seated` counts the rows of calls that were.

Visible in the model and claimed by no property, as no document says what should
happen: of two deciders one may deny what the other has approved, and the row
stays; `setPolicy` writes `capacity = $5`, so a PUT that omits the capacity makes
the section unlimited, where the memory store keeps the old one; in the silo tier
a failure between row and request leaves a row without request.

No liveness is stated: a call ends or the service stops, and a pending request
waits for a decider for as long as people do.

## 6. The services one by one

### How they are put together

Eleven services have handlers of the same making: a few statements that look,
decide and write, run by several calls at once, and in one transaction on the
pool tier or in several on the silo tier.  Each has a module; its actions are
statements, transaction boundaries and awaited calls, its `...Calls` constant the
requests in flight.  `*Fails` and its kin are a statement that throws, a
connection that is lost or a process that dies.  A read of READ COMMITTED sees
what had committed when it began; a write is one step with the COMMIT when nothing
is read or waited for between the two.

`Services` puts them side by side.  No two of them read or write the same row:
they meet in `event_outbox` alone, whose further fate is `OutboxRelay`'s.  Their
steps therefore commute, and an interleaving across services adds no state that
a property of one of them could tell apart.  So a behaviour of `ServicesSpec` is
one of a single service, chosen in `Init`, that runs in all interleavings of its
own calls while the others rest (`OthersRest`).

Many of these handlers do not keep, under concurrency, what their comments
suggest.  The properties state what they do keep, and by how much the rest may be
missed; where a guarantee depends on what overlapped, a history variable records
exactly that circumstance (marked "history" in the modules, read by properties and
by no action).  No property exempts a circumstance in which the code is right.

### The models

| Module | State and its code | Guaranteed | Not kept, and how far |
| --- | --- | --- | --- |
| `Sessions` | `token`, `family`: `refresh_token` (`revoked_at`, `family_id`); `held`: answered tokens. `SignIn`, `FindForRefresh`/`Mint`/`Retire`, `FindForLogout`/`RevokeFamily` are the statements of `services/identity/src/routes.ts` | a family has one usable token, an ended one none (`OneUsableToken`, `EndedStaysEnded`) | each refresh whose last UPDATE matched no row hands out a further one (`lateRetires`); a refresh that had passed its check mints in a family that is revoked meanwhile (`ended` counts the families where none had) |
| `AuditChain` | `log`: `audit_log` with `prev_hash`, `row_hash`, `created_at`, `id`. `BeginAppend`, `ReadHead`, `InsertRow`, `WriteHash`; `Alter`, `Remove`: somebody with the database | `verify` reports a break exactly when a row was altered or lost its predecessor (`VerdictIsRight`) | appends that overlap break the chain unaided (`overlapped`); so does one cut between INSERT and UPDATE on the silo tier (`cut`); a removed tail is not seen |
| `Billing` | `subscription`, `invoice`. `Subscribe`, `CheckTransition`/`UpdateStatus`, `CountInvoices`/`InsertInvoice` | numbers 1, 2, 3 ... without a gap (`InvoicesAreGapless`); canceled is terminal (`CanceledIsTerminal`) | of two invoices at once one fails; a call that had passed its check takes a canceled subscription back (`overtaken`) |
| `RosterSync` | `modified`: the source; `copy`, `inserted`, `mapped`: rows and `sis_id_map`; `watermark`: `last_run_at`. `StartRun`, `FetchList`, `NextRecord`, `WriteRow`, `WriteMapping`, `Succeed`, `FailRun` | every change up to the watermark is in the copy (`WatermarkCovers`); one row per record (`OneRowPerRecord`) | a record skipped for a parent that is not mapped, or changed after its list was fetched, is missed by later deltas (`missed`); two runs, or a run cut before the mapping on the silo tier, double an org or class (`raced`, `torn`) |
| `QuizAttempts` | `attempts`, `scoredBy`, `responses`; connections are counted by `FreeConnection`. `CountPrior`/`Assemble`/`InsertAttempt`, `ReadAttempt`/`StoreResponse`/`ScoreAttempt`, `WaitEnds` | never more attempts than allowed, numbered without a gap (`AllowanceKept`); a score is that of the stored responses (`ScoreIsOfResponses`); every call ends (`QuizCallsEnd`) | two submissions at once leave both sets of responses (`contested`); starts that hold every connection fail all together |
| `VideoPipeline` | `videoStatus`, `videoEvents`: the asset and its outbox rows. `StartPipeline`, `SetTranscoding`, `Process`, `MarkReady`, `MarkFailed`, `Throw`, `Abandon` | at rest the status is what the last event says (`StatusAnnounced`); transcoding ends (`TranscodingEnds`) | a pipeline that dies with its process is never resumed (`abandoned`); on the silo tier two at once may announce in another order than they wrote (`mixed`) |
| `AttendanceSession` | `session`, `mark`, `alerts`: sessions of one meeting, records, outbox rows. `CheckMeeting`/`InsertSession`/`SeedRecord`, `ReadOpenSession`/`WriteRecords`, `CommitFinalized` or its statements, `AnnounceFlagged` | one session per meeting (`OneSessionPerMeeting`); who is flagged is announced and nobody else (`AlertsMatchMarks`) | two creates without a period label (`rival`); marks that overtake the finalize (`late`); a finalize that dies between its transactions (`silenced`), finding 6 |
| `AssignmentGroups` | `group`, `member`. `CreateGroup`, `DeleteGroup`, `RemoveMember`, `LookForSibling`/`InsertMember` | one group per learner, none that was deleted (`OneGroupEach`) | two calls that both looked before either inserted (`contending`) |
| `RateLimiter` | `bucket`: the counter. `MemoryCheck`; `Incr`, `Expire`, `Pttl` of the pipeline, each of which may be rejected by itself (`IncrRejected`, `ExpireRejected`, `PttlRejected`), and an answer that is cut (`PipelineCut`) or an error (`AnswerIsError`); `Tick` | at most two windows' worth in any stretch of one window (`RateBounded`); Retry-After is long enough (`RetryAfterIsEnough`) | a fixed window allows twice the limit around its edge; the status of an answer is not read and a missing result counts as 0, so a check that Redis answers with an error is allowed, without bound (`openAt`); one whose EXPIRE was rejected may be told too short a wait (`timed`) |
| `ChatCeiling` | `usage`: `ai_usage` per day; `spent`: calls of the model. `CheckUsage`, `Complete`, `Charge`, `Midnight` | the model is called at most one time less than there are calls at once above the ceiling (`CeilingOverrun`) | a call that fails after the model answered is never charged (`uncharged`) |
| `PageVersions` | `version`, `live`: `page_version.state`, `page.published_version_id`. `CreatePage`, `ReadMax`/`InsertVersion`, `FindTarget`/`Promote`/`Point`, `ReadPage`/`AnswerPage` | a page that is read has a version (`PageIsNotBlank`); publishing does not go back (`PublishedGoesBack`) | a read that a publication crosses answers none (`crossed`), and so does one between two commits of the silo tier (`pageTorn`); a publish that is repeated, or overtaken, puts an older draft online (`repeated`) |

Abstractions.  Payloads, texts, titles, amounts and scores are left out where no
guard reads them.  A hash is the sequence of what it was computed over, so SHA-256
is taken to have no collisions.  Time is an event count (`AuditChain`,
`RosterSync`), ticks (`RateLimiter`) or days (`ChatCeiling`).  A refresh token's
expiry is a refusal that may come at any time.  `Found` of `RosterSync` is the
look-up of one entity type; records that do not map are left out.  In
`AttendanceSession` a code is flagged or clear, and who is told of a flagged
learner is left to the outbox.  In `QuizAttempts` every submission answers all
questions, and its grade is "which submission was scored".

Visible in the models and claimed by no property: publishing a version leaves
older drafts as drafts, and `getPage` prefers any draft to the published version,
so the editor is then shown an older text than the one that is online.

### Runs

| Run | Instance | Shows |
| --- | --- | --- |
| `services` | each service with two calls at once, both tiers where the code differs; 906 700 states | `ServicesTypeOK` and the twenty properties of the table |
| `attendance_outbox` | one meeting, one session, two learners, pool tier | violation of `FlaggedWithStatus` (finding 6) |

Bounds.  All the hazards listed for these services need two calls.  The rest is
the least at which each occurs: four tokens are a sign-in, two rotations of one
token and a further rotation; three audit rows a predecessor, a row and a
successor; three invoices two that collide and one behind them; two changes of
the source a parent and a child, or two contents of one record; a pool of two connections
lets two starts hold all of it; an allowance of two attempts and three submissions
make a double submit of one attempt and a further one; three pipelines are two
that overlap and one that runs alone after them; three ticks of half a second, with
a window of one second and four checks, are a window whose second half and the first
half of the next make a stretch, and the time that a caller refused in a late tick is
told to wait; two days and a ceiling of two
fill one day and overrun it; three versions are a published one, a draft it
overtook and a newer one.  `UnlabelledBound` lets a meeting without a period
label, which may get a second session, be marked for one learner.  The theorems
of section 7 remove the bounds for everything but liveness.

Fairness.  `WF(QuizStep(c))`: a statement that was sent ends, a free connection
is given to a waiting transaction, and Prisma's `maxWait` ends a wait that is too
long; the last is what resolves the wait of starts on one another.
`WF(PipelineStep(p))`: transcoder, captioner and statements return or throw.
Nothing makes a client send a request, and a process may die at any time.

## 7. What is proved

Every invariant and every safety property of steps that a passing run checks is also
a theorem, for every value of the constants that the assumption of its module allows;
what is left to the runs alone is liveness.

`OutboxRelay_proofs` proves, for any tenants, events, recipients, numbers of
concurrent passes and of requests:

| Theorem | Statement |
| --- | --- |
| `TypeCorrect` | `Spec => []TypeOK` |
| `RelayInvariant` | `Spec => []IInv`, the inductive invariant |
| `NoDuplicateNotification` | `Spec => []AtMostOnce` |
| `OnlyTheNamedAreTold` | nobody is told of an event that does not name them, or before its transaction committed |
| `CompletedIsWhole` | a request that gets through `Commit` leaves everybody told whom the event names |
| `ClaimsAreInOrder` | a stamped event was claimed for good, and an event is claimed after those its producer could have seen |
| `NoLostNotification` | pool: `Spec => []StampedIsNotified` |
| `CausalNotification` | pool: `Spec => []CausalOrder` |
| `ClaimAndRowsTogether` | pool: `Spec => []ClaimIsWhole` |
| `RelayImplementsDelivery` | pool: `Spec => RefinesEventDelivery` |

from the named assumptions of `OutboxRelay`: the constants are functions and sets
of the kinds their comments say, and `None` is neither an event nor a request.
No finiteness is assumed.  The rows without "pool" hold in both tiers.

The argument.  Call an event *settled* when nobody is owed anything for it: it is
not routed, names nobody, or its claim in `event_inbox` has committed.  None of
the safety properties is inductive: a stamp is right because a pass counted the
row as delivered, which was right because a request answered 2xx, which was right
because the claim it met was committed, which stands for the rows because claim
and rows commit together.  `IInv` has one conjunct for each link of that chain:

* `LockInv`: an uncommitted claim belongs to exactly one inserting request;
* `InboxInv`: the visible rows are those of the committed claims, all of them (pool);
* `OwnInv`: what the request that claimed an event has inserted is what is visible of it,
  nothing is visible of an event nobody claimed, and no row is there twice (silo,
  where each statement commits by itself);
* `AnswerInv`, `CallInv`, `StampInv`: what was answered 2xx, counted as delivered
  or stamped is settled, and a pass awaits the request for one of its own rows;
* `HistoryInv`, `RowsInv`, `CausalInv`: an event that began after another had
  committed has a larger `occurred_at`, so a drain that still holds the later one
  holds the earlier one too or finds it settled; thus whatever a requested or
  claimed event came after is settled.

A transaction that expires does nothing that an abort, or a refused row, could not
have done (`Expiries`), so the time limit, whatever it is, adds nothing to the
argument.  Settled is for ever (`ClaimStays`: no step takes a committed claim back), which
is what makes the chain stable under any interleaving.  Each conjunct's
preservation is a lemma with a step per action that can disturb it; frame lemmas
say which actions change what.  The refinement follows because a handler's
`Commit` is the only step that changes `notified`, from `Silence` to `Told(e)`.

The silo tier keeps all of the chain but its last link: a claim is committed the
moment it is inserted, so "settled" no longer stands for the rows.  What remains
is proved: no duplicates, no strangers, the order of the claims, and that a request
which gets to its end has told everybody.  A notification is thus missing only where
a request died or was refused between its claim and its last row, which is finding 1.

`SelfRegistration_proofs` proves, for any finite sets of learners and of calls at
once, any policies and both tiers:

| Theorem | Statement |
| --- | --- |
| `RegistrationTypeCorrect` | `Spec => []TypeOK` |
| `SeatInvariant` | `Spec => []IInv`, the inductive invariant |
| `OverbookingBound` | `Spec => []OverbookingIsBounded` |
| `NoOverbookingAlone` | with a single call, `Spec => [](Cardinality(Seated) <= MaxCapacity)` |
| `DecisionsStandAlone` | with a single call, only a pending request is denied |
| `ApprovalHasRow` | `Spec => []ApprovedHasRow` |
| `SeatHasRequest` | `Spec => []SeatedIsRequested` |

from `TierAssumption`, `PolicyAssumption` and `CallAssumption`.  A bound on the
seats taken is not inductive, since the calls that are about to take one are not
in it.  A call is *counting on* a seat from the moment it found one free until it
takes it or gives up.  When it finds one, fewer than `MaxCapacity` seats are taken
and at most all calls count on one; from then on each seat taken is one less
counted on; so the two together stay below `MaxCapacity` plus the number of calls
(`Promised`).  `LockInv` (an uncommitted row is the only one of its learner) and
`RecordInv` (a call about to record an approval met or wrote a row) carry the
other two.  The two `...Alone` theorems need a single call, and that is what they
tell: two deciders that both read the request as pending may leave it denied
and the learner enrolled.

`SiloSaga_proofs` proves, for any sets of requests and idempotency keys:

| Theorem | Statement |
| --- | --- |
| `SagaInvariant` | `Spec => []IInv`, in every mode |
| `SagaTypeCorrect` | `Spec => []TypeOK`, in every mode |
| `ReferencePopulated` | `Spec => []RefIsPopulated`, in every mode |
| `StepsRecordedInOrder` | `Spec => []StepsInOrder`, in every mode |
| `RevivedByStaleRead` | in every mode an offboarded tenant comes back only by `SetStatus` or `Unstatus` of a promotion that read it as provisioning |
| `OffboardedStays` | `InitialStatus = "active"`: in every mode `[][status = "deleted" => status' = "deleted"]_vars` |
| `SerialInvariant` | `SerialMode`: `Spec => []SerialInv` |
| `PromotionServed` | `SerialMode`: `Spec => []CompletedIsServed` |
| `RollbackExact` | `SerialMode`: `Spec => RollbackIsExact` |
| `SagaImplementsRouting` | `SerialMode`: `Spec => RefinesTenantRouting` |

Of the race between a promotion and `POST /tenants/:id/offboard` no document says who
must win; `RevivedByStaleRead` says when the promotion does (`StaleReadInv`: whoever is
about to write the status had read provisioning), and `OffboardedStays` that a
tenant which was active never is brought back (`ActiveInv`).

`SerialMode` is `Serial /\ ~Lossy /\ InitialStatus = "active"`: one promotion at
a time, a call that throws had no effect, and the tenant starts active.  What holds
without it has to survive another engine between any two calls.  `TargetInv`
therefore says of an executor only what it has done itself to the branch it made,
which nobody else can take back; `ReferenceInv` says that whatever reference the
tenant row, a run row or an executor remembers is of a branch that was migrated and
copied; `RecordInv` says which steps a row has, for whoever of its key wrote it
last.  With one promotion at a time the engine's reads stay true: what it read of
the tenant before it began is still so (`EntryInv`), the call it is about to make
tells what the catalog says (`CatalogInv`), and until `repoint`, or again after its
compensation, `database_ref` is what was captured (`RestoreInv`); so a tenant whose
tier is `silo` has a reference that is ready, which is what the router needs.

The modules of section 6 that are proved, each for any number of calls at once,
any tiers and any sizes, from the one assumption its module states (finite sets
of calls, natural bounds):

| Theorem | Statement | The invariant, and why it is needed |
| --- | --- | --- |
| `Allowances_proofs`: `SessionInvariant`, `RotationKeepsOne`, `EndIsFinal` | `[]SessionIInv`, `[]OneUsableToken`, `[]EndedStaysEnded` | ids are given in order and a successor is of the family of the token presented (`IssuedInv`, `FamilyInv`, `CallInv`), so an answer adds a usable token only where it took one away or was late; nobody is about to mint in an ended family (`EndedInv`) |
| `Allowances_proofs`: `QuizInvariant`, `AllowanceIsKept`, `ScoreHasItsResponses` | `[]QuizIInv`, `[]AllowanceKept`, `[]ScoreIsOfResponses` | a number counted and not yet inserted is within the allowance and leaves no gap, whoever inserts first (`NumberInv`); an attempt that is not contested has a single submission with responses (`SoleInv`) |
| `RacingCalls_proofs`: `PipelineInvariant`, `OutcomeIsAnnounced` | `[]PipelineIInv`, `[]StatusAnnounced` | a pipeline that is not mixed runs alone (`AloneInv`), so what it is about to announce is still the status (`OutcomeInv`); on the pool tier nothing is ever about to be announced (`PoolInv`) |
| `RacingCalls_proofs`: `BillingInvariant`, `GaplessInvoices`, `CanceledStays` | `[]BillingIInv`, `[]InvoicesAreGapless`, `CanceledIsTerminal` | what was counted is never above the number of rows (`CountInv`), so a number is either taken or the next; a checked subscription is not canceled unless overtaken (`CheckedInv`) |
| `RacingCalls_proofs`: `GroupInvariant`, `OneGroupForEach` | `[]GroupIInv`, `[]OneGroupEach` | a learner's rows, there or under way, are of one group unless contended (`AimInv`) |
| `Allowances_proofs`: `CeilingInvariant`, `OverrunIsBounded` | `[]CeilingIInv`, `[]CeilingOverrun` | usage and the calls that have passed the ceiling together stay below it plus the number of calls (`PassedInv`), and what was spent is usage, plus what waits to be charged, plus what never will be (`LedgerInv`) |
| `RacingCalls_proofs`: `PageInvariant`, `ReadsAreNotBlank`, `PublicationMovesOn` | `[]PageInv`, `[]PageIsNotBlank`, `PublishedGoesBack` | a publication goes on from what was live when it looked unless crossed (`UncrossedInv`); a page without a version, or whose pointer lags behind, waits for a second commit that is under way or died (`WholeInv`) |
| `Allowances_proofs`: `LimiterInvariant`, `WaitingIsEnough` | `[]LimiterInv`, `[]RetryAfterIsEnough` | by the tick a caller was given its window is over, and nothing puts that off (`RefusedInv`), since a call asks for the time left after it has seen to it that the window ends (`CountedInv`), which is within a window from now (`EndInv`) if the answer does not say; and whole seconds, rounded up, are no less than what is left |
| `Allowances_proofs`: `RateInvariant`, `RateIsBounded`, `MemoryRateIsBounded` | `[]RateInv`, `[]RateBounded`, and two windows' worth without exception for the limiter in the process | the bucket in place began at some tick (`BegunAt`), so a stretch as long as a window is in it, in the one before, or in both, and each lets at most `Limit` hits through on a count (`StretchInv`); nothing is counted at ticks to come (`QuietInv`). What is let through for want of a count is no part of `countedAt`, so those steps change nothing of it, and it is added at the end (`AllowedIs`) |
| `RacingCalls_proofs`: `AuditInvariant`, `VerdictIsExact` | `[]AuditInv`, `[]VerdictIsRight` | while no appends overlapped and none was cut, a whole row is chained to the newest of the earlier ones (`ChainInv`), and a damaged one was altered or is chained to a row that is gone (`DamageInv`), which is for good as ids are not given out again; a hash tells what it was computed over (`HashTells`) |
| `RosterSync_proofs`: `RosterInvariant`, `NoChangeIsLost`, `RowsAreNotDoubled` | `[]RosterInv`, `[]WatermarkCovers`, `[]OneRowPerRecord` | a listed record is in the copy, being imported, being written, or fallen behind on (`ListedInv`); a held content is never newer than the source (`ContentInv`); a row without mapping waits for it or was left by a dead run (`MapInv`), and two creators of a record have raced (`TwinInv`) |
| `AttendanceSession_proofs`: `AttendanceInvariant`, `MeetingHasOneSession`, `AlertsAreRight` | `[]AttendanceInv`, `[]OneSessionPerMeeting`, `[]AlertsMatchMarks` | no second session while no two creates were in flight (`SizeInv`); marks written under a finalize are late (`OutrunInv`), so what is announced and what is still to be are the flagged learners (`TodoInv`), and a finalized session is announced, being announced or silenced (`CompleteInv`) |

`CanceledStays`, `PublicationMovesOn`, `RollbackExact`, `CompletedIsWhole`,
`RevivedByStaleRead`, `OffboardedStays` and `DecisionsStandAlone` are action
properties: each follows from the invariant in the state before the step.

`RateBounded` bounds a sum over a set of ticks, which the community modules define by
a recursion over the set, and an induction principle whose predicate is an operator is
out of the prover's reach.  `OneByOne` and `UpTo` state induction for a predicate that
is a *set* of sets or of numbers, and are proved by taking the least of those left out;
from them `SumsExist` and `SumsAgree` give the recursion its one solution, and `Total...`
the arithmetic of sums that the invariant needs.

The invariants are about whole modules, and so are their type parts: each
component's type invariant is a theorem of its own (`SagaTypeCorrect`,
`RegistrationTypeCorrect`, `AuditTypeCorrect`, `PageTypeCorrect`,
`LimiterTypeCorrect`, `RosterTypeCorrect`, `AttendanceTypeCorrect`) or a part of its
inductive invariant.

`Services_proofs` puts the eleven services side by side:

| Theorem | Statement |
| --- | --- |
| `ImplementsEach` | `ServicesSpec` implies the specification of each service: a step of one is a stutter of every other |
| `ServicesTypeCorrect` | `ServicesSpec => []ServicesTypeOK` |
| `ServicesAreSafe` | the sixteen other invariants of the run `services` |
| `ServicesGoForward` | `CanceledIsTerminal` and `PublishedGoesBack` |

so everything proved of a service alone holds of it in the composed system, which is
what the run checks.  Of the specifications of `QuizAttempts` and `VideoPipeline` the
initial states and the steps are proved implemented and the fairness is not, since it
speaks of `ENABLED`; no safety property needs it.

Assumptions.  Each module states one, as weak as the proofs allow: sets of calls are
finite where calls are counted, bounds are natural numbers, and `MaxVersions` is at
least one, because a page is created with its first version.

Only model-checked: the liveness properties `EventuallyNotified`,
`EventuallyStamped`, `EventuallyClosed`, `QuizCallsEnd` and `TranscodingEnds`, as
liveness under fairness, and `ENABLED`, are outside what the prover supports; and the
properties of the runs that expect a violation, which are false.

## 8. Where code and documents disagree

1. **Silo tier and the atomicity of ingestion** (`outbox_silo`).  In the silo tier
   `withTenant` opens no transaction, so a failure between claim and rows leaves a
   claimed event nobody was told of, and the redelivery is answered as a duplicate.
   `services/notification/src/store.ts:91` says that claim and rows roll back together.
2. **Unrouted types** (`outbox_unrouted`).  The relay subscribes two types; all
   others are stamped without anybody being told, while ADR-0035 says that a new
   type needs no change of the relay's routes.
3. **A tenant that cannot be routed** (`saga_unroutable`).  When `setTier` commits
   and its answer is lost, the flip is not among the completed steps, so the
   rollback clears `database_ref` and leaves the tier `silo`: the state that
   `silo.saga.ts` and `MULTI_TENANCY.md` say the order of the steps excludes.  The
   same happens for a provisioning tenant when `setStatus` throws after `setTier`.
4. **Two engines on one key** (`saga_second`).  The `ON CONFLICT` of `startRun`
   returns the row but does not stop the second engine.
5. **Enrolled, but not active** (`registration_answer`).  Registering, and approving,
   gives way to an enrollment row in any status, and the request becomes approved
   and the answer `enrolled` although the row stays withdrawn, completed or
   inactive; `services/enrollment/src/selfreg.ts:35` says `enrolled` means active
   immediately.
6. **Attendance events and their state change** (`attendance_outbox`).
   `finalizeSession` commits the status, resolves the guardians over HTTP and inserts
   its `event_outbox` rows in a second transaction, while
   `docs/services/attendance.md:54` says that the row is written in the same
   transaction as the state change.  Between the two, and for good if the process
   dies there, a flagged learner of a finalized session has no event.

## 9. Mutants

Every property of a passing run is broken by a mutation of a modelled definition
that a plausible bug in that code would be: a claim with `DO UPDATE`, a duplicate
answered before the claim committed, a SELECT without its ORDER BY, a claim in a
transaction of its own, a connection returned without ROLLBACK, compensations in
execution order, `completed_steps` overwritten, a reference cleared instead of
restored, `>` for `>=` at the capacity, an INSERT that does not wait for the row
it gives way to, a presented token instead of its family, the oldest head, a
watermark moved by a failed run, EXPIRE without NX, a redelivery answered with a conflict, `status` without its event,
the oldest draft instead of the latest.  They stand before
the definitions they mutate.

## 10. Not modelled

Row-level security is assumed to confine a tenant's statements to its rows, and
PostgreSQL's constraints, conflict handling and READ COMMITTED semantics enter
where a statement meets them.  Left out because there is no behaviour of the
repository's own to check: user interfaces, telemetry, configuration, blob and
mail delivery, model calls, signature and password algorithms, text processing.
Of the modelled services: SSO user provisioning, roles and token expiry (identity), seats, usage
meters and amounts (billing), OneRoster field mapping (sis), authoring of quizzes,
renditions, captions and their editing (video), participation, reports
and changes of a code's category after the session was finalized (attendance), titles,
slugs and SCORM (content), and the question-drafts route, which calls the model
without limit or ceiling (ai).  Where a property of a service exempts the very race a
hazard describes, because the code does not keep more, the hazard's note in
`PROJECT.json` says so and what the property covers besides.  The purge of offboarding calls an endpoint that
no service has, so what it does to their data cannot be read from the source.
Left to the plan: everything marked "planned" above.  The reason for each
component is in `PROJECT.json`.
