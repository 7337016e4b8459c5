------------------------------ MODULE SiloSaga ------------------------------
(***************************************************************************)
(* The promotion of one tenant from pool to silo: the handler of           *)
(* POST /tenants/:id/promote-to-silo, the saga engine promoteToSilo, the   *)
(* tenant_silo_migration rows and the provisioning port.                   *)
(*                                                                         *)
(* Every call the engine awaits is one step.  A call takes effect and      *)
(* returns, or throws without effect, or (Lossy) takes effect and throws   *)
(* because its answer was lost; the process may die between two calls.     *)
(* Nothing in the engine outlives the request: a dead executor leaves its  *)
(* row in flight, and recovery is a POST with another key.                 *)
(***************************************************************************)
EXTENDS Naturals

CONSTANTS
  Executors,      \* the POST requests
  Keys,           \* idempotency keys
  InitialStatus,  \* tenant.status before the first request
  Serial,         \* TRUE: a request starts when no other is being executed
  Lossy           \* TRUE: the answer of a call that took effect may be lost

ASSUME StatusAssumption == InitialStatus \in {"active", "provisioning"}
ASSUME ModeAssumption == Serial \in BOOLEAN /\ Lossy \in BOOLEAN

VARIABLES
  tier, ref, status,  \* the tenant's catalog row; ref 0 is a null database_ref
  project,            \* the tenant's Neon project exists
  branch,             \* its branch, 0 if none; a branch's number is its databaseRef
  made,               \* branches created so far
  migrated, copied,   \* branches with the schema, with the tenant's rows
  run,                \* tenant_silo_migration by idempotency key
  pc,                 \* per executor: the call it makes next
  key,                \* per executor: idempotencyKey
  step,               \* per executor: currentStep
  undo,               \* per executor: how many steps are completed when it throws
  seen,               \* per executor: the tenant row it read last
  prevRef,            \* per executor: run.prevDatabaseRef
  target              \* per executor: target.branchId

catalogVars == <<tier, ref, status>>
infraVars == <<project, branch, made, migrated, copied>>
localVars == <<key, step, undo, seen, prevRef, target>>
vars == <<catalogVars, infraVars, run, pc, localVars>>

Steps == {"provision", "migrate", "copy", "repoint", "flip"}
InFlight == [provision |-> "provisioning", migrate |-> "migrating", copy |-> "copying",
             repoint |-> "repointing", flip |-> "flipping"]
Terminal == {"completed", "rolled_back", "compensation_failed"}
Statuses == {"none", "pending"} \union {InFlight[s] : s \in Steps} \union Terminal

Position == [provision |-> 1, migrate |-> 2, copy |-> 3, repoint |-> 4, flip |-> 5]
\* mutant: the reference is written before the rows are copied.
NextStepRepointsFirst(s) ==
  [provision |-> "migrate", migrate |-> "repoint", repoint |-> "copy", copy |-> "flip"][s]
NextStep(s) == CHOOSE t \in Steps : Position[t] = Position[s] + 1
FirstCall == [provision |-> "createProject", migrate |-> "runMigrations",
              copy |-> "copyTenantData", repoint |-> "setDatabaseRef", flip |-> "setTier"]

Reading == {"lookup", "recheck", "capture", "start"}
Forward == {"mark", "createProject", "createBranch", "runMigrations", "copyTenantData",
            "setDatabaseRef", "setTier", "setStatus", "record", "complete"}
Undoing == {"untier", "unstatus", "unref", "deprovision"}
Closing == {"catch", "stuck", "unwound"}

\* idle: no request yet; done: answered; dead: threw out of the engine, or killed.
Executing(x) == pc[x] \notin {"idle", "done", "dead"}

Row == [tier |-> tier, ref |-> ref, status |-> status]
NoRun == [status |-> "none", prevTier |-> "pool", prevRef |-> 0, steps |-> {}]

Init ==
  /\ tier = "pool" /\ ref = 0 /\ status = InitialStatus
  /\ project = FALSE /\ branch = 0 /\ made = 0 /\ migrated = {} /\ copied = {}
  /\ run = [k \in Keys |-> NoRun]
  /\ pc = [x \in Executors |-> "idle"]
  /\ key \in [Executors -> Keys]
  /\ step = [x \in Executors |-> "provision"]
  /\ undo = [x \in Executors |-> 0]
  /\ seen = [x \in Executors |-> Row]
  /\ prevRef = [x \in Executors |-> 0]
  /\ target = [x \in Executors |-> 0]

Goto(x, call) == pc' = [pc EXCEPT ![x] = call]

-----------------------------------------------------------------------------
(* The route, and the engine up to the first step. *)

Receive(x) ==
  /\ pc[x] = "idle"
  /\ Serial => \A y \in Executors : ~Executing(y)
  /\ seen' = [seen EXCEPT ![x] = Row]
  /\ Goto(x, "lookup")
  /\ UNCHANGED <<catalogVars, infraVars, run, key, step, undo, prevRef, target>>

\* mutant: a tenant that is silo already is promoted again.
LookupIgnoresTier(x) ==
  /\ pc[x] = "lookup"
  /\ Goto(x, IF run[key[x]].status # "none" THEN "done" ELSE "recheck")
  /\ UNCHANGED <<catalogVars, infraVars, run, localVars>>

\* The route replays a known key, and refuses a tenant it READ as not pool.
Lookup(x) ==
  /\ pc[x] = "lookup"
  /\ Goto(x, IF run[key[x]].status # "none" \/ seen[x].tier # "pool"
             THEN "done" ELSE "recheck")
  /\ UNCHANGED <<catalogVars, infraVars, run, localVars>>

\* promoteToSilo looks the key up again.
Recheck(x) ==
  /\ pc[x] = "recheck"
  /\ Goto(x, IF run[key[x]].status # "none" THEN "done" ELSE "capture")
  /\ UNCHANGED <<catalogVars, infraVars, run, localVars>>

\* prevTier, the previous reference and wasProvisioning come from this read.
Capture(x) ==
  /\ pc[x] = "capture"
  /\ seen' = [seen EXCEPT ![x] = Row]
  /\ Goto(x, "start")
  /\ UNCHANGED <<catalogVars, infraVars, run, key, step, undo, prevRef, target>>

\* INSERT ... ON CONFLICT returns the existing row, and the engine goes on with it.
StartRun(x) ==
  /\ pc[x] = "start"
  /\ LET k == key[x]
         row == IF run[k].status # "none" THEN run[k]
                ELSE [status |-> "pending", prevTier |-> seen[x].tier,
                      prevRef |-> seen[x].ref, steps |-> {}]
     IN /\ run' = [run EXCEPT ![k] = row]
        /\ prevRef' = [prevRef EXCEPT ![x] = row.prevRef]
  /\ Goto(x, "mark")
  /\ UNCHANGED <<catalogVars, infraVars, key, step, undo, seen, target>>

-----------------------------------------------------------------------------
(* The forward steps. *)

\* The catch block: a step counts as completed once its last call returned.
Throw(x) ==
  /\ Goto(x, "catch")
  /\ undo' = [undo EXCEPT ![x] =
       IF pc[x] \in {"record", "complete"} THEN Position[step[x]] ELSE Position[step[x]] - 1]
  /\ UNCHANGED <<key, step, seen, prevRef>>

Return(x, call) == Goto(x, call) /\ UNCHANGED <<key, step, undo, seen, prevRef>>

\* The call took effect; its answer arrives or is lost.
Answer(x, call) == Return(x, call) \/ (Lossy /\ Throw(x))

SetRunStatus(x, s) == run' = [run EXCEPT ![key[x]].status = s]

\* mutant: the row gets the step's name for a status.
MarkInFlightByName(x) ==
  /\ pc[x] = "mark"
  /\ SetRunStatus(x, step[x])
  /\ Answer(x, FirstCall[step[x]])
  /\ UNCHANGED <<catalogVars, infraVars, target>>

MarkInFlight(x) ==
  /\ pc[x] = "mark"
  /\ SetRunStatus(x, InFlight[step[x]])
  /\ Answer(x, FirstCall[step[x]])
  /\ UNCHANGED <<catalogVars, infraVars, target>>

CreateProject(x) ==
  /\ pc[x] = "createProject"
  /\ project' = TRUE
  /\ Answer(x, "createBranch")
  /\ UNCHANGED <<catalogVars, branch, made, migrated, copied, run, target>>

\* Idempotent on (tenantId, projectId); there is no branch without its project.
CreateBranch(x) ==
  /\ pc[x] = "createBranch"
  /\ project
  /\ IF branch = 0 THEN made' = made + 1 /\ branch' = made + 1
                   ELSE UNCHANGED <<made, branch>>
  /\ \/ Return(x, "record") /\ target' = [target EXCEPT ![x] = branch']
     \/ Lossy /\ Throw(x) /\ UNCHANGED target
  /\ UNCHANGED <<catalogVars, project, migrated, copied, run>>

RunMigrations(x) ==
  /\ pc[x] = "runMigrations"
  /\ branch = target[x]
  /\ migrated' = migrated \union {target[x]}
  /\ Answer(x, "record")
  /\ UNCHANGED <<catalogVars, project, branch, made, copied, run, target>>

CopyTenantData(x) ==
  /\ pc[x] = "copyTenantData"
  /\ branch = target[x]
  /\ copied' = copied \union {target[x]}
  /\ Answer(x, "record")
  /\ UNCHANGED <<catalogVars, project, branch, made, migrated, run, target>>

SetDatabaseRef(x) ==
  /\ pc[x] = "setDatabaseRef"
  /\ ref' = target[x]
  /\ Answer(x, "record")
  /\ UNCHANGED <<tier, status, infraVars, run, target>>

SetTier(x) ==
  /\ pc[x] = "setTier"
  /\ tier' = "silo"
  /\ Answer(x, IF seen[x].status = "provisioning" THEN "setStatus" ELSE "record")
  /\ UNCHANGED <<ref, status, infraVars, run, target>>

SetStatus(x) ==
  /\ pc[x] = "setStatus"
  /\ status' = "active"
  /\ Answer(x, "record")
  /\ UNCHANGED <<tier, ref, infraVars, run, target>>

\* mutant: completed_steps is overwritten instead of appended to.
MarkStepOverwrites(x) ==
  /\ pc[x] = "record"
  /\ run' = [run EXCEPT ![key[x]].status = InFlight[step[x]],
                        ![key[x]].steps = {step[x]}]
  /\ IF step[x] = "flip"
     THEN Return(x, "complete")
     ELSE /\ Goto(x, "mark")
          /\ step' = [step EXCEPT ![x] = NextStep(@)]
          /\ UNCHANGED <<key, undo, seen, prevRef>>
  /\ UNCHANGED <<catalogVars, infraVars, target>>

\* markStep appends the step and sets the status; then the next step begins.
MarkStep(x) ==
  /\ pc[x] = "record"
  /\ run' = [run EXCEPT ![key[x]].status = InFlight[step[x]],
                        ![key[x]].steps = @ \union {step[x]}]
  /\ \/ /\ step[x] = "flip"
        /\ Return(x, "complete")
     \/ /\ step[x] # "flip"
        /\ Goto(x, "mark")
        /\ step' = [step EXCEPT ![x] = NextStep(@)]
        /\ UNCHANGED <<key, undo, seen, prevRef>>
     \/ Lossy /\ Throw(x)
  /\ UNCHANGED <<catalogVars, infraVars, target>>

Complete(x) ==
  /\ pc[x] = "complete"
  /\ SetRunStatus(x, "completed")
  /\ Answer(x, "done")
  /\ UNCHANGED <<catalogVars, infraVars, target>>

CallFails(x) ==
  /\ pc[x] \in Forward
  /\ Throw(x)
  /\ UNCHANGED <<catalogVars, infraVars, run, target>>

-----------------------------------------------------------------------------
(* Compensation: completed steps in reverse order. *)

\* mutant: the steps are compensated in execution order.
FirstUndoInOrder(n) == IF n = 0 THEN "unwound" ELSE "deprovision"

FirstUndo(n) ==
  CASE n = 5 -> "untier"
    [] n = 4 -> "unref"
    [] n \in 1..3 -> "deprovision"
    [] n = 0 -> "unwound"

\* mutant: with nothing to compensate the row is left as it is.
RecordErrorReturns(x) ==
  /\ pc[x] = "catch"
  /\ SetRunStatus(x, InFlight[step[x]])
  /\ Goto(x, IF undo[x] = 0 THEN "done" ELSE FirstUndo(undo[x]))
  /\ UNCHANGED <<catalogVars, infraVars, localVars>>

\* markStatus with the error; what it throws leaves promoteToSilo.
RecordError(x) ==
  /\ pc[x] = "catch"
  /\ SetRunStatus(x, InFlight[step[x]])
  /\ Goto(x, FirstUndo(undo[x])) \/ (Lossy /\ Goto(x, "dead"))
  /\ UNCHANGED <<catalogVars, infraVars, localVars>>

Undone(x, next) == Goto(x, next) \/ (Lossy /\ Goto(x, "stuck"))

Untier(x) ==
  /\ pc[x] = "untier"
  /\ tier' = seen[x].tier
  /\ Undone(x, IF seen[x].status = "provisioning" THEN "unstatus" ELSE "unref")
  /\ UNCHANGED <<ref, status, infraVars, run, localVars>>

Unstatus(x) ==
  /\ pc[x] = "unstatus"
  /\ status' = "provisioning"
  /\ Undone(x, "unref")
  /\ UNCHANGED <<tier, ref, infraVars, run, localVars>>

\* mutant: the reference is cleared instead of restored.
UnrefToNull(x) ==
  /\ pc[x] = "unref"
  /\ ref' = 0
  /\ Undone(x, "deprovision")
  /\ UNCHANGED <<tier, status, infraVars, run, localVars>>

Unref(x) ==
  /\ pc[x] = "unref"
  /\ ref' = prevRef[x]
  /\ Undone(x, "deprovision")
  /\ UNCHANGED <<tier, status, infraVars, run, localVars>>

\* Deleting what another run deleted is no error.
Deprovision(x) ==
  /\ pc[x] = "deprovision"
  /\ IF branch = target[x] THEN project' = FALSE /\ branch' = 0
                           ELSE UNCHANGED <<project, branch>>
  /\ Undone(x, "unwound")
  /\ UNCHANGED <<catalogVars, made, migrated, copied, run, localVars>>

CompensationThrows(x) ==
  /\ pc[x] \in Undoing
  /\ Goto(x, "stuck")
  /\ UNCHANGED <<catalogVars, infraVars, run, localVars>>

MarkCompensationFailed(x) ==
  /\ pc[x] = "stuck"
  /\ SetRunStatus(x, "compensation_failed")
  /\ Goto(x, "done") \/ (Lossy /\ Goto(x, "dead"))
  /\ UNCHANGED <<catalogVars, infraVars, localVars>>

MarkRolledBack(x) ==
  /\ pc[x] = "unwound"
  /\ SetRunStatus(x, "rolled_back")
  /\ Goto(x, "done") \/ (Lossy /\ Goto(x, "dead"))
  /\ UNCHANGED <<catalogVars, infraVars, localVars>>

\* A read or a status write outside the engine's try block throws, or the
\* process dies anywhere.
Die(x) ==
  /\ Executing(x)
  /\ Goto(x, "dead")
  /\ UNCHANGED <<catalogVars, infraVars, run, localVars>>

-----------------------------------------------------------------------------
\* The other writer of the tenant row: POST /tenants/:id/offboard.
Offboard ==
  /\ status # "deleted"
  /\ status' = "deleted"
  /\ UNCHANGED <<tier, ref, infraVars, run, pc, localVars>>

Prelude(x) == Lookup(x) \/ Recheck(x) \/ Capture(x) \/ StartRun(x)
StepForward(x) ==
  \/ MarkInFlight(x) \/ CreateProject(x) \/ CreateBranch(x) \/ RunMigrations(x)
  \/ CopyTenantData(x) \/ SetDatabaseRef(x) \/ SetTier(x) \/ SetStatus(x)
  \/ MarkStep(x) \/ Complete(x) \/ CallFails(x)
StepBack(x) ==
  \/ RecordError(x) \/ Untier(x) \/ Unstatus(x) \/ Unref(x) \/ Deprovision(x)
  \/ CompensationThrows(x) \/ MarkCompensationFailed(x) \/ MarkRolledBack(x)
Execute(x) == Prelude(x) \/ StepForward(x) \/ StepBack(x)

Next ==
  \/ \E x \in Executors : Receive(x) \/ Execute(x) \/ Die(x)
  \/ Offboard

Spec == Init /\ [][Next]_vars

\* A call that was made returns or throws; requests need not come.
Fairness == \A x \in Executors : WF_vars(Execute(x))
FairSpec == Spec /\ Fairness

-----------------------------------------------------------------------------
(* Properties *)

TypeOK ==
  /\ tier \in {"pool", "silo"} /\ ref \in Nat
  /\ status \in {"active", "provisioning", "deleted"}
  /\ project \in BOOLEAN /\ branch \in Nat /\ made \in Nat
  /\ migrated \subseteq 1..made /\ copied \subseteq 1..made
  /\ run \in [Keys -> [status : Statuses, prevTier : {"pool", "silo"}, prevRef : Nat,
                       steps : SUBSET Steps]]
  /\ pc \in [Executors -> {"idle", "done", "dead"} \union Reading \union Forward
                          \union Undoing \union Closing]
  /\ key \in [Executors -> Keys]
  /\ step \in [Executors -> Steps]
  /\ undo \in [Executors -> 0..5]
  /\ seen \in [Executors -> [tier : {"pool", "silo"}, ref : Nat,
                             status : {"active", "provisioning", "deleted"}]]
  /\ prevRef \in [Executors -> Nat]
  /\ target \in [Executors -> Nat]

Ready == {b \in migrated \intersect copied : b = branch}

\* "A partial run never leaves a silo-tier tenant whose database_ref is null"
\* (silo.saga.ts, MULTI_TENANCY.md): once every request has been answered.
NoUnroutableTenant ==
  tier = "silo" /\ (\A x \in Executors : pc[x] \in {"idle", "done"}) => ref # 0

\* A database_ref names only databases that were given the schema and then the
\* tenant's rows, whatever runs at the same time, fails, is lost or dies.
RefIsPopulated == ref # 0 => ref \in migrated \intersect copied

\* completed_steps grows in the order of the steps, and a run that reports
\* completed has recorded them all, whoever executes it.
StepsInOrder ==
  \A k \in Keys :
    /\ \A s, t \in Steps :
         t \in run[k].steps /\ Position[s] < Position[t] => s \in run[k].steps
    /\ run[k].status = "completed" => run[k].steps = Steps

\* A run that reports completed has moved the tenant, for good.
CompletedIsServed ==
  \A k \in Keys : run[k].status = "completed" => tier = "silo" /\ ref \in Ready

\* "Compensations revert exactly": when a run reports rolled_back, the catalog
\* has the tier and the reference that were captured at its start.
RollbackIsExact ==
  [][\A k \in Keys :
       run[k].status # "rolled_back" /\ run'[k].status = "rolled_back"
         => tier' = run[k].prevTier /\ ref' = run[k].prevRef]_vars

\* "A concurrent re-POST never opens a second saga" (silo.saga.prisma.ts).
OneSagaPerKey ==
  \A x, y \in Executors :
    /\ key[x] = key[y]
    /\ pc[x] \in Forward \union Undoing
    /\ pc[y] \in Forward \union Undoing
    => x = y

\* The saga moves the tenant the way TenantRouting allows.
Routing == INSTANCE TenantRouting WITH ready <- Ready
RefinesTenantRouting == Routing!Spec

\* A run that was opened closes, unless the process that executes it dies.
EventuallyClosed ==
  \A k \in Keys :
    run[k].status # "none" ~> \/ run[k].status \in Terminal
                              \/ \E x \in Executors : key[x] = k /\ pc[x] = "dead"
=============================================================================
