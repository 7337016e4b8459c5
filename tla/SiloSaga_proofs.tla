--------------------------- MODULE SiloSaga_proofs ---------------------------
(***************************************************************************)
(* The promotion saga, for any requests and idempotency keys.              *)
(*                                                                         *)
(* In every mode, with promotions that overlap, answers that are lost and  *)
(* processes that die: types, what database_ref may name, and the order of *)
(* completed_steps.  What the catalog may name follows from how far each   *)
(* executor has got with its own target (TargetInv) and from every         *)
(* reference it remembers (ReferenceInv); the order of completed_steps     *)
(* from the rows that other executors of the same key may have written     *)
(* (RecordInv).                                                            *)
(*                                                                         *)
(* Then one promotion at a time, without lost answers: completed runs are  *)
(* served, rollbacks exact, and the routing implemented.  There the call   *)
(* an executor is about to make tells what the catalog says (CatalogInv).  *)
(*                                                                         *)
(* Last, what may bring a tenant back that was offboarded meanwhile.       *)
(***************************************************************************)
EXTENDS SiloSaga, TLAPS

Pcs == {"idle", "done", "dead"} \union Reading \union Forward \union Undoing \union Closing
RunRows == [status : Statuses, prevTier : {"pool", "silo"}, prevRef : Nat, steps : SUBSET Steps]
TenantRows == [tier : {"pool", "silo"}, ref : Nat, status : {"active", "provisioning", "deleted"}]

\* TypeOK, by the names above.
TypeInv ==
  /\ tier \in {"pool", "silo"} /\ ref \in Nat
  /\ status \in {"active", "provisioning", "deleted"}
  /\ project \in BOOLEAN /\ branch \in Nat /\ made \in Nat
  /\ migrated \subseteq 1..made /\ copied \subseteq 1..made
  /\ run \in [Keys -> RunRows]
  /\ pc \in [Executors -> Pcs]
  /\ key \in [Executors -> Keys]
  /\ step \in [Executors -> Steps]
  /\ undo \in [Executors -> 0..5]
  /\ seen \in [Executors -> TenantRows]
  /\ prevRef \in [Executors -> Nat]
  /\ target \in [Executors -> Nat]

\* The call an executor is about to make belongs to the step it is in.
StepInv == \A x \in Executors :
  /\ pc[x] \in {"idle", "lookup", "recheck", "capture", "start", "createProject", "createBranch"}
       => step[x] = "provision"
  /\ pc[x] = "runMigrations" => step[x] = "migrate"
  /\ pc[x] = "copyTenantData" => step[x] = "copy"
  /\ pc[x] = "setDatabaseRef" => step[x] = "repoint"
  /\ pc[x] \in {"setTier", "setStatus", "complete"} => step[x] = "flip"

\* How many steps an executor has done: what it would have to undo.
Reached(x) == IF pc[x] \in {"record", "complete"} THEN Position[step[x]] ELSE Position[step[x]] - 1

\* An executor that got past a step has done it to its target.
TargetInv ==
  /\ branch \in 0..made
  /\ \A x \in Executors :
       /\ Reached(x) >= 1 => target[x] \in 1..made
       /\ Reached(x) >= 2 => target[x] \in migrated
       /\ Reached(x) >= 3 => target[x] \in copied

\* A reference that is written or remembered is null or of a populated branch.
References == {0} \union (migrated \intersect copied)
ReferenceInv ==
  /\ ref \in References
  /\ \A x \in Executors : seen[x].ref \in References /\ prevRef[x] \in References
  /\ \A k \in Keys : run[k].prevRef \in References

\* The steps before the one an executor is in are in its row, whoever wrote them.
RecordInv ==
  /\ \A x \in Executors, s \in Steps : Position[s] < Position[step[x]] => s \in run[key[x]].steps
  /\ \A x \in Executors : pc[x] = "complete" => "flip" \in run[key[x]].steps
  /\ \A k \in Keys : run[k].status = "none" => run[k].steps = {}

IInv == TypeInv /\ StepInv /\ TargetInv /\ ReferenceInv /\ RecordInv /\ StepsInOrder

-----------------------------------------------------------------------------
(* What the sets and tables of the engine hold. *)

LEMMA TypeNames == TypeOK <=> TypeInv
  BY DEF TypeOK, TypeInv, Pcs, RunRows, TenantRows

LEMMA StepNames ==
  /\ Position["provision"] = 1 /\ Position["migrate"] = 2 /\ Position["copy"] = 3
  /\ Position["repoint"] = 4 /\ Position["flip"] = 5
  /\ \A s \in Steps : Position[s] \in 1..5
  BY DEF Position, Steps

LEMMA Successor ==
  /\ NextStep("provision") = "migrate" /\ NextStep("migrate") = "copy"
  /\ NextStep("copy") = "repoint" /\ NextStep("repoint") = "flip"
  BY DEF NextStep, Position, Steps

LEMMA StepAfter ==
  ASSUME NEW s \in Steps, s # "flip"
  PROVE  NextStep(s) \in Steps /\ Position[NextStep(s)] = Position[s] + 1
  BY Successor, StepNames DEF Steps

LEMMA CallNames ==
  /\ \A s \in Steps : FirstCall[s] \in Pcs
  /\ {"idle", "done", "dead", "lookup", "recheck", "capture", "start", "mark", "createBranch",
      "setStatus", "record", "complete", "catch", "stuck", "unwound", "untier", "unstatus",
      "unref", "deprovision"} \subseteq Pcs
  BY DEF FirstCall, Pcs, Reading, Forward, Undoing, Closing, Steps

LEMMA UndoNames == \A n \in 0..5 :
  /\ FirstUndo(n) \in {"untier", "unref", "deprovision", "unwound"}
  /\ FirstUndo(n) # "untier" => n <= 4
  /\ FirstUndo(n) \in {"deprovision", "unwound"} => n <= 3
  BY DEF FirstUndo

LEMMA StatusNames ==
  /\ \A s \in Steps : InFlight[s] \in Statuses \ {"none", "completed"}
  /\ {"pending", "completed", "rolled_back", "compensation_failed"} \subseteq Statuses
  BY DEF InFlight, Statuses, Terminal, Steps

-----------------------------------------------------------------------------
(* The moves that the actions are made of. *)

LEMMA GotoMove ==
  ASSUME TypeInv, NEW x \in Executors, NEW c \in Pcs, Goto(x, c)
  PROVE  /\ pc' \in [Executors -> Pcs]
         /\ pc'[x] = c /\ \A y \in Executors \ {x} : pc'[y] = pc[y]
  BY DEF TypeInv, Goto

LEMMA ThrowMove ==
  ASSUME TypeInv, NEW x \in Executors, Throw(x)
  PROVE  /\ pc' \in [Executors -> Pcs]
         /\ pc'[x] = "catch" /\ \A y \in Executors \ {x} : pc'[y] = pc[y]
         /\ undo' \in [Executors -> 0..5]
         /\ UNCHANGED <<key, step, seen, prevRef>>
<1>1. undo' = [undo EXCEPT ![x] = IF pc[x] \in {"record", "complete"}
                                  THEN Position[step[x]] ELSE Position[step[x]] - 1]
  BY DEF Throw
<1>2. Position[step[x]] \in 1..5
  BY StepNames DEF TypeInv
<1>3. undo' \in [Executors -> 0..5]
  BY <1>1, <1>2 DEF TypeInv
<1>4. QED
  BY <1>3, GotoMove, CallNames DEF Throw

LEMMA AnswerMove ==
  ASSUME TypeInv, NEW x \in Executors, NEW c \in Pcs, Answer(x, c)
  PROVE  /\ pc' \in [Executors -> Pcs]
         /\ pc'[x] \in {c, "catch"} /\ \A y \in Executors \ {x} : pc'[y] = pc[y]
         /\ undo' \in [Executors -> 0..5]
         /\ UNCHANGED <<key, step, seen, prevRef>>
<1>1. CASE Return(x, c)
  BY <1>1, GotoMove DEF Return, TypeInv
<1>2. CASE Throw(x)
  BY <1>2, ThrowMove
<1>3. QED
  BY <1>1, <1>2 DEF Answer

LEMMA UndoneMove ==
  ASSUME TypeInv, NEW x \in Executors, NEW c \in Pcs, Undone(x, c)
  PROVE  /\ pc' \in [Executors -> Pcs]
         /\ pc'[x] \in {c, "stuck"} /\ \A y \in Executors \ {x} : pc'[y] = pc[y]
  BY GotoMove, CallNames DEF Undone

LEMMA StatusMove ==
  ASSUME TypeInv, NEW x \in Executors, NEW s \in Statuses, SetRunStatus(x, s)
  PROVE  /\ run' \in [Keys -> RunRows]
         /\ run'[key[x]].status = s
         /\ \A k \in Keys \ {key[x]} : run'[k] = run[k]
         /\ \A k \in Keys : /\ run'[k].steps = run[k].steps /\ run'[k].prevRef = run[k].prevRef
                            /\ run'[k].prevTier = run[k].prevTier
<1> DEFINE row == [run[key[x]] EXCEPT !.status = s]
<1>1. key[x] \in Keys /\ run[key[x]] \in RunRows
  BY DEF TypeInv
<1>2. run' = [run EXCEPT ![key[x]] = row]
  BY DEF SetRunStatus
<1>3. row \in RunRows /\ row.status = s /\ row.steps = run[key[x]].steps
        /\ row.prevRef = run[key[x]].prevRef /\ row.prevTier = run[key[x]].prevTier
  BY <1>1 DEF RunRows
<1> HIDE DEF row
<1>4. QED
  BY <1>1, <1>2, <1>3 DEF TypeInv

LEMMA InitInv == Init => IInv
<1> SUFFICES ASSUME Init PROVE IInv
  OBVIOUS
<1>1. NoRun \in RunRows /\ NoRun.status = "none" /\ NoRun.steps = {} /\ NoRun.prevRef = 0
  BY DEF NoRun, RunRows, Statuses
<1>2. Row \in TenantRows /\ Row.ref = 0
  BY StatusAssumption DEF Init, Row, TenantRows
<1>3. TypeInv
  <2>1. run \in [Keys -> RunRows] /\ seen \in [Executors -> TenantRows]
    BY <1>1, <1>2 DEF Init
  <2>2. pc \in [Executors -> Pcs] /\ step \in [Executors -> Steps]
    BY CallNames DEF Init, Steps
  <2>3. /\ tier \in {"pool", "silo"} /\ ref \in Nat /\ status \in {"active", "provisioning", "deleted"}
        /\ project \in BOOLEAN /\ branch \in Nat /\ made \in Nat
        /\ migrated \subseteq 1..made /\ copied \subseteq 1..made
    BY StatusAssumption DEF Init
  <2>4. /\ key \in [Executors -> Keys] /\ undo \in [Executors -> 0..5]
        /\ prevRef \in [Executors -> Nat] /\ target \in [Executors -> Nat]
    BY DEF Init
  <2>5. QED
    BY <2>1, <2>2, <2>3, <2>4 DEF TypeInv
<1>4. StepInv
  BY DEF Init, StepInv
<1>5. TargetInv
  BY StepNames DEF Init, TargetInv, Reached
<1>6. ReferenceInv
  BY <1>1, <1>2 DEF Init, ReferenceInv, References
<1>7. RecordInv
  BY <1>1, StepNames DEF Init, RecordInv
<1>8. StepsInOrder
  BY <1>1 DEF Init, StepsInOrder
<1>9. QED
  BY <1>3, <1>4, <1>5, <1>6, <1>7, <1>8 DEF IInv

-----------------------------------------------------------------------------
(* What a step leaves alone. *)

\* A step of an executor moves no other executor.
LEMMA OthersStay ==
  ASSUME TypeInv, NEW x \in Executors, Receive(x) \/ Execute(x) \/ Die(x)
  PROVE  /\ key' = key
         /\ \A y \in Executors \ {x} : /\ pc'[y] = pc[y] /\ step'[y] = step[y]
                                       /\ target'[y] = target[y] /\ seen'[y] = seen[y]
                                       /\ prevRef'[y] = prevRef[y]
<1> USE DEF TypeInv, Goto, localVars
<1>1. CASE Receive(x) \/ Prelude(x) \/ Die(x)
  BY <1>1 DEF Receive, Prelude, Lookup, Recheck, Capture, StartRun, Die
<1>2. CASE StepBack(x)
  BY <1>2 DEF StepBack, RecordError, Untier, Unstatus, Unref, Deprovision, CompensationThrows,
              MarkCompensationFailed, MarkRolledBack, Undone
<1>3. CASE StepForward(x)
  <2> USE DEF Answer, Return, Throw
  <2>1. CASE MarkInFlight(x) \/ CreateProject(x) \/ RunMigrations(x) \/ CopyTenantData(x)
    BY <2>1 DEF MarkInFlight, CreateProject, RunMigrations, CopyTenantData
  <2>2. CASE SetDatabaseRef(x) \/ SetTier(x) \/ SetStatus(x) \/ Complete(x) \/ CallFails(x)
    BY <2>2 DEF SetDatabaseRef, SetTier, SetStatus, Complete, CallFails
  <2>3. CASE CreateBranch(x)
    BY <2>3 DEF CreateBranch
  <2>4. CASE MarkStep(x)
    BY <2>4 DEF MarkStep
  <2>5. QED
    BY <1>3, <2>1, <2>2, <2>3, <2>4 DEF StepForward
<1>4. QED
  BY <1>1, <1>2, <1>3 DEF Execute

\* Branches are never forgotten, nor what was done to them.
LEMMA Growth ==
  ASSUME TypeInv, [Next]_vars
  PROVE  /\ made' \in Nat /\ made <= made'
         /\ migrated \subseteq migrated' /\ copied \subseteq copied'
<1> USE DEF TypeInv, infraVars
<1>1. ASSUME NEW x \in Executors, Receive(x) \/ Prelude(x) \/ Die(x) \/ StepBack(x)
      PROVE  UNCHANGED <<made, migrated, copied>>
  BY <1>1 DEF Receive, Prelude, Lookup, Recheck, Capture, StartRun, Die, StepBack, RecordError,
              Untier, Unstatus, Unref, Deprovision, CompensationThrows, MarkCompensationFailed,
              MarkRolledBack
<1>2. ASSUME NEW x \in Executors, StepForward(x), ~CreateBranch(x)
      PROVE  UNCHANGED made /\ migrated \subseteq migrated' /\ copied \subseteq copied'
  BY <1>2 DEF StepForward, MarkInFlight, CreateProject, RunMigrations, CopyTenantData,
              SetDatabaseRef, SetTier, SetStatus, MarkStep, Complete, CallFails
<1>3. ASSUME NEW x \in Executors, CreateBranch(x)
      PROVE  made' \in {made, made + 1} /\ UNCHANGED <<migrated, copied>>
  BY <1>3 DEF CreateBranch
<1>4. CASE Offboard \/ UNCHANGED vars
  BY <1>4 DEF Offboard, vars
<1>5. QED
  BY <1>1, <1>2, <1>3, <1>4 DEF Next, Execute

-----------------------------------------------------------------------------
(* Types. *)

\* A step that moves x to a call and leaves the rest of the engine alone.
LEMMA QuietType ==
  ASSUME TypeInv, pc' \in [Executors -> Pcs], undo' \in [Executors -> 0..5],
         UNCHANGED <<infraVars, run, key, step, target>>,
         tier' \in {"pool", "silo"}, ref' \in Nat, status' \in {"active", "provisioning", "deleted"},
         seen' \in [Executors -> TenantRows], prevRef' \in [Executors -> Nat]
  PROVE  TypeInv'
  BY DEF TypeInv, infraVars

\* A step that writes the run row of x and moves x.
LEMMA RowType ==
  ASSUME TypeInv, pc' \in [Executors -> Pcs], undo' \in [Executors -> 0..5],
         run' \in [Keys -> RunRows], step' \in [Executors -> Steps], prevRef' \in [Executors -> Nat],
         UNCHANGED <<catalogVars, infraVars, key, seen, target>>
  PROVE  TypeInv'
  BY DEF TypeInv, infraVars, catalogVars

\* A step that changes the tenant's infrastructure and moves x.
LEMMA InfraType ==
  ASSUME TypeInv, pc' \in [Executors -> Pcs], undo' \in [Executors -> 0..5],
         project' \in BOOLEAN, branch' \in Nat, made' \in Nat,
         migrated' \subseteq 1..made', copied' \subseteq 1..made',
         target' \in [Executors -> Nat],
         UNCHANGED <<catalogVars, run, key, step, seen, prevRef>>
  PROVE  TypeInv'
  BY DEF TypeInv, catalogVars

LEMMA NextType ==
  ASSUME TypeInv, StepInv, TargetInv, [Next]_vars
  PROVE  TypeInv'
<1>0. /\ Row \in TenantRows
      /\ \A s \in Steps : InFlight[s] \in Statuses
      /\ undo \in [Executors -> 0..5] /\ seen \in [Executors -> TenantRows]
      /\ prevRef \in [Executors -> Nat] /\ step \in [Executors -> Steps]
      /\ tier \in {"pool", "silo"} /\ ref \in Nat /\ status \in {"active", "provisioning", "deleted"}
  BY StatusNames DEF Row, TenantRows, TypeInv
<1>1. ASSUME NEW x \in Executors, Receive(x) \/ Capture(x) PROVE TypeInv'
  BY <1>0, <1>1, GotoMove, CallNames, QuietType DEF Receive, Capture, catalogVars
<1>2. ASSUME NEW x \in Executors, Lookup(x) \/ Recheck(x) \/ CompensationThrows(x) \/ Die(x)
      PROVE  TypeInv'
  BY <1>0, <1>2, GotoMove, CallNames, QuietType
     DEF Lookup, Recheck, CompensationThrows, Die, catalogVars, localVars
<1>3. ASSUME NEW x \in Executors, StartRun(x) PROVE TypeInv'
  <2>1. PICK row : /\ row = IF run[key[x]].status # "none" THEN run[key[x]]
                            ELSE [status |-> "pending", prevTier |-> seen[x].tier,
                                  prevRef |-> seen[x].ref, steps |-> {}]
                   /\ run' = [run EXCEPT ![key[x]] = row]
                   /\ prevRef' = [prevRef EXCEPT ![x] = row.prevRef]
    BY <1>3 DEF StartRun
  <2>2. run[key[x]] \in RunRows /\ seen[x] \in TenantRows
    BY DEF TypeInv
  <2>3. row \in RunRows
    BY <2>1, <2>2, StatusNames DEF RunRows, TenantRows
  <2>4. row.prevRef \in Nat
    BY <2>3 DEF RunRows
  <2>5. run' \in [Keys -> RunRows] /\ prevRef' \in [Executors -> Nat]
    BY <2>1, <2>3, <2>4 DEF TypeInv
  <2>6. QED
    BY <1>0, <1>3, <2>5, GotoMove, CallNames, RowType DEF StartRun
<1>4. ASSUME NEW x \in Executors, MarkInFlight(x) PROVE TypeInv'
  <2>1. step[x] \in Steps
    BY DEF TypeInv
  <2>2. run' \in [Keys -> RunRows]
    BY <1>0, <1>4, <2>1, StatusMove DEF MarkInFlight
  <2>3. QED
    BY <1>0, <1>4, <2>1, <2>2, AnswerMove, CallNames, RowType DEF MarkInFlight
<1>5. ASSUME NEW x \in Executors, CreateProject(x) PROVE TypeInv'
  BY <1>5, AnswerMove, CallNames, InfraType DEF CreateProject, TypeInv
<1>6. ASSUME NEW x \in Executors, CreateBranch(x) PROVE TypeInv'
  <2>1. /\ pc' \in [Executors -> Pcs] /\ undo' \in [Executors -> 0..5]
        /\ UNCHANGED <<key, step, seen, prevRef>>
    BY <1>0, <1>6, GotoMove, ThrowMove, CallNames DEF CreateBranch, Return
  <2>2. branch' \in Nat /\ made' \in Nat /\ made <= made'
    BY <1>6 DEF CreateBranch, TypeInv
  <2>3. target' \in [Executors -> Nat]
    BY <1>6, <2>2 DEF CreateBranch, TypeInv
  <2>4. migrated' \subseteq 1..made' /\ copied' \subseteq 1..made' /\ project' \in BOOLEAN
    BY <1>6, <2>2 DEF CreateBranch, TypeInv
  <2>5. QED
    BY <1>6, <2>1, <2>2, <2>3, <2>4, InfraType DEF CreateBranch
<1>7. ASSUME NEW x \in Executors, RunMigrations(x) \/ CopyTenantData(x) PROVE TypeInv'
  <2>1. target[x] \in 1..made
    BY <1>7, StepNames DEF RunMigrations, CopyTenantData, StepInv, TargetInv, Reached, TypeInv
  <2>2. migrated' \subseteq 1..made' /\ copied' \subseteq 1..made' /\ UNCHANGED <<project, branch, made, target>>
    BY <1>7, <2>1 DEF RunMigrations, CopyTenantData, TypeInv
  <2>3. /\ pc' \in [Executors -> Pcs] /\ undo' \in [Executors -> 0..5]
        /\ UNCHANGED <<catalogVars, run, key, step, seen, prevRef>>
    BY <1>7, AnswerMove, CallNames DEF RunMigrations, CopyTenantData
  <2>4. QED
    BY <2>2, <2>3, InfraType DEF TypeInv
<1>8. ASSUME NEW x \in Executors, SetDatabaseRef(x) \/ SetTier(x) \/ SetStatus(x) PROVE TypeInv'
  <2>1. tier' \in {"pool", "silo"} /\ ref' \in Nat /\ status' \in {"active", "provisioning", "deleted"}
    BY <1>0, <1>8 DEF SetDatabaseRef, SetTier, SetStatus, TypeInv
  <2>2. /\ pc' \in [Executors -> Pcs] /\ undo' \in [Executors -> 0..5]
        /\ UNCHANGED <<key, step, seen, prevRef>>
    BY <1>8, AnswerMove, CallNames DEF SetDatabaseRef, SetTier, SetStatus
  <2>3. QED
    BY <1>0, <1>8, <2>1, <2>2, QuietType DEF SetDatabaseRef, SetTier, SetStatus
<1>9. ASSUME NEW x \in Executors, MarkStep(x) PROVE TypeInv'
  <2>1. step[x] \in Steps /\ key[x] \in Keys /\ run[key[x]] \in RunRows
    BY DEF TypeInv
  <2>2. PICK row : /\ row = [run[key[x]] EXCEPT !.status = InFlight[step[x]],
                                                !.steps = @ \union {step[x]}]
                   /\ run' = [run EXCEPT ![key[x]] = row]
    BY <1>9 DEF MarkStep
  <2>3. row \in RunRows
    BY <1>0, <2>1, <2>2 DEF RunRows
  <2>4. run' \in [Keys -> RunRows]
    BY <2>2, <2>3 DEF TypeInv
  <2>5. /\ pc' \in [Executors -> Pcs] /\ undo' \in [Executors -> 0..5]
        /\ UNCHANGED <<key, seen, prevRef>>
    BY <1>0, <1>9, GotoMove, ThrowMove, CallNames DEF MarkStep, Return
  <2>6. step' \in [Executors -> Steps]
    BY <1>0, <1>9, <2>1, StepAfter DEF MarkStep, Return, Throw
  <2>7. QED
    BY <1>0, <1>9, <2>4, <2>5, <2>6, RowType DEF MarkStep
<1>10. ASSUME NEW x \in Executors, Complete(x) PROVE TypeInv'
  <2>1. run' \in [Keys -> RunRows]
    BY <1>10, StatusMove, StatusNames DEF Complete
  <2>2. QED
    BY <1>0, <1>10, <2>1, AnswerMove, CallNames, RowType DEF Complete
<1>11. ASSUME NEW x \in Executors, CallFails(x) PROVE TypeInv'
  BY <1>0, <1>11, ThrowMove, QuietType DEF CallFails, catalogVars
<1>12. ASSUME NEW x \in Executors, RecordError(x) PROVE TypeInv'
  <2>1. step[x] \in Steps /\ undo[x] \in 0..5
    BY DEF TypeInv
  <2>2. run' \in [Keys -> RunRows]
    BY <1>0, <1>12, <2>1, StatusMove DEF RecordError
  <2>3. FirstUndo(undo[x]) \in Pcs
    BY <2>1, UndoNames, CallNames
  <2>4. pc' \in [Executors -> Pcs]
    BY <1>12, <2>3, GotoMove, CallNames DEF RecordError
  <2>5. QED
    BY <1>0, <1>12, <2>2, <2>4, RowType DEF RecordError, localVars
<1>13. ASSUME NEW x \in Executors, Untier(x) \/ Unstatus(x) \/ Unref(x) PROVE TypeInv'
  <2>1. seen[x].tier \in {"pool", "silo"} /\ prevRef[x] \in Nat
    BY DEF TypeInv, TenantRows
  <2>2. pc' \in [Executors -> Pcs]
    BY <1>13, UndoneMove, CallNames DEF Untier, Unstatus, Unref
  <2>3. tier' \in {"pool", "silo"} /\ ref' \in Nat /\ status' \in {"active", "provisioning", "deleted"}
    BY <1>0, <1>13, <2>1 DEF Untier, Unstatus, Unref
  <2>4. QED
    BY <1>0, <1>13, <2>2, <2>3, QuietType DEF Untier, Unstatus, Unref, localVars
<1>14. ASSUME NEW x \in Executors, Deprovision(x) PROVE TypeInv'
  <2>1. pc' \in [Executors -> Pcs]
    BY <1>14, UndoneMove, CallNames DEF Deprovision
  <2>2. project' \in BOOLEAN /\ branch' \in Nat /\ UNCHANGED <<made, migrated, copied>>
    <3>1. project' = FALSE \/ project' = project
      BY <1>14, Zenon DEF Deprovision
    <3>2. project' \in BOOLEAN
      BY <3>1 DEF TypeInv
    <3>3. branch' \in {0, branch} /\ UNCHANGED <<made, migrated, copied>>
      BY <1>14 DEF Deprovision
    <3>4. QED
      BY <3>2, <3>3 DEF TypeInv
  <2>3. UNCHANGED <<catalogVars, run, localVars>>
    BY <1>14 DEF Deprovision
  <2>4. QED
    BY <2>1, <2>2, <2>3, InfraType DEF TypeInv, localVars
<1>15. ASSUME NEW x \in Executors, MarkCompensationFailed(x) \/ MarkRolledBack(x) PROVE TypeInv'
  <2>1. run' \in [Keys -> RunRows]
    BY <1>15, StatusMove, StatusNames DEF MarkCompensationFailed, MarkRolledBack
  <2>2. QED
    BY <1>0, <1>15, <2>1, GotoMove, CallNames, RowType
       DEF MarkCompensationFailed, MarkRolledBack, localVars
<1>16. CASE Offboard
  BY <1>16 DEF Offboard, TypeInv, infraVars, localVars
<1>17. CASE UNCHANGED vars
  BY <1>17 DEF vars, TypeInv, catalogVars, infraVars, localVars
<1>18. QED
  BY <1>1, <1>2, <1>3, <1>4, <1>5, <1>6, <1>7, <1>8, <1>9, <1>10, <1>11, <1>12, <1>13, <1>14,
     <1>15, <1>16, <1>17 DEF Next, Execute, Prelude, StepForward, StepBack

-----------------------------------------------------------------------------
(* The control of the engine. *)

\* What a step does to the control of its executor.
LEMMA OwnControl ==
  ASSUME TypeInv, StepInv, NEW x \in Executors, Receive(x) \/ Execute(x) \/ Die(x)
  PROVE  \/ /\ step'[x] = step[x]
            /\ pc'[x] \in {"done", "dead", "catch", "stuck", "unwound"} \union Undoing
         \/ step'[x] = step[x] /\ <<pc[x], pc'[x]>> \in
              {<<"idle", "lookup">>, <<"lookup", "recheck">>, <<"recheck", "capture">>,
               <<"capture", "start">>, <<"start", "mark">>, <<"createProject", "createBranch">>,
               <<"createBranch", "record">>, <<"runMigrations", "record">>,
               <<"copyTenantData", "record">>, <<"setDatabaseRef", "record">>,
               <<"setTier", "setStatus">>, <<"setTier", "record">>, <<"setStatus", "record">>}
         \/ step'[x] = step[x] /\ pc[x] = "mark" /\ pc'[x] = FirstCall[step[x]]
         \/ step'[x] = step[x] /\ pc[x] = "record" /\ step[x] = "flip" /\ pc'[x] = "complete"
         \/ step[x] # "flip" /\ pc[x] = "record" /\ pc'[x] = "mark" /\ step'[x] = NextStep(step[x])
<1>0. undo[x] \in 0..5 /\ step[x] \in Steps
  BY DEF TypeInv
<1>1. CASE Receive(x) \/ Prelude(x) \/ Die(x)
  <2>1. CASE Receive(x) \/ Die(x)
    BY <2>1 DEF Receive, Die, Goto, localVars, TypeInv
  <2>2. CASE Lookup(x) \/ Recheck(x)
    BY <2>2 DEF Lookup, Recheck, Goto, localVars, TypeInv
  <2>3. CASE Capture(x) \/ StartRun(x)
    BY <2>3 DEF Capture, StartRun, Goto, TypeInv
  <2>4. QED
    BY <1>1, <2>1, <2>2, <2>3 DEF Prelude
<1>2. CASE RecordError(x)
  BY <1>0, <1>2, UndoNames DEF RecordError, Goto, localVars, TypeInv, Undoing
<1>3. CASE StepBack(x) /\ ~RecordError(x)
  <2>1. /\ step'[x] = step[x]
        /\ pc'[x] \in {"done", "dead", "stuck", "unwound", "unstatus", "unref", "deprovision"}
    BY <1>3 DEF StepBack, Untier, Unstatus, Unref, Deprovision, CompensationThrows,
                MarkCompensationFailed, MarkRolledBack, Undone, Goto, localVars, TypeInv
  <2>2. QED
    BY <2>1 DEF Undoing
<1>4. CASE StepForward(x)
  <2>0. ASSUME Throw(x) PROVE pc'[x] = "catch" /\ step'[x] = step[x]
    BY <2>0 DEF Throw, Goto, TypeInv
  <2>1. ASSUME NEW c, Answer(x, c) PROVE pc'[x] \in {c, "catch"} /\ step'[x] = step[x]
    BY <2>1 DEF Answer, Return, Throw, Goto, TypeInv
  <2>2. CASE MarkInFlight(x)
    BY <2>1, <2>2 DEF MarkInFlight
  <2>3. CASE CreateProject(x) \/ RunMigrations(x) \/ CopyTenantData(x) \/ SetDatabaseRef(x)
    BY <2>1, <2>3 DEF CreateProject, RunMigrations, CopyTenantData, SetDatabaseRef
  <2>4. CASE SetTier(x) \/ SetStatus(x) \/ Complete(x)
    BY <2>1, <2>4 DEF SetTier, SetStatus, Complete
  <2>5. CASE CreateBranch(x)
    BY <2>0, <2>5 DEF CreateBranch, Return, Goto, TypeInv
  <2>6. CASE MarkStep(x)
    BY <2>0, <2>6 DEF MarkStep, Return, Goto, TypeInv
  <2>7. CASE CallFails(x)
    BY <2>0, <2>7 DEF CallFails
  <2>8. QED
    BY <1>4, <2>2, <2>3, <2>4, <2>5, <2>6, <2>7 DEF StepForward
<1>5. QED
  BY <1>1, <1>2, <1>3, <1>4 DEF Execute

LEMMA NextStepInv ==
  ASSUME TypeInv, StepInv, [Next]_vars
  PROVE  StepInv'
<1>1. ASSUME NEW x \in Executors, Receive(x) \/ Execute(x) \/ Die(x) PROVE StepInv'
  <2>1. ASSUME NEW y \in Executors, y # x, StepInv!(y) PROVE StepInv!(y)'
    BY <1>1, <2>1, OthersStay
  <2>2. StepInv!(x)'
    <3>1. step[x] \in Steps
      BY DEF TypeInv
    <3>2. pc[x] = "mark" /\ pc'[x] = FirstCall[step[x]] /\ step'[x] = step[x] => StepInv!(x)'
      BY <3>1 DEF FirstCall, Steps
    <3>3. QED
      BY <1>1, <3>1, <3>2, OwnControl DEF StepInv, Undoing
  <2>3. QED
    BY <2>1, <2>2 DEF StepInv
<1>2. CASE Offboard \/ UNCHANGED vars
  BY <1>2 DEF StepInv, Offboard, vars, localVars
<1>3. QED
  BY <1>1, <1>2 DEF Next

\* An executor gets further only by the last call of a step.
LEMMA ReachedLater ==
  ASSUME TypeInv, StepInv, NEW x \in Executors, Receive(x) \/ Execute(x) \/ Die(x)
  PROVE  /\ Reached(x) \in 0..5 /\ Reached(x)' \in 0..5
         /\ \/ Reached(x)' <= Reached(x)
            \/ Reached(x) >= 3
            \/ /\ pc[x] \in {"createBranch", "runMigrations", "copyTenantData"}
               /\ pc'[x] = "record" /\ Reached(x)' = Reached(x) + 1
<1>1. step[x] \in Steps /\ Position[step[x]] \in 1..5
  BY StepNames DEF TypeInv
<1>2. step[x] # "flip" => NextStep(step[x]) \in Steps /\ Position[NextStep(step[x])] = Position[step[x]] + 1
  BY <1>1, StepAfter
<1>3. pc[x] = "mark" /\ pc'[x] = FirstCall[step[x]] /\ step'[x] = step[x]
        => Reached(x) = Position[step[x]] - 1 /\ Reached(x)' = Position[step[x]] - 1
  BY <1>1 DEF Reached, FirstCall, Steps
<1>4. pc[x] \in {"setDatabaseRef", "setTier", "setStatus"} => Reached(x) >= 3
  BY StepNames DEF Reached, StepInv
<1>5. QED
  BY <1>1, <1>2, <1>3, <1>4, OwnControl DEF Reached, Undoing

LEMMA TargetFrame ==
  ASSUME TypeInv, TargetInv, [Next]_vars, branch' \in 0..made',
         \A x \in Executors : target'[x] = target[x] /\ Reached(x) \in 0..5 /\ Reached(x)' \in 0..5
                                /\ (Reached(x)' <= Reached(x) \/ Reached(x) >= 3)
  PROVE  TargetInv'
<1>1. /\ made \in Nat /\ made' \in Nat /\ made <= made'
      /\ migrated \subseteq migrated' /\ copied \subseteq copied'
  BY Growth DEF TypeInv
<1>2. ASSUME NEW x \in Executors
      PROVE  /\ Reached(x)' >= 1 => target'[x] \in 1..made'
             /\ Reached(x)' >= 2 => target'[x] \in migrated'
             /\ Reached(x)' >= 3 => target'[x] \in copied'
  BY <1>1 DEF TargetInv
<1>3. QED
  BY <1>2 DEF TargetInv

LEMMA NextTarget ==
  ASSUME TypeInv, StepInv, TargetInv, [Next]_vars
  PROVE  TargetInv'
<1>0. /\ made \in Nat /\ made' \in Nat /\ made <= made'
      /\ migrated \subseteq migrated' /\ copied \subseteq copied'
  BY Growth DEF TypeInv
<1>1. ASSUME NEW x \in Executors, Receive(x) \/ Execute(x) \/ Die(x),
             UNCHANGED target, branch' \in 0..made',
             pc[x] \notin {"createBranch", "runMigrations", "copyTenantData"} \/ pc'[x] # "record"
      PROVE  TargetInv'
  <2>1. ASSUME NEW y \in Executors
        PROVE  /\ Reached(y) \in 0..5 /\ Reached(y)' \in 0..5
               /\ Reached(y)' <= Reached(y) \/ Reached(y) >= 3
    <3>1. CASE y = x
      BY <1>1, <3>1, ReachedLater
    <3>2. CASE y # x
      BY <1>1, <3>2, OthersStay, StepNames DEF Reached, TypeInv
    <3>3. QED
      BY <3>1, <3>2
  <2>2. QED
    BY <1>1, <2>1, TargetFrame
<1>2. ASSUME NEW x \in Executors, Receive(x) \/ Execute(x) \/ Die(x),
             \A y \in Executors \ {x} : target'[y] = target[y], branch' \in 0..made',
             /\ Reached(x)' >= 1 => target'[x] \in 1..made'
             /\ Reached(x)' >= 2 => target'[x] \in migrated'
             /\ Reached(x)' >= 3 => target'[x] \in copied'
      PROVE  TargetInv'
  <2>1. ASSUME NEW y \in Executors, y # x PROVE Reached(y)' = Reached(y)
    BY <1>2, <2>1, OthersStay DEF Reached
  <2>2. ASSUME NEW y \in Executors, y # x
        PROVE  /\ Reached(y)' >= 1 => target'[y] \in 1..made'
               /\ Reached(y)' >= 2 => target'[y] \in migrated'
               /\ Reached(y)' >= 3 => target'[y] \in copied'
    BY <1>0, <1>2, <2>1, <2>2 DEF TargetInv
  <2>3. QED
    BY <1>2, <2>2 DEF TargetInv
<1>3. ASSUME NEW x \in Executors, CreateBranch(x) PROVE TargetInv'
  <2>1. Receive(x) \/ Execute(x) \/ Die(x)
    BY <1>3 DEF Execute, StepForward
  <2>2. branch' \in 1..made'
    BY <1>3, <1>0 DEF CreateBranch, TargetInv
  <2>3. CASE Return(x, "record") /\ target' = [target EXCEPT ![x] = branch']
    <3>1. Reached(x)' = 1
      BY <1>3, <2>3, StepNames DEF Reached, Return, Goto, CreateBranch, StepInv, TypeInv
    <3>2. target'[x] = branch' /\ \A y \in Executors \ {x} : target'[y] = target[y]
      BY <2>3 DEF TypeInv
    <3>3. QED
      BY <1>2, <2>1, <2>2, <3>1, <3>2
  <2>4. CASE Throw(x) /\ UNCHANGED target
    <3>1. pc'[x] # "record"
      BY <2>4, ThrowMove
    <3>2. QED
      BY <1>0, <1>1, <2>1, <2>2, <2>4, <3>1
  <2>5. QED
    BY <1>3, <2>3, <2>4 DEF CreateBranch
<1>4. ASSUME NEW x \in Executors, RunMigrations(x) \/ CopyTenantData(x) PROVE TargetInv'
  <2>1. Receive(x) \/ Execute(x) \/ Die(x)
    BY <1>4 DEF Execute, StepForward
  <2>2. UNCHANGED <<branch, made, target>> /\ branch' \in 0..made'
    BY <1>4 DEF RunMigrations, CopyTenantData, TargetInv
  <2>3. /\ Reached(x)' <= Reached(x) + 1 /\ Reached(x) \in 0..5 /\ Reached(x)' \in 0..5
        /\ RunMigrations(x) => Reached(x) = 1
        /\ CopyTenantData(x) => Reached(x) = 2
    <3>1. /\ Reached(x) \in 0..5 /\ Reached(x)' \in 0..5
          /\ Reached(x)' <= Reached(x) + 1 \/ Reached(x) >= 3
      BY <2>1, ReachedLater
    <3>2. /\ RunMigrations(x) => Reached(x) = 1
          /\ CopyTenantData(x) => Reached(x) = 2
      BY StepNames DEF RunMigrations, CopyTenantData, Reached, StepInv
    <3>3. QED
      BY <1>4, <2>1, <3>1, <3>2, ReachedLater
  <2>4. /\ RunMigrations(x) => target[x] \in migrated'
        /\ CopyTenantData(x) => target[x] \in copied'
    BY DEF RunMigrations, CopyTenantData
  <2>5. /\ Reached(x)' >= 1 => target[x] \in 1..made'
        /\ Reached(x)' >= 2 => target[x] \in migrated'
        /\ Reached(x)' >= 3 => target[x] \in copied'
    BY <1>0, <1>4, <2>2, <2>3, <2>4 DEF TargetInv
  <2>6. QED
    BY <1>2, <2>1, <2>2, <2>5
<1>5. ASSUME NEW x \in Executors, Receive(x) \/ Execute(x) \/ Die(x),
             ~CreateBranch(x), ~RunMigrations(x), ~CopyTenantData(x)
      PROVE  TargetInv'
  <2>1. UNCHANGED target /\ branch' \in 0..made'
    <3>1. CASE Receive(x) \/ Prelude(x) \/ Die(x)
      BY <3>1
         DEF Receive, Prelude, Lookup, Recheck, Capture, StartRun, Die, infraVars, localVars,
             TargetInv
    <3>2. CASE StepForward(x)
      BY <1>5, <3>2
         DEF StepForward, MarkInFlight, CreateProject, SetDatabaseRef, SetTier, SetStatus,
             MarkStep, Complete, CallFails, infraVars, TargetInv
    <3>3. CASE StepBack(x) /\ ~Deprovision(x)
      BY <3>3 DEF StepBack, RecordError, Untier, Unstatus, Unref, CompensationThrows,
                  MarkCompensationFailed, MarkRolledBack, infraVars, localVars, TargetInv
    <3>4. CASE Deprovision(x)
      <4>1. branch' \in {0, branch} /\ UNCHANGED <<made, target>>
        BY <3>4 DEF Deprovision, localVars
      <4>2. QED
        BY <1>0, <4>1 DEF TargetInv
    <3>5. QED
      BY <1>5, <3>1, <3>2, <3>3, <3>4 DEF Execute
  <2>2. pc[x] \in {"createBranch", "runMigrations", "copyTenantData"} => pc'[x] # "record"
    <3>1. CASE Receive(x) \/ Prelude(x) \/ Die(x)
      BY <3>1 DEF Receive, Prelude, Lookup, Recheck, Capture, StartRun, Die, Goto, TypeInv
    <3>2. CASE CallFails(x)
      BY <3>2, ThrowMove DEF CallFails
    <3>3. CASE StepForward(x) /\ ~CallFails(x)
      BY <1>5, <3>3
         DEF StepForward, MarkInFlight, CreateProject, SetDatabaseRef, SetTier, SetStatus,
             MarkStep, Complete
    <3>4. CASE StepBack(x)
      BY <3>4 DEF StepBack, RecordError, Untier, Unstatus, Unref, Deprovision, CompensationThrows,
                  MarkCompensationFailed, MarkRolledBack, Undoing
    <3>5. QED
      BY <1>5, <3>1, <3>2, <3>3, <3>4 DEF Execute
  <2>3. QED
    BY <1>1, <1>5, <2>1, <2>2
<1>6. CASE Offboard \/ UNCHANGED vars
  <2>1. UNCHANGED <<infraVars, pc, step, target>>
    BY <1>6 DEF Offboard, vars, localVars
  <2>2. \A x \in Executors : Reached(x)' = Reached(x)
    BY <2>1 DEF Reached
  <2>3. QED
    BY <2>1, <2>2 DEF TargetInv, infraVars
<1>7. QED
  BY <1>3, <1>4, <1>5, <1>6 DEF Next

\* What markStep writes.
LEMMA StepWritten ==
  ASSUME TypeInv, NEW x \in Executors, MarkStep(x)
  PROVE  /\ run'[key[x]].steps = run[key[x]].steps \union {step[x]}
         /\ run'[key[x]].status = InFlight[step[x]]
         /\ \A k \in Keys \ {key[x]} : run'[k] = run[k]
         /\ \A k \in Keys : run'[k].prevRef = run[k].prevRef /\ run'[k].prevTier = run[k].prevTier
<1>1. step[x] \in Steps /\ key[x] \in Keys /\ run[key[x]] \in RunRows
  BY DEF TypeInv
<1>2. PICK row : /\ row = [run[key[x]] EXCEPT !.status = InFlight[step[x]],
                                              !.steps = @ \union {step[x]}]
                 /\ run' = [run EXCEPT ![key[x]] = row]
  BY DEF MarkStep
<1>3. /\ row.status = InFlight[step[x]] /\ row.steps = run[key[x]].steps \union {step[x]}
      /\ row.prevRef = run[key[x]].prevRef /\ row.prevTier = run[key[x]].prevTier
  BY <1>1, <1>2 DEF RunRows
<1>4. QED
  BY <1>1, <1>2, <1>3 DEF TypeInv

-----------------------------------------------------------------------------
(* What the catalog may name. *)

\* A step that remembers no reference but those that are there already.
LEMMA ReferenceFrame ==
  ASSUME TypeInv, ReferenceInv, [Next]_vars, ref' \in References,
         \A x \in Executors : seen'[x].ref \in References /\ prevRef'[x] \in References,
         \A k \in Keys : run'[k].prevRef \in References
  PROVE  ReferenceInv'
<1>1. References \subseteq References'
  BY Growth DEF References
<1>2. QED
  BY <1>1 DEF ReferenceInv

LEMMA NextReference ==
  ASSUME TypeInv, StepInv, TargetInv, ReferenceInv, [Next]_vars
  PROVE  ReferenceInv'
<1>0. /\ ref \in References /\ Row.ref = ref
      /\ \A x \in Executors : seen[x].ref \in References /\ prevRef[x] \in References
      /\ \A k \in Keys : run[k].prevRef \in References
  BY DEF ReferenceInv, Row
<1>1. ASSUME NEW x \in Executors, Receive(x) \/ Capture(x) PROVE ReferenceInv'
  <2>1. \A y \in Executors : seen'[y] \in {seen[y], Row}
    BY <1>1 DEF Receive, Capture, TypeInv
  <2>2. UNCHANGED <<ref, prevRef, run>>
    BY <1>1 DEF Receive, Capture, catalogVars
  <2>3. QED
    BY <1>0, <2>1, <2>2, ReferenceFrame
<1>2. ASSUME NEW x \in Executors, StartRun(x) PROVE ReferenceInv'
  <2>1. PICK row : /\ row = IF run[key[x]].status # "none" THEN run[key[x]]
                            ELSE [status |-> "pending", prevTier |-> seen[x].tier,
                                  prevRef |-> seen[x].ref, steps |-> {}]
                   /\ run' = [run EXCEPT ![key[x]] = row]
                   /\ prevRef' = [prevRef EXCEPT ![x] = row.prevRef]
    BY <1>2 DEF StartRun
  <2>2. row.prevRef \in References
    BY <1>0, <2>1 DEF TypeInv
  <2>3. /\ \A k \in Keys : run'[k] \in {run[k], row}
        /\ \A y \in Executors : prevRef'[y] \in {prevRef[y], row.prevRef}
    BY <2>1 DEF TypeInv
  <2>4. UNCHANGED <<ref, seen>>
    BY <1>2 DEF StartRun, catalogVars
  <2>5. \A k \in Keys : run'[k].prevRef \in References
    BY <1>0, <2>2, <2>3
  <2>6. \A y \in Executors : prevRef'[y] \in References
    BY <1>0, <2>2, <2>3
  <2>7. QED
    BY <1>0, <2>4, <2>5, <2>6, ReferenceFrame
<1>3. ASSUME NEW x \in Executors, SetDatabaseRef(x) PROVE ReferenceInv'
  <2>1. Reached(x) = 3
    BY <1>3, StepNames DEF SetDatabaseRef, StepInv, Reached
  <2>2. target[x] \in References
    BY <2>1 DEF TargetInv, References
  <2>3. ref' = target[x] /\ UNCHANGED <<seen, prevRef, run>>
    BY <1>3 DEF SetDatabaseRef, Answer, Return, Throw
  <2>4. QED
    BY <1>0, <2>2, <2>3, ReferenceFrame
<1>4. ASSUME NEW x \in Executors, Unref(x) PROVE ReferenceInv'
  <2>1. ref' = prevRef[x] /\ UNCHANGED <<seen, prevRef, run>>
    BY <1>4 DEF Unref, localVars
  <2>2. QED
    BY <1>0, <2>1, ReferenceFrame
<1>5. ASSUME UNCHANGED <<ref, seen, prevRef>>, \A k \in Keys : run'[k].prevRef = run[k].prevRef
      PROVE  ReferenceInv'
  BY <1>0, <1>5, ReferenceFrame
<1>6. ASSUME NEW x \in Executors, NEW s \in Statuses, SetRunStatus(x, s), UNCHANGED <<ref, seen, prevRef>>
      PROVE  ReferenceInv'
  BY <1>5, <1>6, StatusMove
<1>7. ASSUME NEW x \in Executors, MarkInFlight(x) \/ Complete(x) PROVE ReferenceInv'
  <2>1. PICK s \in Statuses : SetRunStatus(x, s)
    BY <1>7, StatusNames DEF MarkInFlight, Complete, TypeInv
  <2>2. UNCHANGED <<ref, seen, prevRef>>
    BY <1>7 DEF MarkInFlight, Complete, Answer, Return, Throw, catalogVars
  <2>3. QED
    BY <1>6, <2>1, <2>2
<1>8. ASSUME NEW x \in Executors, RecordError(x) \/ MarkCompensationFailed(x) \/ MarkRolledBack(x)
      PROVE  ReferenceInv'
  <2>1. PICK s \in Statuses : SetRunStatus(x, s)
    BY <1>8, StatusNames DEF RecordError, MarkCompensationFailed, MarkRolledBack, TypeInv
  <2>2. UNCHANGED <<ref, seen, prevRef>>
    BY <1>8 DEF RecordError, MarkCompensationFailed, MarkRolledBack, catalogVars, localVars
  <2>3. QED
    BY <1>6, <2>1, <2>2
<1>9. ASSUME NEW x \in Executors, MarkStep(x) PROVE ReferenceInv'
  <2>1. \A k \in Keys : run'[k].prevRef = run[k].prevRef
    BY <1>9, StepWritten
  <2>2. UNCHANGED <<ref, seen, prevRef>>
    BY <1>9 DEF MarkStep, Return, Throw, catalogVars
  <2>3. QED
    BY <1>5, <2>1, <2>2
<1>10. ASSUME NEW x \in Executors,
              \/ Lookup(x) \/ Recheck(x) \/ Untier(x) \/ Unstatus(x) \/ Deprovision(x)
              \/ CompensationThrows(x) \/ Die(x)
       PROVE  ReferenceInv'
  BY <1>5, <1>10 DEF Lookup, Recheck, Untier, Unstatus, Deprovision, CompensationThrows, Die,
                     catalogVars, localVars
<1>11. ASSUME NEW x \in Executors,
              \/ CreateProject(x) \/ CreateBranch(x) \/ RunMigrations(x) \/ CopyTenantData(x)
              \/ SetTier(x) \/ SetStatus(x) \/ CallFails(x)
       PROVE  ReferenceInv'
  BY <1>5, <1>11
     DEF CreateProject, CreateBranch, RunMigrations, CopyTenantData, SetTier, SetStatus,
         CallFails, Answer, Return, Throw, catalogVars
<1>12. CASE Offboard \/ UNCHANGED vars
  BY <1>5, <1>12 DEF Offboard, vars, catalogVars, localVars
<1>13. QED
  BY <1>1, <1>2, <1>3, <1>4, <1>7, <1>8, <1>9, <1>10, <1>11, <1>12
     DEF Next, Execute, Prelude, StepForward, StepBack

-----------------------------------------------------------------------------
(* The order of completed_steps. *)

\* Only markStep adds a step to a row, and only complete marks one completed.
LEMMA RowsWritten ==
  ASSUME TypeInv, RecordInv, [Next]_vars, \A x \in Executors : ~MarkStep(x), NEW k \in Keys
  PROVE  /\ run'[k].steps = run[k].steps
         /\ run'[k].status = "none" => run[k].status = "none"
         /\ run'[k].status = "completed"
              => run[k].status = "completed" \/ \E x \in Executors : Complete(x) /\ key[x] = k
<1> DEFINE Written(j) ==
      /\ run'[j].steps = run[j].steps
      /\ run'[j].status = "none" => run[j].status = "none"
      /\ run'[j].status = "completed"
           => run[j].status = "completed" \/ \E x \in Executors : Complete(x) /\ key[x] = j
<1>1. ASSUME NEW x \in Executors, StartRun(x) PROVE Written(k)
  <2>1. PICK row : /\ row = IF run[key[x]].status # "none" THEN run[key[x]]
                            ELSE [status |-> "pending", prevTier |-> seen[x].tier,
                                  prevRef |-> seen[x].ref, steps |-> {}]
                   /\ run' = [run EXCEPT ![key[x]] = row]
    BY <1>1 DEF StartRun
  <2>2. CASE run[key[x]].status = "none"
    <3>1. row.steps = run[key[x]].steps /\ row.status = "pending"
      BY <2>1, <2>2 DEF RecordInv, TypeInv
    <3>2. QED
      BY <2>1, <3>1 DEF TypeInv
  <2>3. CASE run[key[x]].status # "none"
    BY <2>1, <2>3 DEF TypeInv
  <2>4. QED
    BY <2>2, <2>3
<1>2. ASSUME NEW x \in Executors, NEW s \in Statuses \ {"none"}, SetRunStatus(x, s),
             s = "completed" => Complete(x)
      PROVE  Written(k)
  BY <1>2, StatusMove
<1>3. ASSUME NEW x \in Executors, MarkInFlight(x) \/ RecordError(x) PROVE Written(k)
  <2>1. InFlight[step[x]] \in Statuses \ {"none", "completed"}
    BY StatusNames DEF TypeInv
  <2>2. QED
    BY <1>2, <1>3, <2>1 DEF MarkInFlight, RecordError
<1>4. ASSUME NEW x \in Executors, Complete(x) \/ MarkCompensationFailed(x) \/ MarkRolledBack(x)
      PROVE  Written(k)
  BY <1>2, <1>4, StatusNames DEF Complete, MarkCompensationFailed, MarkRolledBack
<1>5. ASSUME NEW x \in Executors,
             \/ Receive(x) \/ Lookup(x) \/ Recheck(x) \/ Capture(x) \/ Die(x)
             \/ CreateProject(x) \/ CreateBranch(x) \/ RunMigrations(x) \/ CopyTenantData(x)
             \/ SetDatabaseRef(x) \/ SetTier(x) \/ SetStatus(x) \/ CallFails(x)
             \/ Untier(x) \/ Unstatus(x) \/ Unref(x) \/ Deprovision(x) \/ CompensationThrows(x)
      PROVE  UNCHANGED run
  BY <1>5 DEF Receive, Lookup, Recheck, Capture, Die, CreateProject, CreateBranch, RunMigrations,
              CopyTenantData, SetDatabaseRef, SetTier, SetStatus, CallFails, Untier, Unstatus,
              Unref, Deprovision, CompensationThrows
<1>6. CASE Offboard \/ UNCHANGED vars
  BY <1>6 DEF Offboard, vars
<1>7. CASE UNCHANGED run
  BY <1>7
<1>8. QED
  BY <1>1, <1>3, <1>4, <1>5, <1>6, <1>7 DEF Next, Execute, Prelude, StepForward, StepBack

\* Rows grow, and by the step an executor is in.
LEMMA RowsGrow ==
  ASSUME TypeInv, RecordInv, [Next]_vars, NEW k \in Keys
  PROVE  /\ run[k].steps \subseteq run'[k].steps
         /\ run'[k].status = "none" => run[k].status = "none" /\ run'[k].steps = run[k].steps
<1>1. ASSUME NEW x \in Executors, MarkStep(x)
      PROVE  /\ run[k].steps \subseteq run'[k].steps
             /\ run'[k].status = "none" => run[k].status = "none" /\ run'[k].steps = run[k].steps
  <2>1. InFlight[step[x]] # "none"
    BY StatusNames DEF TypeInv
  <2>2. QED
    BY <1>1, <2>1, StepWritten
<1>2. QED
  BY <1>1, RowsWritten

LEMMA NextRecord ==
  ASSUME TypeInv, StepInv, RecordInv, [Next]_vars
  PROVE  RecordInv'
<1>1. \A k \in Keys : /\ run[k].steps \subseteq run'[k].steps
                      /\ run'[k].status = "none" => run'[k].steps = {}
  BY RowsGrow DEF RecordInv
<1>2. key \in [Executors -> Keys] /\ step \in [Executors -> Steps]
  BY DEF TypeInv
<1>3. ASSUME NEW x \in Executors, Receive(x) \/ Execute(x) \/ Die(x) PROVE RecordInv'
  <2>1. key' = key /\ \A y \in Executors \ {x} : pc'[y] = pc[y] /\ step'[y] = step[y]
    BY <1>3, OthersStay
  <2>2. ASSUME NEW s \in Steps, Position[s] < Position[step'[x]] PROVE s \in run'[key[x]].steps
    <3>1. CASE step'[x] = step[x]
      BY <1>1, <1>2, <2>2, <3>1 DEF RecordInv
    <3>2. CASE step'[x] # step[x]
      <4>1. pc[x] = "record" /\ step[x] # "flip" /\ step'[x] = NextStep(step[x])
        BY <1>3, <3>2, OwnControl
      <4>2. MarkStep(x)
        BY <1>3, <3>2
           DEF Receive, Execute, Prelude, StepForward, StepBack, Die, Lookup, Recheck, Capture,
               StartRun, MarkInFlight, CreateProject, CreateBranch, RunMigrations, CopyTenantData,
               SetDatabaseRef, SetTier, SetStatus, Complete, CallFails, RecordError, Untier,
               Unstatus, Unref, Deprovision, CompensationThrows, MarkCompensationFailed,
               MarkRolledBack, Answer, Return, Throw, localVars
      <4>3. s = step[x] \/ Position[s] < Position[step[x]]
        BY <1>2, <2>2, <4>1, Successor, StepNames DEF Steps
      <4>4. QED
        BY <1>1, <1>2, <4>2, <4>3, StepWritten DEF RecordInv
    <3>3. QED
      BY <3>1, <3>2
  <2>3. ASSUME pc'[x] = "complete" PROVE "flip" \in run'[key[x]].steps
    <3>1. FirstCall[step[x]] # "complete"
      BY <1>2 DEF FirstCall, Steps
    <3>2. pc[x] = "record" /\ step[x] = "flip"
      BY <1>3, <2>3, <3>1, OwnControl DEF Undoing
    <3>3. MarkStep(x)
      BY <1>3, <2>3, <3>2, ThrowMove, GotoMove, CallNames
         DEF Receive, Execute, Prelude, StepForward, StepBack, Die, Lookup, Recheck, Capture,
             StartRun, MarkInFlight, CreateProject, CreateBranch, RunMigrations, CopyTenantData,
             SetDatabaseRef, SetTier, SetStatus, Complete, CallFails, RecordError, Untier,
             Unstatus, Unref, Deprovision, CompensationThrows, MarkCompensationFailed,
             MarkRolledBack, Undoing
    <3>4. QED
      BY <3>2, <3>3, StepWritten
  <2>4. ASSUME NEW y \in Executors, y # x
        PROVE  /\ \A s \in Steps : Position[s] < Position[step'[y]] => s \in run'[key'[y]].steps
               /\ pc'[y] = "complete" => "flip" \in run'[key'[y]].steps
    BY <1>1, <1>2, <2>1, <2>4 DEF RecordInv
  <2>5. QED
    BY <1>1, <2>1, <2>2, <2>3, <2>4 DEF RecordInv
<1>4. CASE Offboard \/ UNCHANGED vars
  BY <1>4 DEF Offboard, vars, localVars, RecordInv
<1>5. QED
  BY <1>3, <1>4 DEF Next

LEMMA NextOrder ==
  ASSUME TypeInv, StepInv, RecordInv, StepsInOrder, [Next]_vars
  PROVE  StepsInOrder'
<1>1. ASSUME NEW k \in Keys
      PROVE  \A s, t \in Steps :
               t \in run'[k].steps /\ Position[s] < Position[t] => s \in run'[k].steps
  <2>1. CASE run'[k].steps = run[k].steps
    BY <2>1 DEF StepsInOrder
  <2>2. ASSUME NEW x \in Executors, MarkStep(x), run'[k].steps # run[k].steps
        PROVE  \A s, t \in Steps :
                 t \in run'[k].steps /\ Position[s] < Position[t] => s \in run'[k].steps
    <3>1. k = key[x] /\ run'[k].steps = run[k].steps \union {step[x]}
      BY <2>2, StepWritten
    <3>2. QED
      BY <3>1 DEF RecordInv, StepsInOrder
  <2>3. QED
    BY <2>1, <2>2, RowsWritten
<1>2. ASSUME NEW k \in Keys, run'[k].status = "completed" PROVE run'[k].steps = Steps
  <2>1. \A x \in Executors : ~MarkStep(x) \/ key[x] # k
    <3>1. \A x \in Executors : InFlight[step[x]] # "completed"
      BY StatusNames DEF TypeInv
    <3>2. QED
      BY <1>2, <3>1, StepWritten
  <2>2. CASE \E x \in Executors : MarkStep(x)
    BY <1>2, <2>1, <2>2, StepWritten DEF StepsInOrder
  <2>3. CASE (\A x \in Executors : ~MarkStep(x)) /\ run[k].status = "completed"
    BY <2>3, RowsWritten DEF StepsInOrder
  <2>4. ASSUME NEW x \in Executors, Complete(x), key[x] = k, \A y \in Executors : ~MarkStep(y)
        PROVE  run'[k].steps = Steps
    <3>1. pc[x] = "complete" /\ step[x] = "flip"
      BY <2>4 DEF Complete, StepInv
    <3>2. \A s \in Steps : s # "flip" => Position[s] < Position["flip"]
      BY StepNames DEF Steps
    <3>3. Steps \subseteq run[k].steps /\ run[k].steps \subseteq Steps
      BY <2>4, <3>1, <3>2 DEF RecordInv, TypeInv, RunRows
    <3>4. QED
      BY <2>4, <3>3, RowsWritten
  <2>5. QED
    BY <1>2, <2>2, <2>3, <2>4, RowsWritten
<1>3. QED
  BY <1>1, <1>2 DEF StepsInOrder

LEMMA NextIInv == IInv /\ [Next]_vars => IInv'
  BY NextType, NextStepInv, NextTarget, NextReference, NextRecord, NextOrder DEF IInv

-----------------------------------------------------------------------------
\* The inductive invariant: what each executor has done to its own target, what
\* it remembers of the catalog, and what its row records of the steps behind it.
THEOREM SagaInvariant == Spec => []IInv
  BY InitInv, NextIInv, PTL DEF Spec

\* The tenant row, the run rows and the engine's locals have their types, for
\* any requests and keys.
THEOREM SagaTypeCorrect == Spec => []TypeOK
<1>1. IInv => TypeOK
  BY TypeNames DEF IInv
<1>2. QED
  BY SagaInvariant, <1>1, PTL

\* However many promotions overlap, fail, lose answers or die, database_ref names
\* no branch but one that was given the schema and the tenant's rows.
THEOREM ReferencePopulated == Spec => []RefIsPopulated
<1>1. IInv => RefIsPopulated
  BY DEF IInv, ReferenceInv, References, RefIsPopulated
<1>2. QED
  BY SagaInvariant, <1>1, PTL

\* completed_steps is a prefix of the steps, and a completed run has recorded all
\* of them, also when two requests with one key wrote the row in turn.
THEOREM StepsRecordedInOrder == Spec => []StepsInOrder
<1>1. IInv => StepsInOrder
  BY DEF IInv
<1>2. QED
  BY SagaInvariant, <1>1, PTL

-----------------------------------------------------------------------------
(***************************************************************************)
(* One request at a time, no lost answers, a tenant that was active: what  *)
(* the engine was written for.  Calls still throw and processes still die. *)
(***************************************************************************)

SerialMode == Serial /\ ~Lossy /\ InitialStatus = "active"

Alone == \A x, y \in Executors : Executing(x) /\ Executing(y) => x = y

\* Nobody ever sees the tenant provisioning, so setStatus is never called.
ActiveInv ==
  /\ status # "provisioning"
  /\ \A x \in Executors : seen[x].status # "provisioning" /\ pc[x] \notin {"setStatus", "unstatus"}

\* What an executor has read of the tenant and of its key is still so.
EntryInv(x) ==
  /\ pc[x] = "lookup" => seen[x].tier = tier
  /\ pc[x] \in {"recheck", "capture", "start"} => tier = "pool"
  /\ pc[x] = "start" => seen[x].tier = "pool" /\ seen[x].ref = ref
  /\ pc[x] \in {"capture", "start"} => run[key[x]].status = "none"
  /\ pc[x] \in Forward \union Undoing \union Closing => seen[x].tier = "pool"

\* Whether the catalog names the branch, and says silo, is told by the call.
CatalogInv(x) ==
  /\ pc[x] \in Forward /\ Reached(x) >= 1 => branch = target[x]
  /\ pc[x] \in Forward /\ Reached(x) = 4 => ref = target[x]
  /\ pc[x] \in Forward => (tier = "silo" <=> Reached(x) = 5)
  /\ pc[x] = "catch" => (tier = "silo" => undo[x] = 5)
  /\ pc[x] \in {"unref", "deprovision", "unwound"} => tier = "pool"

\* What the run would restore is what the catalog had, and has until repoint.
RestoreInv(x) ==
  /\ pc[x] \in Forward \union Undoing \union {"catch", "unwound"} => prevRef[x] = run[key[x]].prevRef
  /\ \/ pc[x] \in Forward /\ Reached(x) <= 3
     \/ pc[x] = "catch" /\ undo[x] <= 3
     \/ pc[x] \in {"deprovision", "unwound"}
     => ref = prevRef[x]

\* Behind a completed run there is only a request that will be refused.
ServedInv == \A k \in Keys : run[k].status = "completed" =>
  /\ tier = "silo"
  /\ \A x \in Executors : Executing(x) => pc[x] = "lookup"

SerialInv ==
  /\ IInv /\ Alone /\ ActiveInv /\ ServedInv
  /\ \A x \in Executors : EntryInv(x) /\ CatalogInv(x) /\ RestoreInv(x)
  /\ tier = "silo" => ref \in Ready
  /\ \A k \in Keys : run[k].prevTier = "pool"

LEMMA InitSerial == SerialMode /\ Init => SerialInv
<1> SUFFICES ASSUME SerialMode, Init PROVE SerialInv
  OBVIOUS
<1>1. IInv
  BY InitInv
<1>2. Row.status = "active" /\ NoRun.status = "none" /\ NoRun.prevTier = "pool"
  BY DEF Init, Row, NoRun, SerialMode
<1>3. Alone /\ ActiveInv /\ ServedInv
  BY <1>2 DEF Init, Alone, Executing, ActiveInv, ServedInv, SerialMode
<1>4. \A x \in Executors : EntryInv(x) /\ CatalogInv(x) /\ RestoreInv(x)
  BY DEF Init, EntryInv, CatalogInv, RestoreInv, Forward, Undoing, Closing
<1>5. QED
  BY <1>1, <1>2, <1>3, <1>4 DEF SerialInv, Init

LEMMA AloneStep ==
  ASSUME SerialMode, TypeInv, Alone, NEW x \in Executors, Receive(x) \/ Execute(x) \/ Die(x)
  PROVE  /\ Alone'
         /\ \A y \in Executors \ {x} : ~Executing(y) /\ ~Executing(y)'
<1>1. \A y \in Executors \ {x} : pc'[y] = pc[y]
  BY OthersStay
<1>2. \A y \in Executors \ {x} : ~Executing(y)
  <2>1. CASE Receive(x)
    BY <2>1 DEF Receive, SerialMode
  <2>2. CASE Execute(x) \/ Die(x)
    <3>1. Executing(x)
      BY <2>2
         DEF Execute, Prelude, StepForward, StepBack, Die, Lookup, Recheck, Capture, StartRun,
             MarkInFlight, CreateProject, CreateBranch, RunMigrations, CopyTenantData,
             SetDatabaseRef, SetTier, SetStatus, MarkStep, Complete, CallFails, RecordError,
             Untier, Unstatus, Unref, Deprovision, CompensationThrows, MarkCompensationFailed,
             MarkRolledBack, Executing, Forward, Undoing
    <3>2. QED
      BY <3>1 DEF Alone
  <2>3. QED
    BY <2>1, <2>2
<1>3. QED
  BY <1>1, <1>2 DEF Executing, Alone

\* What is said of an executor is said while it executes.
LEMMA Resting ==
  ASSUME NEW y \in Executors, ~Executing(y)'
  PROVE  EntryInv(y)' /\ CatalogInv(y)' /\ RestoreInv(y)'
  BY DEF Executing, EntryInv, CatalogInv, RestoreInv, Forward, Undoing, Closing

LEMMA NextActive ==
  ASSUME TypeInv, ActiveInv, [Next]_vars
  PROVE  ActiveInv'
<1>1. ASSUME NEW x \in Executors, Receive(x) \/ Execute(x) \/ Die(x) PROVE ActiveInv'
  <2>1. seen[x].status # "provisioning" /\ status # "provisioning" /\ Row.status = status
    BY DEF ActiveInv, Row
  <2>2. step[x] \in Steps /\ undo[x] \in 0..5 /\ ~SetStatus(x) /\ ~Unstatus(x)
    BY DEF TypeInv, ActiveInv, SetStatus, Unstatus
  <2>3. status' = status /\ pc'[x] \notin {"setStatus", "unstatus"} /\ seen'[x].status # "provisioning"
    <3>1. CASE Receive(x) \/ Capture(x)
      BY <2>1, <3>1 DEF Receive, Capture, Goto, catalogVars, TypeInv
    <3>2. CASE Lookup(x) \/ Recheck(x) \/ StartRun(x) \/ Die(x)
      BY <2>1, <3>2 DEF Lookup, Recheck, StartRun, Die, Goto, catalogVars, localVars, TypeInv
    <3>3. CASE MarkInFlight(x)
      <4>1. FirstCall[step[x]] \notin {"setStatus", "unstatus"}
        BY <2>2 DEF FirstCall, Steps
      <4>2. QED
        BY <2>1, <3>3, <4>1 DEF MarkInFlight, Answer, Return, Throw, Goto, catalogVars, TypeInv
    <3>4. CASE CreateProject(x) \/ CreateBranch(x) \/ RunMigrations(x) \/ CopyTenantData(x)
      BY <2>1, <3>4 DEF CreateProject, CreateBranch, RunMigrations, CopyTenantData,
                        Answer, Return, Throw, Goto, catalogVars, TypeInv
    <3>5. CASE SetDatabaseRef(x) \/ SetTier(x) \/ Complete(x) \/ CallFails(x) \/ MarkStep(x)
      BY <2>1, <3>5 DEF SetDatabaseRef, SetTier, Complete, CallFails, MarkStep,
                        Answer, Return, Throw, Goto, catalogVars, TypeInv
    <3>6. CASE RecordError(x)
      <4>1. FirstUndo(undo[x]) \notin {"setStatus", "unstatus"}
        BY <2>2, UndoNames
      <4>2. QED
        BY <2>1, <3>6, <4>1 DEF RecordError, Goto, catalogVars, localVars, TypeInv
    <3>7. CASE \/ Untier(x) \/ Unref(x) \/ Deprovision(x) \/ CompensationThrows(x)
               \/ MarkCompensationFailed(x) \/ MarkRolledBack(x)
      BY <2>1, <3>7 DEF Untier, Unref, Deprovision, CompensationThrows, MarkCompensationFailed,
                        MarkRolledBack, Undone, Goto, catalogVars, localVars, TypeInv
    <3>8. QED
      BY <1>1, <2>2, <3>1, <3>2, <3>3, <3>4, <3>5, <3>6, <3>7
         DEF Execute, Prelude, StepForward, StepBack
  <2>4. QED
    BY <1>1, <2>1, <2>3, OthersStay DEF ActiveInv
<1>2. CASE Offboard \/ UNCHANGED vars
  BY <1>2 DEF Offboard, vars, catalogVars, localVars, ActiveInv
<1>3. QED
  BY <1>1, <1>2 DEF Next

LEMMA OwnEntry ==
  ASSUME SerialMode, SerialInv, NEW x \in Executors, Receive(x) \/ Execute(x) \/ Die(x)
  PROVE  EntryInv(x)'
<1> USE DEF SerialInv, IInv, EntryInv, Goto
<1>1. CASE Receive(x)
  BY <1>1 DEF Receive, Row, catalogVars, TypeInv, Forward, Undoing, Closing
<1>2. CASE Lookup(x) \/ Recheck(x)
  BY <1>2
     DEF Lookup, Recheck, catalogVars, localVars, TypeInv, Forward, Undoing, Closing, TenantRows
<1>3. CASE Capture(x)
  BY <1>3 DEF Capture, Row, catalogVars, TypeInv, Forward, Undoing, Closing
<1>4. CASE StartRun(x)
  BY <1>4 DEF StartRun, catalogVars, TypeInv, Forward, Undoing, Closing
<1>5. CASE Die(x)
  BY <1>5 DEF Die, TypeInv, Forward, Undoing, Closing
<1>6. CASE StepForward(x) \/ StepBack(x)
  <2>1. pc[x] \in Forward \union Undoing \union Closing
    BY <1>6 DEF StepForward, StepBack, MarkInFlight, CreateProject, CreateBranch, RunMigrations,
             CopyTenantData, SetDatabaseRef, SetTier, SetStatus, MarkStep, Complete, CallFails,
             RecordError, Untier, Unstatus, Unref, Deprovision, CompensationThrows,
             MarkCompensationFailed, MarkRolledBack, Forward, Undoing, Closing
  <2>2. seen' = seen
    BY <1>6 DEF StepForward, StepBack, MarkInFlight, CreateProject, CreateBranch, RunMigrations,
             CopyTenantData, SetDatabaseRef, SetTier, SetStatus, MarkStep, Complete, CallFails,
             RecordError, Untier, Unstatus, Unref, Deprovision, CompensationThrows,
             MarkCompensationFailed, MarkRolledBack, Answer, Return, Throw, localVars
  <2>3. pc'[x] \notin {"lookup", "recheck", "capture", "start"}
    <3>1. FirstCall[step[x]] \notin {"lookup", "recheck", "capture", "start"}
      BY DEF FirstCall, Steps, TypeInv
    <3>2. QED
      BY <1>6, <2>1, <3>1, OwnControl DEF Execute, Forward, Undoing, Closing
  <2>4. QED
    BY <2>1, <2>2, <2>3
<1>7. QED
  BY <1>1, <1>2, <1>3, <1>4, <1>5, <1>6 DEF Execute, Prelude

LEMMA OwnCatalog ==
  ASSUME SerialMode, SerialInv, NEW x \in Executors, Receive(x) \/ Execute(x) \/ Die(x)
  PROVE  CatalogInv(x)'
<1> USE DEF SerialMode
<1>0. /\ TypeInv /\ StepInv /\ CatalogInv(x) /\ EntryInv(x)
      /\ seen[x].status # "provisioning" /\ pc[x] # "setStatus"
      /\ step[x] \in Steps /\ undo[x] \in 0..5 /\ Position[step[x]] \in 1..5
  BY StepNames DEF SerialInv, IInv, ActiveInv, TypeInv
<1>1. ASSUME pc'[x] \notin Forward \union {"catch", "unref", "deprovision", "unwound"}
      PROVE  CatalogInv(x)'
  BY <1>1 DEF CatalogInv, Forward
<1>2. CASE Receive(x) \/ Lookup(x) \/ Recheck(x) \/ Capture(x) \/ Die(x)
  <2>1. pc'[x] \in {"lookup", "recheck", "capture", "start", "done", "dead"}
    BY <1>0, <1>2 DEF Receive, Lookup, Recheck, Capture, Die, Goto, TypeInv
  <2>2. QED
    BY <1>1, <2>1 DEF Forward
<1>3. CASE StartRun(x)
  <2>1. pc'[x] = "mark" /\ step'[x] = "provision" /\ tier' = "pool"
    BY <1>0, <1>3 DEF StartRun, Goto, StepInv, EntryInv, catalogVars, TypeInv
  <2>2. Reached(x)' = 0
    BY <2>1, StepNames DEF Reached
  <2>3. QED
    BY <2>1, <2>2 DEF CatalogInv
<1>4. CASE MarkInFlight(x) \/ CreateProject(x)
  <2>1. /\ UNCHANGED <<tier, ref, branch, target, step>>
        /\ pc'[x] = IF MarkInFlight(x) THEN FirstCall[step[x]] ELSE "createBranch"
        /\ pc[x] \in {"mark", "createProject"}
    BY <1>0, <1>4
       DEF MarkInFlight, CreateProject, Answer, Return, Goto, catalogVars, infraVars, TypeInv
  <2>2. FirstCall[step[x]] \notin {"record", "complete", "catch", "unref", "deprovision", "unwound"}
    BY <1>0 DEF FirstCall, Steps
  <2>3. Reached(x)' = Reached(x)
    BY <2>1, <2>2 DEF Reached
  <2>4. QED
    BY <1>0, <2>1, <2>2, <2>3 DEF CatalogInv, Forward
<1>5. CASE CreateBranch(x)
  <2>1. pc'[x] = "record" /\ step'[x] = "provision" /\ target'[x] = branch' /\ UNCHANGED tier
    BY <1>0, <1>5 DEF CreateBranch, Return, Goto, StepInv, catalogVars, TypeInv
  <2>2. Reached(x) = 0 /\ Reached(x)' = 1
    BY <1>0, <1>5, <2>1, StepNames DEF Reached, CreateBranch, StepInv
  <2>3. QED
    BY <1>0, <1>5, <2>1, <2>2 DEF CatalogInv, CreateBranch, Forward
<1>6. CASE RunMigrations(x) \/ CopyTenantData(x)
  <2>1. /\ pc'[x] = "record" /\ UNCHANGED <<tier, ref, branch, target, step>>
        /\ branch = target[x] /\ pc[x] \in {"runMigrations", "copyTenantData"}
    BY <1>0, <1>6 DEF RunMigrations, CopyTenantData, Answer, Return, Goto, catalogVars, TypeInv
  <2>2. step[x] \in {"migrate", "copy"}
    BY <1>0, <2>1 DEF StepInv
  <2>3. Reached(x) \in {1, 2} /\ Reached(x)' \in {2, 3}
    BY <2>1, <2>2, StepNames DEF Reached
  <2>4. QED
    BY <1>0, <2>1, <2>3 DEF CatalogInv, Forward
<1>7. CASE SetDatabaseRef(x)
  <2>1. /\ pc'[x] = "record" /\ UNCHANGED <<tier, branch, target, step>>
        /\ ref' = target[x] /\ pc[x] = "setDatabaseRef"
    BY <1>0, <1>7 DEF SetDatabaseRef, Answer, Return, Goto, infraVars, TypeInv
  <2>2. Reached(x) = 3 /\ Reached(x)' = 4
    BY <1>0, <2>1, StepNames DEF Reached, StepInv
  <2>3. QED
    BY <1>0, <2>1, <2>2 DEF CatalogInv, Forward
<1>8. CASE SetTier(x)
  <2>1. /\ pc'[x] = "record" /\ UNCHANGED <<branch, target, step>>
        /\ tier' = "silo" /\ pc[x] = "setTier"
    BY <1>0, <1>8 DEF SetTier, Answer, Return, Goto, infraVars, TypeInv
  <2>2. Reached(x) = 4 /\ Reached(x)' = 5
    BY <1>0, <2>1, StepNames DEF Reached, StepInv
  <2>3. QED
    BY <1>0, <2>1, <2>2 DEF CatalogInv, Forward
<1>9. CASE MarkStep(x)
  <2>1. pc[x] = "record" /\ UNCHANGED <<tier, ref, branch, target>>
    BY <1>9 DEF MarkStep, catalogVars, infraVars
  <2>2. CASE step[x] = "flip"
    <3>1. pc'[x] = "complete" /\ step' = step
      BY <1>0, <1>9, <2>2 DEF MarkStep, Return, Goto, TypeInv
    <3>2. Reached(x)' = Reached(x)
      BY <2>1, <3>1 DEF Reached
    <3>3. QED
      BY <1>0, <2>1, <3>1, <3>2 DEF CatalogInv, Forward
  <2>3. CASE step[x] # "flip"
    <3>1. pc'[x] = "mark" /\ step'[x] = NextStep(step[x])
      BY <1>0, <1>9, <2>3 DEF MarkStep, Return, Goto, TypeInv
    <3>2. Position[step'[x]] = Position[step[x]] + 1
      BY <1>0, <2>3, <3>1, StepAfter
    <3>3. Reached(x)' = Reached(x)
      BY <1>0, <2>1, <3>1, <3>2 DEF Reached
    <3>4. QED
      BY <1>0, <2>1, <3>1, <3>3 DEF CatalogInv, Forward
  <2>4. QED
    BY <2>2, <2>3
<1>10. CASE CallFails(x)
  <2>1. pc'[x] = "catch" /\ UNCHANGED tier /\ undo'[x] = Reached(x) /\ pc[x] \in Forward
    BY <1>0, <1>10 DEF CallFails, Throw, Goto, Reached, catalogVars, TypeInv
  <2>2. QED
    BY <1>0, <2>1 DEF CatalogInv, Forward
<1>11. CASE RecordError(x)
  <2>1. pc'[x] = FirstUndo(undo[x]) /\ UNCHANGED tier /\ pc[x] = "catch"
    BY <1>0, <1>11 DEF RecordError, Goto, catalogVars, TypeInv
  <2>2. CASE undo[x] = 5
    BY <1>1, <2>1, <2>2, UndoNames DEF Forward
  <2>3. CASE undo[x] # 5
    BY <1>0, <2>1, <2>3, UndoNames DEF CatalogInv, Forward, TypeInv
  <2>4. QED
    BY <2>2, <2>3
<1>12. CASE Untier(x)
  <2>1. pc'[x] = "unref" /\ tier' = "pool"
    BY <1>0, <1>12 DEF Untier, Undone, Goto, EntryInv, Undoing, TypeInv
  <2>2. QED
    BY <2>1 DEF CatalogInv, Forward
<1>13. CASE Unref(x) \/ Deprovision(x)
  <2>1. pc'[x] \in {"deprovision", "unwound"} /\ UNCHANGED tier /\ pc[x] \in {"unref", "deprovision"}
    BY <1>0, <1>13 DEF Unref, Deprovision, Undone, Goto, catalogVars, TypeInv
  <2>2. QED
    BY <1>0, <2>1 DEF CatalogInv, Forward
<1>14. CASE \/ CompensationThrows(x) \/ MarkCompensationFailed(x) \/ MarkRolledBack(x)
            \/ Complete(x)
  <2>1. pc'[x] \in {"stuck", "done"}
    BY <1>0, <1>14 DEF CompensationThrows, MarkCompensationFailed, MarkRolledBack, Complete,
                       Answer, Return, Goto, TypeInv
  <2>2. QED
    BY <1>1, <2>1 DEF Forward
<1>15. ~SetStatus(x) /\ ~Unstatus(x)
  BY <1>0 DEF SetStatus, Unstatus, SerialInv, ActiveInv
<1>16. QED
  BY <1>2, <1>3, <1>4, <1>5, <1>6, <1>7, <1>8, <1>9, <1>10, <1>11, <1>12, <1>13, <1>14, <1>15
     DEF Execute, Prelude, StepForward, StepBack

LEMMA OwnRestore ==
  ASSUME SerialMode, SerialInv, NEW x \in Executors, Receive(x) \/ Execute(x) \/ Die(x)
  PROVE  RestoreInv(x)'
<1> USE DEF SerialMode
<1>0. /\ TypeInv /\ StepInv /\ RestoreInv(x) /\ EntryInv(x) /\ CatalogInv(x)
      /\ step[x] \in Steps /\ undo[x] \in 0..5 /\ key[x] \in Keys /\ key' = key
      /\ Reached(x) \in 0..5 /\ Reached(x)' \in 0..5
  BY OthersStay, ReachedLater DEF SerialInv, IInv, TypeInv
<1>1. ASSUME pc'[x] \notin Forward \union {"untier", "unstatus", "unref", "deprovision", "catch", "unwound"}
      PROVE  RestoreInv(x)'
  BY <1>1 DEF RestoreInv, Forward, Undoing
<1>2. CASE \/ Receive(x) \/ Lookup(x) \/ Recheck(x) \/ Capture(x) \/ Die(x) \/ Complete(x)
           \/ CompensationThrows(x) \/ MarkCompensationFailed(x) \/ MarkRolledBack(x)
  <2>1. pc'[x] \in {"lookup", "recheck", "capture", "start", "done", "dead", "stuck"}
    BY <1>0, <1>2 DEF Receive, Lookup, Recheck, Capture, Die, Complete, CompensationThrows,
                      MarkCompensationFailed, MarkRolledBack, Answer, Return, Goto, TypeInv
  <2>2. QED
    BY <1>1, <2>1 DEF Forward
<1>3. CASE StartRun(x)
  <2>1. run[key[x]].status = "none" /\ seen[x].ref = ref
    BY <1>0, <1>3 DEF StartRun, EntryInv
  <2>2. prevRef'[x] = ref /\ run'[key[x]].prevRef = ref /\ ref' = ref
    BY <1>0, <1>3, <2>1 DEF StartRun, catalogVars, TypeInv
  <2>3. QED
    BY <1>0, <2>2 DEF RestoreInv
<1>4. ASSUME prevRef' = prevRef, run'[key[x]].prevRef = run[key[x]].prevRef,
             pc[x] \in Forward, pc'[x] \in Forward,
             Reached(x)' <= 3 => ref' = ref /\ Reached(x) <= 3
      PROVE  RestoreInv(x)'
  BY <1>0, <1>4 DEF RestoreInv, Forward, Undoing
<1>5. CASE MarkInFlight(x) \/ CreateProject(x) \/ CreateBranch(x) \/ RunMigrations(x) \/ CopyTenantData(x)
  <2>1. prevRef' = prevRef /\ ref' = ref
    BY <1>5 DEF MarkInFlight, CreateProject, CreateBranch, RunMigrations, CopyTenantData,
                Answer, Return, catalogVars
  <2>2. run'[key[x]].prevRef = run[key[x]].prevRef
    <3>1. CASE MarkInFlight(x)
      BY <1>0, <3>1, StatusMove, StatusNames DEF MarkInFlight
    <3>2. CASE ~MarkInFlight(x)
      BY <1>5, <3>2 DEF CreateProject, CreateBranch, RunMigrations, CopyTenantData
    <3>3. QED
      BY <3>1, <3>2
  <2>3. pc[x] \in Forward /\ pc'[x] \in Forward /\ step' = step
    <3>1. FirstCall[step[x]] \in Forward
      BY <1>0 DEF FirstCall, Steps, Forward
    <3>2. QED
      BY <1>0, <1>5, <3>1 DEF MarkInFlight, CreateProject, CreateBranch, RunMigrations,
                CopyTenantData, Answer, Return, Goto, Forward, TypeInv
  <2>4. Reached(x)' <= 3 => Reached(x) <= 3
    BY <1>0, <1>5, <2>3, StepNames
       DEF Reached, MarkInFlight, CreateProject, CreateBranch, RunMigrations, CopyTenantData
  <2>5. QED
    BY <1>4, <2>1, <2>2, <2>3, <2>4
<1>6. CASE SetDatabaseRef(x) \/ SetTier(x)
  <2>1. /\ prevRef' = prevRef /\ run' = run /\ step' = step /\ pc'[x] = "record"
        /\ pc[x] \in {"setDatabaseRef", "setTier"}
    BY <1>0, <1>6 DEF SetDatabaseRef, SetTier, Answer, Return, Goto, TypeInv, SerialInv, ActiveInv
  <2>2. Reached(x)' >= 4
    BY <1>0, <2>1, StepNames DEF Reached, StepInv
  <2>3. QED
    BY <1>0, <1>4, <2>1, <2>2 DEF Forward
<1>7. CASE MarkStep(x)
  <2>1. /\ prevRef' = prevRef /\ ref' = ref /\ pc[x] = "record"
        /\ run'[key[x]].prevRef = run[key[x]].prevRef
    BY <1>0, <1>7, StepWritten DEF MarkStep, Return, catalogVars
  <2>2. CASE step[x] = "flip"
    <3>1. pc'[x] = "complete" /\ step' = step
      BY <1>0, <1>7, <2>2 DEF MarkStep, Return, Goto, TypeInv
    <3>2. Reached(x)' = Reached(x)
      BY <2>1, <3>1 DEF Reached
    <3>3. QED
      BY <1>4, <2>1, <3>1, <3>2 DEF Forward
  <2>3. CASE step[x] # "flip"
    <3>1. pc'[x] = "mark" /\ step'[x] = NextStep(step[x])
      BY <1>0, <1>7, <2>3 DEF MarkStep, Return, Goto, TypeInv
    <3>2. Position[step'[x]] = Position[step[x]] + 1 /\ Position[step[x]] \in 1..5
      BY <1>0, <2>3, <3>1, StepAfter, StepNames
    <3>3. Reached(x)' = Reached(x)
      BY <2>1, <3>1, <3>2 DEF Reached
    <3>4. QED
      BY <1>4, <2>1, <3>1, <3>3 DEF Forward
  <2>4. QED
    BY <2>2, <2>3
<1>8. CASE CallFails(x)
  <2>1. /\ pc'[x] = "catch" /\ undo'[x] = Reached(x) /\ pc[x] \in Forward
        /\ UNCHANGED <<ref, prevRef, run>>
    BY <1>0, <1>8 DEF CallFails, Throw, Goto, Reached, catalogVars, TypeInv
  <2>2. QED
    BY <1>0, <2>1 DEF RestoreInv, Forward, Undoing
<1>9. CASE RecordError(x)
  <2>1. /\ pc'[x] = FirstUndo(undo[x]) /\ pc[x] = "catch" /\ UNCHANGED <<ref, prevRef, undo>>
    BY <1>0, <1>9 DEF RecordError, Goto, catalogVars, localVars, TypeInv
  <2>2. run'[key[x]].prevRef = run[key[x]].prevRef
    BY <1>0, <1>9, StatusMove, StatusNames DEF RecordError
  <2>3. /\ pc'[x] \in {"untier", "unref", "deprovision", "unwound"}
        /\ pc'[x] \in {"deprovision", "unwound"} => undo[x] <= 3
    BY <1>0, <2>1, UndoNames
  <2>4. QED
    BY <1>0, <2>1, <2>2, <2>3 DEF RestoreInv, Forward, Undoing
<1>10. CASE Untier(x) \/ Unref(x) \/ Deprovision(x)
  <2>1. /\ UNCHANGED <<prevRef, run>> /\ pc[x] \in {"untier", "unref", "deprovision"}
        /\ pc'[x] = IF pc[x] = "untier" THEN "unref" ELSE IF pc[x] = "unref" THEN "deprovision" ELSE "unwound"
        /\ ref' = IF pc[x] = "unref" THEN prevRef[x] ELSE ref
    BY <1>0, <1>10 DEF Untier, Unref, Deprovision, Undone, Goto, catalogVars, localVars, TypeInv,
                       SerialInv, ActiveInv
  <2>2. QED
    BY <1>0, <2>1 DEF RestoreInv, Forward, Undoing
<1>11. ~SetStatus(x) /\ ~Unstatus(x)
  BY DEF SetStatus, Unstatus, SerialInv, ActiveInv
<1>12. QED
  BY <1>2, <1>3, <1>5, <1>6, <1>7, <1>8, <1>9, <1>10, <1>11
     DEF Execute, Prelude, StepForward, StepBack

\* Only markRolledBack marks a run rolled_back.
LEMMA RolledBackBy ==
  ASSUME TypeInv, [Next]_vars, NEW k \in Keys,
         run[k].status # "rolled_back", run'[k].status = "rolled_back"
  PROVE  \E x \in Executors : MarkRolledBack(x) /\ key[x] = k
<1>1. ASSUME NEW x \in Executors, StartRun(x) PROVE FALSE
  BY <1>1 DEF StartRun, TypeInv
<1>2. ASSUME NEW x \in Executors, NEW s \in Statuses, SetRunStatus(x, s)
      PROVE  s = "rolled_back" /\ key[x] = k
  BY <1>2, StatusMove
<1>3. ASSUME NEW x \in Executors,
             MarkInFlight(x) \/ Complete(x) \/ RecordError(x) \/ MarkCompensationFailed(x)
      PROVE  FALSE
  <2>1. InFlight[step[x]] \in Statuses \ {"rolled_back"}
    BY StatusNames DEF TypeInv, InFlight, Steps
  <2>2. QED
    BY <1>2, <1>3, <2>1, StatusNames
       DEF MarkInFlight, Complete, RecordError, MarkCompensationFailed
<1>4. ASSUME NEW x \in Executors, MarkStep(x) PROVE FALSE
  <2>1. InFlight[step[x]] # "rolled_back"
    BY DEF TypeInv, InFlight, Steps
  <2>2. QED
    BY <1>4, <2>1, StepWritten
<1>5. ASSUME NEW x \in Executors, MarkRolledBack(x) PROVE key[x] = k
  BY <1>2, <1>5, StatusNames DEF MarkRolledBack
<1>6. ASSUME NEW x \in Executors,
             \/ Receive(x) \/ Lookup(x) \/ Recheck(x) \/ Capture(x) \/ Die(x)
             \/ CreateProject(x) \/ CreateBranch(x) \/ RunMigrations(x) \/ CopyTenantData(x)
             \/ SetDatabaseRef(x) \/ SetTier(x) \/ SetStatus(x) \/ CallFails(x)
             \/ Untier(x) \/ Unstatus(x) \/ Unref(x) \/ Deprovision(x) \/ CompensationThrows(x)
      PROVE  FALSE
  BY <1>6 DEF Receive, Lookup, Recheck, Capture, Die, CreateProject, CreateBranch, RunMigrations,
              CopyTenantData, SetDatabaseRef, SetTier, SetStatus, CallFails, Untier, Unstatus,
              Unref, Deprovision, CompensationThrows
<1>7. ~(Offboard \/ UNCHANGED vars)
  BY DEF Offboard, vars
<1>8. QED
  BY <1>1, <1>3, <1>4, <1>5, <1>6, <1>7 DEF Next, Execute, Prelude, StepForward, StepBack

LEMMA NextServed ==
  ASSUME SerialMode, SerialInv, [Next]_vars
  PROVE  ServedInv'
<1>1. ASSUME NEW x \in Executors, Receive(x) \/ Execute(x) \/ Die(x),
             NEW k \in Keys, run'[k].status = "completed"
      PROVE  tier' = "silo" /\ \A y \in Executors : Executing(y)' => pc'[y] = "lookup"
  <2>0. /\ TypeInv /\ RecordInv /\ StepInv /\ EntryInv(x) /\ CatalogInv(x)
        /\ \A y \in Executors \ {x} : ~Executing(y)'
    BY <1>1, AloneStep DEF SerialInv, IInv
  <2>1. CASE run[k].status = "completed"
    <3>1. tier = "silo" /\ (Executing(x) => pc[x] = "lookup")
      BY <2>1 DEF SerialInv, ServedInv
    <3>2. Receive(x) \/ Lookup(x) \/ Die(x)
      BY <1>1, <3>1
         DEF Executing, Execute, Prelude, StepForward, StepBack, Recheck, Capture, StartRun,
             MarkInFlight, CreateProject, CreateBranch, RunMigrations, CopyTenantData,
             SetDatabaseRef, SetTier, SetStatus, MarkStep, Complete, CallFails, RecordError,
             Untier, Unstatus, Unref, Deprovision, CompensationThrows, MarkCompensationFailed,
             MarkRolledBack, Forward, Undoing
    <3>3. UNCHANGED tier /\ pc'[x] \in {"lookup", "done", "dead"}
      BY <2>0, <3>1, <3>2 DEF Receive, Lookup, Die, Goto, EntryInv, catalogVars, TypeInv
    <3>4. QED
      BY <2>0, <3>1, <3>3 DEF Executing
  <2>2. CASE run[k].status # "completed"
    <3>1. \A y \in Executors : ~MarkStep(y)
      BY <1>1, <2>0, <2>2, StepWritten, StatusNames DEF TypeInv
    <3>2. PICK y \in Executors : Complete(y)
      BY <1>1, <2>0, <2>2, <3>1, RowsWritten
    <3>3. Executing(y)
      BY <3>2 DEF Executing, Complete
    <3>4. Complete(x)
      BY <1>1, <2>0, <3>2, <3>3, AloneStep DEF SerialInv, IInv
    <3>5. pc[x] = "complete" /\ step[x] = "flip"
      BY <2>0, <3>4 DEF Complete, StepInv
    <3>6. tier = "silo"
      BY <2>0, <3>5, StepNames DEF CatalogInv, Reached, Forward
    <3>7. UNCHANGED tier /\ pc'[x] = "done"
      BY <2>0, <3>4 DEF Complete, Answer, Return, Goto, SerialMode, catalogVars, TypeInv
    <3>8. QED
      BY <2>0, <3>6, <3>7 DEF Executing
  <2>3. QED
    BY <2>1, <2>2
<1>2. CASE Offboard \/ UNCHANGED vars
  BY <1>2 DEF Offboard, vars, catalogVars, SerialInv, ServedInv, Executing
<1>3. QED
  BY <1>1, <1>2 DEF Next, ServedInv

\* Every step is one of the router's, or none.
LEMMA NextRouting ==
  ASSUME SerialMode, SerialInv, [Next]_vars
  PROVE  [Routing!Next]_(Routing!vars)
<1> USE DEF Ready
<1>0. /\ TypeInv /\ tier \in {"pool", "silo"} /\ ref \in Nat /\ made \in Nat
      /\ branch \in 0..made /\ migrated \subseteq 1..made /\ copied \subseteq 1..made
      /\ \A x \in Executors : StepInv!(x) /\ CatalogInv(x) /\ EntryInv(x) /\ Reached(x) \in 0..5
  BY StepNames DEF SerialInv, IInv, TypeInv, StepInv, TargetInv, Reached
<1>1. ASSUME UNCHANGED <<tier, ref>>, Ready' = Ready PROVE UNCHANGED Routing!vars
  BY <1>1 DEF Routing!vars
<1>2. ASSUME NEW x \in Executors,
             \/ Receive(x) \/ Die(x) \/ Prelude(x) \/ MarkInFlight(x) \/ CreateProject(x)
             \/ MarkStep(x) \/ Complete(x) \/ CallFails(x) \/ RecordError(x)
             \/ CompensationThrows(x) \/ MarkCompensationFailed(x) \/ MarkRolledBack(x)
      PROVE  UNCHANGED <<tier, ref, branch, migrated, copied>>
  BY <1>2
     DEF Receive, Die, Prelude, Lookup, Recheck, Capture, StartRun, MarkInFlight, CreateProject,
         MarkStep, Complete, CallFails, RecordError, CompensationThrows, MarkCompensationFailed,
         MarkRolledBack, catalogVars, infraVars
<1>3. CASE UNCHANGED <<tier, ref, branch, migrated, copied>>
  BY <1>1, <1>3
<1>4. ASSUME NEW x \in Executors, CreateBranch(x) PROVE [Routing!Next]_(Routing!vars)
  <2>1. UNCHANGED <<tier, ref, migrated, copied>>
    BY <1>4 DEF CreateBranch, catalogVars
  <2>2. (branch = 0 /\ branch' = made + 1) \/ branch' = branch
    BY <1>4 DEF CreateBranch
  <2>3. Ready' = Ready
    BY <1>0, <2>1, <2>2
  <2>4. QED
    BY <1>1, <2>1, <2>3
<1>5. ASSUME NEW x \in Executors, RunMigrations(x) \/ CopyTenantData(x)
      PROVE  [Routing!Next]_(Routing!vars)
  <2>1. /\ UNCHANGED <<tier, ref, branch>>
        /\ migrated' \in {migrated, migrated \union {branch}}
        /\ copied' \in {copied, copied \union {branch}}
    BY <1>5 DEF RunMigrations, CopyTenantData, catalogVars
  <2>2. CASE branch \in Ready'
    <3>1. Ready' = Ready \union {branch}
      BY <2>1, <2>2
    <3>2. Routing!Prepare
      BY <2>1, <2>2, <3>1 DEF Routing!Prepare
    <3>3. QED
      BY <3>2 DEF Routing!Next
  <2>3. CASE branch \notin Ready'
    <3>1. Ready' = {} /\ Ready = {}
      BY <2>1, <2>3
    <3>2. QED
      BY <1>1, <2>1, <3>1
  <2>4. QED
    BY <2>2, <2>3
<1>6. ASSUME NEW x \in Executors, SetDatabaseRef(x) \/ Unref(x) PROVE Routing!Repoint
  <2>1. /\ UNCHANGED <<tier, branch, migrated, copied>> /\ ref' \in Nat
        /\ pc[x] \in {"setDatabaseRef", "unref"}
    BY <1>0, <1>6 DEF SetDatabaseRef, Unref, infraVars, TypeInv
  <2>2. tier = "pool"
    BY <1>0, <2>1, StepNames DEF CatalogInv, Reached, Forward
  <2>3. QED
    BY <2>1, <2>2 DEF Routing!Repoint
<1>7. ASSUME NEW x \in Executors, SetTier(x) PROVE Routing!CutOver
  <2>1. UNCHANGED <<ref, branch, migrated, copied>> /\ tier' = "silo" /\ pc[x] = "setTier"
    BY <1>7 DEF SetTier, infraVars
  <2>2. Reached(x) = 4
    BY <1>0, <2>1, StepNames DEF Reached
  <2>3. tier = "pool" /\ ref = target[x] /\ branch = target[x]
    BY <1>0, <2>1, <2>2 DEF CatalogInv, Forward
  <2>4. target[x] \in migrated /\ target[x] \in copied
    BY <2>2 DEF SerialInv, IInv, TargetInv
  <2>5. QED
    BY <2>1, <2>3, <2>4 DEF Routing!CutOver
<1>8. ASSUME NEW x \in Executors, Untier(x) PROVE [Routing!Next]_(Routing!vars)
  <2>1. UNCHANGED <<ref, branch, migrated, copied>> /\ tier' = "pool"
    BY <1>0, <1>8 DEF Untier, EntryInv, Undoing, infraVars
  <2>2. CASE tier = "silo"
    BY <2>1, <2>2 DEF Routing!CutBack, Routing!Next
  <2>3. CASE tier = "pool"
    BY <1>3, <2>1, <2>3
  <2>4. QED
    BY <1>0, <2>2, <2>3
<1>9. ASSUME NEW x \in Executors, Deprovision(x) PROVE [Routing!Next]_(Routing!vars)
  <2>1. UNCHANGED <<tier, ref, migrated, copied>> /\ branch' \in {branch, 0} /\ tier = "pool"
    BY <1>0, <1>9 DEF Deprovision, CatalogInv, catalogVars
  <2>2. CASE Ready = {} \/ branch' = branch
    <3>1. Ready' = Ready
      BY <1>0, <2>1, <2>2
    <3>2. QED
      BY <1>1, <2>1, <3>1
  <2>3. CASE branch \in Ready /\ branch' = 0
    <3>1. Ready' = Ready \ {branch}
      BY <1>0, <2>1, <2>3
    <3>2. Routing!Discard
      BY <2>1, <2>3, <3>1 DEF Routing!Discard
    <3>3. QED
      BY <3>2 DEF Routing!Next
  <2>4. QED
    BY <2>1, <2>2, <2>3
<1>10. ASSUME NEW x \in Executors PROVE ~SetStatus(x) /\ ~Unstatus(x)
  BY DEF SetStatus, Unstatus, SerialInv, ActiveInv
<1>11. CASE Offboard \/ UNCHANGED vars
  BY <1>3, <1>11 DEF Offboard, vars, catalogVars, infraVars
<1>12. QED
  BY <1>2, <1>3, <1>4, <1>5, <1>6, <1>7, <1>8, <1>9, <1>10, <1>11
     DEF Next, Execute, StepForward, StepBack, Routing!Next

\* The router's discipline alone keeps a silo tenant on a database that is ready.
LEMMA RoutedIsReady ==
  ASSUME tier = "silo" => ref \in Ready, tier \in {"pool", "silo"}, [Routing!Next]_(Routing!vars)
  PROVE  tier' = "silo" => ref' \in Ready'
<1>1. CASE Routing!Prepare
  BY <1>1 DEF Routing!Prepare
<1>2. CASE Routing!Discard \/ Routing!Repoint \/ Routing!CutOver \/ Routing!CutBack
  BY <1>2 DEF Routing!Discard, Routing!Repoint, Routing!CutOver, Routing!CutBack
<1>3. CASE UNCHANGED Routing!vars
  BY <1>3 DEF Routing!vars
<1>4. QED
  BY <1>1, <1>2, <1>3 DEF Routing!Next

LEMMA NextPrevTier ==
  ASSUME SerialMode, SerialInv, [Next]_vars, NEW k \in Keys
  PROVE  run'[k].prevTier = "pool"
<1>0. TypeInv /\ \A j \in Keys : run[j].prevTier = "pool"
  BY DEF SerialInv, IInv
<1>1. ASSUME NEW x \in Executors, StartRun(x) PROVE run'[k].prevTier = "pool"
  <2>1. seen[x].tier = "pool"
    BY <1>1 DEF SerialInv, EntryInv, StartRun
  <2>2. QED
    BY <1>0, <1>1, <2>1 DEF StartRun, TypeInv
<1>2. ASSUME NEW x \in Executors, NEW s \in Statuses, SetRunStatus(x, s)
      PROVE  run'[k].prevTier = "pool"
  BY <1>0, <1>2, StatusMove
<1>3. ASSUME NEW x \in Executors,
             MarkInFlight(x) \/ Complete(x) \/ RecordError(x) \/ MarkCompensationFailed(x) \/ MarkRolledBack(x)
      PROVE  run'[k].prevTier = "pool"
  BY <1>0, <1>2, <1>3, StatusNames
     DEF MarkInFlight, Complete, RecordError, MarkCompensationFailed, MarkRolledBack, TypeInv
<1>4. ASSUME NEW x \in Executors, MarkStep(x) PROVE run'[k].prevTier = "pool"
  BY <1>0, <1>4, StepWritten DEF TypeInv
<1>5. ASSUME NEW x \in Executors,
             \/ Receive(x) \/ Lookup(x) \/ Recheck(x) \/ Capture(x) \/ Die(x)
             \/ CreateProject(x) \/ CreateBranch(x) \/ RunMigrations(x) \/ CopyTenantData(x)
             \/ SetDatabaseRef(x) \/ SetTier(x) \/ SetStatus(x) \/ CallFails(x)
             \/ Untier(x) \/ Unstatus(x) \/ Unref(x) \/ Deprovision(x) \/ CompensationThrows(x)
      PROVE  UNCHANGED run
  BY <1>5 DEF Receive, Lookup, Recheck, Capture, Die, CreateProject, CreateBranch, RunMigrations,
              CopyTenantData, SetDatabaseRef, SetTier, SetStatus, CallFails, Untier, Unstatus,
              Unref, Deprovision, CompensationThrows
<1>6. CASE Offboard \/ UNCHANGED vars
  BY <1>0, <1>6 DEF Offboard, vars
<1>7. QED
  BY <1>0, <1>1, <1>3, <1>4, <1>5, <1>6 DEF Next, Execute, Prelude, StepForward, StepBack

LEMMA NextSerial ==
  ASSUME SerialMode, SerialInv, [Next]_vars
  PROVE  SerialInv'
<1>1. IInv'
  BY NextIInv DEF SerialInv
<1>2. ActiveInv' /\ ServedInv' /\ \A k \in Keys : run'[k].prevTier = "pool"
  BY NextActive, NextServed, NextPrevTier DEF SerialInv, IInv
<1>3. tier' = "silo" => ref' \in Ready'
  BY NextRouting, RoutedIsReady DEF SerialInv, IInv, TypeInv
<1>4. ASSUME NEW x \in Executors, Receive(x) \/ Execute(x) \/ Die(x)
      PROVE  Alone' /\ \A y \in Executors : EntryInv(y)' /\ CatalogInv(y)' /\ RestoreInv(y)'
  <2>1. Alone' /\ \A y \in Executors \ {x} : ~Executing(y)'
    BY <1>4, AloneStep DEF SerialInv, IInv
  <2>2. EntryInv(x)' /\ CatalogInv(x)' /\ RestoreInv(x)'
    BY <1>4, OwnEntry, OwnCatalog, OwnRestore
  <2>3. QED
    BY <2>1, <2>2, Resting
<1>5. CASE Offboard \/ UNCHANGED vars
  <2>1. UNCHANGED <<tier, ref, infraVars, run, pc, localVars>>
    BY <1>5 DEF Offboard, vars, catalogVars
  <2>2. Alone'
    BY <2>1 DEF SerialInv, Alone, Executing
  <2>3. ASSUME NEW y \in Executors PROVE EntryInv(y)' /\ CatalogInv(y)' /\ RestoreInv(y)'
    <3>1. EntryInv(y) /\ CatalogInv(y) /\ RestoreInv(y)
      BY DEF SerialInv
    <3>2. Reached(y)' = Reached(y)
      BY <2>1 DEF Reached, localVars
    <3>3. EntryInv(y)'
      BY <2>1, <3>1 DEF EntryInv, localVars
    <3>4. CatalogInv(y)'
      BY <2>1, <3>1, <3>2 DEF CatalogInv, localVars, infraVars
    <3>5. RestoreInv(y)'
      BY <2>1, <3>1, <3>2 DEF RestoreInv, localVars
    <3>6. QED
      BY <3>3, <3>4, <3>5
  <2>4. QED
    BY <1>1, <1>2, <1>3, <2>2, <2>3 DEF SerialInv
<1>6. QED
  BY <1>1, <1>2, <1>3, <1>4, <1>5 DEF Next, SerialInv

-----------------------------------------------------------------------------
\* The inductive invariant of the engine alone: what an executor has read is still
\* so, its call tells what the catalog says, and what it would restore is known.
THEOREM SerialInvariant == ASSUME SerialMode PROVE Spec => []SerialInv
<1>1. Init => SerialInv
  BY InitSerial
<1>2. SerialInv /\ [Next]_vars => SerialInv'
  BY NextSerial
<1>3. QED
  BY <1>1, <1>2, PTL DEF Spec

\* With one promotion at a time and no lost answers, a run that reports completed
\* has moved the tenant to a database that is ready, and nothing takes it back.
THEOREM PromotionServed == ASSUME SerialMode PROVE Spec => []CompletedIsServed
<1>1. SerialInv => CompletedIsServed
  BY DEF SerialInv, ServedInv, CompletedIsServed
<1>2. QED
  BY SerialInvariant, <1>1, PTL

\* In the same mode, the catalog is what was captured at a run's start when the
\* run reports rolled_back.
THEOREM RollbackExact == ASSUME SerialMode PROVE Spec => RollbackIsExact
<1> DEFINE Exact == \A k \in Keys :
       run[k].status # "rolled_back" /\ run'[k].status = "rolled_back"
         => tier' = run[k].prevTier /\ ref' = run[k].prevRef
<1>1. ASSUME SerialInv, [Next]_vars PROVE Exact
  <2>1. SUFFICES ASSUME NEW k \in Keys, run[k].status # "rolled_back", run'[k].status = "rolled_back"
                 PROVE  tier' = run[k].prevTier /\ ref' = run[k].prevRef
    OBVIOUS
  <2>2. PICK x \in Executors : MarkRolledBack(x) /\ key[x] = k
    BY <1>1, <2>1, RolledBackBy DEF SerialInv, IInv
  <2>3. UNCHANGED <<tier, ref>> /\ pc[x] = "unwound"
    BY <2>2 DEF MarkRolledBack, catalogVars
  <2>4. tier = "pool" /\ ref = prevRef[x] /\ prevRef[x] = run[key[x]].prevRef /\ run[k].prevTier = "pool"
    BY <1>1, <2>3 DEF SerialInv, CatalogInv, RestoreInv
  <2>5. QED
    BY <2>2, <2>3, <2>4
<1>2. SerialInv /\ [Next]_vars => [Exact]_vars
  BY <1>1
<1>3. QED
  BY SerialInvariant, <1>2, PTL DEF Spec, RollbackIsExact

\* In the same mode, the promotion moves the tenant as the router allows: the tier
\* says silo only while database_ref names a database that is ready.
THEOREM SagaImplementsRouting == ASSUME SerialMode PROVE Spec => RefinesTenantRouting
<1>1. Init => Routing!Init
  BY DEF Init, Routing!Init, Ready
<1>2. SerialInv /\ [Next]_vars => [Routing!Next]_(Routing!vars)
  BY NextRouting
<1>3. QED
  BY <1>1, <1>2, SerialInvariant, PTL DEF Spec, RefinesTenantRouting, Routing!Spec

-----------------------------------------------------------------------------
(***************************************************************************)
(* The other writer of the tenant row, in every mode.  setStatus and its   *)
(* compensation write whatever the status has become since the tenant was  *)
(* read, so a promotion may bring an offboarded tenant back.               *)
(***************************************************************************)

\* Who is about to write the status read the tenant as provisioning.
StaleReadInv == \A x \in Executors :
  pc[x] \in {"setStatus", "unstatus"} => seen[x].status = "provisioning"

LEMMA NextStaleRead ==
  ASSUME TypeInv, StaleReadInv, [Next]_vars
  PROVE  StaleReadInv'
<1>1. ASSUME NEW x \in Executors, Receive(x) \/ Execute(x) \/ Die(x) PROVE StaleReadInv'
  <2>1. step[x] \in Steps /\ undo[x] \in 0..5
    BY DEF TypeInv
  <2>2. pc'[x] \in {"setStatus", "unstatus"} => seen'[x].status = "provisioning"
    <3>1. CASE Receive(x) \/ Lookup(x) \/ Recheck(x) \/ Capture(x) \/ StartRun(x) \/ Die(x)
      BY <3>1 DEF Receive, Lookup, Recheck, Capture, StartRun, Die, Goto, TypeInv
    <3>2. CASE MarkInFlight(x)
      <4>1. FirstCall[step[x]] \notin {"setStatus", "unstatus"}
        BY <2>1 DEF FirstCall, Steps
      <4>2. QED
        BY <3>2, <4>1 DEF MarkInFlight, Answer, Return, Throw, Goto, TypeInv
    <3>3. CASE CreateProject(x) \/ CreateBranch(x) \/ RunMigrations(x) \/ CopyTenantData(x)
      BY <3>3 DEF CreateProject, CreateBranch, RunMigrations, CopyTenantData,
                  Answer, Return, Throw, Goto, TypeInv
    <3>4. CASE SetTier(x)
      BY <3>4 DEF SetTier, Answer, Return, Throw, Goto, TypeInv
    <3>5. CASE SetDatabaseRef(x) \/ SetStatus(x) \/ Complete(x) \/ CallFails(x) \/ MarkStep(x)
      BY <3>5 DEF SetDatabaseRef, SetStatus, Complete, CallFails, MarkStep,
                  Answer, Return, Throw, Goto, TypeInv
    <3>6. CASE RecordError(x)
      <4>1. FirstUndo(undo[x]) \notin {"setStatus", "unstatus"}
        BY <2>1, UndoNames
      <4>2. QED
        BY <3>6, <4>1 DEF RecordError, Goto, TypeInv
    <3>7. CASE Untier(x)
      BY <3>7 DEF Untier, Undone, Goto, localVars, TypeInv
    <3>8. CASE \/ Unstatus(x) \/ Unref(x) \/ Deprovision(x) \/ CompensationThrows(x)
               \/ MarkCompensationFailed(x) \/ MarkRolledBack(x)
      BY <3>8 DEF Unstatus, Unref, Deprovision, CompensationThrows, MarkCompensationFailed,
                  MarkRolledBack, Undone, Goto, TypeInv
    <3>9. QED
      BY <1>1, <3>1, <3>2, <3>3, <3>4, <3>5, <3>6, <3>7, <3>8
         DEF Execute, Prelude, StepForward, StepBack
  <2>3. QED
    BY <1>1, <2>2, OthersStay DEF StaleReadInv
<1>2. CASE Offboard \/ UNCHANGED vars
  BY <1>2 DEF Offboard, vars, localVars, StaleReadInv
<1>3. QED
  BY <1>1, <1>2 DEF Next

\* The writers of the status.
LEMMA StatusWritten ==
  ASSUME [Next]_vars, status' # status
  PROVE  Offboard \/ \E x \in Executors : SetStatus(x) \/ Unstatus(x)
<1> USE DEF catalogVars
<1>1. ASSUME NEW x \in Executors, Receive(x) \/ Prelude(x) \/ Die(x) PROVE FALSE
  BY <1>1 DEF Receive, Prelude, Lookup, Recheck, Capture, StartRun, Die
<1>2. ASSUME NEW x \in Executors, StepForward(x) PROVE SetStatus(x)
  BY <1>2 DEF StepForward, MarkInFlight, CreateProject, CreateBranch, RunMigrations,
              CopyTenantData, SetDatabaseRef, SetTier, MarkStep, Complete, CallFails
<1>3. ASSUME NEW x \in Executors, StepBack(x) PROVE Unstatus(x)
  BY <1>3 DEF StepBack, RecordError, Untier, Unref, Deprovision, CompensationThrows,
              MarkCompensationFailed, MarkRolledBack
<1>4. ~UNCHANGED vars
  BY DEF vars
<1>5. QED
  BY <1>1, <1>2, <1>3, <1>4 DEF Next, Execute

\* A step that brings an offboarded tenant back writes what was true when it was read.
Revival ==
  status = "deleted" /\ status' # "deleted" =>
    \E x \in Executors : (SetStatus(x) \/ Unstatus(x)) /\ seen[x].status = "provisioning"

\* An offboarded tenant comes back only at the hand of a promotion that read it as
\* provisioning, whatever overlaps, fails, loses answers or dies.
THEOREM RevivedByStaleRead == Spec => [][Revival]_vars
<1>1. Init => StaleReadInv
  BY DEF Init, StaleReadInv
<1>2. IInv /\ StaleReadInv /\ [Next]_vars => StaleReadInv'
  BY NextStaleRead DEF IInv
<1>3. ASSUME StaleReadInv, [Next]_vars PROVE Revival
  <2>1. SUFFICES ASSUME status = "deleted", status' # "deleted"
                 PROVE  \E x \in Executors :
                          (SetStatus(x) \/ Unstatus(x)) /\ seen[x].status = "provisioning"
    BY DEF Revival
  <2>2. PICK x \in Executors : SetStatus(x) \/ Unstatus(x)
    BY <1>3, <2>1, StatusWritten DEF Offboard
  <2>3. pc[x] \in {"setStatus", "unstatus"}
    BY <2>2 DEF SetStatus, Unstatus
  <2>4. QED
    BY <1>3, <2>2, <2>3 DEF StaleReadInv
<1>4. StaleReadInv /\ [Next]_vars => [Revival]_vars
  BY <1>3
<1>5. QED
  BY SagaInvariant, <1>1, <1>2, <1>4, PTL DEF Spec

\* A tenant that was active before its first promotion and is offboarded stays so,
\* in every mode: no promotion of it ever reads provisioning.
THEOREM OffboardedStays ==
  ASSUME InitialStatus = "active"
  PROVE  Spec => [][status = "deleted" => status' = "deleted"]_vars
<1>1. Init => ActiveInv
  BY DEF Init, ActiveInv, Row
<1>2. IInv /\ ActiveInv /\ [Next]_vars => ActiveInv'
  BY NextActive DEF IInv
<1>3. ASSUME ActiveInv, [Next]_vars, status = "deleted" PROVE status' = "deleted"
  BY <1>3, StatusWritten DEF ActiveInv, Offboard, SetStatus, Unstatus
<1>4. ActiveInv /\ [Next]_vars => [status = "deleted" => status' = "deleted"]_vars
  BY <1>3
<1>5. QED
  BY SagaInvariant, <1>1, <1>2, <1>4, PTL DEF Spec
=============================================================================
