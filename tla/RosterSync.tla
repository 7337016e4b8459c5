----------------------------- MODULE RosterSync -----------------------------
(***************************************************************************)
(* runSync copies a OneRoster source, list by list in dependency order: in *)
(* full, or only what changed after the end of the last run that succeeded *)
(* (the watermark).  Runs may overlap, fail at a list, or die anywhere.    *)
(*                                                                         *)
(* Time is the number of changes the source has made, on one clock for     *)
(* source and database.  A record's content is the time of the change that *)
(* gave it.  A roster record that does not map (mapOrg and its kin) is     *)
(* left out: it is skipped by every run alike.                             *)
(***************************************************************************)
EXTENDS Integers, FiniteSets, Sequences, FiniteSetsExt

CONSTANTS
  Records,    \* sourcedIds
  Kind,       \* per record: org, user, class or enrollment
  Refs,       \* per record: the records it refers to (parent, school, user, class)
  Runs,       \* runs in flight at once
  SisTiers,   \* the tiers the tenant may have
  MaxChanges  \* changes of the source

ASSUME RosterAssumption ==
  /\ IsFiniteSet(Records) /\ IsFiniteSet(Runs)
  /\ Kind \in [Records -> {"org", "user", "class", "enrollment"}]
  /\ Refs \in [Records -> SUBSET Records]
  /\ SisTiers \subseteq {"pool", "silo"}
  /\ MaxChanges \in Nat

VARIABLES
  sisTier,    \* of the tenant
  modified,   \* source, per record: dateLastModified (0: there is no such record)
  copy,       \* per record: the content of its row
  inserted,   \* records that have a row
  doubled,    \* records that have a second row
  mapped,     \* records that have an entry in sis_id_map
  watermark,  \* max(last_run_at) of the runs that succeeded (0: none)
  runPc,      \* per run: idle, import, write, map
  since,      \* per run: its delta filter (0: full)
  list,       \* per run: how many lists it has fetched
  fetched,    \* per run: the records of the last one still to import, with their content
  current,    \* per run: the record it imports, and whether it found it mapped
  behind,     \* per run, history: records it skipped, or that changed after it listed them
  missed,     \* history: records that a run left out of date, and no import since
  raced,      \* history: records that two runs looked up before either had mapped them
  torn        \* history: records whose run died between row and mapping (silo)

runVars == <<runPc, since, list, fetched, current, behind>>
rosterVars == <<sisTier, modified, copy, inserted, doubled, mapped, watermark, runVars, missed, raced, torn>>

Lists == <<"org", "user", "class", "enrollment">>
Clock == Max({0} \union {modified[e] : e \in Records})
NoRecord == [record |-> CHOOSE e \in Records : TRUE, content |-> 0, known |-> FALSE]

RosterInit ==
  /\ sisTier \in SisTiers
  /\ modified = [e \in Records |-> 0]
  /\ copy = [e \in Records |-> 0]
  /\ inserted = {}
  /\ doubled = {}
  /\ mapped = {}
  /\ watermark = 0
  /\ runPc = [r \in Runs |-> "idle"]
  /\ since = [r \in Runs |-> 0]
  /\ list = [r \in Runs |-> 0]
  /\ fetched = [r \in Runs |-> {}]
  /\ current = [r \in Runs |-> NoRecord]
  /\ behind = [r \in Runs |-> {}]
  /\ missed = {}
  /\ raced = {}
  /\ torn = {}

Running == {r \in Runs : runPc[r] # "idle"}

EndRun(r) ==
  /\ runPc' = [runPc EXCEPT ![r] = "idle"]
  /\ since' = [since EXCEPT ![r] = 0]
  /\ list' = [list EXCEPT ![r] = 0]
  /\ fetched' = [fetched EXCEPT ![r] = {}]
  /\ current' = [current EXCEPT ![r] = NoRecord]
  /\ behind' = [behind EXCEPT ![r] = {}]

-----------------------------------------------------------------------------
\* It has fetched the list that holds e.
HasListed(r, e) == \E i \in 1..list[r] : Lists[i] = Kind[e]

\* The source adds or changes a record; the records it refers to are there.
SourceChanges(e) ==
  /\ Clock < MaxChanges
  /\ \A f \in Refs[e] : modified[f] # 0
  /\ modified' = [modified EXCEPT ![e] = Clock + 1]
  /\ behind' = [r \in Runs |-> IF HasListed(r, e) THEN behind[r] \union {e} ELSE behind[r]]
  /\ UNCHANGED <<sisTier, copy, inserted, doubled, mapped, watermark, runPc, since, list, fetched, current, missed, raced, torn>>

\* lastSuccessfulSyncAt and startSyncRun: a delta without a success is full.
StartRun(r) ==
  /\ runPc[r] = "idle"
  /\ runPc' = [runPc EXCEPT ![r] = "import"]
  /\ since' \in {since, [since EXCEPT ![r] = watermark]}
  /\ UNCHANGED <<sisTier, modified, copy, inserted, doubled, mapped, watermark, list, fetched, current, behind, missed, raced, torn>>

\* listOrgs and its kin, with the filter dateLastModified > since.
FetchList(r) ==
  /\ runPc[r] = "import" /\ fetched[r] = {} /\ list[r] < Len(Lists)
  /\ list' = [list EXCEPT ![r] = @ + 1]
  /\ fetched' = [fetched EXCEPT ![r] =
       {[record |-> e, content |-> modified[e]] :
          e \in {x \in Records : Kind[x] = Lists[list[r] + 1] /\ modified[x] > since[r]}}]
  /\ UNCHANGED <<sisTier, modified, copy, inserted, doubled, mapped, watermark, runPc, since, current, behind, missed, raced, torn>>

\* mutant: lookupIdTx asks for another entity type.
FoundNever(e) == FALSE

\* lookupIdTx
Found(e) == e \in mapped

\* The runs that looked it up, did not find it and have not mapped it yet.
Creating(e) == {r \in Runs : runPc[r] \in {"write", "map"} /\ current[r].record = e /\ ~current[r].known}

\* The loop's next record, in whatever order the source listed them: skipped
\* while it refers to one that is not mapped, else looked up in the id map.
NextRecord(r) ==
  /\ runPc[r] = "import"
  /\ \E rec \in fetched[r] :
       /\ fetched' = [fetched EXCEPT ![r] = @ \ {rec}]
       /\ \/ /\ ~(Refs[rec.record] \subseteq mapped)
             /\ behind' = [behind EXCEPT ![r] = @ \union {rec.record}]
             /\ UNCHANGED <<runPc, current, raced>>
          \/ /\ Refs[rec.record] \subseteq mapped
             /\ current' = [current EXCEPT ![r] =
                  [record |-> rec.record, content |-> rec.content, known |-> Found(rec.record)]]
             /\ runPc' = [runPc EXCEPT ![r] = "write"]
             /\ raced' = IF Creating(rec.record) = {} THEN raced ELSE raced \union {rec.record}
             /\ UNCHANGED behind
  /\ UNCHANGED <<sisTier, modified, copy, inserted, doubled, mapped, watermark, since, list, missed, torn>>

\* Users and enrollments conflict on a key of their own; an org or a class that
\* was not in the id map is inserted, even if another run has inserted it since.
Doubles(r) ==
  /\ ~current[r].known
  /\ Kind[current[r].record] \in {"org", "class"}
  /\ current[r].record \in inserted

\* An import brings the record up to date, or puts back a content that is older.
MissedAfter(r) ==
  LET e == current[r].record IN
  IF current[r].content = modified[e] THEN missed \ {e}
  ELSE IF current[r].content < copy[e] THEN missed \union {e} ELSE missed

\* The row.  pool: the transaction commits it with its mapping.
WriteRow(r) ==
  LET e == current[r].record IN
  /\ runPc[r] = "write"
  /\ copy' = [copy EXCEPT ![e] = current[r].content]
  /\ inserted' = inserted \union {e}
  /\ doubled' = IF Doubles(r) THEN doubled \union {e} ELSE doubled
  /\ missed' = MissedAfter(r)
  /\ \/ /\ sisTier = "pool"
        /\ mapped' = mapped \union {e}
        /\ runPc' = [runPc EXCEPT ![r] = "import"]
        /\ current' = [current EXCEPT ![r] = NoRecord]
     \/ sisTier = "silo" /\ runPc' = [runPc EXCEPT ![r] = "map"] /\ UNCHANGED <<mapped, current>>
  /\ UNCHANGED <<sisTier, modified, watermark, since, list, fetched, behind, raced, torn>>

\* silo: recordIdMapTx, a statement of its own.
WriteMapping(r) ==
  /\ runPc[r] = "map"
  /\ mapped' = mapped \union {current[r].record}
  /\ runPc' = [runPc EXCEPT ![r] = "import"]
  /\ current' = [current EXCEPT ![r] = NoRecord]
  /\ UNCHANGED <<sisTier, modified, copy, inserted, doubled, watermark, since, list, fetched, behind, missed, raced, torn>>

\* finishSyncRun(succeeded), skipped records or not: last_run_at is now().
Succeed(r) ==
  /\ runPc[r] = "import" /\ fetched[r] = {} /\ list[r] = Len(Lists)
  /\ watermark' = Clock
  /\ missed' = missed \union behind[r]
  /\ EndRun(r)
  /\ UNCHANGED <<sisTier, modified, copy, inserted, doubled, mapped, raced, torn>>

\* mutant: a run that failed counts as the last one.
FailWithWatermark(r) ==
  /\ r \in Running
  /\ watermark' = Clock
  /\ torn' = IF runPc[r] = "map" THEN torn \union {current[r].record} ELSE torn
  /\ EndRun(r)
  /\ UNCHANGED <<sisTier, modified, copy, inserted, doubled, mapped, missed, raced>>

\* A transport or engine error ends the run as failed, a process that dies
\* leaves it running: neither moves the watermark.
FailRun(r) ==
  /\ r \in Running
  /\ torn' = IF runPc[r] = "map" THEN torn \union {current[r].record} ELSE torn
  /\ EndRun(r)
  /\ UNCHANGED <<sisTier, modified, copy, inserted, doubled, mapped, watermark, missed, raced>>

RosterNext ==
  \/ \E e \in Records : SourceChanges(e)
  \/ \E r \in Runs :
       \/ StartRun(r) \/ FetchList(r) \/ NextRecord(r) \/ WriteRow(r) \/ WriteMapping(r)
       \/ Succeed(r) \/ FailRun(r)

RosterSpec == RosterInit /\ [][RosterNext]_rosterVars

-----------------------------------------------------------------------------
RosterTypeOK ==
  /\ sisTier \in SisTiers
  /\ modified \in [Records -> 0..MaxChanges]
  /\ copy \in [Records -> 0..MaxChanges]
  /\ mapped \subseteq inserted /\ inserted \subseteq Records
  /\ doubled \subseteq inserted
  /\ watermark \in 0..MaxChanges
  /\ runPc \in [Runs -> {"idle", "import", "write", "map"}]
  /\ since \in [Runs -> 0..MaxChanges]
  /\ list \in [Runs -> 0..Len(Lists)]
  /\ behind \in [Runs -> SUBSET Records]
  /\ missed \subseteq Records

\* A change that the watermark has passed, which no delta will ask for again, is
\* in the copy: runs that fail, die or overlap lose none.  It is missed only if
\* the run that moved the watermark skipped the record or had listed it before
\* the change, or if a run put back an older content that it had listed.
WatermarkCovers == \A e \in Records :
  modified[e] \in 1..watermark /\ e \notin missed => copy[e] = modified[e]

\* Syncing again, after a failure too, makes no second row for a record: only two
\* runs that both looked it up before either had mapped it do, or, on the silo
\* tier, a run that died between the row and its mapping.
OneRowPerRecord == doubled \subseteq raced \union torn
=============================================================================
