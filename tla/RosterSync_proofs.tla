-------------------------- MODULE RosterSync_proofs ---------------------------
(***************************************************************************)
(* What a sync may lose and double, for any source and any runs at once.   *)
(*                                                                         *)
(* A change that the watermark has passed is in the copy because the run   *)
(* that moved the watermark had listed the record, and a record that a run *)
(* has listed is in the copy, or among those it has still to import, or    *)
(* the one it writes, unless it fell behind on it (ListedInv).  A content  *)
(* that is held is never newer than the source (ContentInv), so a write    *)
(* that does not bring a record up to date puts back an older one.         *)
(*                                                                         *)
(* A row without a mapping waits for a run that writes the mapping, or was *)
(* left by one that died (MapInv); two runs that create one record have    *)
(* raced for it (TwinInv).                                                 *)
(***************************************************************************)
EXTENDS RosterSync, WellFoundedInduction, TLAPS

\* A bounded set of numbers has a largest.
LEMMA LargestIsThere ==
  ASSUME NEW n \in Nat, NEW S \in SUBSET (0..n), S # {}
  PROVE  \E m \in S : \A x \in S : x <= m
<1> DEFINE T == {k \in Nat : n - k \in S}
           R == OpToRel(<, Nat)
<1>1. T \subseteq Nat /\ T # {}
  <2>1. PICK x \in S : TRUE
    OBVIOUS
  <2>2. n - x \in Nat /\ n - (n - x) = x
    BY <2>1
  <2>3. QED
    BY <2>1, <2>2
<1>2. \E k \in T : \A y \in T : ~(<<y, k>> \in R)
  <2>1. IsWellFoundedOn(R, Nat)
    BY NatLessThanWellFounded
  <2> HIDE DEF T, R
  <2>2. QED
    BY <1>1, <2>1, WFMin
<1>3. PICK k \in T : \A y \in T : ~(<<y, k>> \in R)
  BY <1>2
<1>4. \A y \in T : ~(y < k)
  BY <1>1, <1>3 DEF OpToRel
<1>5. k \in Nat /\ n - k \in S
  BY <1>3
<1>6. ASSUME NEW x \in S PROVE x <= n - k
  <2>1. n - x \in T /\ x \in Nat
    OBVIOUS
  <2>2. ~(n - x < k)
    <3> HIDE DEF T
    <3>1. QED
      BY <1>4, <2>1
  <2>3. QED
    BY <1>5, <2>1, <2>2
<1>7. QED
  BY <1>5, <1>6

\* The types on which the arguments rest.
Import == [record : Records, content : Nat, known : BOOLEAN]
RosterType ==
  /\ modified \in [Records -> 0..MaxChanges] /\ copy \in [Records -> Nat]
  /\ watermark \in Nat
  /\ runPc \in [Runs -> {"idle", "import", "write", "map"}]
  /\ since \in [Runs -> Nat] /\ list \in [Runs -> 0..4]
  /\ fetched \in [Runs -> SUBSET [record : Records, content : Nat]]
  /\ DOMAIN current = Runs /\ current = [r \in Runs |-> current[r]]
  /\ \A r \in Runs : runPc[r] \in {"write", "map"} => current[r] \in Import
  /\ behind \in [Runs -> SUBSET Records]

\* The watermark is not ahead of the source, and no run asks from after it.
ClockInv == watermark <= Clock /\ \A r \in Runs : since[r] <= watermark

\* Nothing that a run holds is newer than the source.
ContentInv == \A r \in Runs :
  /\ \A rec \in fetched[r] : rec.content <= modified[rec.record]
  /\ runPc[r] \in {"write", "map"} => current[r].content <= modified[current[r].record]

\* The copy has what the source has of e, or the run is about to write it.
Fresh(r, e) ==
  \/ copy[e] = modified[e]
  \/ [record |-> e, content |-> modified[e]] \in fetched[r]
  \/ runPc[r] = "write" /\ current[r].record = e /\ current[r].content = modified[e]

\* A run that has listed a record, and has not fallen behind on it, brings it.
ListedInv == \A r \in Runs, e \in Records :
  HasListed(r, e) /\ e \notin behind[r] /\ e \notin missed /\ modified[e] # 0 => Fresh(r, e)

\* A row without its mapping waits for a run that writes the mapping, or has none.
Busy(r) == runPc[r] \in {"write", "map"}
MapInv ==
  /\ mapped \subseteq inserted
  /\ \A r \in Runs : Busy(r) /\ current[r].known => current[r].record \in mapped
  /\ \A r \in Runs : runPc[r] = "map" => current[r].record \in inserted
  /\ \A e \in inserted : e \in mapped \union torn \/ \E r \in Runs : runPc[r] = "map" /\ current[r].record = e

\* Two runs that create one record have raced for it.
TwinInv ==
  /\ \A r, q \in Runs : r # q /\ Busy(r) /\ Busy(q) /\ current[r].record = current[q].record
                         => current[r].known \/ current[q].known \/ current[r].record \in raced
  /\ \A r \in Runs : runPc[r] = "write" /\ current[r].record \in inserted
                      => current[r].known \/ current[r].record \in raced \union torn
  /\ doubled \subseteq raced \union torn

RosterInv ==
  RosterType /\ ClockInv /\ ContentInv /\ ListedInv /\ WatermarkCovers /\ MapInv /\ TwinInv

-----------------------------------------------------------------------------
\* The clock of the source is the time of its newest change.
LEMMA NewestOf ==
  ASSUME NEW m \in [Records -> 0..MaxChanges]
  PROVE  LET t == Max({0} \union {m[e] : e \in Records}) IN
         /\ t \in Nat
         /\ \A e \in Records : m[e] <= t
         /\ t = 0 \/ \E e \in Records : t = m[e]
<1> DEFINE S == {0} \union {m[e] : e \in Records}
<1>1. S \in SUBSET (0..MaxChanges) /\ S # {} /\ MaxChanges \in Nat
  BY RosterAssumption
<1>2. \E k \in S : \A x \in S : x <= k
  <2> HIDE DEF S
  <2>1. QED
    BY <1>1, LargestIsThere
<1>3. Max(S) \in S /\ \A x \in S : x <= Max(S)
  <2>1. \E k \in S : \A x \in S : k >= x
    BY <1>1, <1>2
  <2>2. Max(S) \in S /\ \A x \in S : Max(S) >= x
    <3> HIDE DEF S
    <3>1. QED
      BY <2>1 DEF Max
  <2>3. QED
    BY <1>1, <2>2
<1>4. \A e \in Records : m[e] \in S
  OBVIOUS
<1>5. \A x \in S : x = 0 \/ \E e \in Records : x = m[e]
  OBVIOUS
<1>6. /\ Max(S) \in Nat
      /\ \A e \in Records : m[e] <= Max(S)
      /\ Max(S) = 0 \/ \E e \in Records : Max(S) = m[e]
  <2> HIDE DEF S
  <2>1. Max(S) \in Nat
    <3>1. S \subseteq Nat
      BY <1>1
    <3>2. QED
      BY <1>3, <3>1
  <2>2. \A e \in Records : m[e] <= Max(S)
    BY <1>3, <1>4
  <2>3. Max(S) = 0 \/ \E e \in Records : Max(S) = m[e]
    BY <1>3, <1>5
  <2>4. QED
    BY <2>1, <2>2, <2>3
<1>7. QED
  BY <1>6

LEMMA ClockIsNewest ==
  ASSUME RosterType
  PROVE  /\ Clock \in Nat
         /\ \A e \in Records : modified[e] <= Clock
         /\ Clock = 0 \/ \E e \in Records : Clock = modified[e]
  BY NewestOf DEF Clock, RosterType

LEMMA NextClockIsNewest ==
  ASSUME RosterType'
  PROVE  Clock' \in Nat /\ \A e \in Records : modified'[e] <= Clock'
  BY NewestOf DEF Clock, RosterType

LEMMA ClockStays ==
  ASSUME RosterType, UNCHANGED modified
  PROVE  Clock' = Clock
BY DEF Clock

LEMMA RosterInitInv == RosterInit => RosterInv
<1> SUFFICES ASSUME RosterInit PROVE RosterInv
  OBVIOUS
<1>1. RosterType
  BY RosterAssumption DEF RosterInit, RosterType
<1>2. ClockInv
  BY <1>1, ClockIsNewest DEF RosterInit, ClockInv
<1>3. ContentInv /\ ListedInv
  BY DEF RosterInit, ContentInv, ListedInv, HasListed
<1>4. WatermarkCovers /\ MapInv /\ TwinInv
  BY DEF RosterInit, WatermarkCovers, MapInv, TwinInv, Busy
<1>5. QED
  BY <1>1, <1>2, <1>3, <1>4 DEF RosterInv

\* What a run leaves behind when it ends.
LEMMA RunEnds ==
  ASSUME RosterType, NEW r \in Runs, EndRun(r)
  PROVE  /\ runPc' = [runPc EXCEPT ![r] = "idle"] /\ runPc'[r] = "idle"
         /\ since'[r] = 0 /\ list'[r] = 0 /\ fetched'[r] = {}
         /\ \A q \in Runs \ {r} :
              /\ runPc'[q] = runPc[q] /\ since'[q] = since[q] /\ list'[q] = list[q]
              /\ fetched'[q] = fetched[q] /\ current'[q] = current[q] /\ behind'[q] = behind[q]
         /\ since' \in [Runs -> Nat] /\ list' \in [Runs -> 0..4]
         /\ fetched' \in [Runs -> SUBSET [record : Records, content : Nat]]
         /\ DOMAIN current' = Runs /\ current' = [q \in Runs |-> current'[q]]
         /\ behind' \in [Runs -> SUBSET Records]
  BY DEF RosterType, EndRun

LEMMA RosterNextType ==
  ASSUME RosterType, ClockInv, [RosterNext]_rosterVars
  PROVE  RosterType'
<1> USE DEF RosterType
<1>1. ASSUME NEW e \in Records, SourceChanges(e) PROVE RosterType'
  <2>1. Clock + 1 \in 0..MaxChanges
    BY <1>1, ClockIsNewest, RosterAssumption DEF SourceChanges
  <2>2. modified' \in [Records -> 0..MaxChanges] /\ behind' \in [Runs -> SUBSET Records]
    BY <1>1, <2>1 DEF SourceChanges
  <2>3. UNCHANGED <<copy, watermark, runPc, since, list, fetched, current>>
    BY <1>1 DEF SourceChanges
  <2>4. QED
    BY <2>2, <2>3
<1>2. ASSUME NEW r \in Runs, StartRun(r) PROVE RosterType'
  <2>1. since' \in [Runs -> Nat]
    BY <1>2 DEF StartRun
  <2>2. runPc' = [runPc EXCEPT ![r] = "import"]
        /\ UNCHANGED <<modified, copy, watermark, list, fetched, current, behind>>
    BY <1>2 DEF StartRun
  <2>3. QED
    BY <2>1, <2>2
<1>3. ASSUME NEW r \in Runs, FetchList(r) PROVE RosterType'
  <2>1. UNCHANGED <<modified, copy, watermark, runPc, since, current, behind>>
    BY <1>3 DEF FetchList
  <2>2. list[r] < 4 /\ list' = [list EXCEPT ![r] = @ + 1]
    BY <1>3 DEF FetchList, Lists
  <2>3. list' \in [Runs -> 0..4]
    BY <2>2
  <2>4. fetched' \in [Runs -> SUBSET [record : Records, content : Nat]]
    <3> DEFINE L == {[record |-> e, content |-> modified[e]] :
                       e \in {x \in Records : Kind[x] = Lists[list[r] + 1] /\ modified[x] > since[r]}}
    <3>1. L \in SUBSET [record : Records, content : Nat]
      BY RosterAssumption
    <3>2. fetched' = [fetched EXCEPT ![r] = L]
      BY <1>3 DEF FetchList
    <3> HIDE DEF L
    <3>3. QED
      BY <3>1, <3>2
  <2>5. QED
    BY <2>1, <2>3, <2>4
<1>4. ASSUME NEW r \in Runs, NextRecord(r) PROVE RosterType'
  <2>1. UNCHANGED <<modified, copy, watermark, since, list>>
    BY <1>4 DEF NextRecord
  <2>2. PICK rec \in fetched[r] :
          /\ fetched' = [fetched EXCEPT ![r] = @ \ {rec}]
          /\ \/ behind' = [behind EXCEPT ![r] = @ \union {rec.record}] /\ UNCHANGED <<runPc, current>>
             \/ /\ current' = [current EXCEPT ![r] =
                     [record |-> rec.record, content |-> rec.content, known |-> Found(rec.record)]]
                /\ runPc' = [runPc EXCEPT ![r] = "write"]
                /\ UNCHANGED behind
    BY <1>4 DEF NextRecord
  <2>3. rec.record \in Records /\ rec.content \in Nat /\ Found(rec.record) \in BOOLEAN
    BY <2>2 DEF Found
  <2>4. [record |-> rec.record, content |-> rec.content, known |-> Found(rec.record)] \in Import
    BY <2>3 DEF Import
  <2>5. fetched' \in [Runs -> SUBSET [record : Records, content : Nat]]
    BY <2>2
  <2>6. behind' \in [Runs -> SUBSET Records]
    BY <2>2, <2>3
  <2>7. runPc' \in [Runs -> {"idle", "import", "write", "map"}]
    BY <2>2
  <2>8. /\ DOMAIN current' = Runs /\ current' = [q \in Runs |-> current'[q]]
        /\ \A q \in Runs : runPc'[q] \in {"write", "map"} => current'[q] \in Import
    <3>1. CASE UNCHANGED <<runPc, current>>
      BY <3>1
    <3>2. CASE /\ current' = [current EXCEPT ![r] =
                     [record |-> rec.record, content |-> rec.content, known |-> Found(rec.record)]]
               /\ runPc' = [runPc EXCEPT ![r] = "write"]
      BY <2>4, <3>2
    <3>3. QED
      BY <2>2, <3>1, <3>2
  <2>9. QED
    BY <2>1, <2>5, <2>6, <2>7, <2>8
<1>5. ASSUME NEW r \in Runs, WriteRow(r) \/ WriteMapping(r) PROVE RosterType'
  <2>1. UNCHANGED <<modified, watermark, since, list, fetched, behind>>
    BY <1>5 DEF WriteRow, WriteMapping
  <2>2. copy' \in [Records -> Nat]
    <3>1. runPc[r] = "write" => current[r].record \in Records /\ current[r].content \in Nat
      BY DEF Import
    <3>2. QED
      BY <1>5, <3>1 DEF WriteRow, WriteMapping
  <2>3. \/ runPc' = [runPc EXCEPT ![r] = "import"] /\ current' = [current EXCEPT ![r] = NoRecord]
        \/ runPc[r] = "write" /\ runPc' = [runPc EXCEPT ![r] = "map"] /\ current' = current
    BY <1>5 DEF WriteRow, WriteMapping
  <2>4. QED
    BY <2>1, <2>2, <2>3
<1>6. ASSUME NEW r \in Runs, Succeed(r) \/ FailRun(r) PROVE RosterType'
  <2>1. EndRun(r) /\ UNCHANGED <<modified, copy>> /\ watermark' \in {watermark, Clock}
    BY <1>6 DEF Succeed, FailRun
  <2>2. QED
    BY <2>1, RunEnds, ClockIsNewest
<1>7. CASE UNCHANGED rosterVars
  BY <1>7 DEF rosterVars, runVars
<1>8. QED
  BY <1>1, <1>2, <1>3, <1>4, <1>5, <1>6, <1>7 DEF RosterNext

LEMMA NextClock ==
  ASSUME RosterType, RosterType', ClockInv, [RosterNext]_rosterVars
  PROVE  ClockInv'
<1>1. ASSUME NEW e \in Records, SourceChanges(e) PROVE ClockInv'
  <2>1. Clock' >= Clock + 1
    BY <1>1, ClockIsNewest, NextClockIsNewest DEF SourceChanges, RosterType
  <2>2. UNCHANGED <<watermark, since>>
    BY <1>1 DEF SourceChanges
  <2>3. QED
    BY <2>1, <2>2, ClockIsNewest, NextClockIsNewest DEF ClockInv, RosterType
<1>2. ASSUME NEW r \in Runs, StartRun(r) PROVE ClockInv'
  <2>1. Clock' = Clock /\ watermark' = watermark /\ since' \in {since, [since EXCEPT ![r] = watermark]}
    BY <1>2, ClockStays DEF StartRun
  <2>2. QED
    BY <2>1 DEF ClockInv, RosterType
<1>3. ASSUME NEW r \in Runs, FetchList(r) \/ NextRecord(r) \/ WriteRow(r) \/ WriteMapping(r) PROVE ClockInv'
  <2>1. UNCHANGED <<modified, watermark, since>>
    BY <1>3 DEF FetchList, NextRecord, WriteRow, WriteMapping
  <2>2. QED
    BY <2>1, ClockStays DEF ClockInv
<1>4. ASSUME NEW r \in Runs, Succeed(r) \/ FailRun(r) PROVE ClockInv'
  <2>1. EndRun(r) /\ UNCHANGED modified /\ watermark' \in {watermark, Clock}
    BY <1>4 DEF Succeed, FailRun
  <2>2. Clock' = Clock /\ Clock \in Nat
    BY <2>1, ClockStays, ClockIsNewest
  <2>3. QED
    BY <2>1, <2>2, RunEnds DEF ClockInv, RosterType
<1>5. CASE UNCHANGED rosterVars
  BY <1>5, ClockStays DEF ClockInv, rosterVars, runVars
<1>6. QED
  BY <1>1, <1>2, <1>3, <1>4, <1>5 DEF RosterNext

LEMMA NextContent ==
  ASSUME RosterType, RosterType', ContentInv, [RosterNext]_rosterVars
  PROVE  ContentInv'
<1> USE DEF RosterType
<1>1. ASSUME NEW e \in Records, SourceChanges(e) PROVE ContentInv'
  <2>1. \A x \in Records : modified[x] <= modified'[x] /\ modified'[x] \in Nat /\ modified[x] \in Nat
    BY <1>1, ClockIsNewest DEF SourceChanges
  <2>2. UNCHANGED <<fetched, runPc, current>>
    BY <1>1 DEF SourceChanges
  <2>3. ASSUME NEW r \in Runs, NEW rec \in fetched[r] PROVE rec.content <= modified'[rec.record]
    <3>1. rec.record \in Records /\ rec.content \in Nat /\ rec.content <= modified[rec.record]
      BY <2>3 DEF ContentInv
    <3>2. QED
      BY <2>1, <3>1
  <2>4. ASSUME NEW r \in Runs, runPc[r] \in {"write", "map"}
        PROVE  current[r].content <= modified'[current[r].record]
    <3>1. /\ current[r].record \in Records /\ current[r].content \in Nat
          /\ current[r].content <= modified[current[r].record]
      BY <2>4 DEF ContentInv, Import
    <3>2. QED
      BY <2>1, <3>1
  <2>5. QED
    BY <2>2, <2>3, <2>4 DEF ContentInv
<1>2. ASSUME NEW r \in Runs, StartRun(r) PROVE ContentInv'
  <2>1. UNCHANGED <<modified, fetched, current>> /\ runPc' = [runPc EXCEPT ![r] = "import"]
    BY <1>2 DEF StartRun
  <2>2. QED
    BY <2>1 DEF ContentInv
<1>3. ASSUME NEW r \in Runs, FetchList(r) PROVE ContentInv'
  <2> DEFINE L == {[record |-> e, content |-> modified[e]] :
                     e \in {x \in Records : Kind[x] = Lists[list[r] + 1] /\ modified[x] > since[r]}}
  <2>1. \A rec \in L : rec.content <= modified[rec.record]
    BY RosterAssumption
  <2>2. fetched' = [fetched EXCEPT ![r] = L] /\ UNCHANGED <<modified, runPc, current>>
    BY <1>3 DEF FetchList
  <2> HIDE DEF L
  <2>3. QED
    BY <2>1, <2>2 DEF ContentInv
<1>4. ASSUME NEW r \in Runs, NextRecord(r) PROVE ContentInv'
  <2>1. PICK rec \in fetched[r] :
          /\ fetched' = [fetched EXCEPT ![r] = @ \ {rec}]
          /\ \/ UNCHANGED <<runPc, current>>
             \/ /\ current' = [current EXCEPT ![r] =
                     [record |-> rec.record, content |-> rec.content, known |-> Found(rec.record)]]
                /\ runPc' = [runPc EXCEPT ![r] = "write"]
    BY <1>4 DEF NextRecord
  <2>2. modified' = modified
    BY <1>4 DEF NextRecord
  <2>3. \A q \in Runs : fetched'[q] \subseteq fetched[q]
    BY <2>1
  <2>4. rec.content <= modified[rec.record]
    BY <2>1 DEF ContentInv
  <2>5. ASSUME NEW q \in Runs, runPc'[q] \in {"write", "map"}
        PROVE  current'[q].content <= modified[current'[q].record]
    <3>1. CASE runPc'[q] = runPc[q] /\ current'[q] = current[q]
      BY <2>5, <3>1 DEF ContentInv
    <3>2. CASE current'[q] = [record |-> rec.record, content |-> rec.content, known |-> Found(rec.record)]
      BY <2>4, <3>2
    <3>3. QED
      BY <2>1, <3>1, <3>2
  <2>6. QED
    BY <2>2, <2>3, <2>5 DEF ContentInv
<1>5. ASSUME NEW r \in Runs, WriteRow(r) \/ WriteMapping(r) PROVE ContentInv'
  <2>1. UNCHANGED <<modified, fetched>>
    BY <1>5 DEF WriteRow, WriteMapping
  <2>2. \/ runPc' = [runPc EXCEPT ![r] = "import"] /\ current' = [current EXCEPT ![r] = NoRecord]
        \/ runPc[r] = "write" /\ runPc' = [runPc EXCEPT ![r] = "map"] /\ current' = current
    BY <1>5 DEF WriteRow, WriteMapping
  <2>3. QED
    BY <2>1, <2>2 DEF ContentInv
<1>6. ASSUME NEW r \in Runs, Succeed(r) \/ FailRun(r) PROVE ContentInv'
  <2>1. EndRun(r) /\ UNCHANGED modified
    BY <1>6 DEF Succeed, FailRun
  <2>2. QED
    BY <2>1, RunEnds DEF ContentInv
<1>7. CASE UNCHANGED rosterVars
  BY <1>7 DEF rosterVars, runVars, ContentInv
<1>8. QED
  BY <1>1, <1>2, <1>3, <1>4, <1>5, <1>6, <1>7 DEF RosterNext

\* What WriteRow does to the record that it writes.
LEMMA RowWritten ==
  ASSUME RosterType, ContentInv, NEW r \in Runs, WriteRow(r), NEW e \in Records, e \notin missed',
         copy'[e] # modified[e]
  PROVE  e \notin missed /\ copy[e] # modified[e] /\ (current[r].record = e => current[r].content # modified[e])
<1>1. current[r].record \in Records /\ current[r].content \in Nat /\ runPc[r] = "write"
  BY DEF WriteRow, RosterType, Import
<1>2. copy' = [copy EXCEPT ![current[r].record] = current[r].content] /\ missed' = MissedAfter(r)
  BY DEF WriteRow
<1>3. CASE current[r].record # e
  <2>1. copy'[e] = copy[e] /\ (e \in missed <=> e \in missed')
    BY <1>1, <1>2, <1>3 DEF MissedAfter, RosterType
  <2>2. QED
    BY <1>3, <2>1
<1>4. CASE current[r].record = e
  <2>1. copy'[e] = current[r].content /\ current[r].content # modified[e]
    BY <1>1, <1>2, <1>4 DEF RosterType
  <2>2. e \notin missed /\ ~(current[r].content < copy[e])
    BY <1>2, <1>4, <2>1 DEF MissedAfter
  <2>3. current[r].content <= modified[e] /\ modified[e] \in Nat /\ copy[e] \in Nat
    BY <1>1, <1>4 DEF ContentInv, RosterType
  <2>4. QED
    BY <1>1, <2>1, <2>2, <2>3
<1>5. QED
  BY <1>3, <1>4

\* What a run has listed it keeps bringing.
LEMMA NextListed ==
  ASSUME RosterType, RosterType', ClockInv, ContentInv, ListedInv, WatermarkCovers, [RosterNext]_rosterVars
  PROVE  ListedInv'
<1> USE DEF RosterType
<1>1. ASSUME NEW e \in Records, SourceChanges(e) PROVE ListedInv'
  <2>1. UNCHANGED <<copy, runPc, list, fetched, current, missed>>
    BY <1>1 DEF SourceChanges
  <2>2. \A x \in Records \ {e} : modified'[x] = modified[x]
    BY <1>1 DEF SourceChanges
  <2>3. \A r \in Runs : behind[r] \subseteq behind'[r] /\ (HasListed(r, e) => e \in behind'[r])
    BY <1>1 DEF SourceChanges
  <2>4. \A r \in Runs, x \in Records : HasListed(r, x)' = HasListed(r, x)
    BY <2>1 DEF HasListed
  <2>5. SUFFICES ASSUME NEW r \in Runs, NEW x \in Records, HasListed(r, x)', x \notin behind'[r],
                        x \notin missed', modified'[x] # 0
                 PROVE  Fresh(r, x)'
    BY DEF ListedInv
  <2>6. x # e /\ HasListed(r, x) /\ x \notin behind[r] /\ x \notin missed /\ modified'[x] = modified[x]
    BY <2>1, <2>2, <2>3, <2>4, <2>5
  <2>7. Fresh(r, x)
    BY <2>5, <2>6 DEF ListedInv
  <2>8. QED
    BY <2>1, <2>6, <2>7 DEF Fresh
<1>2. ASSUME NEW r \in Runs, StartRun(r) PROVE ListedInv'
  <2>1. /\ runPc[r] = "idle" /\ runPc' = [runPc EXCEPT ![r] = "import"]
        /\ UNCHANGED <<modified, copy, list, fetched, current, behind, missed>>
    BY <1>2 DEF StartRun
  <2>2. QED
    BY <2>1 DEF ListedInv, HasListed, Fresh
<1>3. ASSUME NEW r \in Runs, FetchList(r) PROVE ListedInv'
  <2> DEFINE L == {[record |-> e, content |-> modified[e]] :
                     e \in {x \in Records : Kind[x] = Lists[list[r] + 1] /\ modified[x] > since[r]}}
  <2>1. /\ fetched' = [fetched EXCEPT ![r] = L] /\ fetched[r] = {} /\ runPc[r] = "import"
        /\ list' = [list EXCEPT ![r] = @ + 1]
        /\ UNCHANGED <<modified, copy, runPc, current, behind, missed>>
    BY <1>3 DEF FetchList
  <2>2. SUFFICES ASSUME NEW q \in Runs, NEW e \in Records, HasListed(q, e)', e \notin behind[q],
                        e \notin missed, modified[e] # 0
                 PROVE  Fresh(q, e)'
    BY <2>1 DEF ListedInv
  <2>3. CASE HasListed(q, e)
    <3>1. Fresh(q, e)
      BY <2>2, <2>3 DEF ListedInv
    <3> HIDE DEF L
    <3>2. CASE q = r
      BY <2>1, <3>1, <3>2 DEF Fresh
    <3>3. CASE q # r
      BY <2>1, <3>1, <3>3 DEF Fresh
    <3>4. QED
      BY <3>2, <3>3
  <2>4. CASE ~HasListed(q, e)
    <3>1. q = r
      BY <2>1, <2>2, <2>4 DEF HasListed
    <3>2. Kind[e] = Lists[list[r] + 1]
      <4>1. PICK i \in 1..list[r] + 1 : Lists[i] = Kind[e]
        BY <2>1, <2>2, <3>1 DEF HasListed
      <4>2. ~(i \in 1..list[r])
        BY <2>4, <3>1, <4>1 DEF HasListed
      <4>3. QED
        BY <4>1, <4>2
    <3>3. CASE modified[e] > since[r]
      <4>1. [record |-> e, content |-> modified[e]] \in L
        BY <3>2, <3>3
      <4>2. fetched'[r] = L
        <5> HIDE DEF L
        <5>1. QED
          BY <2>1
      <4>3. QED
        BY <2>1, <3>1, <4>1, <4>2 DEF Fresh
    <3>4. CASE ~(modified[e] > since[r])
      <4>1. modified[e] \in 1..watermark
        BY <2>2, <3>4 DEF ClockInv
      <4>2. copy[e] = modified[e]
        BY <2>2, <4>1 DEF WatermarkCovers
      <4>3. QED
        BY <2>1, <4>2 DEF Fresh
    <3>5. QED
      BY <3>3, <3>4
  <2>5. QED
    BY <2>3, <2>4
<1>4. ASSUME NEW r \in Runs, NextRecord(r) PROVE ListedInv'
  <2>1. PICK rec \in fetched[r] :
          /\ fetched' = [fetched EXCEPT ![r] = @ \ {rec}]
          /\ \/ /\ behind' = [behind EXCEPT ![r] = @ \union {rec.record}]
                /\ UNCHANGED <<runPc, current>>
             \/ /\ current' = [current EXCEPT ![r] =
                     [record |-> rec.record, content |-> rec.content, known |-> Found(rec.record)]]
                /\ runPc' = [runPc EXCEPT ![r] = "write"]
                /\ UNCHANGED behind
    BY <1>4 DEF NextRecord
  <2>2. runPc[r] = "import" /\ UNCHANGED <<modified, copy, list, missed>>
    BY <1>4 DEF NextRecord
  <2>3. SUFFICES ASSUME NEW q \in Runs, NEW e \in Records, HasListed(q, e), e \notin behind'[q],
                        e \notin missed, modified[e] # 0
                 PROVE  Fresh(q, e)'
    BY <2>2 DEF ListedInv, HasListed
  <2>4. e \notin behind[q]
    BY <2>1, <2>3
  <2>5. Fresh(q, e)
    BY <2>3, <2>4 DEF ListedInv
  <2>6. CASE copy[e] = modified[e]
    BY <2>2, <2>6 DEF Fresh
  <2>7. CASE q # r
    BY <2>1, <2>2, <2>5, <2>7 DEF Fresh
  <2>8. CASE q = r /\ [record |-> e, content |-> modified[e]] \in fetched[r]
    <3>1. CASE rec # [record |-> e, content |-> modified[e]]
      BY <2>1, <2>2, <2>8, <3>1 DEF Fresh
    <3>2. CASE rec = [record |-> e, content |-> modified[e]]
      <4>1. rec.record = e /\ rec.content = modified[e]
        BY <3>2
      <4>2. runPc'[r] = "write" /\ current'[r].record = e /\ current'[r].content = modified[e]
        BY <2>1, <2>3, <2>8, <4>1
      <4>3. QED
        BY <2>2, <2>8, <4>2 DEF Fresh
    <3>3. QED
      BY <3>1, <3>2
  <2>9. QED
    BY <2>2, <2>5, <2>6, <2>7, <2>8 DEF Fresh
<1>5. ASSUME NEW r \in Runs, WriteRow(r) PROVE ListedInv'
  <2>1. runPc[r] = "write" /\ UNCHANGED <<modified, list, fetched, behind>>
        /\ \A q \in Runs \ {r} : runPc'[q] = runPc[q] /\ current'[q] = current[q]
    BY <1>5 DEF WriteRow
  <2>2. SUFFICES ASSUME NEW q \in Runs, NEW e \in Records, HasListed(q, e), e \notin behind[q],
                        e \notin missed', modified[e] # 0, copy'[e] # modified[e]
                 PROVE  Fresh(q, e)'
    BY <2>1 DEF ListedInv, HasListed, Fresh
  <2>3. e \notin missed /\ copy[e] # modified[e] /\ (current[r].record = e => current[r].content # modified[e])
    BY <1>5, <2>2, RowWritten
  <2>4. Fresh(q, e)
    BY <2>2, <2>3 DEF ListedInv
  <2>5. QED
    BY <2>1, <2>3, <2>4 DEF Fresh
<1>6. ASSUME NEW r \in Runs, WriteMapping(r) PROVE ListedInv'
  <2>1. runPc[r] = "map" /\ UNCHANGED <<modified, copy, list, fetched, behind, missed>>
        /\ \A q \in Runs \ {r} : runPc'[q] = runPc[q] /\ current'[q] = current[q]
    BY <1>6 DEF WriteMapping
  <2>2. QED
    BY <2>1 DEF ListedInv, HasListed, Fresh
<1>7. ASSUME NEW r \in Runs, Succeed(r) \/ FailRun(r) PROVE ListedInv'
  <2>1. EndRun(r) /\ UNCHANGED <<modified, copy>> /\ missed \subseteq missed'
    BY <1>7 DEF Succeed, FailRun
  <2>2. \A e \in Records : ~HasListed(r, e)'
    BY <2>1, RunEnds DEF HasListed
  <2>3. SUFFICES ASSUME NEW q \in Runs \ {r}, NEW e \in Records, HasListed(q, e)', e \notin behind'[q],
                        e \notin missed', modified[e] # 0
                 PROVE  Fresh(q, e)'
    BY <2>1, <2>2 DEF ListedInv
  <2>4. HasListed(q, e) /\ e \notin behind[q] /\ e \notin missed
    BY <2>1, <2>3, RunEnds DEF HasListed
  <2>5. Fresh(q, e)
    BY <2>3, <2>4 DEF ListedInv
  <2>6. QED
    BY <2>1, <2>5, RunEnds DEF Fresh
<1>8. CASE UNCHANGED rosterVars
  BY <1>8 DEF rosterVars, runVars, ListedInv, HasListed, Fresh
<1>9. QED
  BY <1>1, <1>2, <1>3, <1>4, <1>5, <1>6, <1>7, <1>8 DEF RosterNext

LEMMA NextCovers ==
  ASSUME RosterType, ClockInv, ContentInv, ListedInv, WatermarkCovers, [RosterNext]_rosterVars
  PROVE  WatermarkCovers'
<1> USE DEF RosterType
<1>1. ASSUME NEW e \in Records, SourceChanges(e) PROVE WatermarkCovers'
  <2>1. UNCHANGED <<copy, watermark, missed>> /\ modified' = [modified EXCEPT ![e] = Clock + 1]
    BY <1>1 DEF SourceChanges
  <2>2. ~(modified'[e] \in 1..watermark)
    BY <2>1, ClockIsNewest DEF ClockInv
  <2>3. QED
    BY <2>1, <2>2 DEF WatermarkCovers
<1>2. ASSUME NEW r \in Runs, WriteRow(r) PROVE WatermarkCovers'
  <2>1. UNCHANGED <<modified, watermark>>
    BY <1>2 DEF WriteRow
  <2>2. QED
    BY <1>2, <2>1, RowWritten DEF WatermarkCovers
<1>3. ASSUME NEW r \in Runs, StartRun(r) \/ FetchList(r) \/ NextRecord(r) \/ WriteMapping(r) \/ FailRun(r)
      PROVE  WatermarkCovers'
  <2>1. UNCHANGED <<modified, copy, watermark, missed>>
    BY <1>3 DEF StartRun, FetchList, NextRecord, WriteMapping, FailRun
  <2>2. QED
    BY <2>1 DEF WatermarkCovers
<1>4. ASSUME NEW r \in Runs, Succeed(r) PROVE WatermarkCovers'
  <2>1. /\ runPc[r] = "import" /\ fetched[r] = {} /\ list[r] = 4
        /\ missed' = missed \union behind[r] /\ UNCHANGED <<modified, copy>>
    BY <1>4 DEF Succeed, Lists
  <2>2. \A e \in Records : HasListed(r, e)
    BY <2>1, RosterAssumption DEF HasListed, Lists
  <2>3. ASSUME NEW e \in Records, modified[e] # 0, e \notin missed' PROVE copy[e] = modified[e]
    <3>1. Fresh(r, e)
      BY <2>1, <2>2, <2>3 DEF ListedInv
    <3>2. QED
      BY <2>1, <3>1 DEF Fresh
  <2>4. QED
    BY <2>1, <2>3 DEF WatermarkCovers
<1>5. CASE UNCHANGED rosterVars
  BY <1>5 DEF rosterVars, WatermarkCovers
<1>6. QED
  BY <1>1, <1>2, <1>3, <1>4, <1>5 DEF RosterNext

\* What a run found out about the record that it goes on to import.
LEMMA NextRecordStarts ==
  ASSUME RosterType, NEW r \in Runs, NextRecord(r)
  PROVE  \/ runPc'[r] = "import"
         \/ /\ runPc'[r] = "write" /\ (current'[r].known <=> current'[r].record \in mapped)
            /\ Creating(current'[r].record) = {} \/ current'[r].record \in raced'
<1>1. PICK rec \in fetched[r] :
        \/ UNCHANGED runPc
        \/ /\ current' = [current EXCEPT ![r] =
                [record |-> rec.record, content |-> rec.content, known |-> Found(rec.record)]]
           /\ runPc' = [runPc EXCEPT ![r] = "write"]
           /\ raced' = IF Creating(rec.record) = {} THEN raced ELSE raced \union {rec.record}
  BY DEF NextRecord
<1>2. CASE UNCHANGED runPc
  BY <1>2 DEF NextRecord
<1>3. CASE /\ current' = [current EXCEPT ![r] =
                [record |-> rec.record, content |-> rec.content, known |-> Found(rec.record)]]
           /\ runPc' = [runPc EXCEPT ![r] = "write"]
           /\ raced' = IF Creating(rec.record) = {} THEN raced ELSE raced \union {rec.record}
  <2>1. runPc'[r] = "write" /\ current'[r].record = rec.record /\ current'[r].known = Found(rec.record)
    BY <1>3 DEF RosterType
  <2>2. Creating(rec.record) = {} \/ rec.record \in raced'
    BY <1>3
  <2>3. QED
    BY <2>1, <2>2 DEF Found
<1>4. QED
  BY <1>1, <1>2, <1>3

LEMMA NextMap ==
  ASSUME RosterType, MapInv, [RosterNext]_rosterVars
  PROVE  MapInv'
<1> USE DEF RosterType
<1>1. ASSUME NEW e \in Records, SourceChanges(e) PROVE MapInv'
  BY <1>1 DEF SourceChanges, MapInv, Busy
<1>2. ASSUME NEW r \in Runs, StartRun(r) PROVE MapInv'
  <2>1. /\ runPc[r] = "idle" /\ runPc' = [runPc EXCEPT ![r] = "import"]
        /\ UNCHANGED <<inserted, mapped, torn, current>>
    BY <1>2 DEF StartRun
  <2>2. QED
    BY <2>1 DEF MapInv, Busy
<1>3. ASSUME NEW r \in Runs, FetchList(r) PROVE MapInv'
  BY <1>3 DEF FetchList, MapInv, Busy
<1>4. ASSUME NEW r \in Runs, NextRecord(r) PROVE MapInv'
  <2>1. runPc[r] = "import" /\ UNCHANGED <<inserted, mapped, torn>>
        /\ \A q \in Runs \ {r} : runPc'[q] = runPc[q] /\ current'[q] = current[q]
    BY <1>4 DEF NextRecord
  <2>2. \/ runPc'[r] = "import"
        \/ runPc'[r] = "write" /\ (current'[r].known => current'[r].record \in mapped)
    BY <1>4, NextRecordStarts
  <2>3. QED
    BY <2>1, <2>2 DEF MapInv, Busy
<1>5. ASSUME NEW r \in Runs, WriteRow(r) PROVE MapInv'
  <2>1. /\ runPc[r] = "write" /\ inserted' = inserted \union {current[r].record} /\ torn' = torn
        /\ \A q \in Runs \ {r} : runPc'[q] = runPc[q] /\ current'[q] = current[q]
    BY <1>5 DEF WriteRow
  <2>2. \/ mapped' = mapped \union {current[r].record} /\ runPc'[r] = "import"
        \/ mapped' = mapped /\ runPc'[r] = "map" /\ current'[r] = current[r]
    BY <1>5 DEF WriteRow
  <2>3. QED
    BY <2>1, <2>2 DEF MapInv, Busy
<1>6. ASSUME NEW r \in Runs, WriteMapping(r) PROVE MapInv'
  <2>1. /\ runPc[r] = "map" /\ runPc'[r] = "import" /\ mapped' = mapped \union {current[r].record}
        /\ UNCHANGED <<inserted, torn>>
        /\ \A q \in Runs \ {r} : runPc'[q] = runPc[q] /\ current'[q] = current[q]
    BY <1>6 DEF WriteMapping
  <2>2. QED
    BY <2>1 DEF MapInv, Busy
<1>7. ASSUME NEW r \in Runs, Succeed(r) \/ FailRun(r) PROVE MapInv'
  <2>1. EndRun(r) /\ UNCHANGED <<inserted, mapped>> /\ torn \subseteq torn'
        /\ (runPc[r] = "map" => current[r].record \in torn')
    BY <1>7 DEF Succeed, FailRun
  <2>2. QED
    BY <2>1, RunEnds DEF MapInv, Busy
<1>8. CASE UNCHANGED rosterVars
  BY <1>8 DEF rosterVars, runVars, MapInv, Busy
<1>9. QED
  BY <1>1, <1>2, <1>3, <1>4, <1>5, <1>6, <1>7, <1>8 DEF RosterNext

LEMMA NextTwin ==
  ASSUME RosterType, MapInv, TwinInv, [RosterNext]_rosterVars
  PROVE  TwinInv'
<1> USE DEF RosterType
<1>1. ASSUME NEW e \in Records, SourceChanges(e) PROVE TwinInv'
  BY <1>1 DEF SourceChanges, TwinInv, Busy
<1>2. ASSUME NEW r \in Runs, StartRun(r) PROVE TwinInv'
  <2>1. /\ runPc[r] = "idle" /\ runPc' = [runPc EXCEPT ![r] = "import"]
        /\ UNCHANGED <<inserted, doubled, raced, torn, current>>
    BY <1>2 DEF StartRun
  <2>2. QED
    BY <2>1 DEF TwinInv, Busy
<1>3. ASSUME NEW r \in Runs, FetchList(r) PROVE TwinInv'
  BY <1>3 DEF FetchList, TwinInv, Busy
<1>4. ASSUME NEW r \in Runs, NextRecord(r) PROVE TwinInv'
  <2>1. runPc[r] = "import" /\ UNCHANGED <<inserted, doubled, torn>> /\ raced \subseteq raced'
        /\ \A q \in Runs \ {r} : runPc'[q] = runPc[q] /\ current'[q] = current[q]
    BY <1>4 DEF NextRecord
  <2>2. \/ runPc'[r] = "import"
        \/ /\ runPc'[r] = "write" /\ (current'[r].known <=> current'[r].record \in mapped)
           /\ Creating(current'[r].record) = {} \/ current'[r].record \in raced'
    BY <1>4, NextRecordStarts
  <2>3. CASE runPc'[r] = "import"
    BY <2>1, <2>3 DEF TwinInv, Busy
  <2>4. CASE /\ runPc'[r] = "write" /\ (current'[r].known <=> current'[r].record \in mapped)
             /\ Creating(current'[r].record) = {} \/ current'[r].record \in raced'
    <3> DEFINE e == current'[r].record
    <3>1. ASSUME NEW q \in Runs \ {r}, Busy(q), current[q].record = e
          PROVE  current[q].known \/ e \in raced'
      BY <2>4, <3>1 DEF Creating, Busy
    <3>2. ASSUME e \in inserted, ~current'[r].known PROVE e \in raced' \union torn
      <4>1. e \in torn \/ \E q \in Runs : runPc[q] = "map" /\ current[q].record = e
        BY <2>4, <3>2 DEF MapInv
      <4>2. ASSUME NEW q \in Runs, runPc[q] = "map", current[q].record = e PROVE e \in raced'
        <5>1. q # r /\ Busy(q)
          BY <2>1, <4>2 DEF Busy
        <5>2. ~current[q].known
          BY <2>4, <3>2, <4>2, <5>1 DEF MapInv
        <5>3. QED
          BY <3>1, <4>2, <5>1, <5>2
      <4>3. QED
        BY <4>1, <4>2
    <3>3. ASSUME NEW q \in Runs, NEW p \in Runs, q # p, Busy(q)', Busy(p)',
                 current'[q].record = current'[p].record
          PROVE  current'[q].known \/ current'[p].known \/ current'[q].record \in raced'
      <4>1. CASE q = r
        BY <2>1, <3>1, <3>3, <4>1 DEF Busy
      <4>2. CASE p = r
        BY <2>1, <3>1, <3>3, <4>2 DEF Busy
      <4>3. CASE q # r /\ p # r
        BY <2>1, <3>3, <4>3 DEF Busy, TwinInv
      <4>4. QED
        BY <4>1, <4>2, <4>3
    <3>4. ASSUME NEW q \in Runs, runPc'[q] = "write", current'[q].record \in inserted
          PROVE  current'[q].known \/ current'[q].record \in raced' \union torn
      <4>1. CASE q = r
        BY <3>2, <3>4, <4>1
      <4>2. CASE q # r
        BY <2>1, <3>4, <4>2 DEF TwinInv
      <4>3. QED
        BY <4>1, <4>2
    <3>5. QED
      BY <2>1, <3>3, <3>4 DEF TwinInv
  <2>5. QED
    BY <2>2, <2>3, <2>4
<1>5. ASSUME NEW r \in Runs, WriteRow(r) PROVE TwinInv'
  <2>1. /\ runPc[r] = "write" /\ inserted' = inserted \union {current[r].record}
        /\ UNCHANGED <<raced, torn>>
        /\ \A q \in Runs \ {r} : runPc'[q] = runPc[q] /\ current'[q] = current[q]
    BY <1>5 DEF WriteRow
  <2>2. \/ runPc'[r] = "import"
        \/ runPc'[r] = "map" /\ current'[r] = current[r]
    BY <1>5 DEF WriteRow
  <2>3. doubled' \subseteq raced \union torn
    BY <1>5, <2>1 DEF WriteRow, Doubles, TwinInv
  <2>4. ASSUME NEW q \in Runs, runPc'[q] = "write", current'[q].record \in inserted'
        PROVE  current'[q].known \/ current'[q].record \in raced \union torn
    <3>1. q # r /\ runPc[q] = "write" /\ current'[q] = current[q]
      BY <2>1, <2>2, <2>4
    <3>2. CASE current[q].record \in inserted
      BY <3>1, <3>2 DEF TwinInv
    <3>3. CASE current[q].record = current[r].record /\ current[q].record \notin inserted
      <4>1. ~current[r].known
        BY <2>1, <3>3 DEF MapInv, Busy
      <4>2. QED
        BY <2>1, <3>1, <3>3, <4>1 DEF TwinInv, Busy
    <3>4. QED
      BY <2>1, <2>4, <3>1, <3>2, <3>3
  <2>5. ASSUME NEW q \in Runs, NEW p \in Runs, q # p, Busy(q)', Busy(p)',
               current'[q].record = current'[p].record
        PROVE  current'[q].known \/ current'[p].known \/ current'[q].record \in raced
    <3>1. /\ Busy(q) /\ Busy(p) /\ current'[q] = current[q] /\ current'[p] = current[p]
      BY <2>1, <2>2, <2>5 DEF Busy
    <3>2. QED
      BY <2>5, <3>1 DEF TwinInv
  <2>6. QED
    BY <2>1, <2>3, <2>4, <2>5 DEF TwinInv
<1>6. ASSUME NEW r \in Runs, WriteMapping(r) PROVE TwinInv'
  <2>1. /\ runPc'[r] = "import" /\ UNCHANGED <<inserted, doubled, raced, torn>>
        /\ \A q \in Runs \ {r} : runPc'[q] = runPc[q] /\ current'[q] = current[q]
    BY <1>6 DEF WriteMapping
  <2>2. QED
    BY <2>1 DEF TwinInv, Busy
<1>7. ASSUME NEW r \in Runs, Succeed(r) \/ FailRun(r) PROVE TwinInv'
  <2>1. EndRun(r) /\ UNCHANGED <<inserted, doubled, raced>> /\ torn \subseteq torn'
    BY <1>7 DEF Succeed, FailRun
  <2>2. QED
    BY <2>1, RunEnds, SMTT(30) DEF TwinInv, Busy
<1>8. CASE UNCHANGED rosterVars
  BY <1>8 DEF rosterVars, runVars, TwinInv, Busy
<1>9. QED
  BY <1>1, <1>2, <1>3, <1>4, <1>5, <1>6, <1>7, <1>8 DEF RosterNext

\* The inductive invariant of overlapping syncs: what a run has listed it brings or
\* knows it is behind on, and two runs that create one record have raced for it.
THEOREM RosterInvariant == RosterSpec => []RosterInv
<1>1. RosterInv /\ [RosterNext]_rosterVars => RosterInv'
  <2> SUFFICES ASSUME RosterInv, [RosterNext]_rosterVars PROVE RosterInv'
    OBVIOUS
  <2>1. RosterType'
    BY RosterNextType DEF RosterInv
  <2>2. ClockInv' /\ ContentInv' /\ ListedInv' /\ WatermarkCovers'
    BY <2>1, NextClock, NextContent, NextListed, NextCovers DEF RosterInv
  <2>3. MapInv' /\ TwinInv'
    BY NextMap, NextTwin DEF RosterInv
  <2>4. QED
    BY <2>1, <2>2, <2>3 DEF RosterInv
<1>2. QED
  BY RosterInitInv, <1>1, PTL DEF RosterSpec

\* No change that the watermark has passed is lost, but to a run that skipped the
\* record or put back an older content, for any source and any runs at once.
THEOREM NoChangeIsLost == RosterSpec => []WatermarkCovers
<1>1. RosterInv => WatermarkCovers
  BY DEF RosterInv
<1>2. QED
  BY RosterInvariant, <1>1, PTL

\* A record has a second row only if two runs raced for it or, on the silo tier,
\* one died between the row and its mapping, for any source and any runs at once.
THEOREM RowsAreNotDoubled == RosterSpec => []OneRowPerRecord
<1>1. RosterInv => OneRowPerRecord
  BY DEF RosterInv, TwinInv, OneRowPerRecord
<1>2. QED
  BY RosterInvariant, <1>1, PTL

\* What the argument above does not need of the types.
RowsAreRecords ==
  /\ sisTier \in SisTiers
  /\ inserted \subseteq Records /\ doubled \subseteq inserted /\ missed \subseteq Records
  /\ \A e \in Records : copy[e] <= MaxChanges

LEMMA NextRowsAreRecords ==
  ASSUME RosterInv, RowsAreRecords, [RosterNext]_rosterVars
  PROVE  RowsAreRecords'
<1> USE DEF RowsAreRecords
<1>1. RosterType /\ ContentInv /\ MaxChanges \in Nat
  BY RosterAssumption DEF RosterInv
<1>2. ASSUME NEW e \in Records, SourceChanges(e) PROVE RowsAreRecords'
  BY <1>2 DEF SourceChanges
<1>3. ASSUME NEW r \in Runs, StartRun(r) \/ FetchList(r) \/ NextRecord(r) \/ FailRun(r)
      PROVE  RowsAreRecords'
  BY <1>3 DEF StartRun, FetchList, NextRecord, FailRun
<1>4. ASSUME NEW r \in Runs, WriteRow(r) PROVE RowsAreRecords'
  <2>1. PICK e \in Records : e = current[r].record
    BY <1>1, <1>4 DEF WriteRow, RosterType, Import
  <2>2. current[r].content \in Nat /\ current[r].content <= MaxChanges
    BY <1>1, <1>4, <2>1 DEF WriteRow, RosterType, Import, ContentInv
  <2>3. /\ sisTier' = sisTier /\ inserted' = inserted \union {e}
        /\ doubled' \in {doubled, doubled \union {e}}
        /\ copy' = [copy EXCEPT ![e] = current[r].content]
    BY <1>4, <2>1 DEF WriteRow
  <2>4. missed' \in {missed, missed \ {e}, missed \union {e}}
    BY <1>4, <2>1 DEF WriteRow, MissedAfter
  <2>5. \A f \in Records : copy'[f] <= MaxChanges
    BY <1>1, <2>2, <2>3 DEF RosterType
  <2>6. QED
    BY <2>3, <2>4, <2>5
<1>5. ASSUME NEW r \in Runs, WriteMapping(r) PROVE RowsAreRecords'
  BY <1>5 DEF WriteMapping
<1>6. ASSUME NEW r \in Runs, Succeed(r) PROVE RowsAreRecords'
  <2>1. behind[r] \subseteq Records
    BY <1>1 DEF RosterType
  <2>2. QED
    BY <1>6, <2>1 DEF Succeed
<1>7. CASE UNCHANGED rosterVars
  BY <1>7 DEF rosterVars
<1>8. QED
  BY <1>2, <1>3, <1>4, <1>5, <1>6, <1>7 DEF RosterNext

\* The rows of a copy are records of the source, none with a content from after
\* the last change, and no watermark or filter is ahead of it.
THEOREM RosterTypeCorrect == RosterSpec => []RosterTypeOK
<1>1. RosterInit => RowsAreRecords
  BY RosterAssumption DEF RosterInit, RowsAreRecords
<1>2. RosterInv /\ RowsAreRecords => RosterTypeOK
  <2> SUFFICES ASSUME RosterInv, RowsAreRecords PROVE RosterTypeOK
    OBVIOUS
  <2>1. RosterType /\ ClockInv /\ mapped \subseteq inserted /\ MaxChanges \in Nat
    BY RosterAssumption DEF RosterInv, MapInv
  <2>2. Clock \in 0..MaxChanges
    BY <2>1, ClockIsNewest DEF RosterType
  <2>3. watermark \in 0..MaxChanges
    BY <2>1, <2>2 DEF RosterType, ClockInv
  <2>4. \A r \in Runs : since[r] \in 0..MaxChanges
    BY <2>1, <2>3 DEF RosterType, ClockInv
  <2>5. since \in [Runs -> 0..MaxChanges]
    BY <2>1, <2>4 DEF RosterType
  <2>6. \A e \in Records : copy[e] \in 0..MaxChanges
    BY <2>1 DEF RosterType, RowsAreRecords
  <2>7. copy \in [Records -> 0..MaxChanges]
    BY <2>1, <2>6 DEF RosterType
  <2>8. list \in [Runs -> 0..Len(Lists)]
    BY <2>1 DEF RosterType, Lists
  <2>9. QED
    BY <2>1, <2>3, <2>5, <2>7, <2>8 DEF RosterType, RowsAreRecords, RosterTypeOK
<1>3. RosterInv /\ RowsAreRecords /\ [RosterNext]_rosterVars => RowsAreRecords'
  BY NextRowsAreRecords
<1>4. QED
  BY RosterInvariant, <1>1, <1>2, <1>3, PTL DEF RosterSpec
=============================================================================
