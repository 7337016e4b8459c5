----------------------------- MODULE AuditChain -----------------------------
(***************************************************************************)
(* The hash chain over one tenant's audit_log: appends that may run at the *)
(* same time, somebody who edits the table, and the verdict of verify.     *)
(*                                                                         *)
(* On the pool tier an append is one transaction: its row appears with its *)
(* hash at COMMIT, and created_at is the time the transaction began.  On   *)
(* the silo tier the INSERT and the UPDATE of the hash commit one by one.  *)
(* Time is counted in rows inserted so far: appends that began between the *)
(* same two are ordered by their random ids, as uuids order equal times.   *)
(* A hash is the sequence of what it was computed over, so two are equal   *)
(* when their inputs are: SHA-256 is taken to have no collisions.          *)
(***************************************************************************)
EXTENDS Integers, Sequences, FiniteSets

CONSTANTS
  Appenders,   \* calls of POST /audit/events in flight at once
  AuditTiers,  \* the tiers the tenant may have
  MaxRows      \* rows that audit_log ever gets: bounds the appends

ASSUME AuditAssumption ==
  /\ IsFiniteSet(Appenders)
  /\ AuditTiers \subseteq {"pool", "silo"}
  /\ MaxRows \in Nat

VARIABLES
  auditTier,   \* of the tenant
  log,         \* the rows of audit_log
  usedIds,     \* the ids given out so far, of removed rows too
  appendPc,    \* per call: idle, head, insert, hash
  began,       \* per call: now() of its transaction
  prevHash,    \* per call: the hash of the head it read
  pendingRow,  \* per call: the row it inserted (silo)
  overlapped,  \* history: two appends were in flight at once
  cut,         \* history: an append died between its INSERT and its UPDATE (silo)
  damaged      \* history: ids of rows that were altered or lost the row before them

callLocals == <<appendPc, began, prevHash, pendingRow>>
auditVars == <<auditTier, log, usedIds, callLocals, overlapped, cut, damaged>>

Ids == 1..MaxRows
Genesis == << >>            \* prev_hash null
NoHash == << <<0, 0>> >>    \* row_hash null: no row has the id 0
NoEntry == [id |-> 0, at |-> 0, payload |-> 0, prev |-> Genesis, hash |-> NoHash]

\* ORDER BY created_at, id
Later(r, s) == r.at > s.at \/ (r.at = s.at /\ r.id > s.id)
IsLast(r, S) == \A s \in S \ {r} : Later(r, s)
LastHash(S) == IF S = {} THEN Genesis ELSE (CHOOSE r \in S : IsLast(r, S)).hash

\* computeRowHash: over prev_hash, the id and the other fields of the row.
RowHash(prev, r) == Append(prev, <<r.id, r.payload>>)

Quiet == \A c \in Appenders : appendPc[c] = "idle"

AuditInit ==
  /\ auditTier \in AuditTiers
  /\ log = {}
  /\ usedIds = {}
  /\ appendPc = [c \in Appenders |-> "idle"]
  /\ began = [c \in Appenders |-> 0]
  /\ prevHash = [c \in Appenders |-> Genesis]
  /\ pendingRow = [c \in Appenders |-> NoEntry]
  /\ overlapped = FALSE
  /\ cut = FALSE
  /\ damaged = {}

EndAppend(c) ==
  /\ appendPc' = [appendPc EXCEPT ![c] = "idle"]
  /\ began' = [began EXCEPT ![c] = 0]
  /\ prevHash' = [prevHash EXCEPT ![c] = Genesis]
  /\ pendingRow' = [pendingRow EXCEPT ![c] = NoEntry]

-----------------------------------------------------------------------------
(* append *)

BeginAppend(c) ==
  /\ appendPc[c] = "idle"
  /\ usedIds # Ids
  /\ appendPc' = [appendPc EXCEPT ![c] = "head"]
  /\ began' = [began EXCEPT ![c] = Cardinality(usedIds)]
  /\ overlapped' = (overlapped \/ ~Quiet)
  /\ UNCHANGED <<auditTier, log, usedIds, prevHash, pendingRow, cut, damaged>>

\* mutant: the oldest row instead of the newest.
ReadHeadAscending(c) ==
  /\ appendPc[c] = "head"
  /\ prevHash' = [prevHash EXCEPT ![c] =
       LET hashed == {r \in log : r.hash # NoHash} IN
       IF hashed = {} THEN Genesis ELSE (CHOOSE r \in hashed : \A s \in hashed \ {r} : Later(s, r)).hash]
  /\ appendPc' = [appendPc EXCEPT ![c] = "insert"]
  /\ UNCHANGED <<auditTier, log, usedIds, began, pendingRow, overlapped, cut, damaged>>

\* The newest row that has a hash; no lock keeps it the newest.
ReadHead(c) ==
  /\ appendPc[c] = "head"
  /\ prevHash' = [prevHash EXCEPT ![c] = LastHash({r \in log : r.hash # NoHash})]
  /\ appendPc' = [appendPc EXCEPT ![c] = "insert"]
  /\ UNCHANGED <<auditTier, log, usedIds, began, pendingRow, overlapped, cut, damaged>>

NewRow(c, id, at) ==
  [id |-> id, at |-> at, payload |-> 0, prev |-> prevHash[c], hash |-> NoHash]

\* pool: INSERT, UPDATE and COMMIT.  silo: the INSERT alone.
InsertRow(c) ==
  /\ appendPc[c] = "insert"
  /\ \E id \in Ids \ usedIds :
       /\ usedIds' = usedIds \union {id}
       /\ \/ /\ auditTier = "pool"
             /\ LET row == NewRow(c, id, began[c])
                IN  log' = log \union {[row EXCEPT !.hash = RowHash(prevHash[c], row)]}
             /\ EndAppend(c)
          \/ /\ auditTier = "silo"
             /\ LET row == NewRow(c, id, Cardinality(usedIds))
                IN  log' = log \union {row} /\ pendingRow' = [pendingRow EXCEPT ![c] = row]
             /\ appendPc' = [appendPc EXCEPT ![c] = "hash"]
             /\ UNCHANGED <<began, prevHash>>
  /\ UNCHANGED <<auditTier, overlapped, cut, damaged>>

\* silo: the hash of the row as it was inserted.
WriteHash(c) ==
  /\ appendPc[c] = "hash"
  /\ log' = {IF r.id = pendingRow[c].id THEN [r EXCEPT !.hash = RowHash(prevHash[c], pendingRow[c])] ELSE r : r \in log}
  /\ EndAppend(c)
  /\ UNCHANGED <<auditTier, usedIds, overlapped, cut, damaged>>

\* A query throws or the process dies: a transaction leaves nothing behind.
AppendFails(c) ==
  /\ appendPc[c] # "idle"
  /\ cut' = (cut \/ appendPc[c] = "hash")
  /\ EndAppend(c)
  /\ UNCHANGED <<auditTier, log, usedIds, overlapped, damaged>>

(* somebody who edits the table while no append runs *)

Alter(r) ==
  /\ Quiet /\ r.payload = 0
  /\ log' = (log \ {r}) \union {[r EXCEPT !.payload = 1]}
  /\ damaged' = damaged \union {r.id}
  /\ UNCHANGED <<auditTier, usedIds, callLocals, overlapped, cut>>

\* The row that followed it, if any, has lost the row it is chained to.
Remove(r) ==
  /\ Quiet
  /\ log' = log \ {r}
  /\ LET next == {s \in log : Later(s, r) /\ \A u \in log : Later(u, r) => u = s \/ Later(u, s)}
     IN  damaged' = damaged \union {s.id : s \in next}
  /\ UNCHANGED <<auditTier, usedIds, callLocals, overlapped, cut>>

AuditNext ==
  \/ \E c \in Appenders :
       BeginAppend(c) \/ ReadHead(c) \/ InsertRow(c) \/ WriteHash(c) \/ AppendFails(c)
  \/ \E r \in log : Alter(r) \/ Remove(r)

AuditSpec == AuditInit /\ [][AuditNext]_auditVars

-----------------------------------------------------------------------------
\* verifyChain: every row is linked to the row before it and has its own hash.
VerifyOk == \A r \in log :
  /\ r.prev = LastHash({s \in log : Later(r, s)})
  /\ r.hash = RowHash(r.prev, r)

AuditTypeOK ==
  /\ auditTier \in AuditTiers
  /\ \A r \in log : r.id \in usedIds /\ r.at \in 0..MaxRows /\ r.payload \in {0, 1}
  /\ usedIds \subseteq Ids
  /\ appendPc \in [Appenders -> {"idle", "head", "insert", "hash"}]
  /\ began \in [Appenders -> 0..MaxRows]
  /\ overlapped \in BOOLEAN /\ cut \in BOOLEAN
  /\ damaged \subseteq Ids

\* verify is right at rest: it reports a break exactly when a row that is still
\* there was altered or lost the row before it.  A removed tail is not seen.
\* Appends that ran at the same time, and on the silo tier one that died between
\* its INSERT and its UPDATE, are all that can make it cry wolf.
VerdictIsRight ==
  Quiet /\ ~overlapped /\ ~cut => (VerifyOk <=> \A r \in log : r.id \notin damaged)
=============================================================================
