------------------------- MODULE AttendanceSession -------------------------
(***************************************************************************)
(* The attendance sessions of one meeting (section, date, period): they    *)
(* are created and seeded from the roster, marked while open, finalized,   *)
(* and every learner who is marked as flagged then is announced.           *)
(*                                                                         *)
(* On the pool tier a store function is a READ COMMITTED transaction, on   *)
(* the silo tier every statement commits by itself.  A mark stands for a   *)
(* code: flagged for the categories absent and tardy, clear for the rest.  *)
(* Participation, which the same guard protects, is left out, and so is    *)
(* who is told of a flagged learner (the guardians, as far as they are     *)
(* resolved).                                                              *)
(***************************************************************************)
EXTENDS Integers, FiniteSets

CONSTANTS
  AttendanceCalls,  \* requests to the service in flight at once
  Learners,         \* whom the roster may name
  MaxSessions,      \* sessions the meeting ever gets
  AttendanceTiers   \* the tiers the tenant may have

ASSUME AttendanceAssumption ==
  /\ IsFiniteSet(AttendanceCalls)
  /\ MaxSessions \in Nat
  /\ AttendanceTiers \subseteq {"pool", "silo"}

VARIABLES
  attendanceTier,  \* of the tenant
  labelled,        \* the meeting has a period_label
  session,         \* per session: none, open, finalized
  mark,            \* per session and learner: none, clear, flagged
  alerts,          \* <<session, learner>> of the events in event_outbox
  attendancePc,    \* per call: idle, insert, seed, write, commit, select, announce
  about,           \* per call: its session
  todo,            \* per call: the <<learner, mark>> it has still to write or announce
  outrun,          \* per call, history: its session was finalized after it found it open
  rival,           \* history: two creates were in flight at once
  late,            \* history: <<session, learner>> marked by a call that was outrun
  silenced         \* history: sessions whose finalize died before it had announced all

attendanceLocals == <<attendancePc, about, todo, outrun>>
attendanceVars == <<attendanceTier, labelled, session, mark, alerts, attendanceLocals, rival, late, silenced>>

Marks == {"clear", "flagged"}
SessionIds == 1..MaxSessions

AttendanceInit ==
  /\ attendanceTier \in AttendanceTiers
  /\ labelled \in BOOLEAN
  /\ session = [s \in SessionIds |-> "none"]
  /\ mark = [s \in SessionIds |-> [u \in Learners |-> "none"]]
  /\ alerts = {}
  /\ attendancePc = [c \in AttendanceCalls |-> "idle"]
  /\ about = [c \in AttendanceCalls |-> 0]
  /\ todo = [c \in AttendanceCalls |-> {}]
  /\ outrun = [c \in AttendanceCalls |-> FALSE]
  /\ rival = FALSE
  /\ late = {}
  /\ silenced = {}

Created == {s \in SessionIds : session[s] # "none"}
At(step) == {c \in AttendanceCalls : attendancePc[c] = step}

Enter(c, step, s, work) ==
  /\ attendancePc' = [attendancePc EXCEPT ![c] = step]
  /\ about' = [about EXCEPT ![c] = s]
  /\ todo' = [todo EXCEPT ![c] = work]

EndAttendance(c) == Enter(c, "idle", 0, {})

\* The call goes on with what is left, or ends.
Continue(c, step, s, left) ==
  IF left = {} THEN EndAttendance(c) ELSE Enter(c, step, s, left)

\* Who may write a mark that a finalize of s, now, does not see.
OutrunBy(s) == outrun' = [c \in AttendanceCalls |->
  outrun[c] \/ (attendancePc[c] \in {"write", "seed"} /\ about[c] = s)]
NotOutrun(c) == outrun' = [outrun EXCEPT ![c] = FALSE]

\* Rows of attendance_record written by c, for the learners named in work.
PutMarks(c, s, work) ==
  /\ mark' = [mark EXCEPT ![s] = [u \in Learners |->
       IF \E w \in work : w[1] = u THEN (CHOOSE w \in work : w[1] = u)[2] ELSE @[u]]]
  /\ late' = IF outrun[c] THEN late \union {<<s, w[1]>> : w \in work} ELSE late

-----------------------------------------------------------------------------
(* createSession *)

\* mutant: = for IS NOT DISTINCT FROM, so a null label matches no session.
MeetingTakenIfLabelled == labelled /\ Created # {}

MeetingTaken == Created # {}

\* The roster, empty when enrollment does not answer, with the default code, if
\* there is one; and the look for a session of the meeting, which ends the call.
CheckMeeting(c) ==
  /\ attendancePc[c] = "idle" /\ ~MeetingTaken
  /\ \E roster \in SUBSET Learners, m \in Marks : Enter(c, "insert", 0, roster \X {m})
  /\ rival' = (rival \/ At("insert") # {})
  /\ UNCHANGED <<attendanceTier, labelled, session, mark, alerts, outrun, late, silenced>>

\* UNIQUE (org_unit_id, meeting_date, period_label) fails the call, but two null
\* labels are distinct.  pool: the session is committed with its records.
InsertSession(c) ==
  /\ attendancePc[c] = "insert"
  /\ \/ /\ labelled /\ MeetingTaken
        /\ EndAttendance(c)
        /\ UNCHANGED <<session, mark, late>>
     \/ /\ labelled => ~MeetingTaken
        /\ \E s \in SessionIds :
             /\ s = Cardinality(Created) + 1
             /\ session' = [session EXCEPT ![s] = "open"]
             /\ \/ attendanceTier = "pool" /\ PutMarks(c, s, todo[c]) /\ EndAttendance(c)
                \/ attendanceTier = "silo" /\ Continue(c, "seed", s, todo[c]) /\ UNCHANGED <<mark, late>>
  /\ UNCHANGED <<attendanceTier, labelled, alerts, outrun, rival, silenced>>

\* silo: ON CONFLICT DO NOTHING.
SeedRecord(c) ==
  LET s == about[c] IN
  /\ attendancePc[c] = "seed"
  /\ \E w \in todo[c] :
       /\ PutMarks(c, s, IF mark[s][w[1]] = "none" THEN {w} ELSE {})
       /\ Continue(c, "seed", s, todo[c] \ {w})
       /\ IF todo[c] = {w} THEN NotOutrun(c) ELSE UNCHANGED outrun
  /\ UNCHANGED <<attendanceTier, labelled, session, alerts, rival, silenced>>

(* setRecords *)

\* The records of a request: a mark for each of some learners.
Bodies == UNION {{{<<u, f[u]>> : u \in S} : f \in [S -> Marks]} : S \in SUBSET Learners \ {{}}}

\* mutant: the status is not looked at.
ReadAnySession(c) ==
  /\ attendancePc[c] = "idle"
  /\ \E s \in Created, body \in Bodies :
       /\ Enter(c, "write", s, body)
       /\ outrun' = [outrun EXCEPT ![c] = \E d \in At("commit") : about[d] = s]
  /\ UNCHANGED <<attendanceTier, labelled, session, mark, alerts, rival, late, silenced>>

\* A session that is finalized ends the call.  One that another call finalizes,
\* having read its records, is open until that call commits.
ReadOpenSession(c) ==
  /\ attendancePc[c] = "idle"
  /\ \E s \in {x \in SessionIds : session[x] = "open"}, body \in Bodies :
       /\ Enter(c, "write", s, body)
       /\ outrun' = [outrun EXCEPT ![c] = \E d \in At("commit") : about[d] = s]
  /\ UNCHANGED <<attendanceTier, labelled, session, mark, alerts, rival, late, silenced>>

\* pool: all of them with COMMIT.  silo: one by one.
WriteRecords(c) ==
  LET s == about[c] IN
  /\ attendancePc[c] = "write"
  /\ \E now \in IF attendanceTier = "pool" THEN {todo[c]} ELSE {{w} : w \in todo[c]} :
       /\ PutMarks(c, s, now)
       /\ Continue(c, "write", s, todo[c] \ now)
       /\ IF todo[c] = now THEN NotOutrun(c) ELSE UNCHANGED outrun
  /\ UNCHANGED <<attendanceTier, labelled, session, alerts, rival, silenced>>

(* finalizeSession *)

Flagged(s) == {w \in Learners \X {"flagged"} : mark[s][w[1]] = "flagged"}

\* Phase 1 on the pool tier, up to its COMMIT: the row is locked, so a second
\* finalize of the session waits, and a call that marks does not.
SelectFlagged(c) ==
  /\ attendanceTier = "pool" /\ attendancePc[c] = "idle"
  /\ \E s \in Created :
       /\ \A d \in At("commit") : about[d] # s
       /\ Enter(c, "commit", s, Flagged(s))
       /\ OutrunBy(s)
  /\ UNCHANGED <<attendanceTier, labelled, session, mark, alerts, rival, late, silenced>>

CommitFinalized(c) ==
  LET s == about[c] IN
  /\ attendancePc[c] = "commit"
  /\ session' = [session EXCEPT ![s] = "finalized"]
  /\ silenced' = IF todo[c] = {} THEN silenced \ {s} ELSE silenced
  /\ OutrunBy(s)
  /\ Continue(c, "announce", s, todo[c])
  /\ UNCHANGED <<attendanceTier, labelled, mark, alerts, rival, late>>

\* Phase 1 on the silo tier: the UPDATE, then the SELECT.
UpdateToFinalized(c) ==
  /\ attendanceTier = "silo" /\ attendancePc[c] = "idle"
  /\ \E s \in Created :
       /\ session' = [session EXCEPT ![s] = "finalized"]
       /\ Enter(c, "select", s, {})
       /\ OutrunBy(s)
  /\ UNCHANGED <<attendanceTier, labelled, mark, alerts, rival, late, silenced>>

SelectAfterUpdate(c) ==
  LET s == about[c] IN
  /\ attendancePc[c] = "select"
  /\ silenced' = IF Flagged(s) = {} THEN silenced \ {s} ELSE silenced
  /\ Continue(c, "announce", s, Flagged(s))
  /\ UNCHANGED <<attendanceTier, labelled, session, mark, alerts, outrun, rival, late>>

\* Phase 3, after the guardians were resolved: all events or, silo, one by one.
AnnounceFlagged(c) ==
  LET s == about[c] IN
  /\ attendancePc[c] = "announce"
  /\ \E now \in IF attendanceTier = "pool" THEN {todo[c]} ELSE {{w} : w \in todo[c]} :
       /\ alerts' = alerts \union {<<s, w[1]>> : w \in now}
       /\ silenced' = IF todo[c] = now THEN silenced \ {s} ELSE silenced
       /\ Continue(c, "announce", s, todo[c] \ now)
  /\ UNCHANGED <<attendanceTier, labelled, session, mark, outrun, rival, late>>

\* A query throws or the process dies; a transaction leaves nothing behind.
AttendanceFails(c) ==
  /\ attendancePc[c] # "idle"
  /\ silenced' = IF attendancePc[c] \in {"select", "announce"} THEN silenced \union {about[c]} ELSE silenced
  /\ EndAttendance(c) /\ NotOutrun(c)
  /\ UNCHANGED <<attendanceTier, labelled, session, mark, alerts, rival, late>>

AttendanceNext == \E c \in AttendanceCalls :
  \/ CheckMeeting(c) \/ InsertSession(c) \/ SeedRecord(c)
  \/ ReadOpenSession(c) \/ WriteRecords(c)
  \/ SelectFlagged(c) \/ CommitFinalized(c) \/ UpdateToFinalized(c) \/ SelectAfterUpdate(c)
  \/ AnnounceFlagged(c) \/ AttendanceFails(c)

AttendanceSpec == AttendanceInit /\ [][AttendanceNext]_attendanceVars

-----------------------------------------------------------------------------
AttendanceTypeOK ==
  /\ attendanceTier \in AttendanceTiers /\ labelled \in BOOLEAN
  /\ session \in [SessionIds -> {"none", "open", "finalized"}]
  /\ mark \in [SessionIds -> [Learners -> Marks \union {"none"}]]
  /\ alerts \subseteq SessionIds \X Learners
  /\ attendancePc \in [AttendanceCalls ->
       {"idle", "insert", "seed", "write", "commit", "select", "announce"}]
  /\ about \in [AttendanceCalls -> SessionIds \union {0}]
  /\ todo \in [AttendanceCalls -> SUBSET (Learners \X Marks)]
  /\ outrun \in [AttendanceCalls -> BOOLEAN] /\ rival \in BOOLEAN
  /\ late \subseteq SessionIds \X Learners
  /\ silenced \subseteq SessionIds

\* A meeting has one session, with a period label or without one: two are made
\* only without a label, by two calls that both looked before either inserted.
OneSessionPerMeeting == Cardinality(Created) <= 1 \/ (~labelled /\ rival)

\* At rest, the flagged learners of a finalized session are those that were
\* announced, however often it was finalized, marked or interrupted: but for a
\* learner marked by a call that had found the session open before it was
\* finalized, and for a session whose finalize died and was not repeated.
AlertsMatchMarks ==
  At("idle") = AttendanceCalls =>
    \A s \in SessionIds \ silenced, u \in Learners :
      session[s] = "finalized" /\ <<s, u>> \notin late =>
        (mark[s][u] = "flagged" <=> <<s, u>> \in alerts)

\* The documentation: an outbox row is written in the same transaction as the
\* state change, so no finalized session has a flagged learner without an event.
FlaggedWithStatus ==
  \A s \in SessionIds, u \in Learners :
    session[s] = "finalized" /\ mark[s][u] = "flagged" /\ <<s, u>> \notin late => <<s, u>> \in alerts
=============================================================================
