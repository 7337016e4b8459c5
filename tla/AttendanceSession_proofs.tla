----------------------- MODULE AttendanceSession_proofs -----------------------
(***************************************************************************)
(* The sessions of a meeting and the alerts of a finalized one, for any    *)
(* number of calls, learners and sessions.                                 *)
(*                                                                         *)
(* Sessions are 1, 2, 3 ... and there is no second one while no two creates *)
(* were in flight (SizeInv).                                               *)
(*                                                                         *)
(* Whoever writes a mark to a session that is finalized, or that a call is *)
(* finalizing, was outrun (OutrunInv), so the marks that a finalize has    *)
(* read change only late (MarksAreKept).  What such a call has still to    *)
(* announce, with what was announced, are then the flagged learners        *)
(* (TodoInv); a finalized session is announced, being announced, or        *)
(* silenced (CompleteInv).                                                 *)
(***************************************************************************)
EXTENDS AttendanceSession, FiniteSetTheorems, TLAPS

Unsettled == {"seed", "write", "commit", "select", "announce"}
AttendanceType ==
  /\ session \in [SessionIds -> {"none", "open", "finalized"}]
  /\ DOMAIN mark = SessionIds /\ mark = [s \in SessionIds |-> mark[s]]
  /\ attendancePc \in [AttendanceCalls -> Unsettled \union {"idle", "insert"}]
  /\ about \in [AttendanceCalls -> Nat]
  /\ todo \in [AttendanceCalls -> SUBSET (Learners \X Marks)]
  /\ outrun \in [AttendanceCalls -> BOOLEAN]

\* A call works on a session that is there, and announces who is flagged.
AboutInv == \A c \in AttendanceCalls :
  /\ attendancePc[c] \in Unsettled => about[c] \in Created
  /\ attendancePc[c] \in {"commit", "announce"} => todo[c] \subseteq Learners \X {"flagged"}
  /\ attendancePc[c] \in {"select", "announce"} => session[about[c]] = "finalized"

\* Sessions are numbered as they come; a second one takes two calls that looked
\* before either inserted.
SizeInv ==
  /\ \E n \in Nat : Created = 1..n /\ (labelled \/ ~rival => n <= 1)
  /\ ~rival /\ At("insert") # {} => Created = {}
  /\ ~rival => \A c, d \in At("insert") : c = d

\* Whoever writes to a session that is finalized, or being so, has been outrun.
OutrunInv == \A c \in AttendanceCalls :
  attendancePc[c] \in {"seed", "write"} =>
    \/ outrun[c]
    \/ /\ session[about[c]] # "finalized"
       /\ \A d \in At("commit") : about[d] # about[c]

\* An alert is of a flagged learner of a finalized session.
AlertInv == \A s \in SessionIds, u \in Learners :
  <<s, u>> \in alerts \ late => session[s] = "finalized" /\ mark[s][u] = "flagged"

\* A finalize that has read the marks has what is still to announce.
TodoInv == \A c \in AttendanceCalls, u \in Learners : <<about[c], u>> \notin late =>
  /\ attendancePc[c] = "commit" => (<<u, "flagged">> \in todo[c] <=> mark[about[c]][u] = "flagged")
  /\ attendancePc[c] = "announce" =>
       (<<u, "flagged">> \in todo[c] \/ <<about[c], u>> \in alerts <=> mark[about[c]][u] = "flagged")

\* A finalized session has announced all, or is being announced, or was silenced.
Announced(s) == \A u \in Learners :
  mark[s][u] = "flagged" /\ <<s, u>> \notin late => <<s, u>> \in alerts
Announcing(s) == \E c \in AttendanceCalls : attendancePc[c] \in {"select", "announce"} /\ about[c] = s
CompleteInv == \A s \in SessionIds \ silenced :
  session[s] = "finalized" => Announced(s) \/ Announcing(s)

AttendanceInv ==
  AttendanceType /\ AboutInv /\ SizeInv /\ OutrunInv /\ AlertInv /\ TodoInv /\ CompleteInv

-----------------------------------------------------------------------------
LEMMA AttendanceInitInv == AttendanceInit => AttendanceInv
<1> SUFFICES ASSUME AttendanceInit PROVE AttendanceInv
  OBVIOUS
<1>1. AttendanceType
  BY DEF AttendanceInit, AttendanceType, Unsettled
<1>2. Created = {} /\ At("insert") = {}
  BY DEF AttendanceInit, Created, At
<1>3. SizeInv
  <2>1. Created = 1..0
    BY <1>2
  <2>2. QED
    BY <1>2, <2>1 DEF SizeInv
<1>4. AboutInv /\ OutrunInv /\ AlertInv /\ TodoInv /\ CompleteInv
  BY DEF AttendanceInit, AboutInv, OutrunInv, AlertInv, TodoInv, CompleteInv, Unsettled
<1>5. QED
  BY <1>1, <1>3, <1>4 DEF AttendanceInv

\* The calls but c are where they were.
Others(c) == \A d \in AttendanceCalls \ {c} :
  attendancePc'[d] = attendancePc[d] /\ about'[d] = about[d] /\ todo'[d] = todo[d]
LocalType ==
  /\ attendancePc \in [AttendanceCalls -> Unsettled \union {"idle", "insert"}]
  /\ about \in [AttendanceCalls -> Nat]
  /\ todo \in [AttendanceCalls -> SUBSET (Learners \X Marks)]

LEMMA CallEnters ==
  ASSUME AttendanceType, NEW c \in AttendanceCalls, NEW step \in Unsettled \union {"idle", "insert"},
         NEW s \in Nat, NEW left \in SUBSET (Learners \X Marks), Enter(c, step, s, left)
  PROVE  /\ LocalType' /\ Others(c)
         /\ attendancePc'[c] = step /\ about'[c] = s /\ todo'[c] = left
  BY DEF AttendanceType, LocalType, Others, Enter

LEMMA CallEnds ==
  ASSUME AttendanceType, NEW c \in AttendanceCalls, EndAttendance(c)
  PROVE  LocalType' /\ Others(c) /\ attendancePc'[c] = "idle" /\ todo'[c] = {}
  BY CallEnters DEF EndAttendance

\* The next statement of a call, or its end.
LEMMA CallGoesOn ==
  ASSUME AttendanceType, NEW c \in AttendanceCalls, NEW step \in Unsettled,
         NEW s \in Nat, NEW left \in SUBSET (Learners \X Marks), Continue(c, step, s, left)
  PROVE  /\ LocalType' /\ Others(c)
         /\ todo'[c] = left
         /\ \/ attendancePc'[c] = step /\ about'[c] = s
            \/ attendancePc'[c] = "idle" /\ left = {}
  BY CallEnters, CallEnds DEF Continue

\* The marks that a call writes are late, if it was outrun.
LEMMA MarksPut ==
  ASSUME AttendanceType, NEW c \in AttendanceCalls, NEW s \in SessionIds,
         NEW work \in SUBSET (Learners \X Marks), PutMarks(c, s, work)
  PROVE  /\ DOMAIN mark' = SessionIds /\ mark' = [t \in SessionIds |-> mark'[t]]
         /\ late \subseteq late'
         /\ \A t \in SessionIds \ {s} : mark'[t] = mark[t]
         /\ outrun[c] => \A u \in Learners : <<s, u>> \in late' \/ mark'[s][u] = mark[s][u]
<1>1. mark' = [mark EXCEPT ![s] = [u \in Learners |->
        IF \E w \in work : w[1] = u THEN (CHOOSE w \in work : w[1] = u)[2] ELSE @[u]]]
  BY DEF PutMarks
<1>2. DOMAIN mark' = SessionIds /\ mark' = [t \in SessionIds |-> mark'[t]]
  BY <1>1 DEF AttendanceType
<1>3. \A t \in SessionIds \ {s} : mark'[t] = mark[t]
  BY <1>1 DEF AttendanceType
<1>4. late \subseteq late'
  BY DEF PutMarks
<1>5. ASSUME outrun[c], NEW u \in Learners PROVE <<s, u>> \in late' \/ mark'[s][u] = mark[s][u]
  <2>1. late' = late \union {<<s, w[1]>> : w \in work}
    BY <1>5 DEF PutMarks
  <2>2. CASE \E w \in work : w[1] = u
    BY <2>1, <2>2
  <2>3. CASE ~\E w \in work : w[1] = u
    BY <1>1, <2>3 DEF AttendanceType
  <2>4. QED
    BY <2>2, <2>3
<1>6. QED
  BY <1>2, <1>3, <1>4, <1>5

-----------------------------------------------------------------------------
(* What each action does. *)

LEMMA Checked ==
  ASSUME AttendanceType, NEW c \in AttendanceCalls, CheckMeeting(c)
  PROVE  /\ AttendanceType' /\ Others(c) /\ Created = {}
         /\ attendancePc[c] = "idle" /\ attendancePc'[c] = "insert"
         /\ rival' = (rival \/ At("insert") # {})
         /\ UNCHANGED <<labelled, session, mark, alerts, outrun, late, silenced>>
<1>1. PICK work \in SUBSET (Learners \X Marks) : Enter(c, "insert", 0, work)
  BY DEF CheckMeeting
<1>2. LocalType' /\ Others(c) /\ attendancePc'[c] = "insert"
  BY <1>1, CallEnters
<1>3. QED
  BY <1>2 DEF CheckMeeting, MeetingTaken, AttendanceType, LocalType

LEMMA CountTo ==
  ASSUME NEW n \in Nat
  PROVE  Cardinality(1..n) = n
  BY FS_Interval

\* The sessions are 1..n before, so the new one was not there.
LEMMA Inserted ==
  ASSUME AttendanceType, SizeInv, NEW c \in AttendanceCalls, InsertSession(c)
  PROVE  /\ AttendanceType' /\ Others(c) /\ attendancePc[c] = "insert"
         /\ UNCHANGED <<labelled, alerts, outrun, rival, silenced>>
         /\ \/ attendancePc'[c] = "idle" /\ UNCHANGED <<session, mark, late>>
            \/ /\ labelled => Created = {}
               /\ \E s \in SessionIds, n \in Nat :
                    /\ Created = 1..n /\ s = n + 1 /\ session[s] = "none"
                    /\ session' = [session EXCEPT ![s] = "open"]
                    /\ late \subseteq late' /\ \A t \in SessionIds \ {s} : mark'[t] = mark[t]
                    /\ attendancePc'[c] = "idle" \/ (attendancePc'[c] = "seed" /\ about'[c] = s)
<1>1. /\ attendancePc[c] = "insert" /\ UNCHANGED <<labelled, alerts, outrun, rival, silenced>>
      /\ todo[c] \in SUBSET (Learners \X Marks)
  BY DEF InsertSession, AttendanceType
<1>2. CASE EndAttendance(c) /\ UNCHANGED <<session, mark, late>>
  BY <1>1, <1>2, CallEnds DEF AttendanceType, LocalType
<1>3. ASSUME labelled => ~MeetingTaken, NEW s \in SessionIds, s = Cardinality(Created) + 1,
             session' = [session EXCEPT ![s] = "open"],
             \/ PutMarks(c, s, todo[c]) /\ EndAttendance(c)
             \/ Continue(c, "seed", s, todo[c]) /\ UNCHANGED <<mark, late>>
      PROVE  /\ AttendanceType' /\ Others(c)
             /\ labelled => Created = {}
             /\ \E n \in Nat :
                    /\ Created = 1..n /\ s = n + 1 /\ session[s] = "none"
                    /\ session' = [session EXCEPT ![s] = "open"]
                    /\ late \subseteq late' /\ \A t \in SessionIds \ {s} : mark'[t] = mark[t]
                    /\ attendancePc'[c] = "idle" \/ (attendancePc'[c] = "seed" /\ about'[c] = s)
  <2>1. PICK n \in Nat : Created = 1..n
    BY DEF SizeInv
  <2>2. s = n + 1
    <3>1. Cardinality(Created) = n
      BY <2>1, CountTo
    <3>2. QED
      BY <1>3, <3>1
  <2>3. session[s] = "none"
    BY <2>1, <2>2 DEF Created
  <2>4. /\ DOMAIN mark' = SessionIds /\ mark' = [t \in SessionIds |-> mark'[t]]
        /\ late \subseteq late' /\ \A t \in SessionIds \ {s} : mark'[t] = mark[t]
    BY <1>1, <1>3, MarksPut DEF AttendanceType
  <2>5. /\ LocalType' /\ Others(c)
        /\ attendancePc'[c] = "idle" \/ (attendancePc'[c] = "seed" /\ about'[c] = s)
    <3>1. s \in Nat /\ "seed" \in Unsettled
      BY <1>3 DEF SessionIds, Unsettled
    <3>2. QED
      BY <1>1, <1>3, <3>1, CallEnds, CallGoesOn
  <2>6. session' \in [SessionIds -> {"none", "open", "finalized"}]
    BY <1>3 DEF AttendanceType
  <2>7. AttendanceType'
    BY <1>1, <2>4, <2>5, <2>6 DEF AttendanceType, LocalType
  <2>8. QED
    BY <1>3, <2>1, <2>2, <2>3, <2>4, <2>5, <2>7 DEF MeetingTaken
<1>4. QED
  BY <1>1, <1>2, <1>3 DEF InsertSession

\* Marks written to a session, by seeding or by a request.
LEMMA Marked ==
  ASSUME AttendanceType, AboutInv, NEW c \in AttendanceCalls, SeedRecord(c) \/ WriteRecords(c)
  PROVE  /\ AttendanceType' /\ Others(c)
         /\ attendancePc[c] \in {"seed", "write"} /\ about[c] \in SessionIds
         /\ \/ attendancePc'[c] = attendancePc[c] /\ about'[c] = about[c] /\ outrun' = outrun
            \/ attendancePc'[c] = "idle"
         /\ \A d \in AttendanceCalls \ {c} : outrun'[d] = outrun[d]
         /\ UNCHANGED <<labelled, session, alerts, rival, silenced>>
         /\ late \subseteq late' /\ \A t \in SessionIds \ {about[c]} : mark'[t] = mark[t]
         /\ outrun[c] => \A u \in Learners : <<about[c], u>> \in late' \/ mark'[about[c]][u] = mark[about[c]][u]
<1>1. /\ attendancePc[c] \in {"seed", "write"} /\ UNCHANGED <<labelled, session, alerts, rival, silenced>>
      /\ attendancePc[c] \in Unsettled
  BY DEF SeedRecord, WriteRecords, Unsettled
<1>2. about[c] \in SessionIds /\ about[c] \in Nat
  BY <1>1 DEF AboutInv, Created, AttendanceType
<1>3. PICK now, work \in SUBSET (Learners \X Marks) :
        /\ PutMarks(c, about[c], work)
        /\ Continue(c, attendancePc[c], about[c], todo[c] \ now)
        /\ IF todo[c] = now THEN NotOutrun(c) ELSE UNCHANGED outrun
        /\ now \subseteq todo[c]
  <2>1. CASE SeedRecord(c)
    <3>1. PICK w \in todo[c] :
            /\ PutMarks(c, about[c], IF mark[about[c]][w[1]] = "none" THEN {w} ELSE {})
            /\ Continue(c, "seed", about[c], todo[c] \ {w})
            /\ IF todo[c] = {w} THEN NotOutrun(c) ELSE UNCHANGED outrun
      BY <2>1 DEF SeedRecord
    <3>2. /\ {w} \in SUBSET (Learners \X Marks) /\ {w} \subseteq todo[c]
          /\ (IF mark[about[c]][w[1]] = "none" THEN {w} ELSE {}) \in SUBSET (Learners \X Marks)
      BY DEF AttendanceType
    <3>3. attendancePc[c] = "seed"
      BY <2>1 DEF SeedRecord
    <3>4. QED
      BY <3>1, <3>2, <3>3
  <2>2. CASE WriteRecords(c)
    <3>1. PICK now \in {todo[c]} \union {{w} : w \in todo[c]} :
            /\ PutMarks(c, about[c], now)
            /\ Continue(c, "write", about[c], todo[c] \ now)
            /\ IF todo[c] = now THEN NotOutrun(c) ELSE UNCHANGED outrun
      BY <2>2 DEF WriteRecords
    <3>2. now \in SUBSET (Learners \X Marks) /\ now \subseteq todo[c]
      BY DEF AttendanceType
    <3>3. attendancePc[c] = "write"
      BY <2>2 DEF WriteRecords
    <3>4. QED
      BY <3>1, <3>2, <3>3
  <2>3. QED
    BY <2>1, <2>2
<1>4. todo[c] \ now \in SUBSET (Learners \X Marks)
  BY DEF AttendanceType
<1>5. /\ LocalType' /\ Others(c)
      /\ \/ attendancePc'[c] = attendancePc[c] /\ about'[c] = about[c]
         \/ attendancePc'[c] = "idle"
      /\ todo[c] = now => attendancePc'[c] = "idle"
  <2>1. todo[c] = now => EndAttendance(c)
    BY <1>3 DEF Continue
  <2>2. QED
    BY <1>1, <1>2, <1>3, <1>4, <2>1, CallGoesOn, CallEnds
<1>6. outrun' \in [AttendanceCalls -> BOOLEAN] /\ \A d \in AttendanceCalls \ {c} : outrun'[d] = outrun[d]
  BY <1>3 DEF NotOutrun, AttendanceType
<1>7. /\ DOMAIN mark' = SessionIds /\ mark' = [t \in SessionIds |-> mark'[t]]
      /\ late \subseteq late' /\ \A t \in SessionIds \ {about[c]} : mark'[t] = mark[t]
      /\ outrun[c] => \A u \in Learners : <<about[c], u>> \in late' \/ mark'[about[c]][u] = mark[about[c]][u]
  BY <1>2, <1>3, MarksPut
<1>8. AttendanceType'
  BY <1>1, <1>5, <1>6, <1>7 DEF AttendanceType, LocalType
<1>9. QED
  BY <1>1, <1>2, <1>3, <1>5, <1>6, <1>7, <1>8

LEMMA OpenFound ==
  ASSUME AttendanceType, NEW c \in AttendanceCalls, ReadOpenSession(c)
  PROVE  /\ AttendanceType' /\ Others(c)
         /\ attendancePc[c] = "idle" /\ attendancePc'[c] = "write"
         /\ about'[c] \in SessionIds /\ session[about'[c]] = "open"
         /\ outrun'[c] <=> \E d \in At("commit") : about[d] = about'[c]
         /\ \A d \in AttendanceCalls \ {c} : outrun'[d] = outrun[d]
         /\ UNCHANGED <<labelled, session, mark, alerts, rival, late, silenced>>
<1>1. \A body \in Bodies : body \in SUBSET (Learners \X Marks)
  BY DEF Bodies
<1>2. PICK s \in SessionIds, body \in Bodies :
        /\ session[s] = "open"
        /\ Enter(c, "write", s, body)
        /\ outrun' = [outrun EXCEPT ![c] = \E d \in At("commit") : about[d] = s]
  BY DEF ReadOpenSession
<1>3. s \in Nat /\ "write" \in Unsettled
  BY DEF SessionIds, Unsettled
<1>4. LocalType' /\ Others(c) /\ attendancePc'[c] = "write" /\ about'[c] = s
  BY <1>1, <1>2, <1>3, CallEnters
<1>5. outrun' \in [AttendanceCalls -> BOOLEAN]
  BY <1>2 DEF AttendanceType
<1>6. outrun'[c] <=> \E d \in At("commit") : about[d] = s
  BY <1>2 DEF AttendanceType
<1>7. attendancePc[c] = "idle" /\ UNCHANGED <<labelled, session, mark, alerts, rival, late, silenced>>
  BY DEF ReadOpenSession
<1>8. \A d \in AttendanceCalls \ {c} : outrun'[d] = outrun[d]
  BY <1>2 DEF AttendanceType
<1>9. QED
  BY <1>2, <1>4, <1>5, <1>6, <1>7, <1>8 DEF AttendanceType, LocalType

LEMMA AllOutrun ==
  ASSUME AttendanceType, NEW s, OutrunBy(s)
  PROVE  /\ outrun' \in [AttendanceCalls -> BOOLEAN]
         /\ \A d \in AttendanceCalls : /\ outrun[d] => outrun'[d]
                                       /\ attendancePc[d] \in {"write", "seed"} /\ about[d] = s => outrun'[d]
  BY DEF OutrunBy, AttendanceType

LEMMA FlaggedAre ==
  ASSUME NEW s
  PROVE  /\ Flagged(s) \in SUBSET (Learners \X Marks) /\ Flagged(s) \subseteq Learners \X {"flagged"}
         /\ \A u \in Learners : <<u, "flagged">> \in Flagged(s) <=> mark[s][u] = "flagged"
<1>1. \A u \in Learners : <<u, "flagged">> \in Learners \X {"flagged"} /\ <<u, "flagged">>[1] = u
  OBVIOUS
<1>2. Flagged(s) \subseteq Learners \X {"flagged"}
  BY DEF Flagged
<1>3. QED
  BY <1>1, <1>2 DEF Flagged, Marks

LEMMA FlaggedSelected ==
  ASSUME AttendanceType, NEW c \in AttendanceCalls, SelectFlagged(c)
  PROVE  /\ AttendanceType' /\ Others(c)
         /\ attendancePc[c] = "idle" /\ attendancePc'[c] = "commit"
         /\ about'[c] \in Created /\ todo'[c] = Flagged(about'[c])
         /\ \A d \in AttendanceCalls : outrun[d] => outrun'[d]
         /\ \A d \in AttendanceCalls :
              attendancePc[d] \in {"write", "seed"} /\ about[d] = about'[c] => outrun'[d]
         /\ UNCHANGED <<labelled, session, mark, alerts, rival, late, silenced>>
<1>1. PICK s \in Created : Enter(c, "commit", s, Flagged(s)) /\ OutrunBy(s)
  BY DEF SelectFlagged
<1>2. s \in Nat /\ "commit" \in Unsettled
  BY DEF Created, SessionIds, Unsettled
<1>3. LocalType' /\ Others(c) /\ attendancePc'[c] = "commit" /\ about'[c] = s /\ todo'[c] = Flagged(s)
  BY <1>1, <1>2, CallEnters, FlaggedAre
<1>4. attendancePc[c] = "idle" /\ UNCHANGED <<labelled, session, mark, alerts, rival, late, silenced>>
  BY DEF SelectFlagged
<1>5. QED
  BY <1>1, <1>3, <1>4, AllOutrun DEF AttendanceType, LocalType

LEMMA FinalizedCommitted ==
  ASSUME AttendanceType, AboutInv, NEW c \in AttendanceCalls, CommitFinalized(c)
  PROVE  /\ AttendanceType' /\ Others(c)
         /\ attendancePc[c] = "commit" /\ about[c] \in Created /\ todo'[c] = todo[c]
         /\ \/ attendancePc'[c] = "announce" /\ about'[c] = about[c]
            \/ attendancePc'[c] = "idle" /\ todo[c] = {}
         /\ session' = [session EXCEPT ![about[c]] = "finalized"]
         /\ silenced' = silenced \/ (todo[c] = {} /\ silenced' = silenced \ {about[c]})
         /\ \A d \in AttendanceCalls : outrun[d] => outrun'[d]
         /\ \A d \in AttendanceCalls :
              attendancePc[d] \in {"write", "seed"} /\ about[d] = about[c] => outrun'[d]
         /\ UNCHANGED <<labelled, mark, alerts, rival, late>>
<1>1. /\ attendancePc[c] = "commit" /\ UNCHANGED <<labelled, mark, alerts, rival, late>>
      /\ session' = [session EXCEPT ![about[c]] = "finalized"]
      /\ silenced' = IF todo[c] = {} THEN silenced \ {about[c]} ELSE silenced
      /\ OutrunBy(about[c])
      /\ Continue(c, "announce", about[c], todo[c])
  BY DEF CommitFinalized
<1>2. about[c] \in Created /\ about[c] \in Nat /\ todo[c] \in SUBSET (Learners \X Marks)
  BY <1>1 DEF AboutInv, AttendanceType, Unsettled
<1>3. "announce" \in Unsettled
  BY DEF Unsettled
<1>4. /\ LocalType' /\ Others(c) /\ todo'[c] = todo[c]
      /\ \/ attendancePc'[c] = "announce" /\ about'[c] = about[c]
         \/ attendancePc'[c] = "idle" /\ todo[c] = {}
  BY <1>1, <1>2, <1>3, CallGoesOn
<1>5. session' \in [SessionIds -> {"none", "open", "finalized"}]
  BY <1>1 DEF AttendanceType
<1>6. AttendanceType'
  BY <1>1, <1>4, <1>5, AllOutrun DEF AttendanceType, LocalType
<1>7. QED
  BY <1>1, <1>2, <1>4, <1>6, AllOutrun

LEMMA FinalizedUpdated ==
  ASSUME AttendanceType, NEW c \in AttendanceCalls, UpdateToFinalized(c)
  PROVE  /\ AttendanceType' /\ Others(c)
         /\ attendancePc[c] = "idle" /\ attendancePc'[c] = "select" /\ about'[c] \in Created
         /\ session' = [session EXCEPT ![about'[c]] = "finalized"]
         /\ \A d \in AttendanceCalls : outrun[d] => outrun'[d]
         /\ \A d \in AttendanceCalls :
              attendancePc[d] \in {"write", "seed"} /\ about[d] = about'[c] => outrun'[d]
         /\ UNCHANGED <<labelled, mark, alerts, rival, late, silenced>>
<1>1. PICK s \in Created : /\ session' = [session EXCEPT ![s] = "finalized"]
                           /\ Enter(c, "select", s, {}) /\ OutrunBy(s)
  BY DEF UpdateToFinalized
<1>2. s \in Nat /\ "select" \in Unsettled
  BY DEF Created, SessionIds, Unsettled
<1>3. LocalType' /\ Others(c) /\ attendancePc'[c] = "select" /\ about'[c] = s
  BY <1>1, <1>2, CallEnters
<1>4. attendancePc[c] = "idle" /\ UNCHANGED <<labelled, mark, alerts, rival, late, silenced>>
  BY DEF UpdateToFinalized
<1>5. session' \in [SessionIds -> {"none", "open", "finalized"}]
  BY <1>1 DEF AttendanceType
<1>6. QED
  BY <1>1, <1>3, <1>4, <1>5, AllOutrun DEF AttendanceType, LocalType

LEMMA SelectedAfterUpdate ==
  ASSUME AttendanceType, NEW c \in AttendanceCalls, SelectAfterUpdate(c)
  PROVE  /\ AttendanceType' /\ Others(c)
         /\ attendancePc[c] = "select" /\ todo'[c] = Flagged(about[c])
         /\ \/ attendancePc'[c] = "announce" /\ about'[c] = about[c]
            \/ attendancePc'[c] = "idle" /\ Flagged(about[c]) = {}
         /\ silenced' = silenced \/ (Flagged(about[c]) = {} /\ silenced' = silenced \ {about[c]})
         /\ UNCHANGED <<labelled, session, mark, alerts, outrun, rival, late>>
<1>1. /\ attendancePc[c] = "select" /\ UNCHANGED <<labelled, session, mark, alerts, outrun, rival, late>>
      /\ silenced' = IF Flagged(about[c]) = {} THEN silenced \ {about[c]} ELSE silenced
      /\ Continue(c, "announce", about[c], Flagged(about[c]))
  BY DEF SelectAfterUpdate
<1>2. about[c] \in Nat /\ "announce" \in Unsettled
  BY DEF AttendanceType, Unsettled
<1>3. /\ LocalType' /\ Others(c) /\ todo'[c] = Flagged(about[c])
      /\ \/ attendancePc'[c] = "announce" /\ about'[c] = about[c]
         \/ attendancePc'[c] = "idle" /\ Flagged(about[c]) = {}
  BY <1>1, <1>2, CallGoesOn, FlaggedAre
<1>4. QED
  BY <1>1, <1>3 DEF AttendanceType, LocalType

LEMMA FlaggedAnnounced ==
  ASSUME AttendanceType, NEW c \in AttendanceCalls, AnnounceFlagged(c)
  PROVE  /\ AttendanceType' /\ Others(c) /\ attendancePc[c] = "announce"
         /\ \E told \in SUBSET todo[c] :
              /\ alerts' = alerts \union {<<about[c], w[1]>> : w \in told}
              /\ todo'[c] = todo[c] \ told
              /\ silenced' = silenced \/ (todo[c] = told /\ silenced' = silenced \ {about[c]})
         /\ \/ attendancePc'[c] = "announce" /\ about'[c] = about[c]
            \/ attendancePc'[c] = "idle" /\ todo'[c] = {}
         /\ UNCHANGED <<labelled, session, mark, outrun, rival, late>>
<1>1. attendancePc[c] = "announce" /\ UNCHANGED <<labelled, session, mark, outrun, rival, late>>
  BY DEF AnnounceFlagged
<1>2. PICK told \in {todo[c]} \union {{w} : w \in todo[c]} :
        /\ alerts' = alerts \union {<<about[c], w[1]>> : w \in told}
        /\ silenced' = IF todo[c] = told THEN silenced \ {about[c]} ELSE silenced
        /\ Continue(c, "announce", about[c], todo[c] \ told)
  BY DEF AnnounceFlagged
<1>3. /\ told \in SUBSET todo[c] /\ about[c] \in Nat /\ "announce" \in Unsettled
      /\ todo[c] \ told \in SUBSET (Learners \X Marks)
  BY DEF AttendanceType, Unsettled
<1>4. /\ LocalType' /\ Others(c) /\ todo'[c] = todo[c] \ told
      /\ \/ attendancePc'[c] = "announce" /\ about'[c] = about[c]
         \/ attendancePc'[c] = "idle" /\ todo'[c] = {}
  BY <1>2, <1>3, CallGoesOn
<1>5. AttendanceType'
  BY <1>1, <1>4 DEF AttendanceType, LocalType
<1>6. QED
  BY <1>1, <1>2, <1>3, <1>4, <1>5

LEMMA CallFailed ==
  ASSUME AttendanceType, NEW c \in AttendanceCalls, AttendanceFails(c)
  PROVE  /\ AttendanceType' /\ Others(c) /\ attendancePc[c] # "idle" /\ attendancePc'[c] = "idle"
         /\ silenced \subseteq silenced'
         /\ attendancePc[c] \in {"select", "announce"} => about[c] \in silenced'
         /\ \A d \in AttendanceCalls \ {c} : outrun'[d] = outrun[d]
         /\ UNCHANGED <<labelled, session, mark, alerts, rival, late>>
  BY CallEnds DEF AttendanceFails, NotOutrun, AttendanceType, LocalType

-----------------------------------------------------------------------------
(* The invariant is kept. *)

LEMMA NextAttendanceType ==
  ASSUME AttendanceType, AboutInv, SizeInv, [AttendanceNext]_attendanceVars
  PROVE  AttendanceType'
<1>1. CASE UNCHANGED attendanceVars
  BY <1>1 DEF attendanceVars, attendanceLocals, AttendanceType
<1>2. QED
  BY <1>1, Checked, Inserted, Marked, OpenFound, FlaggedSelected, FinalizedCommitted, FinalizedUpdated,
     SelectedAfterUpdate, FlaggedAnnounced, CallFailed DEF AttendanceNext

LEMMA NextAbout ==
  ASSUME AttendanceType, AboutInv, SizeInv, [AttendanceNext]_attendanceVars
  PROVE  AboutInv'
\* A step in which no session goes away or is reopened.
<1>1. ASSUME NEW c \in AttendanceCalls, Others(c),
             \A s \in Created : session'[s] \in {session[s], "finalized"},
             attendancePc'[c] \in Unsettled => about'[c] \in Created',
             attendancePc'[c] \in {"commit", "announce"} => todo'[c] \subseteq Learners \X {"flagged"},
             attendancePc'[c] \in {"select", "announce"} => session'[about'[c]] = "finalized"
      PROVE  AboutInv'
  <2>1. Created \subseteq Created'
    BY <1>1 DEF Created
  <2>2. ASSUME NEW d \in AttendanceCalls \ {c}, attendancePc[d] \in {"select", "announce"}
        PROVE  session'[about[d]] = "finalized"
    BY <1>1, <2>2 DEF AboutInv, Unsettled
  <2>3. QED
    BY <1>1, <2>1, <2>2 DEF AboutInv, Others
<1> USE DEF Unsettled
<1>2. ASSUME NEW c \in AttendanceCalls, CheckMeeting(c) PROVE AboutInv'
  BY <1>1, <1>2, Checked
<1>3. ASSUME NEW c \in AttendanceCalls, InsertSession(c) PROVE AboutInv'
  <2>1. CASE attendancePc'[c] = "idle" /\ UNCHANGED session
    BY <1>1, <1>3, <2>1, Inserted
  <2>2. CASE \E s \in SessionIds : /\ session[s] = "none" /\ session' = [session EXCEPT ![s] = "open"]
                                   /\ attendancePc'[c] = "idle" \/ (attendancePc'[c] = "seed" /\ about'[c] = s)
    <3>1. PICK s \in SessionIds : /\ session[s] = "none" /\ session' = [session EXCEPT ![s] = "open"]
                                  /\ attendancePc'[c] = "idle" \/ (attendancePc'[c] = "seed" /\ about'[c] = s)
      BY <2>2
    <3>2. \A t \in Created : session'[t] = session[t]
      BY <3>1 DEF Created, AttendanceType
    <3>3. s \in Created'
      BY <3>1 DEF Created, AttendanceType
    <3>4. QED
      BY <1>1, <1>3, <3>1, <3>2, <3>3, Inserted
  <2>3. QED
    BY <1>3, <2>1, <2>2, Inserted
<1>4. ASSUME NEW c \in AttendanceCalls, SeedRecord(c) \/ WriteRecords(c) PROVE AboutInv'
  <2>1. UNCHANGED session /\ Others(c) /\ attendancePc[c] \in {"seed", "write"}
        /\ \/ attendancePc'[c] = attendancePc[c] /\ about'[c] = about[c]
           \/ attendancePc'[c] = "idle"
    BY <1>4, Marked
  <2>2. about[c] \in Created' /\ Created' = Created
    BY <2>1 DEF AboutInv, Created
  <2>3. QED
    BY <1>1, <2>1, <2>2
<1>5. ASSUME NEW c \in AttendanceCalls, ReadOpenSession(c) PROVE AboutInv'
  <2>1. about'[c] \in Created'
    BY <1>5, OpenFound DEF Created
  <2>2. QED
    BY <1>1, <1>5, <2>1, OpenFound
<1>6. ASSUME NEW c \in AttendanceCalls, SelectFlagged(c) PROVE AboutInv'
  <2>1. about'[c] \in Created' /\ todo'[c] \subseteq Learners \X {"flagged"}
    BY <1>6, FlaggedSelected, FlaggedAre DEF Created
  <2>2. QED
    BY <1>1, <1>6, <2>1, FlaggedSelected
<1>7. ASSUME NEW c \in AttendanceCalls, CommitFinalized(c) PROVE AboutInv'
  <2>1. about[c] \in Created /\ session' = [session EXCEPT ![about[c]] = "finalized"]
    BY <1>7, FinalizedCommitted
  <2>2. /\ \A s \in Created : session'[s] \in {session[s], "finalized"}
        /\ session'[about[c]] = "finalized" /\ about[c] \in Created'
    BY <2>1 DEF Created, AttendanceType
  <2>3. todo[c] \subseteq Learners \X {"flagged"}
    BY <1>7, FinalizedCommitted DEF AboutInv
  <2>4. QED
    BY <1>1, <1>7, <2>2, <2>3, FinalizedCommitted
<1>8. ASSUME NEW c \in AttendanceCalls, UpdateToFinalized(c) PROVE AboutInv'
  <2>1. about'[c] \in Created /\ session' = [session EXCEPT ![about'[c]] = "finalized"]
    BY <1>8, FinalizedUpdated
  <2>2. /\ \A s \in Created : session'[s] \in {session[s], "finalized"}
        /\ session'[about'[c]] = "finalized" /\ about'[c] \in Created'
    BY <2>1 DEF Created, AttendanceType
  <2>3. QED
    BY <1>1, <1>8, <2>2, FinalizedUpdated
<1>9. ASSUME NEW c \in AttendanceCalls, SelectAfterUpdate(c) PROVE AboutInv'
  <2>1. attendancePc[c] = "select" /\ UNCHANGED session
    BY <1>9, SelectedAfterUpdate
  <2>2. about[c] \in Created' /\ session'[about[c]] = "finalized"
    BY <2>1 DEF AboutInv, Created
  <2>3. QED
    BY <1>1, <1>9, <2>1, <2>2, SelectedAfterUpdate, FlaggedAre
<1>10. ASSUME NEW c \in AttendanceCalls, AnnounceFlagged(c) PROVE AboutInv'
  <2>1. attendancePc[c] = "announce" /\ UNCHANGED session /\ todo'[c] \subseteq todo[c]
    BY <1>10, FlaggedAnnounced
  <2>2. about[c] \in Created' /\ session'[about[c]] = "finalized" /\ todo'[c] \subseteq Learners \X {"flagged"}
    BY <2>1 DEF AboutInv, Created
  <2>3. QED
    BY <1>1, <1>10, <2>1, <2>2, FlaggedAnnounced
<1>11. ASSUME NEW c \in AttendanceCalls, AttendanceFails(c) PROVE AboutInv'
  BY <1>1, <1>11, CallFailed
<1>12. CASE UNCHANGED attendanceVars
  BY <1>12 DEF attendanceVars, attendanceLocals, AboutInv, Created
<1>13. QED
  BY <1>2, <1>3, <1>4, <1>5, <1>6, <1>7, <1>8, <1>9, <1>10, <1>11, <1>12 DEF AttendanceNext

LEMMA NextSize ==
  ASSUME AttendanceType, AboutInv, SizeInv, [AttendanceNext]_attendanceVars
  PROVE  SizeInv'
\* A step that makes no session and starts no create.
<1>1. ASSUME NEW c \in AttendanceCalls, Others(c), Created' = Created, UNCHANGED <<labelled, rival>>,
             attendancePc'[c] # "insert"
      PROVE  SizeInv'
  <2>1. At("insert")' \subseteq At("insert")
    BY <1>1 DEF At, Others
  <2>2. QED
    BY <1>1, <2>1 DEF SizeInv
<1>2. ASSUME NEW c \in AttendanceCalls, CheckMeeting(c) PROVE SizeInv'
  <2>1. Created = {} /\ Created' = {} /\ rival' = (rival \/ At("insert") # {}) /\ Others(c) /\ UNCHANGED labelled
    BY <1>2, Checked DEF Created
  <2>2. ~rival' => At("insert")' \subseteq {c}
    BY <2>1 DEF At, Others
  <2>3. Created' = 1..0 /\ 0 \in Nat
    BY <2>1
  <2>4. QED
    BY <2>1, <2>2, <2>3 DEF SizeInv
<1>3. ASSUME NEW c \in AttendanceCalls, InsertSession(c) PROVE SizeInv'
  <2>1. Others(c) /\ attendancePc[c] = "insert" /\ UNCHANGED <<labelled, rival>> /\ attendancePc'[c] # "insert"
    BY <1>3, Inserted
  <2>2. At("insert")' = At("insert") \ {c} /\ c \in At("insert")
    BY <2>1 DEF At, Others
  <2>3. CASE UNCHANGED session
    BY <1>1, <2>1, <2>3 DEF Created
  <2>4. CASE /\ labelled => Created = {}
             /\ \E s \in SessionIds, n \in Nat :
                  /\ Created = 1..n /\ s = n + 1
                  /\ session' = [session EXCEPT ![s] = "open"]
    <3>1. PICK n \in Nat : /\ Created = 1..n /\ n + 1 \in SessionIds
                           /\ session' = [session EXCEPT ![n + 1] = "open"]
      BY <2>4
    <3>2. Created' = 1..n + 1
      <4>1. Created' = Created \union {n + 1}
        BY <3>1 DEF Created, AttendanceType
      <4>2. QED
        BY <3>1, <4>1
    <3>3. labelled \/ ~rival => n = 0
      <4>1. labelled \/ ~rival => Created = {}
        BY <2>2, <2>4 DEF SizeInv
      <4>2. Created = {} => ~(1 \in 1..n)
        BY <3>1
      <4>3. QED
        BY <4>1, <4>2
    <3>4. ~rival => At("insert")' = {}
      BY <2>2 DEF SizeInv
    <3>5. \E m \in Nat : Created' = 1..m /\ (labelled \/ ~rival => m <= 1)
      <4>1. n + 1 \in Nat /\ (n = 0 => n + 1 <= 1)
        OBVIOUS
      <4>2. QED
        BY <3>2, <3>3, <4>1
    <3>6. QED
      BY <2>1, <3>4, <3>5 DEF SizeInv
  <2>5. QED
    BY <1>3, <2>3, <2>4, Inserted
<1>4. ASSUME NEW c \in AttendanceCalls, SeedRecord(c) \/ WriteRecords(c) PROVE SizeInv'
  BY <1>1, <1>4, Marked DEF Created
<1>5. ASSUME NEW c \in AttendanceCalls, ReadOpenSession(c) PROVE SizeInv'
  BY <1>1, <1>5, OpenFound DEF Created
<1>6. ASSUME NEW c \in AttendanceCalls, SelectFlagged(c) PROVE SizeInv'
  BY <1>1, <1>6, FlaggedSelected DEF Created
<1>7. ASSUME NEW c \in AttendanceCalls, CommitFinalized(c) PROVE SizeInv'
  <2>1. Created' = Created
    BY <1>7, FinalizedCommitted DEF Created, AttendanceType
  <2>2. QED
    BY <1>1, <1>7, <2>1, FinalizedCommitted
<1>8. ASSUME NEW c \in AttendanceCalls, UpdateToFinalized(c) PROVE SizeInv'
  <2>1. Created' = Created
    BY <1>8, FinalizedUpdated DEF Created, AttendanceType
  <2>2. QED
    BY <1>1, <1>8, <2>1, FinalizedUpdated
<1>9. ASSUME NEW c \in AttendanceCalls, SelectAfterUpdate(c) PROVE SizeInv'
  BY <1>1, <1>9, SelectedAfterUpdate DEF Created
<1>10. ASSUME NEW c \in AttendanceCalls, AnnounceFlagged(c) PROVE SizeInv'
  BY <1>1, <1>10, FlaggedAnnounced DEF Created
<1>11. ASSUME NEW c \in AttendanceCalls, AttendanceFails(c) PROVE SizeInv'
  BY <1>1, <1>11, CallFailed DEF Created
<1>12. CASE UNCHANGED attendanceVars
  BY <1>12 DEF attendanceVars, attendanceLocals, SizeInv, Created, At
<1>13. QED
  BY <1>2, <1>3, <1>4, <1>5, <1>6, <1>7, <1>8, <1>9, <1>10, <1>11, <1>12 DEF AttendanceNext

LEMMA NextOutrun ==
  ASSUME AttendanceType, AboutInv, SizeInv, OutrunInv, [AttendanceNext]_attendanceVars
  PROVE  OutrunInv'
<1> USE DEF Unsettled
\* A step that finalizes no session, and whose call writes to none of its own.
<1>1. ASSUME NEW c \in AttendanceCalls, Others(c), UNCHANGED session,
             attendancePc'[c] \notin {"seed", "write", "commit"},
             \A d \in AttendanceCalls \ {c} : outrun'[d] = outrun[d]
      PROVE  OutrunInv'
  <2>1. At("commit")' \subseteq At("commit") /\ \A d \in At("commit")' : about'[d] = about[d]
    BY <1>1 DEF At, Others
  <2>2. QED
    BY <1>1, <2>1 DEF OutrunInv, Others
\* A step that outruns all that write to the session s, and no other does.
<1>2. ASSUME NEW c \in AttendanceCalls, NEW s \in SessionIds, Others(c),
             \A t \in SessionIds \ {s} : session'[t] = session[t],
             attendancePc'[c] \notin {"seed", "write"}, attendancePc'[c] = "commit" => about'[c] = s,
             \A d \in AttendanceCalls : outrun[d] => outrun'[d],
             \A d \in AttendanceCalls : attendancePc[d] \in {"write", "seed"} /\ about[d] = s => outrun'[d]
      PROVE  OutrunInv'
  <2>1. SUFFICES ASSUME NEW d \in AttendanceCalls, attendancePc'[d] \in {"seed", "write"}, ~outrun'[d]
                 PROVE  /\ session'[about'[d]] # "finalized"
                        /\ \A e \in At("commit")' : about'[e] # about'[d]
    BY DEF OutrunInv
  <2>2. d # c /\ attendancePc[d] \in {"seed", "write"} /\ about'[d] = about[d] /\ about[d] # s /\ ~outrun[d]
    BY <1>2, <2>1 DEF Others
  <2>3. about[d] \in SessionIds
    BY <2>2 DEF AboutInv, Created
  <2>4. session[about[d]] # "finalized" /\ \A e \in At("commit") : about[e] # about[d]
    BY <2>2 DEF OutrunInv
  <2>5. \A e \in At("commit")' : about'[e] = s \/ (e \in At("commit") /\ about'[e] = about[e])
    BY <1>2 DEF At, Others
  <2>6. QED
    BY <1>2, <2>2, <2>3, <2>4, <2>5
<1>3. ASSUME NEW c \in AttendanceCalls, CheckMeeting(c) PROVE OutrunInv'
  BY <1>1, <1>3, Checked
<1>4. ASSUME NEW c \in AttendanceCalls, InsertSession(c) PROVE OutrunInv'
  <2>1. Others(c) /\ outrun' = outrun /\ attendancePc[c] = "insert" /\ attendancePc'[c] \in {"idle", "seed"}
    BY <1>4, Inserted
  <2>2. CASE attendancePc'[c] = "idle" /\ UNCHANGED session
    BY <1>1, <2>1, <2>2
  <2>3. CASE \E s \in SessionIds : /\ session[s] = "none" /\ session' = [session EXCEPT ![s] = "open"]
                                   /\ attendancePc'[c] = "idle" \/ (attendancePc'[c] = "seed" /\ about'[c] = s)
    <3>1. PICK s \in SessionIds : /\ session[s] = "none" /\ session' = [session EXCEPT ![s] = "open"]
                                  /\ attendancePc'[c] = "idle" \/ (attendancePc'[c] = "seed" /\ about'[c] = s)
      BY <2>3
    <3>2. At("commit")' = At("commit") /\ \A d \in At("commit") : about'[d] = about[d] /\ about[d] # s
      <4>1. \A d \in At("commit") : about[d] # s
        BY <3>1 DEF AboutInv, Created, At
      <4>2. QED
        BY <2>1, <4>1 DEF At, Others
    <3>3. session'[s] = "open" /\ \A t \in SessionIds \ {s} : session'[t] = session[t]
      BY <3>1 DEF AttendanceType
    <3>4. SUFFICES ASSUME NEW d \in AttendanceCalls, attendancePc'[d] \in {"seed", "write"}, ~outrun'[d]
                   PROVE  /\ session'[about'[d]] # "finalized"
                          /\ \A e \in At("commit")' : about'[e] # about'[d]
      BY DEF OutrunInv
    <3>5. CASE d = c
      BY <3>1, <3>2, <3>3, <3>4, <3>5
    <3>6. CASE d # c
      <4>1. attendancePc[d] \in {"seed", "write"} /\ about'[d] = about[d] /\ ~outrun[d]
        BY <2>1, <3>4, <3>6 DEF Others
      <4>2. about[d] \in SessionIds /\ about[d] # s
        BY <3>1, <4>1 DEF AboutInv, Created
      <4>3. QED
        BY <3>2, <3>3, <4>1, <4>2 DEF OutrunInv
    <3>7. QED
      BY <3>5, <3>6
  <2>4. QED
    BY <1>4, <2>2, <2>3, Inserted
<1>5. ASSUME NEW c \in AttendanceCalls, SeedRecord(c) \/ WriteRecords(c) PROVE OutrunInv'
  <2>1. CASE attendancePc'[c] = "idle"
    BY <1>1, <1>5, <2>1, Marked
  <2>2. CASE attendancePc'[c] = attendancePc[c] /\ about'[c] = about[c] /\ outrun' = outrun
    <3>1. attendancePc' = attendancePc /\ about' = about /\ UNCHANGED session
      BY <1>5, <2>2, Marked DEF Others, AttendanceType
    <3>2. QED
      BY <2>2, <3>1 DEF OutrunInv, At
  <2>3. QED
    BY <1>5, <2>1, <2>2, Marked
<1>6. ASSUME NEW c \in AttendanceCalls, ReadOpenSession(c) PROVE OutrunInv'
  <2>1. /\ Others(c) /\ UNCHANGED session /\ attendancePc[c] = "idle" /\ attendancePc'[c] = "write"
        /\ session[about'[c]] = "open" /\ (outrun'[c] <=> \E d \in At("commit") : about[d] = about'[c])
        /\ \A d \in AttendanceCalls \ {c} : outrun'[d] = outrun[d]
    BY <1>6, OpenFound
  <2>2. At("commit")' = At("commit") /\ \A d \in At("commit") : about'[d] = about[d]
    BY <2>1 DEF At, Others
  <2>3. QED
    BY <2>1, <2>2 DEF OutrunInv, Others
<1>7. ASSUME NEW c \in AttendanceCalls, SelectFlagged(c) PROVE OutrunInv'
  <2>1. about'[c] \in SessionIds
    BY <1>7, FlaggedSelected DEF Created
  <2>2. QED
    BY <1>2, <1>7, <2>1, FlaggedSelected
<1>8. ASSUME NEW c \in AttendanceCalls, CommitFinalized(c) PROVE OutrunInv'
  <2>1. about[c] \in SessionIds /\ \A t \in SessionIds \ {about[c]} : session'[t] = session[t]
    BY <1>8, FinalizedCommitted DEF Created, AttendanceType
  <2>2. QED
    BY <1>2, <1>8, <2>1, FinalizedCommitted
<1>9. ASSUME NEW c \in AttendanceCalls, UpdateToFinalized(c) PROVE OutrunInv'
  <2>1. about'[c] \in SessionIds /\ \A t \in SessionIds \ {about'[c]} : session'[t] = session[t]
    BY <1>9, FinalizedUpdated DEF Created, AttendanceType
  <2>2. QED
    BY <1>2, <1>9, <2>1, FinalizedUpdated
<1>10. ASSUME NEW c \in AttendanceCalls, SelectAfterUpdate(c) PROVE OutrunInv'
  BY <1>1, <1>10, SelectedAfterUpdate
<1>11. ASSUME NEW c \in AttendanceCalls, AnnounceFlagged(c) PROVE OutrunInv'
  BY <1>1, <1>11, FlaggedAnnounced
<1>12. ASSUME NEW c \in AttendanceCalls, AttendanceFails(c) PROVE OutrunInv'
  BY <1>1, <1>12, CallFailed
<1>13. CASE UNCHANGED attendanceVars
  BY <1>13 DEF attendanceVars, attendanceLocals, OutrunInv, At
<1>14. QED
  BY <1>3, <1>4, <1>5, <1>6, <1>7, <1>8, <1>9, <1>10, <1>11, <1>12, <1>13 DEF AttendanceNext

\* Marks that a finalize has read, or may still announce, change only late.
Kept(s) == \A u \in Learners : <<s, u>> \in late' \/ mark'[s][u] = mark[s][u]
Settling(s) == session[s] = "finalized" \/ \E d \in At("commit") : about[d] = s
LEMMA MarksAreKept ==
  ASSUME AttendanceType, AboutInv, SizeInv, OutrunInv, NEW c \in AttendanceCalls,
         InsertSession(c) \/ SeedRecord(c) \/ WriteRecords(c)
  PROVE  /\ Others(c) /\ UNCHANGED <<alerts, silenced>> /\ late \subseteq late'
         /\ attendancePc[c] \notin {"commit", "select", "announce"}
         /\ attendancePc'[c] \notin {"commit", "select", "announce"}
         /\ \A s \in SessionIds : session'[s] = "finalized" <=> session[s] = "finalized"
         /\ \A s \in SessionIds : Settling(s) => Kept(s)
<1>1. CASE InsertSession(c)
  <2>1. /\ Others(c) /\ UNCHANGED <<alerts, silenced>> /\ attendancePc[c] = "insert"
        /\ attendancePc'[c] \in {"idle", "seed"}
    BY <1>1, Inserted
  <2>2. CASE UNCHANGED <<session, mark, late>>
    BY <2>1, <2>2 DEF Kept
  <2>3. CASE \E s \in SessionIds : /\ session[s] = "none" /\ session' = [session EXCEPT ![s] = "open"]
                                   /\ late \subseteq late' /\ \A t \in SessionIds \ {s} : mark'[t] = mark[t]
    <3>1. PICK s \in SessionIds : /\ session[s] = "none" /\ session' = [session EXCEPT ![s] = "open"]
                                  /\ late \subseteq late' /\ \A t \in SessionIds \ {s} : mark'[t] = mark[t]
      BY <2>3
    <3>2. ~Settling(s)
      BY <3>1 DEF Settling, AboutInv, Created, At, Unsettled
    <3>3. \A t \in SessionIds : session'[t] = "finalized" <=> session[t] = "finalized"
      BY <3>1 DEF AttendanceType
    <3>4. QED
      BY <2>1, <3>1, <3>2, <3>3 DEF Kept
  <2>4. QED
    BY <1>1, <2>2, <2>3, Inserted
<1>2. CASE SeedRecord(c) \/ WriteRecords(c)
  <2>1. /\ Others(c) /\ UNCHANGED <<session, alerts, silenced>> /\ late \subseteq late'
        /\ attendancePc[c] \in {"seed", "write"} /\ attendancePc'[c] \in {"seed", "write", "idle"}
        /\ \A t \in SessionIds \ {about[c]} : mark'[t] = mark[t]
        /\ outrun[c] => Kept(about[c])
    BY <1>2, Marked DEF Kept
  <2>2. Settling(about[c]) => outrun[c]
    BY <2>1 DEF OutrunInv, Settling
  <2>3. QED
    BY <2>1, <2>2 DEF Kept
<1>3. QED
  BY <1>1, <1>2

LEMMA NextAlert ==
  ASSUME AttendanceType, AboutInv, SizeInv, OutrunInv, AlertInv, TodoInv, [AttendanceNext]_attendanceVars
  PROVE  AlertInv'
<1>1. ASSUME UNCHANGED <<mark, alerts, late>>,
             \A s \in SessionIds : session[s] = "finalized" => session'[s] = "finalized"
      PROVE  AlertInv'
  BY <1>1 DEF AlertInv
<1>2. ASSUME NEW c \in AttendanceCalls, InsertSession(c) \/ SeedRecord(c) \/ WriteRecords(c) PROVE AlertInv'
  <2>1. /\ alerts' = alerts /\ late \subseteq late'
        /\ \A s \in SessionIds : session'[s] = "finalized" <=> session[s] = "finalized"
        /\ \A s \in SessionIds : session[s] = "finalized" => Kept(s)
    BY <1>2, MarksAreKept DEF Settling
  <2>2. QED
    BY <2>1 DEF AlertInv, Kept
<1>3. ASSUME NEW c \in AttendanceCalls, AnnounceFlagged(c) PROVE AlertInv'
  <2>1. /\ attendancePc[c] = "announce" /\ UNCHANGED <<session, mark, late>>
        /\ \E told \in SUBSET todo[c] : alerts' = alerts \union {<<about[c], w[1]>> : w \in told}
    BY <1>3, FlaggedAnnounced
  <2>2. todo[c] \subseteq Learners \X {"flagged"} /\ session[about[c]] = "finalized"
    BY <2>1 DEF AboutInv
  <2>3. SUFFICES ASSUME NEW s \in SessionIds, NEW u \in Learners, <<s, u>> \in alerts' \ alerts, <<s, u>> \notin late
                 PROVE  session[s] = "finalized" /\ mark[s][u] = "flagged"
    BY <2>1 DEF AlertInv
  <2>4. s = about[c] /\ <<u, "flagged">> \in todo[c]
    <3>1. PICK w \in todo[c] : <<s, u>> = <<about[c], w[1]>>
      BY <2>1, <2>3
    <3>2. w = <<u, "flagged">>
      BY <2>2, <3>1
    <3>3. QED
      BY <3>1, <3>2
  <2>5. QED
    BY <2>1, <2>2, <2>3, <2>4 DEF TodoInv
<1>4. ASSUME NEW c \in AttendanceCalls, CommitFinalized(c) PROVE AlertInv'
  <2>1. UNCHANGED <<mark, alerts, late>> /\ session' = [session EXCEPT ![about[c]] = "finalized"]
    BY <1>4, FinalizedCommitted
  <2>2. QED
    BY <1>1, <2>1 DEF AttendanceType
<1>5. ASSUME NEW c \in AttendanceCalls, UpdateToFinalized(c) PROVE AlertInv'
  <2>1. UNCHANGED <<mark, alerts, late>> /\ session' = [session EXCEPT ![about'[c]] = "finalized"]
    BY <1>5, FinalizedUpdated
  <2>2. QED
    BY <1>1, <2>1 DEF AttendanceType
<1>6. ASSUME NEW c \in AttendanceCalls,
             CheckMeeting(c) \/ ReadOpenSession(c) \/ SelectFlagged(c) \/ SelectAfterUpdate(c) \/ AttendanceFails(c)
      PROVE  AlertInv'
  BY <1>1, <1>6, Checked, OpenFound, FlaggedSelected, SelectedAfterUpdate, CallFailed
<1>7. CASE UNCHANGED attendanceVars
  BY <1>1, <1>7 DEF attendanceVars
<1>8. QED
  BY <1>2, <1>3, <1>4, <1>5, <1>6, <1>7 DEF AttendanceNext

LEMMA NextTodo ==
  ASSUME AttendanceType, AboutInv, SizeInv, OutrunInv, AlertInv, TodoInv, [AttendanceNext]_attendanceVars
  PROVE  TodoInv'
<1> USE DEF Unsettled
\* What a call other than c has to announce, in a step that tells no alert.
<1>1. ASSUME NEW c \in AttendanceCalls, Others(c), UNCHANGED <<mark, alerts, late>>,
             \A u \in Learners : <<about'[c], u>> \notin late =>
               /\ attendancePc'[c] = "commit" => (<<u, "flagged">> \in todo'[c] <=> mark[about'[c]][u] = "flagged")
               /\ attendancePc'[c] = "announce" =>
                    (<<u, "flagged">> \in todo'[c] \/ <<about'[c], u>> \in alerts <=> mark[about'[c]][u] = "flagged")
      PROVE  TodoInv'
  BY <1>1 DEF TodoInv, Others
<1>2. ASSUME NEW c \in AttendanceCalls, InsertSession(c) \/ SeedRecord(c) \/ WriteRecords(c) PROVE TodoInv'
  <2>1. /\ Others(c) /\ alerts' = alerts /\ late \subseteq late'
        /\ attendancePc'[c] \notin {"commit", "announce"}
        /\ \A s \in SessionIds : Settling(s) => Kept(s)
    BY <1>2, MarksAreKept
  <2>2. SUFFICES ASSUME NEW d \in AttendanceCalls, NEW u \in Learners, <<about'[d], u>> \notin late',
                        attendancePc'[d] \in {"commit", "announce"}
                 PROVE  /\ attendancePc'[d] = "commit" =>
                             (<<u, "flagged">> \in todo'[d] <=> mark'[about'[d]][u] = "flagged")
                        /\ attendancePc'[d] = "announce" =>
                             (<<u, "flagged">> \in todo'[d] \/ <<about'[d], u>> \in alerts'
                                <=> mark'[about'[d]][u] = "flagged")
    BY DEF TodoInv
  <2>3. /\ attendancePc[d] = attendancePc'[d] /\ about'[d] = about[d] /\ todo'[d] = todo[d]
        /\ attendancePc[d] \in {"commit", "announce"}
    BY <2>1, <2>2 DEF Others
  <2>4. about[d] \in SessionIds /\ Settling(about[d])
    BY <2>3 DEF AboutInv, Created, Settling, At
  <2>5. mark'[about[d]][u] = mark[about[d]][u] /\ <<about[d], u>> \notin late
    BY <2>1, <2>2, <2>3, <2>4 DEF Kept
  <2>6. QED
    BY <2>1, <2>3, <2>5 DEF TodoInv
<1>3. ASSUME NEW c \in AttendanceCalls, CheckMeeting(c) \/ ReadOpenSession(c) \/ AttendanceFails(c)
      PROVE  TodoInv'
  <2>1. Others(c) /\ UNCHANGED <<mark, alerts, late>> /\ attendancePc'[c] \notin {"commit", "announce"}
    BY <1>3, Checked, OpenFound, CallFailed
  <2>2. QED
    BY <1>1, <2>1
<1>4. ASSUME NEW c \in AttendanceCalls, SelectFlagged(c) PROVE TodoInv'
  <2>1. /\ Others(c) /\ UNCHANGED <<mark, alerts, late>> /\ attendancePc'[c] = "commit"
        /\ todo'[c] = Flagged(about'[c])
    BY <1>4, FlaggedSelected
  <2>2. QED
    BY <1>1, <2>1, FlaggedAre
<1>5. ASSUME NEW c \in AttendanceCalls, CommitFinalized(c) PROVE TodoInv'
  <2>1. /\ Others(c) /\ UNCHANGED <<mark, alerts, late>> /\ attendancePc[c] = "commit" /\ todo'[c] = todo[c]
        /\ about[c] \in SessionIds
        /\ \/ attendancePc'[c] = "announce" /\ about'[c] = about[c]
           \/ attendancePc'[c] = "idle"
    BY <1>5, FinalizedCommitted DEF Created
  <2>2. ASSUME NEW u \in Learners, <<about[c], u>> \notin late
        PROVE  <<u, "flagged">> \in todo[c] \/ <<about[c], u>> \in alerts <=> mark[about[c]][u] = "flagged"
    BY <2>1, <2>2 DEF TodoInv, AlertInv
  <2>3. QED
    BY <1>1, <2>1, <2>2
<1>6. ASSUME NEW c \in AttendanceCalls, UpdateToFinalized(c) PROVE TodoInv'
  <2>1. Others(c) /\ UNCHANGED <<mark, alerts, late>> /\ attendancePc'[c] = "select"
    BY <1>6, FinalizedUpdated
  <2>2. QED
    BY <1>1, <2>1
<1>7. ASSUME NEW c \in AttendanceCalls, SelectAfterUpdate(c) PROVE TodoInv'
  <2>1. /\ Others(c) /\ UNCHANGED <<mark, alerts, late>> /\ attendancePc[c] = "select"
        /\ todo'[c] = Flagged(about[c])
        /\ \/ attendancePc'[c] = "announce" /\ about'[c] = about[c]
           \/ attendancePc'[c] = "idle"
    BY <1>7, SelectedAfterUpdate
  <2>2. about[c] \in SessionIds
    BY <2>1 DEF AboutInv, Created
  <2>3. ASSUME NEW u \in Learners, <<about[c], u>> \notin late
        PROVE  <<u, "flagged">> \in todo'[c] \/ <<about[c], u>> \in alerts <=> mark[about[c]][u] = "flagged"
    BY <2>1, <2>2, <2>3, FlaggedAre DEF AlertInv
  <2>4. QED
    BY <1>1, <2>1, <2>3
<1>8. ASSUME NEW c \in AttendanceCalls, AnnounceFlagged(c) PROVE TodoInv'
  <2>1. /\ Others(c) /\ attendancePc[c] = "announce" /\ UNCHANGED <<mark, late>>
        /\ \/ attendancePc'[c] = "announce" /\ about'[c] = about[c]
           \/ attendancePc'[c] = "idle"
    BY <1>8, FlaggedAnnounced
  <2>2. PICK told \in SUBSET todo[c] :
          alerts' = alerts \union {<<about[c], w[1]>> : w \in told} /\ todo'[c] = todo[c] \ told
    BY <1>8, FlaggedAnnounced
  <2>3. told \subseteq Learners \X {"flagged"}
    BY <2>1 DEF AboutInv
  <2>4. \A s, u : <<s, u>> \in alerts' <=> <<s, u>> \in alerts \/ (s = about[c] /\ <<u, "flagged">> \in told)
    <3>1. ASSUME NEW s, NEW u, NEW w \in told, <<s, u>> = <<about[c], w[1]>>
          PROVE  s = about[c] /\ <<u, "flagged">> \in told
      <4>1. w = <<u, "flagged">>
        BY <2>3, <3>1
      <4>2. QED
        BY <3>1, <4>1
    <3>2. ASSUME NEW u, <<u, "flagged">> \in told PROVE <<about[c], u>> \in alerts'
      <4>1. <<u, "flagged">>[1] = u
        OBVIOUS
      <4>2. QED
        BY <2>2, <3>2, <4>1
    <3>3. QED
      BY <2>2, <3>1, <3>2
  <2>5. ASSUME NEW u \in Learners, <<about[c], u>> \notin late
        PROVE  /\ <<u, "flagged">> \in told => mark[about[c]][u] = "flagged"
               /\ <<u, "flagged">> \in todo'[c] \/ <<about[c], u>> \in alerts' <=> mark[about[c]][u] = "flagged"
    <3>1. <<u, "flagged">> \in todo[c] \/ <<about[c], u>> \in alerts <=> mark[about[c]][u] = "flagged"
      BY <2>1, <2>5 DEF TodoInv
    <3>2. QED
      BY <2>2, <2>4, <3>1
  <2>6. ASSUME NEW d \in AttendanceCalls \ {c}, NEW u \in Learners, <<about[d], u>> \notin late
        PROVE  /\ attendancePc[d] = "commit" => (<<u, "flagged">> \in todo[d] <=> mark[about[d]][u] = "flagged")
               /\ attendancePc[d] = "announce" =>
                    (<<u, "flagged">> \in todo[d] \/ <<about[d], u>> \in alerts' <=> mark[about[d]][u] = "flagged")
    BY <2>4, <2>5, <2>6 DEF TodoInv
  <2>7. QED
    BY <2>1, <2>5, <2>6 DEF TodoInv, Others
<1>9. CASE UNCHANGED attendanceVars
  BY <1>9 DEF attendanceVars, attendanceLocals, TodoInv
<1>10. QED
  BY <1>2, <1>3, <1>4, <1>5, <1>6, <1>7, <1>8, <1>9 DEF AttendanceNext

LEMMA NextComplete ==
  ASSUME AttendanceType, AboutInv, SizeInv, OutrunInv, TodoInv, CompleteInv, [AttendanceNext]_attendanceVars
  PROVE  CompleteInv'
\* A step that is about the session s: the others are announced as they were.
<1>1. ASSUME NEW c \in AttendanceCalls, NEW s \in SessionIds, Others(c), UNCHANGED <<mark, late>>,
             alerts \subseteq alerts', silenced \ {s} \subseteq silenced',
             \A t \in SessionIds \ {s} : session'[t] = session[t],
             attendancePc[c] \in {"select", "announce"} => about[c] = s,
             s \notin silenced' /\ session'[s] = "finalized" => Announced(s)' \/ Announcing(s)'
      PROVE  CompleteInv'
  <2>1. ASSUME NEW t \in SessionIds \ {s}, t \notin silenced, session[t] = "finalized"
        PROVE  Announced(t)' \/ Announcing(t)'
    <3>1. Announced(t) => Announced(t)'
      BY <1>1 DEF Announced
    <3>2. Announcing(t) => Announcing(t)'
      BY <1>1, <2>1 DEF Announcing, Others
    <3>3. QED
      BY <2>1, <3>1, <3>2 DEF CompleteInv
  <2>2. QED
    BY <1>1, <2>1 DEF CompleteInv
\* A step of a call that was not announcing anything.
<1>2. ASSUME NEW c \in AttendanceCalls, Others(c), UNCHANGED <<session, mark, alerts, late>>,
             silenced \subseteq silenced', attendancePc[c] \notin {"select", "announce"}
      PROVE  CompleteInv'
  BY <1>2 DEF CompleteInv, Announced, Announcing, Others
<1>3. ASSUME NEW c \in AttendanceCalls, InsertSession(c) \/ SeedRecord(c) \/ WriteRecords(c) PROVE CompleteInv'
  <2>1. /\ Others(c) /\ UNCHANGED <<alerts, silenced>> /\ late \subseteq late'
        /\ attendancePc[c] \notin {"select", "announce"}
        /\ \A s \in SessionIds : session'[s] = "finalized" <=> session[s] = "finalized"
        /\ \A s \in SessionIds : session[s] = "finalized" => Kept(s)
    BY <1>3, MarksAreKept DEF Settling
  <2>2. ASSUME NEW s \in SessionIds \ silenced, session[s] = "finalized" PROVE Announced(s)' \/ Announcing(s)'
    <3>1. Announced(s) => Announced(s)'
      BY <2>1, <2>2 DEF Announced, Kept
    <3>2. Announcing(s) => Announcing(s)'
      BY <2>1 DEF Announcing, Others
    <3>3. QED
      BY <2>2, <3>1, <3>2 DEF CompleteInv
  <2>3. QED
    BY <2>1, <2>2 DEF CompleteInv
<1>4. ASSUME NEW c \in AttendanceCalls, CheckMeeting(c) \/ ReadOpenSession(c) \/ SelectFlagged(c)
      PROVE  CompleteInv'
  BY <1>2, <1>4, Checked, OpenFound, FlaggedSelected
<1>5. ASSUME NEW c \in AttendanceCalls, CommitFinalized(c) PROVE CompleteInv'
  <2>1. /\ Others(c) /\ UNCHANGED <<mark, alerts, late>> /\ attendancePc[c] = "commit"
        /\ about[c] \in SessionIds /\ session' = [session EXCEPT ![about[c]] = "finalized"]
        /\ silenced \ {about[c]} \subseteq silenced'
        /\ \/ attendancePc'[c] = "announce" /\ about'[c] = about[c]
           \/ attendancePc'[c] = "idle" /\ todo[c] = {}
    BY <1>5, FinalizedCommitted DEF Created
  <2>2. \A t \in SessionIds \ {about[c]} : session'[t] = session[t]
    BY <2>1 DEF AttendanceType
  <2>3. PICK s \in SessionIds : s = about[c]
    BY <2>1
  <2>4. Announced(s)' \/ Announcing(s)'
    <3>1. CASE todo[c] = {}
      BY <2>1, <2>3, <3>1 DEF TodoInv, Announced
    <3>2. CASE attendancePc'[c] = "announce" /\ about'[c] = about[c]
      BY <2>3, <3>2 DEF Announcing
    <3>3. QED
      BY <2>1, <3>1, <3>2
  <2>5. QED
    BY <1>1, <2>1, <2>2, <2>3, <2>4
<1>6. ASSUME NEW c \in AttendanceCalls, UpdateToFinalized(c) PROVE CompleteInv'
  <2>1. /\ Others(c) /\ UNCHANGED <<mark, alerts, late, silenced>> /\ attendancePc[c] = "idle"
        /\ about'[c] \in SessionIds /\ session' = [session EXCEPT ![about'[c]] = "finalized"]
        /\ attendancePc'[c] = "select"
    BY <1>6, FinalizedUpdated DEF Created
  <2>2. PICK s \in SessionIds : s = about'[c]
    BY <2>1
  <2>3. \A t \in SessionIds \ {s} : session'[t] = session[t]
    BY <2>1, <2>2 DEF AttendanceType
  <2>4. Announcing(s)'
    BY <2>1, <2>2 DEF Announcing
  <2>5. QED
    BY <1>1, <2>1, <2>3, <2>4
<1>7. ASSUME NEW c \in AttendanceCalls, SelectAfterUpdate(c) PROVE CompleteInv'
  <2>1. /\ Others(c) /\ UNCHANGED <<session, mark, alerts, late>> /\ attendancePc[c] = "select"
        /\ silenced \ {about[c]} \subseteq silenced'
        /\ \/ attendancePc'[c] = "announce" /\ about'[c] = about[c]
           \/ attendancePc'[c] = "idle" /\ Flagged(about[c]) = {}
    BY <1>7, SelectedAfterUpdate
  <2>2. PICK s \in SessionIds : s = about[c]
    BY <2>1 DEF AboutInv, Created, Unsettled
  <2>3. Announced(s)' \/ Announcing(s)'
    <3>1. CASE attendancePc'[c] = "announce" /\ about'[c] = about[c]
      BY <2>2, <3>1 DEF Announcing
    <3>2. CASE Flagged(about[c]) = {}
      <4>1. \A u \in Learners : mark[s][u] # "flagged"
        BY <2>2, <3>2, FlaggedAre
      <4>2. QED
        BY <2>1, <4>1 DEF Announced
    <3>3. QED
      BY <2>1, <3>1, <3>2
  <2>4. QED
    BY <1>1, <2>1, <2>2, <2>3
<1>8. ASSUME NEW c \in AttendanceCalls, AnnounceFlagged(c) PROVE CompleteInv'
  <2>1. /\ Others(c) /\ UNCHANGED <<session, mark, late>> /\ attendancePc[c] = "announce"
        /\ \/ attendancePc'[c] = "announce" /\ about'[c] = about[c]
           \/ attendancePc'[c] = "idle" /\ todo'[c] = {}
    BY <1>8, FlaggedAnnounced
  <2>2. PICK told \in SUBSET todo[c] :
          /\ alerts' = alerts \union {<<about[c], w[1]>> : w \in told} /\ todo'[c] = todo[c] \ told
          /\ silenced \ {about[c]} \subseteq silenced'
    BY <1>8, FlaggedAnnounced
  <2>3. PICK s \in SessionIds : s = about[c]
    BY <2>1 DEF AboutInv, Created, Unsettled
  <2>4. Announced(s)' \/ Announcing(s)'
    <3>1. CASE attendancePc'[c] = "announce" /\ about'[c] = about[c]
      BY <2>3, <3>1 DEF Announcing
    <3>2. CASE todo'[c] = {}
      <4>1. told = todo[c]
        BY <2>2, <3>2
      <4>2. ASSUME NEW u \in Learners, mark[s][u] = "flagged", <<s, u>> \notin late PROVE <<s, u>> \in alerts'
        <5>1. <<u, "flagged">> \in told \/ <<s, u>> \in alerts
          BY <2>1, <2>3, <4>1, <4>2 DEF TodoInv
        <5>2. <<u, "flagged">>[1] = u
          OBVIOUS
        <5>3. QED
          BY <2>2, <2>3, <5>1, <5>2
      <4>3. QED
        BY <2>1, <4>2 DEF Announced
    <3>3. QED
      BY <2>1, <3>1, <3>2
  <2>5. QED
    BY <1>1, <2>1, <2>2, <2>3, <2>4
<1>9. ASSUME NEW c \in AttendanceCalls, AttendanceFails(c) PROVE CompleteInv'
  <2>1. /\ Others(c) /\ UNCHANGED <<session, mark, alerts, late>> /\ silenced \subseteq silenced'
        /\ attendancePc[c] \in {"select", "announce"} => about[c] \in silenced'
    BY <1>9, CallFailed
  <2>2. CASE attendancePc[c] \in {"select", "announce"}
    <3>1. PICK s \in SessionIds : s = about[c]
      BY <2>2 DEF AboutInv, Created, Unsettled
    <3>2. QED
      BY <1>1, <2>1, <2>2, <3>1
  <2>3. QED
    BY <1>2, <2>1, <2>2
<1>10. CASE UNCHANGED attendanceVars
  BY <1>10 DEF attendanceVars, attendanceLocals, CompleteInv, Announced, Announcing
<1>11. QED
  BY <1>3, <1>4, <1>5, <1>6, <1>7, <1>8, <1>9, <1>10 DEF AttendanceNext

\* The inductive invariant of a meeting: who writes to a finalized session was
\* outrun, and who has read the marks has what is still to be announced.
THEOREM AttendanceInvariant == AttendanceSpec => []AttendanceInv
<1>1. AttendanceInv /\ [AttendanceNext]_attendanceVars => AttendanceInv'
  BY NextAttendanceType, NextAbout, NextSize, NextOutrun, NextAlert, NextTodo, NextComplete DEF AttendanceInv
<1>2. QED
  BY AttendanceInitInv, <1>1, PTL DEF AttendanceSpec

\* A meeting has a second session only if it has no label and two calls had looked
\* before either inserted, for any number of calls.
THEOREM MeetingHasOneSession == AttendanceSpec => []OneSessionPerMeeting
<1>1. AttendanceInv => OneSessionPerMeeting
  <2> SUFFICES ASSUME AttendanceInv PROVE OneSessionPerMeeting
    OBVIOUS
  <2>1. PICK n \in Nat : Created = 1..n /\ (labelled \/ ~rival => n <= 1)
    BY DEF AttendanceInv, SizeInv
  <2>2. Cardinality(Created) = n
    BY <2>1, CountTo
  <2>3. QED
    BY <2>1, <2>2 DEF OneSessionPerMeeting
<1>2. QED
  BY AttendanceInvariant, <1>1, PTL

\* At rest the flagged learners of a finalized session are the announced ones, but
\* for late marks and interrupted finalizes, for any number of calls and learners.
THEOREM AlertsAreRight == AttendanceSpec => []AlertsMatchMarks
<1>1. AttendanceInv => AlertsMatchMarks
  <2> SUFFICES ASSUME AttendanceInv, At("idle") = AttendanceCalls, NEW s \in SessionIds \ silenced,
                      NEW u \in Learners, session[s] = "finalized", <<s, u>> \notin late
               PROVE  mark[s][u] = "flagged" <=> <<s, u>> \in alerts
    BY DEF AlertsMatchMarks
  <2>1. ~Announcing(s)
    BY DEF Announcing, At
  <2>2. Announced(s)
    BY <2>1 DEF AttendanceInv, CompleteInv
  <2>3. QED
    BY <2>2 DEF Announced, AttendanceInv, AlertInv
<1>2. QED
  BY AttendanceInvariant, <1>1, PTL
-----------------------------------------------------------------------------
(* The type invariant. *)

AboutSessions == [AttendanceCalls -> SessionIds \union {0}]
MarkTable == [SessionIds -> [Learners -> Marks \union {"none"}]]

\* What the argument above does not need of the types.
RowsAreOfLearners ==
  /\ attendanceTier \in AttendanceTiers /\ labelled \in BOOLEAN /\ rival \in BOOLEAN
  /\ about \in AboutSessions /\ mark \in MarkTable
  /\ alerts \subseteq SessionIds \X Learners /\ late \subseteq SessionIds \X Learners
  /\ silenced \subseteq SessionIds

LEMMA AboutOne ==
  ASSUME about \in AboutSessions, NEW c \in AttendanceCalls, NEW step,
         NEW s \in SessionIds \union {0}, NEW left,
         Enter(c, step, s, left) \/ Continue(c, step, s, left) \/ EndAttendance(c)
  PROVE  about' \in AboutSessions
<1>1. about' = [about EXCEPT ![c] = s] \/ about' = [about EXCEPT ![c] = 0]
  BY DEF Enter, Continue, EndAttendance
<1>2. QED
  BY <1>1 DEF AboutSessions

LEMMA MarksAreMarks ==
  ASSUME mark \in MarkTable, late \subseteq SessionIds \X Learners,
         NEW c \in AttendanceCalls, NEW s \in SessionIds,
         NEW work \in SUBSET (Learners \X Marks), PutMarks(c, s, work)
  PROVE  mark' \in MarkTable /\ late' \subseteq SessionIds \X Learners
<1>1. mark' = [mark EXCEPT ![s] = [u \in Learners |->
        IF \E w \in work : w[1] = u THEN (CHOOSE w \in work : w[1] = u)[2] ELSE @[u]]]
  BY DEF PutMarks
<1>2. ASSUME NEW u \in Learners PROVE mark'[s][u] \in Marks \union {"none"}
  <2>1. mark'[s][u] = IF \E w \in work : w[1] = u THEN (CHOOSE w \in work : w[1] = u)[2] ELSE mark[s][u]
    BY <1>1 DEF MarkTable
  <2>2. CASE \E w \in work : w[1] = u
    <3>1. (CHOOSE w \in work : w[1] = u) \in work
      BY <2>2
    <3>2. QED
      BY <2>1, <2>2, <3>1
  <2>3. CASE ~\E w \in work : w[1] = u
    BY <2>1, <2>3 DEF MarkTable
  <2>4. QED
    BY <2>2, <2>3
<1>3. mark' \in MarkTable
  BY <1>1, <1>2 DEF MarkTable
<1>4. {<<s, w[1]>> : w \in work} \subseteq SessionIds \X Learners
  OBVIOUS
<1>5. QED
  BY <1>3, <1>4 DEF PutMarks

LEMMA NextRowsAreOfLearners ==
  ASSUME AttendanceType, AboutInv, RowsAreOfLearners, [AttendanceNext]_attendanceVars
  PROVE  RowsAreOfLearners'
<1> USE DEF RowsAreOfLearners
<1>1. \A c \in AttendanceCalls :
        /\ about[c] \in SessionIds \union {0} /\ todo[c] \subseteq Learners \X Marks
        /\ attendancePc[c] \in Unsettled => about[c] \in SessionIds
  BY DEF AttendanceType, AboutInv, Created, AboutSessions
<1>2. ASSUME NEW c \in AttendanceCalls, CheckMeeting(c) PROVE RowsAreOfLearners'
  <2>1. about' \in AboutSessions
    BY <1>2, AboutOne DEF CheckMeeting
  <2>2. rival' \in BOOLEAN
    BY <1>2 DEF CheckMeeting
  <2>3. QED
    BY <1>2, <2>1, <2>2 DEF CheckMeeting
<1>3. ASSUME NEW c \in AttendanceCalls, InsertSession(c) PROVE RowsAreOfLearners'
  <2>1. CASE EndAttendance(c) /\ UNCHANGED <<mark, late>>
    BY <1>3, <2>1, AboutOne DEF InsertSession
  <2>2. ASSUME NEW s \in SessionIds,
               \/ PutMarks(c, s, todo[c]) /\ EndAttendance(c)
               \/ Continue(c, "seed", s, todo[c]) /\ UNCHANGED <<mark, late>>
        PROVE  RowsAreOfLearners'
    <3>1. mark' \in MarkTable /\ late' \subseteq SessionIds \X Learners
      BY <1>1, <2>2, MarksAreMarks
    <3>2. about' \in AboutSessions
      BY <2>2, AboutOne
    <3>3. QED
      BY <1>3, <3>1, <3>2 DEF InsertSession
  <2>3. QED
    BY <1>3, <2>1, <2>2 DEF InsertSession
<1>4. ASSUME NEW c \in AttendanceCalls, SeedRecord(c) PROVE RowsAreOfLearners'
  <2>1. about[c] \in SessionIds
    BY <1>1, <1>4 DEF SeedRecord, Unsettled
  <2>2. PICK w \in todo[c] :
          /\ PutMarks(c, about[c], IF mark[about[c]][w[1]] = "none" THEN {w} ELSE {})
          /\ Continue(c, "seed", about[c], todo[c] \ {w})
    BY <1>4 DEF SeedRecord
  <2>3. (IF mark[about[c]][w[1]] = "none" THEN {w} ELSE {}) \in SUBSET (Learners \X Marks)
    BY <1>1
  <2>4. mark' \in MarkTable /\ late' \subseteq SessionIds \X Learners
    BY <2>1, <2>2, <2>3, MarksAreMarks
  <2>5. about' \in AboutSessions
    BY <2>1, <2>2, AboutOne
  <2>6. QED
    BY <1>4, <2>4, <2>5 DEF SeedRecord
<1>5. ASSUME NEW c \in AttendanceCalls, WriteRecords(c) PROVE RowsAreOfLearners'
  <2>1. about[c] \in SessionIds
    BY <1>1, <1>5 DEF WriteRecords, Unsettled
  <2>2. PICK now \in {todo[c]} \union {{w} : w \in todo[c]} :
          PutMarks(c, about[c], now) /\ Continue(c, "write", about[c], todo[c] \ now)
    BY <1>5 DEF WriteRecords
  <2>3. now \in SUBSET (Learners \X Marks)
    BY <1>1
  <2>4. mark' \in MarkTable /\ late' \subseteq SessionIds \X Learners
    BY <2>1, <2>2, <2>3, MarksAreMarks
  <2>5. about' \in AboutSessions
    BY <2>1, <2>2, AboutOne
  <2>6. QED
    BY <1>5, <2>4, <2>5 DEF WriteRecords
<1>6. ASSUME NEW c \in AttendanceCalls, ReadOpenSession(c) PROVE RowsAreOfLearners'
  <2>1. PICK s, work : s \in SessionIds /\ Enter(c, "write", s, work)
    BY <1>6 DEF ReadOpenSession
  <2>2. about' \in AboutSessions
    BY <2>1, AboutOne
  <2>3. QED
    BY <1>6, <2>2 DEF ReadOpenSession
<1>7. ASSUME NEW c \in AttendanceCalls, SelectFlagged(c) \/ UpdateToFinalized(c)
      PROVE  RowsAreOfLearners'
  <2>1. PICK s, step, work : s \in SessionIds /\ Enter(c, step, s, work)
    BY <1>7 DEF SelectFlagged, UpdateToFinalized, Created
  <2>2. about' \in AboutSessions
    BY <2>1, AboutOne
  <2>3. QED
    BY <1>7, <2>2 DEF SelectFlagged, UpdateToFinalized
<1>8. ASSUME NEW c \in AttendanceCalls, CommitFinalized(c) \/ SelectAfterUpdate(c)
      PROVE  RowsAreOfLearners'
  <2>1. PICK left : Continue(c, "announce", about[c], left)
    BY <1>8 DEF CommitFinalized, SelectAfterUpdate
  <2>2. about' \in AboutSessions
    BY <1>1, <2>1, AboutOne
  <2>3. silenced' \subseteq silenced
    BY <1>8 DEF CommitFinalized, SelectAfterUpdate
  <2>4. QED
    BY <1>8, <2>2, <2>3 DEF CommitFinalized, SelectAfterUpdate
<1>9. ASSUME NEW c \in AttendanceCalls, AnnounceFlagged(c) PROVE RowsAreOfLearners'
  <2>1. about[c] \in SessionIds
    BY <1>1, <1>9 DEF AnnounceFlagged, Unsettled
  <2>2. PICK now \in {todo[c]} \union {{w} : w \in todo[c]} :
          /\ alerts' = alerts \union {<<about[c], w[1]>> : w \in now}
          /\ Continue(c, "announce", about[c], todo[c] \ now)
    BY <1>9 DEF AnnounceFlagged
  <2>3. {<<about[c], w[1]>> : w \in now} \subseteq SessionIds \X Learners
    <3>1. now \subseteq Learners \X Marks
      BY <1>1
    <3>2. QED
      BY <2>1, <3>1
  <2>4. about' \in AboutSessions
    BY <2>1, <2>2, AboutOne
  <2>5. silenced' \subseteq silenced
    BY <1>9 DEF AnnounceFlagged
  <2>6. QED
    BY <1>9, <2>2, <2>3, <2>4, <2>5 DEF AnnounceFlagged
<1>10. ASSUME NEW c \in AttendanceCalls, AttendanceFails(c) PROVE RowsAreOfLearners'
  <2>1. about' \in AboutSessions
    BY <1>10, AboutOne DEF AttendanceFails
  <2>2. silenced' \subseteq SessionIds
    BY <1>1, <1>10 DEF AttendanceFails, Unsettled
  <2>3. QED
    BY <1>10, <2>1, <2>2 DEF AttendanceFails
<1>11. CASE UNCHANGED attendanceVars
  BY <1>11 DEF attendanceVars, attendanceLocals
<1>12. QED
  BY <1>2, <1>3, <1>4, <1>5, <1>6, <1>7, <1>8, <1>9, <1>10, <1>11 DEF AttendanceNext

\* Marks, alerts and late marks are of learners in sessions that the meeting may
\* have, and a call is about such a session or none.
THEOREM AttendanceTypeCorrect == AttendanceSpec => []AttendanceTypeOK
<1>1. AttendanceInit => RowsAreOfLearners
  <2> SUFFICES ASSUME AttendanceInit PROVE RowsAreOfLearners
    OBVIOUS
  <2>1. about \in AboutSessions
    BY DEF AttendanceInit, AboutSessions
  <2>2. mark \in MarkTable
    BY DEF AttendanceInit, MarkTable
  <2>3. QED
    BY <2>1, <2>2 DEF AttendanceInit, RowsAreOfLearners
<1>2. AttendanceInv /\ RowsAreOfLearners => AttendanceTypeOK
  BY DEF AttendanceInv, AttendanceType, RowsAreOfLearners, AboutSessions, MarkTable, AttendanceTypeOK, Unsettled
<1>3. AttendanceInv /\ RowsAreOfLearners /\ [AttendanceNext]_attendanceVars => RowsAreOfLearners'
  BY NextRowsAreOfLearners DEF AttendanceInv
<1>4. QED
  BY AttendanceInvariant, <1>1, <1>2, <1>3, PTL DEF AttendanceSpec
=============================================================================
