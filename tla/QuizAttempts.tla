---------------------------- MODULE QuizAttempts ----------------------------
(***************************************************************************)
(* The attempts of one learner at one quiz that is published and open:     *)
(* startAttempt and submitAttempt, by calls that run at the same time, and *)
(* the connections of the pool they run on.                                *)
(*                                                                         *)
(* On the pool tier a call is one READ COMMITTED transaction on one        *)
(* connection, and what it writes appears when it commits; startAttempt    *)
(* asks for a second connection while it holds the first.  On the silo     *)
(* tier every statement commits by itself and holds no connection.         *)
(***************************************************************************)
EXTENDS Integers, FiniteSets

CONSTANTS
  QuizCalls,        \* requests to the service in flight at once
  Questions,        \* questions a submission answers
  AttemptsAllowed,  \* attempts_allowed of the quiz
  PoolSize,         \* connections of the shared pool
  QuizTiers,        \* the tiers the tenant may have
  MaxSubmissions    \* submissions that reach the database

ASSUME QuizAssumption ==
  /\ IsFiniteSet(QuizCalls) /\ IsFiniteSet(Questions)
  /\ AttemptsAllowed \in Nat \ {0} /\ PoolSize \in Nat \ {0} /\ MaxSubmissions \in Nat
  /\ QuizTiers \subseteq {"pool", "silo"}

VARIABLES
  quizTier,    \* of the tenant
  attempts,    \* attempt_no of the rows of quiz_attempt
  scoredBy,    \* per attempt: the submission that gave its score (0: in_progress)
  responses,   \* rows of quiz_response: <<attempt, submission, question>>
  submissions, \* submissions so far
  quizPc,      \* per call: idle, connect, count, assemble, insert, read, respond
  isStart,     \* per call: startAttempt or submitAttempt
  attempt,     \* per call: the attempt_no it inserts or the attempt it submits
  submission,  \* per call: which submission it is
  contested    \* history: attempts that a submission found in progress while another
               \* one was at it, or after one had died with responses stored (silo)

quizLocals == <<quizPc, isStart, attempt, submission>>
quizVars == <<quizTier, attempts, scoredBy, responses, submissions, quizLocals, contested>>

AttemptNos == 1..AttemptsAllowed + 1

QuizInit ==
  /\ quizTier \in QuizTiers
  /\ attempts = {}
  /\ scoredBy = [a \in AttemptNos |-> 0]
  /\ responses = {}
  /\ submissions = 0
  /\ quizPc = [c \in QuizCalls |-> "idle"]
  /\ isStart = [c \in QuizCalls |-> FALSE]
  /\ attempt = [c \in QuizCalls |-> 0]
  /\ submission = [c \in QuizCalls |-> 0]
  /\ contested = {}

QuizGoto(c, statement) ==
  quizPc' = [quizPc EXCEPT ![c] = statement] /\ UNCHANGED <<isStart, attempt, submission>>

EndQuizCall(c) ==
  /\ quizPc' = [quizPc EXCEPT ![c] = "idle"]
  /\ isStart' = [isStart EXCEPT ![c] = FALSE]
  /\ attempt' = [attempt EXCEPT ![c] = 0]
  /\ submission' = [submission EXCEPT ![c] = 0]

-----------------------------------------------------------------------------
(* withTenant *)

InTransaction(c) == quizPc[c] \notin {"idle", "connect"}
FreeConnection ==
  quizTier = "pool" => Cardinality({c \in QuizCalls : InTransaction(c)}) < PoolSize

BeginStart(c) ==
  /\ quizPc[c] = "idle"
  /\ quizPc' = [quizPc EXCEPT ![c] = "connect"]
  /\ isStart' = [isStart EXCEPT ![c] = TRUE]
  /\ UNCHANGED <<quizTier, attempts, scoredBy, responses, submissions, attempt, submission, contested>>

BeginSubmit(c) ==
  /\ quizPc[c] = "idle"
  /\ submissions < MaxSubmissions
  /\ \E a \in attempts : attempt' = [attempt EXCEPT ![c] = a]
  /\ submissions' = submissions + 1
  /\ submission' = [submission EXCEPT ![c] = submissions + 1]
  /\ quizPc' = [quizPc EXCEPT ![c] = "connect"]
  /\ UNCHANGED <<quizTier, attempts, scoredBy, responses, isStart, contested>>

Connect(c) ==
  /\ quizPc[c] = "connect" /\ FreeConnection
  /\ QuizGoto(c, IF isStart[c] THEN "count" ELSE "read")
  /\ UNCHANGED <<quizTier, attempts, scoredBy, responses, submissions, contested>>

\* mutant: only the first connection has a deadline.
FirstWaitEnds(c) ==
  /\ quizPc[c] = "connect" /\ ~FreeConnection
  /\ EndQuizCall(c)
  /\ UNCHANGED <<quizTier, attempts, scoredBy, responses, submissions, contested>>

\* Prisma gives up on a transaction that gets no connection (maxWait); that of
\* the call that asked for it rolls back with it.
WaitEnds(c) ==
  /\ quizPc[c] \in {"connect", "assemble"} /\ ~FreeConnection
  /\ EndQuizCall(c)
  /\ UNCHANGED <<quizTier, attempts, scoredBy, responses, submissions, contested>>

(* startAttempt *)

\* mutant: attempts_allowed is not looked at.
AllowanceUnchecked == FALSE

\* mutant: > for >=.
NoAttemptsLeftLate == Cardinality(attempts) > AttemptsAllowed

NoAttemptsLeft == Cardinality(attempts) >= AttemptsAllowed

CountPrior(c) ==
  /\ quizPc[c] = "count"
  /\ \/ NoAttemptsLeft /\ EndQuizCall(c)
     \/ /\ ~NoAttemptsLeft
        /\ attempt' = [attempt EXCEPT ![c] = Cardinality(attempts) + 1]
        /\ quizPc' = [quizPc EXCEPT ![c] = "assemble"]
        /\ UNCHANGED <<isStart, submission>>
  /\ UNCHANGED <<quizTier, attempts, scoredBy, responses, submissions, contested>>

\* this.getQuiz(ctx): a transaction of its own, on a connection of its own.
Assemble(c) ==
  /\ quizPc[c] = "assemble" /\ FreeConnection
  /\ QuizGoto(c, "insert")
  /\ UNCHANGED <<quizTier, attempts, scoredBy, responses, submissions, contested>>

\* The last statement, so INSERT and COMMIT are one step; UNIQUE (quiz_id,
\* user_id, attempt_no) fails the call when the number is taken by now.
InsertAttempt(c) ==
  /\ quizPc[c] = "insert"
  /\ attempts' = attempts \union {attempt[c]}
  /\ EndQuizCall(c)
  /\ UNCHANGED <<quizTier, scoredBy, responses, submissions, contested>>

(* submitAttempt *)

Submitting(a) == {c \in QuizCalls : ~isStart[c] /\ quizPc[c] \in {"respond"} /\ attempt[c] = a}

\* mutant: the status is not looked at.
ReadAnyAttempt(c) ==
  /\ quizPc[c] = "read"
  /\ contested' = IF Submitting(attempt[c]) = {} THEN contested ELSE contested \union {attempt[c]}
  /\ QuizGoto(c, "respond")
  /\ UNCHANGED <<quizTier, attempts, scoredBy, responses, submissions>>

\* already_submitted ends the call.
ReadAttempt(c) ==
  LET a == attempt[c] IN
  /\ quizPc[c] = "read"
  /\ \/ scoredBy[a] # 0 /\ EndQuizCall(c) /\ UNCHANGED contested
     \/ /\ scoredBy[a] = 0
        /\ contested' = IF Submitting(a) = {} THEN contested ELSE contested \union {a}
        /\ QuizGoto(c, "respond")
  /\ UNCHANGED <<quizTier, attempts, scoredBy, responses, submissions>>

Stored(c) == {q \in Questions : <<attempt[c], submission[c], q>> \in responses}

\* silo: one INSERT INTO quiz_response commits.
StoreResponse(c) ==
  /\ quizPc[c] = "respond" /\ quizTier = "silo"
  /\ \E q \in Questions \ Stored(c) : responses' = responses \union {<<attempt[c], submission[c], q>>}
  /\ UNCHANGED <<quizTier, attempts, scoredBy, submissions, quizLocals, contested>>

\* The UPDATE of score and status, unconditional; pool: COMMIT of all of it.
ScoreAttempt(c) ==
  LET a == attempt[c] IN
  /\ quizPc[c] = "respond"
  /\ quizTier = "silo" => Stored(c) = Questions
  /\ responses' = responses \union {<<a, submission[c], q>> : q \in Questions}
  /\ scoredBy' = [scoredBy EXCEPT ![a] = submission[c]]
  /\ EndQuizCall(c)
  /\ UNCHANGED <<quizTier, attempts, submissions, contested>>

\* A query throws or the process dies; a transaction leaves nothing behind.
QuizCallFails(c) ==
  /\ quizPc[c] # "idle"
  /\ contested' = IF ~isStart[c] /\ Stored(c) # {} THEN contested \union {attempt[c]} ELSE contested
  /\ EndQuizCall(c)
  /\ UNCHANGED <<quizTier, attempts, scoredBy, responses, submissions>>

QuizStep(c) ==
  \/ Connect(c) \/ WaitEnds(c)
  \/ CountPrior(c) \/ Assemble(c) \/ InsertAttempt(c)
  \/ ReadAttempt(c) \/ StoreResponse(c) \/ ScoreAttempt(c)

QuizNext == \E c \in QuizCalls :
  BeginStart(c) \/ BeginSubmit(c) \/ QuizStep(c) \/ QuizCallFails(c)

QuizSpec == QuizInit /\ [][QuizNext]_quizVars /\ \A c \in QuizCalls : WF_quizVars(QuizStep(c))

-----------------------------------------------------------------------------
QuizTypeOK ==
  /\ quizTier \in QuizTiers
  /\ attempts \subseteq AttemptNos
  /\ scoredBy \in [AttemptNos -> 0..MaxSubmissions]
  /\ responses \subseteq attempts \X (1..MaxSubmissions) \X Questions
  /\ submissions \in 0..MaxSubmissions
  /\ quizPc \in [QuizCalls -> {"idle", "connect", "count", "assemble", "insert", "read", "respond"}]
  /\ isStart \in [QuizCalls -> BOOLEAN]
  /\ attempt \in [QuizCalls -> AttemptNos \union {0}]
  /\ submission \in [QuizCalls -> 0..MaxSubmissions]
  /\ contested \subseteq attempts

\* However many calls count the prior attempts at once, a learner gets no more
\* than the quiz allows, numbered from 1 without a gap.
AllowanceKept ==
  /\ Cardinality(attempts) <= AttemptsAllowed
  /\ attempts = 1..Cardinality(attempts)

\* An attempt's score is that of responses that are stored with it, all of them,
\* and no others are: unless two submissions found it in progress at once or,
\* on the silo tier, one had died with part of its responses stored.
ScoreIsOfResponses == \A a \in attempts : scoredBy[a] # 0 =>
  LET own == {<<a, scoredBy[a], q>> : q \in Questions}
      all == {r \in responses : r[1] = a}
  IN  own \subseteq all /\ (a \notin contested => all = own)

\* Every call ends, though calls that hold all the connections of the pool wait
\* for one another's: it is the deadline of the second wait that frees them.
QuizCallsEnd == \A c \in QuizCalls : quizPc[c] # "idle" ~> quizPc[c] = "idle"
=============================================================================
