---------------------------- MODULE ChatCeiling ----------------------------
(***************************************************************************)
(* The daily ceiling on what a tenant spends on the AI study assistant:    *)
(* POST /courses/:courseId/chat reads the day's usage before it calls the  *)
(* model and adds to it after the answer is stored.  A request counts for  *)
(* a fixed number of tokens, so a ceiling on tokens is one on requests.    *)
(* The rate limits and the other refusals before the model is called end a *)
(* call and change nothing here.                                           *)
(***************************************************************************)
EXTENDS Integers, FiniteSets

CONSTANTS
  ChatCalls,  \* requests to the service in flight at once
  Ceiling,    \* requests per day
  MaxDays,    \* days the clock runs
  MaxChats    \* calls of the model

ASSUME CeilingAssumption ==
  IsFiniteSet(ChatCalls) /\ Ceiling \in Nat \ {0} /\ MaxDays \in Nat \ {0} /\ MaxChats \in Nat

VARIABLES
  today,      \* the date, in UTC
  usage,      \* request_count of ai_usage, per day
  chatPc,     \* per call: idle, complete, charge
  chatDate,   \* per call: windowDate
  spent,      \* per windowDate: calls of the model
  uncharged   \* history, per windowDate: calls of the model that failed before they were charged

chatVars == <<today, usage, chatPc, chatDate, spent, uncharged>>

Days == 1..MaxDays

ChatInit ==
  /\ today = 1
  /\ usage = [d \in Days |-> 0]
  /\ chatPc = [c \in ChatCalls |-> "idle"]
  /\ chatDate = [c \in ChatCalls |-> 1]
  /\ spent = [d \in Days |-> 0]
  /\ uncharged = [d \in Days |-> 0]

ChatGoto(c, step, d) ==
  /\ chatPc' = [chatPc EXCEPT ![c] = step]
  /\ chatDate' = [chatDate EXCEPT ![c] = d]

Spent == LET S[d \in 0..MaxDays] == IF d = 0 THEN 0 ELSE S[d - 1] + spent[d] IN S[MaxDays]

-----------------------------------------------------------------------------
Midnight ==
  /\ today < MaxDays
  /\ today' = today + 1
  /\ UNCHANGED <<usage, chatPc, chatDate, spent, uncharged>>

\* mutant: > for >=.
CeilingPassed(d) == usage[d] > Ceiling

CeilingReached(d) == usage[d] >= Ceiling

\* windowDate and getTenantDailyUsage; a ceiling that is reached ends the call.
CheckUsage(c) ==
  /\ chatPc[c] = "idle" /\ ~CeilingReached(today)
  /\ ChatGoto(c, "complete", today)
  /\ UNCHANGED <<today, usage, spent, uncharged>>

\* chat.complete: the model is paid, whether it answers or not.
Complete(c) ==
  /\ chatPc[c] = "complete" /\ Spent < MaxChats
  /\ spent' = [spent EXCEPT ![chatDate[c]] = @ + 1]
  /\ ChatGoto(c, "charge", chatDate[c])
  /\ UNCHANGED <<today, usage, uncharged>>

\* incrementTenantDailyUsage, for the day that was checked.
Charge(c) ==
  /\ chatPc[c] = "charge"
  /\ usage' = [usage EXCEPT ![chatDate[c]] = @ + 1]
  /\ ChatGoto(c, "idle", 1)
  /\ UNCHANGED <<today, spent, uncharged>>

\* Retrieval, the model or the store throws, or the process dies.
ChatFails(c) ==
  /\ chatPc[c] # "idle"
  /\ uncharged' = IF chatPc[c] = "charge" THEN [uncharged EXCEPT ![chatDate[c]] = @ + 1] ELSE uncharged
  /\ ChatGoto(c, "idle", 1)
  /\ UNCHANGED <<today, usage, spent>>

ChatNext ==
  \/ Midnight
  \/ \E c \in ChatCalls : CheckUsage(c) \/ Complete(c) \/ Charge(c) \/ ChatFails(c)

ChatSpec == ChatInit /\ [][ChatNext]_chatVars

-----------------------------------------------------------------------------
ChatTypeOK ==
  /\ today \in Days
  /\ usage \in [Days -> Nat] /\ spent \in [Days -> Nat] /\ uncharged \in [Days -> Nat]
  /\ chatPc \in [ChatCalls -> {"idle", "complete", "charge"}]
  /\ chatDate \in [ChatCalls -> Days]

\* What a day's ceiling really bounds: calls that read the usage together may all
\* be one short of it, so the model is called up to one time less than there are
\* calls in flight above the ceiling, besides the calls that were never charged.
CeilingOverrun == \A d \in Days :
  spent[d] - uncharged[d] <= Ceiling + Cardinality(ChatCalls) - 1
=============================================================================
