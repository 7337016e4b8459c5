------------------------------- MODULE Services -------------------------------
(***************************************************************************)
(* The services that are modelled one by one, side by side.  None of them  *)
(* reads a row another writes: they meet in event_outbox only, and what    *)
(* becomes of a row there is OutboxRelay's.  So the steps of two of them   *)
(* commute, and a behaviour is one of a single service that runs while the *)
(* others rest: every interleaving of its own calls, none across services. *)
(***************************************************************************)
EXTENDS Sessions, AuditChain, Billing, RosterSync, QuizAttempts, VideoPipeline,
        AttendanceSession, AssignmentGroups, RateLimiter, ChatCeiling,
        PageVersions

CONSTANT UnlabelledLearners  \* learners who are marked when the meeting has no period label

VARIABLE service  \* the one that runs

servicesVars ==
  <<service, sessionVars, auditVars, billingVars, rosterVars, quizVars, videoVars,
    attendanceVars, groupVars, limiterVars, chatVars, pageVars>>

Names == {"identity", "audit", "billing", "sis", "assessment", "video",
          "attendance", "assignment", "ratelimit", "ai", "content"}

\* A service that rests does so on the pool tier, or with the first of its kinds.
Resting ==
  /\ service # "audit" => auditTier = "pool"
  /\ service # "sis" => sisTier = "pool"
  /\ service # "assessment" => quizTier = "pool"
  /\ service # "video" => videoTier = "pool"
  /\ service # "attendance" => attendanceTier = "pool" /\ labelled
  /\ service # "ratelimit" => limiterKind = "memory"
  /\ service # "content" => pageTier = "pool"

ServicesInit ==
  /\ service \in Names
  /\ SessionInit /\ AuditInit /\ BillingInit /\ RosterInit /\ QuizInit /\ VideoInit
  /\ AttendanceInit /\ GroupInit /\ LimiterInit /\ ChatInit /\ PageInit
  /\ Resting

OthersRest ==
  /\ UNCHANGED service
  /\ IF service = "identity" THEN TRUE ELSE UNCHANGED sessionVars
  /\ IF service = "audit" THEN TRUE ELSE UNCHANGED auditVars
  /\ IF service = "billing" THEN TRUE ELSE UNCHANGED billingVars
  /\ IF service = "sis" THEN TRUE ELSE UNCHANGED rosterVars
  /\ IF service = "assessment" THEN TRUE ELSE UNCHANGED quizVars
  /\ IF service = "video" THEN TRUE ELSE UNCHANGED videoVars
  /\ IF service = "attendance" THEN TRUE ELSE UNCHANGED attendanceVars
  /\ IF service = "assignment" THEN TRUE ELSE UNCHANGED groupVars
  /\ IF service = "ratelimit" THEN TRUE ELSE UNCHANGED limiterVars
  /\ IF service = "ai" THEN TRUE ELSE UNCHANGED chatVars
  /\ IF service = "content" THEN TRUE ELSE UNCHANGED pageVars

\* A bound: several sessions of a meeting are only explored with few learners.
UnlabelledBound ==
  labelled \/ \A c \in AttendanceCalls : todo'[c] \subseteq UnlabelledLearners \X Marks

ServicesNext ==
  /\ \/ service = "identity" /\ SessionNext
     \/ service = "audit" /\ AuditNext
     \/ service = "billing" /\ BillingNext
     \/ service = "sis" /\ RosterNext
     \/ service = "assessment" /\ QuizNext
     \/ service = "video" /\ VideoNext
     \/ service = "attendance" /\ AttendanceNext /\ UnlabelledBound
     \/ service = "assignment" /\ GroupNext
     \/ service = "ratelimit" /\ LimiterNext
     \/ service = "ai" /\ ChatNext
     \/ service = "content" /\ PageNext
  /\ OthersRest

\* The fairness of QuizSpec and VideoSpec.
ServicesSpec ==
  /\ ServicesInit /\ [][ServicesNext]_servicesVars
  /\ \A c \in QuizCalls : WF_servicesVars(service = "assessment" /\ QuizStep(c) /\ OthersRest)
  /\ \A p \in Pipelines : WF_servicesVars(service = "video" /\ PipelineStep(p) /\ OthersRest)

-----------------------------------------------------------------------------
ServicesTypeOK ==
  /\ service \in Names
  /\ SessionTypeOK /\ AuditTypeOK /\ BillingTypeOK /\ RosterTypeOK /\ QuizTypeOK /\ VideoTypeOK
  /\ AttendanceTypeOK /\ GroupTypeOK /\ LimiterTypeOK /\ ChatTypeOK
  /\ PageTypeOK
=============================================================================
