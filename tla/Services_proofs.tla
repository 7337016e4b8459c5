--------------------------- MODULE Services_proofs ---------------------------
(***************************************************************************)
(* What holds of each service alone holds of them side by side: a step of  *)
(* the services is a step of each, or leaves its state alone               *)
(* (StepsOfEach), so a behaviour of the services is a behaviour of every   *)
(* service (ImplementsEach), and the theorems about the services one by    *)
(* one carry over.  The fairness of the quiz and of the pipeline is left   *)
(* out: who is fair to a call when other services run too needs ENABLED.   *)
(***************************************************************************)
EXTENDS Services, Allowances_proofs, RacingCalls_proofs, RosterSync_proofs,
        AttendanceSession_proofs, TLAPS

\* A step of the services is, for each of them, one of its own or none.
LEMMA StepsOfEach ==
  ASSUME [ServicesNext]_servicesVars
  PROVE  /\ [SessionNext]_sessionVars
         /\ [AuditNext]_auditVars
         /\ [BillingNext]_billingVars
         /\ [RosterNext]_rosterVars
         /\ [QuizNext]_quizVars
         /\ [VideoNext]_videoVars
         /\ [AttendanceNext]_attendanceVars
         /\ [GroupNext]_groupVars
         /\ [LimiterNext]_limiterVars
         /\ [ChatNext]_chatVars
         /\ [PageNext]_pageVars
<1>1. CASE UNCHANGED servicesVars
  BY <1>1 DEF servicesVars
<1>2. ASSUME ServicesNext PROVE [SessionNext]_sessionVars
  BY <1>2 DEF ServicesNext, OthersRest
<1>3. ASSUME ServicesNext PROVE [AuditNext]_auditVars
  BY <1>3 DEF ServicesNext, OthersRest
<1>4. ASSUME ServicesNext PROVE [BillingNext]_billingVars
  BY <1>4 DEF ServicesNext, OthersRest
<1>5. ASSUME ServicesNext PROVE [RosterNext]_rosterVars
  BY <1>5 DEF ServicesNext, OthersRest
<1>6. ASSUME ServicesNext PROVE [QuizNext]_quizVars
  BY <1>6 DEF ServicesNext, OthersRest
<1>7. ASSUME ServicesNext PROVE [VideoNext]_videoVars
  BY <1>7 DEF ServicesNext, OthersRest
<1>8. ASSUME ServicesNext PROVE [AttendanceNext]_attendanceVars
  BY <1>8 DEF ServicesNext, OthersRest
<1>9. ASSUME ServicesNext PROVE [GroupNext]_groupVars
  BY <1>9 DEF ServicesNext, OthersRest
<1>10. ASSUME ServicesNext PROVE [LimiterNext]_limiterVars
  BY <1>10 DEF ServicesNext, OthersRest
<1>11. ASSUME ServicesNext PROVE [ChatNext]_chatVars
  BY <1>11 DEF ServicesNext, OthersRest
<1>12. ASSUME ServicesNext PROVE [PageNext]_pageVars
  BY <1>12 DEF ServicesNext, OthersRest
<1>13. QED
  BY <1>1, <1>2, <1>3, <1>4, <1>5, <1>6, <1>7, <1>8, <1>9, <1>10, <1>11, <1>12

\* The one that runs is chosen at the start.
LEMMA RunningStays ==
  ASSUME service \in Names, [ServicesNext]_servicesVars
  PROVE  service' \in Names
  BY DEF ServicesNext, OthersRest, servicesVars

\* The services side by side are an implementation of every one of them: of its
\* initial states and its steps, whatever the tier, the bounds and the calls.
THEOREM ImplementsEach ==
  ServicesSpec =>
    /\ SessionSpec
    /\ AuditSpec
    /\ BillingSpec
    /\ RosterSpec
    /\ QuizInit /\ [][QuizNext]_quizVars
    /\ VideoInit /\ [][VideoNext]_videoVars
    /\ AttendanceSpec
    /\ GroupSpec
    /\ LimiterSpec
    /\ ChatSpec
    /\ PageSpec
<1>1. ServicesInit =>
        /\ SessionInit
        /\ AuditInit
        /\ BillingInit
        /\ RosterInit
        /\ QuizInit
        /\ VideoInit
        /\ AttendanceInit
        /\ GroupInit
        /\ LimiterInit
        /\ ChatInit
        /\ PageInit
  BY DEF ServicesInit
<1>2. [ServicesNext]_servicesVars => [SessionNext]_sessionVars
  BY StepsOfEach
<1>3. [ServicesNext]_servicesVars => [AuditNext]_auditVars
  BY StepsOfEach
<1>4. [ServicesNext]_servicesVars => [BillingNext]_billingVars
  BY StepsOfEach
<1>5. [ServicesNext]_servicesVars => [RosterNext]_rosterVars
  BY StepsOfEach
<1>6. [ServicesNext]_servicesVars => [QuizNext]_quizVars
  BY StepsOfEach
<1>7. [ServicesNext]_servicesVars => [VideoNext]_videoVars
  BY StepsOfEach
<1>8. [ServicesNext]_servicesVars => [AttendanceNext]_attendanceVars
  BY StepsOfEach
<1>9. [ServicesNext]_servicesVars => [GroupNext]_groupVars
  BY StepsOfEach
<1>10. [ServicesNext]_servicesVars => [LimiterNext]_limiterVars
  BY StepsOfEach
<1>11. [ServicesNext]_servicesVars => [ChatNext]_chatVars
  BY StepsOfEach
<1>12. [ServicesNext]_servicesVars => [PageNext]_pageVars
  BY StepsOfEach
<1>13. ServicesSpec => SessionSpec
  BY <1>1, <1>2, PTL DEF ServicesSpec, SessionSpec
<1>14. ServicesSpec => AuditSpec
  BY <1>1, <1>3, PTL DEF ServicesSpec, AuditSpec
<1>15. ServicesSpec => BillingSpec
  BY <1>1, <1>4, PTL DEF ServicesSpec, BillingSpec
<1>16. ServicesSpec => RosterSpec
  BY <1>1, <1>5, PTL DEF ServicesSpec, RosterSpec
<1>17. ServicesSpec => QuizInit /\ [][QuizNext]_quizVars
  BY <1>1, <1>6, PTL DEF ServicesSpec
<1>18. ServicesSpec => VideoInit /\ [][VideoNext]_videoVars
  BY <1>1, <1>7, PTL DEF ServicesSpec
<1>19. ServicesSpec => AttendanceSpec
  BY <1>1, <1>8, PTL DEF ServicesSpec, AttendanceSpec
<1>20. ServicesSpec => GroupSpec
  BY <1>1, <1>9, PTL DEF ServicesSpec, GroupSpec
<1>21. ServicesSpec => LimiterSpec
  BY <1>1, <1>10, PTL DEF ServicesSpec, LimiterSpec
<1>22. ServicesSpec => ChatSpec
  BY <1>1, <1>11, PTL DEF ServicesSpec, ChatSpec
<1>23. ServicesSpec => PageSpec
  BY <1>1, <1>12, PTL DEF ServicesSpec, PageSpec
<1>24. QED
  BY <1>13, <1>14, <1>15, <1>16, <1>17, <1>18, <1>19, <1>20, <1>21, <1>22, <1>23

-----------------------------------------------------------------------------
\* The invariants of the quiz and of the pipeline do not rest on their fairness.
LEMMA QuizStaysSound ==
  QuizInit /\ [][QuizNext]_quizVars => [](QuizTypeOK /\ AllowanceKept /\ ScoreIsOfResponses)
<1>1. QuizIInv => QuizTypeOK /\ AllowanceKept /\ ScoreIsOfResponses
  BY ScoresAreOfResponses DEF QuizIInv
<1>2. QED
  BY QuizInitInv, QuizStepKeeps, <1>1, PTL

LEMMA PipelineStaysSound ==
  VideoInit /\ [][VideoNext]_videoVars => [](VideoTypeOK /\ StatusAnnounced)
<1>1. PipelineIInv => VideoTypeOK /\ StatusAnnounced
  BY DEF PipelineIInv
<1>2. QED
  BY PipelineInitInv, PipelineStepKeeps, <1>1, PTL

\* Every reachable state of the services is well typed: none leaves the sets that
\* its rows and its calls are of, side by side, for any bounds.
THEOREM ServicesTypeCorrect == ServicesSpec => []ServicesTypeOK
<1>1. ServicesSpec => [](service \in Names)
  <2>1. ServicesInit => service \in Names
    BY DEF ServicesInit
  <2>2. service \in Names /\ [ServicesNext]_servicesVars => (service \in Names)'
    BY RunningStays
  <2>3. QED
    BY <2>1, <2>2, PTL DEF ServicesSpec
<1>2. /\ SessionIInv => SessionTypeOK
      /\ BillingIInv => BillingTypeOK
      /\ GroupIInv => GroupTypeOK
      /\ CeilingIInv => ChatTypeOK
  BY DEF SessionIInv, BillingIInv, GroupIInv, CeilingIInv
<1>3. ServicesSpec => [](SessionTypeOK /\ BillingTypeOK /\ GroupTypeOK /\ ChatTypeOK)
  BY <1>2, ImplementsEach, SessionInvariant, BillingInvariant, GroupInvariant, CeilingInvariant, PTL
<1>4. ServicesSpec => [](QuizTypeOK /\ VideoTypeOK)
  BY ImplementsEach, QuizStaysSound, PipelineStaysSound, PTL
<1>5. ServicesSpec => [](AuditTypeOK /\ RosterTypeOK /\ AttendanceTypeOK /\ LimiterTypeOK /\ PageTypeOK)
  BY ImplementsEach, AuditTypeCorrect, RosterTypeCorrect, AttendanceTypeCorrect, LimiterTypeCorrect,
     PageTypeCorrect, PTL
<1>6. /\ service \in Names
      /\ (SessionTypeOK /\ BillingTypeOK /\ GroupTypeOK /\ ChatTypeOK)
      /\ (QuizTypeOK /\ VideoTypeOK)
      /\ (AuditTypeOK /\ RosterTypeOK /\ AttendanceTypeOK /\ LimiterTypeOK /\ PageTypeOK)
      => ServicesTypeOK
  BY DEF ServicesTypeOK
<1>7. QED
  BY <1>1, <1>3, <1>4, <1>5, <1>6, PTL

\* Side by side, every service keeps what it promises alone: tokens, the verdict
\* on the log, invoices, the copied roster, attempts and scores, announcements,
\* sessions and alerts, groups, both limits and the page.
THEOREM ServicesAreSafe ==
  ServicesSpec =>
    [](/\ OneUsableToken /\ EndedStaysEnded
       /\ VerdictIsRight
       /\ InvoicesAreGapless
       /\ WatermarkCovers /\ OneRowPerRecord
       /\ AllowanceKept /\ ScoreIsOfResponses
       /\ StatusAnnounced
       /\ OneSessionPerMeeting /\ AlertsMatchMarks
       /\ OneGroupEach
       /\ RateBounded /\ RetryAfterIsEnough
       /\ CeilingOverrun
       /\ PageIsNotBlank)
<1>1. ServicesSpec => [](OneUsableToken /\ EndedStaysEnded /\ VerdictIsRight /\ InvoicesAreGapless)
  BY ImplementsEach, RotationKeepsOne, EndIsFinal, VerdictIsExact, GaplessInvoices, PTL
<1>2. ServicesSpec => [](WatermarkCovers /\ OneRowPerRecord /\ AllowanceKept /\ ScoreIsOfResponses
                         /\ StatusAnnounced)
  BY ImplementsEach, NoChangeIsLost, RowsAreNotDoubled, QuizStaysSound, PipelineStaysSound, PTL
<1>3. ServicesSpec => [](OneSessionPerMeeting /\ AlertsMatchMarks /\ OneGroupEach)
  BY ImplementsEach, MeetingHasOneSession, AlertsAreRight, OneGroupForEach, PTL
<1>4. ServicesSpec => [](RateBounded /\ RetryAfterIsEnough /\ CeilingOverrun /\ PageIsNotBlank)
  BY ImplementsEach, RateIsBounded, WaitingIsEnough, OverrunIsBounded, ReadsAreNotBlank, PTL
<1>5. QED
  BY <1>1, <1>2, <1>3, <1>4, PTL

\* Side by side too, no subscription leaves canceled, and a publication is undone
\* only as PublishedGoesBack excepts.
THEOREM ServicesGoForward == ServicesSpec => CanceledIsTerminal /\ PublishedGoesBack
  BY ImplementsEach, CanceledStays, PublicationMovesOn, PTL
=============================================================================
