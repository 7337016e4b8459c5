\* One service at a time, at the smallest sizes at which its hazards occur.
SPECIFICATION ServicesSpec
CONSTANTS
  u1 = u1
  school = school
  section = section
  SessionCalls = {c1, c2}
  MaxTokens = 4
  Appenders = {c1, c2}
  AuditTiers = {"pool", "silo"}
  MaxRows = 3
  BillingCalls = {c1, c2}
  MaxSubscriptions = 2
  MaxInvoices = 3
  Records = {school, section}
  Kind <- MCKind
  Refs <- MCRefs
  Runs = {c1, c2}
  SisTiers = {"pool", "silo"}
  MaxChanges = 2
  QuizCalls = {c1, c2}
  Questions = {u1, u2}
  AttemptsAllowed = 2
  PoolSize = 2
  QuizTiers = {"pool", "silo"}
  MaxSubmissions = 3
  Pipelines = {c1, c2}
  VideoTiers = {"pool", "silo"}
  MaxPipelines = 3
  AttendanceCalls = {c1, c2}
  Learners = {u1, u2}
  MaxSessions = 2
  AttendanceTiers = {"pool", "silo"}
  UnlabelledLearners <- MCUnlabelledLearners
  GroupCalls = {c1, c2}
  Groups = {g1, g2, g3}
  Students = {u1, u2}
  LimiterCalls = {c1, c2}
  Limit = 1
  WindowSeconds = 1
  TicksPerSecond = 2
  LimiterKinds = {"memory", "shared"}
  MaxTicks = 3
  MaxHits = 4
  ChatCalls = {c1, c2}
  Ceiling = 2
  MaxDays = 2
  MaxChats = 6
  PageCalls = {c1, c2}
  MaxVersions = 3
  PageTiers = {"pool", "silo"}
INVARIANTS
  ServicesTypeOK
  OneUsableToken EndedStaysEnded
  VerdictIsRight
  InvoicesAreGapless
  WatermarkCovers OneRowPerRecord
  AllowanceKept ScoreIsOfResponses
  StatusAnnounced
  OneSessionPerMeeting AlertsMatchMarks
  OneGroupEach
  RateBounded RetryAfterIsEnough
  CeilingOverrun
  PageIsNotBlank
PROPERTIES
  CanceledIsTerminal
  QuizCallsEnd
  TranscodingEnds
  PublishedGoesBack
CHECK_DEADLOCK FALSE
