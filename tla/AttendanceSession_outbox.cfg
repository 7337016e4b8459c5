\* finalizeSession on the pool tier against the documentation's outbox rule.
SPECIFICATION AttendanceSpec
CONSTANTS
  AttendanceCalls = {c1, c2}
  Learners = {u1, u2}
  MaxSessions = 1
  AttendanceTiers = {"pool"}
INVARIANT FlaggedWithStatus
CHECK_DEADLOCK FALSE
