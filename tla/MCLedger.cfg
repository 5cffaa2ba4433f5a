\* One key: three calls of two requests, the record does not expire.  One approval:
\* see Again.  Reminders: one snooze, with or without a reference that can be found
\* again, one follow-up, two sweepers, two calls and one mishap.
\* A settled key, a decided approval and an ended reminder have nothing left to do.
SPECIFICATION AllSpec
CONSTANTS
  c1 = c1
  c2 = c2
  c3 = c3
  q1 = q1
  q2 = q2
  r1 = r1
  r2 = r2
  now = now
  later = later
  k1 = k1
  k2 = k2
  absent = absent
  none = none
  Calls = {c1, c2, c3}
  Requests = {q1, q2}
  Outcomes <- AllOutcomes
  NoRecord = absent
  NoCall = none
  WINDOW = 2
  MaxTicks = 0
  MaxFaults = 2
  Snoozes = {s1}
  FollowUps = {f1}
  Sweepers = {w1, w2}
  Callers = {k1, k2}
  MaxMishaps = 1
CHECK_DEADLOCK FALSE
INVARIANTS RunsOnce OneAtATime LedgerIsTruth NotSentFreesKey ReplayIsOwn OneSession KnownWhileHidden
PROPERTIES KeySettles ApprovalIsServed RemindersEnd
