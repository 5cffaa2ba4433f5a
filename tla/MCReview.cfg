\* The approval: two reviewers, two MCP calls.  The key: three calls of two requests.  The
\* watch: three messages, two to a page of the history, two passes that begin again and
\* again, two attempts.  One or two incidents each.
\* A decided approval and a settled key have nothing left to do.
SPECIFICATION AllSpec
CONSTANTS
  r1 = r1
  r2 = r2
  c1 = c1
  c2 = c2
  now = now
  later = later
  none = none
  k1 = k1
  k2 = k2
  k3 = k3
  q1 = q1
  q2 = q2
  absent = absent
  Reviewers = {r1, r2}
  Cards = {c1, c2}
  SendTimes = {now, later}
  NoMarker = none
  MaxLostInserts = 0
  MaxFaults = 2
  Passes = {p1, p2}
  MaxNewMail = 3
  HISTORY_PAGE = 2
  MAX_ATTEMPTS = 2
  SEND_BATCH = 1
  MaxWatchFaults = 1
  Nobody = nobody
CHECK_DEADLOCK FALSE
SYMMETRY Interchangeable
INVARIANTS SentAsReviewed NoLostEdit RefusedIsUnsent LateNeverSent RunsOnce WatchHolds
PROPERTIES DecisionStays KeepsPromise ServesKey
