SPECIFICATION Spec
CONSTANTS
  r1 = r1
  r2 = r2
  c1 = c1
  c2 = c2
  now = now
  later = later
  none = none
  Reviewers = {r1, r2}
  Cards = {c1, c2}
  SendTimes = {now, later}
  NoMarker = none
  MaxLostInserts = 1
  MaxFaults = 0
CHECK_DEADLOCK FALSE
INVARIANTS SentAsReviewed
