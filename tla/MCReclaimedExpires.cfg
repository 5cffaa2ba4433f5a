SPECIFICATION Spec
CONSTANTS
  c1 = c1
  c2 = c2
  c3 = c3
  q1 = q1
  q2 = q2
  absent = absent
  none = none
  Calls = {c1, c2, c3}
  Requests = {q1}
  Outcomes <- AllOutcomes
  NoRecord = absent
  NoCall = none
  WINDOW = 2
  MaxTicks = 2
  MaxFaults = 0
CHECK_DEADLOCK FALSE
SYMMETRY Interchangeable
INVARIANTS RunsOnce
