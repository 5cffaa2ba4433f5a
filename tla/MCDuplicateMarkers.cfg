SPECIFICATION Spec
CONSTANTS
  w1 = w1
  w2 = w2
  a1 = a1
  none = none
  Rows = {1, 2}
  Workers = {w1, w2}
  Approvals = {a1}
  ApprovalOf <- DuplicateMarkers
  ScheduleOps = {a1}
  NoApproval = none
  NoRow = none
  MAX_DISPATCH_BATCH = 1
  STALE_SENDING = 0
  SCHEDULED_SEND_DEFER_WINDOW = 1
  MaxInvocation = 0
  MaxLead = 0
  MaxFaults = 1
SYMMETRY Interchangeable
INVARIANTS ApprovalSpentOnce LedgerIsTruth
PROPERTIES ServesApprovals
