SPECIFICATION FairSpec
CONSTANTS
  w1 = w1
  w2 = w2
  a1 = a1
  none = none
  Rows = {1, 2}
  Workers = {w1}
  Approvals = {a1}
  ApprovalOf <- DuplicateMarkers
  ScheduleOps = {}
  NoApproval = none
  NoRow = none
  MAX_DISPATCH_BATCH = 1
  STALE_SENDING = 1
  SCHEDULED_SEND_DEFER_WINDOW = 1
  MaxInvocation = 1
  MaxLead = 0
  MaxFaults = 1
PROPERTIES EventuallyResolved
