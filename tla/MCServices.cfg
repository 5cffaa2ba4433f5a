\* Tokens: two redemptions and two refreshes.  Plans: two clicks and a decline.  Events:
\* three of them, delivered three times.  Triage: two rules of one inbox and two
\* overlapping invocations.  Allowance: one action, a tool call and an automation, three
\* instants of one period and the next.  Brakes: a call and a row, limits that both hit,
\* four ticks, a day of two of them.  Each has one or two incidents.
\* Requests, clicks and deliveries end, so the system may stop.
SPECIFICATION Spec
CONSTANTS
    Redeems = {d1, d2}
    Refreshes = {r1, r2}
    Legacy = legacy
    Nothing = nothing
    MaxTokenFaults = 1
    Clicks = {k1, k2}
    Declines = {n1}
    MaxPlanFaults = 2
    Deliveries = {1, 2, 3}
    SecondOf <- Seconds
    Checkouts = {2}
    MaxStripeFaults = 2
    Invocations = {i1, i2}
    Rules = {ra, rb}
    Movers = {ra}
    MaxMail = 2
    MaxPerRun = 2
    MaxIncidents = 1
    Tools = {t1}
    Runs = {a1}
    Cap = 1
    Life = 1
    PeriodTurn = 2
    Horizon = 3
    MaxFaults = 2
    ToolSends = {f1}
    RowSends = {w1}
    Dispatchers = {x1, x2}
    DueAt <- AtOnce
    MessagesOf <- Batch
    ContentOf <- OneText
    RecipientsOf <- People
    NoContent = nocontent
    DAILY_SEND_LIMIT = 2
    FANOUT_LIMIT = 1
    REFUSAL_THRESHOLD = 2
    DAY = 2
    HOUR = 1
    BrakesHorizon = 4
    MaxBrakeFaults = 1
INVARIANTS TokensHold PlanHolds EventsAreHandled TriageHolds AllowanceHolds BrakesHold
PROPERTY PausesHold
CHECK_DEADLOCK FALSE
