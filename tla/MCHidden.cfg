\* One snooze whose move is reported as failed although it happened.
SPECIFICATION ReminderSpec
CONSTANTS
    Snoozes = {s1}
    FollowUps = {f1}
    Sweepers = {w1}
    Callers = {c1}
    MaxMishaps = 1
INVARIANTS NeverHidden
CHECK_DEADLOCK FALSE
