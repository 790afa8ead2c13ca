SPECIFICATION FairSpec
CONSTANTS
    Account = {a1, a2}
    Loop = {l1, l2}
    Wake = {w1, w2}
    Interval = 2
    Lead = 1
    Lifetime = 3
    MinSpacing = 1
    Spacing = 1
    Backoff = {3}
    RetryAfter = {2}
    MaxLag = 1
    SlowLock = FALSE
    Nil = Nil
INVARIANTS TypeOK RecordAlive
PROPERTIES WakeNotLost DueIsAttempted StopEndsRefreshing
