\* No crash: every event is delivered or given up. One row per poll, so that a late row could starve.
CONSTANTS
    e1 = e1
    e2 = e2
    t1 = t1
    t2 = t2
    t3 = t3
    Events = {e1, e2}
    Transactions = {t1, t2}
    KeyOf <- MCOwnKeys
    Workers = {w1, w2}
    Operators = {o1}
    None = None
    MaxAttempts = 2
    BatchSize = 1
    SharedDatabase = TRUE
    MaxRequeues = 1
    MaxCrashes = 0
SPECIFICATION FairSpec
PROPERTIES
    Settles
    DeliveredOrParked
CHECK_DEADLOCK FALSE
