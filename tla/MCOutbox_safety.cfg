\* Two workers, one operator, a crash, two transactions racing for one key.
CONSTANTS
    e1 = e1
    e2 = e2
    t1 = t1
    t2 = t2
    t3 = t3
    Events = {e1, e2}
    Transactions = {t1, t2, t3}
    KeyOf <- MCSharedKey
    Workers = {w1, w2}
    Operators = {o1}
    None = None
    MaxAttempts = 2
    BatchSize = 2
    SharedDatabase = TRUE
    MaxRequeues = 1
    MaxCrashes = 1
SPECIFICATION Spec
SYMMETRY MCSymmetry
INVARIANTS
    TypeOK
    ClaimExclusive
    DispatchedWasDelivered
    AttemptBudget
    TransactionalOutbox
    RequeueIsAnnounced
    Bookkeeping
PROPERTIES
    DispatchedIsFinal
    AtMostOnce
CHECK_DEADLOCK FALSE
