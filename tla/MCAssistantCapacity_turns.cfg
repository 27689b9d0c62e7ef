\* Three turns compete for two chat permits, and four calls of two of them for one embedding permit.
CONSTANTS
    t1 = t1
    t2 = t2
    c1 = c1
    c2 = c2
    c3 = c3
    c4 = c4
    Turns = {t1, t2, t3}
    Calls = {c1, c2, c3, c4}
    Caller <- MCCaller
    MaxConcurrent <- MCMaxConcurrent
    MaxQueue <- MCMaxQueue
SPECIFICATION FairSpec
INVARIANTS
    TypeOK
    SlotsAccounted
PROPERTIES
    EveryTurnEnds
CHECK_DEADLOCK FALSE
