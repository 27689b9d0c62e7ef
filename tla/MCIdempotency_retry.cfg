\* Two senders of one request and one of another share a key; a run may fail, die or run late; the row may be purged.
CONSTANTS
    c1 = c1
    c2 = c2
    c3 = c3
    p1 = p1
    p2 = p2
    Clients = {c1, c2, c3}
    Payloads = {p1, p2}
    PayloadOf <- MCPayloadOf
    None = None
    MaxFaults = 1
    MaxPurges = 1
SPECIFICATION FairSpec
INVARIANTS
    TypeOK
    AtMostOneEffect
    ReplayIsGenuine
PROPERTIES
    EveryClientAnswered
CHECK_DEADLOCK FALSE
