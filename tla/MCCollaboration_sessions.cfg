\* Browsers on a document with a connection limit; the backend may refuse the
\* server's tokens, fail, time out or be reset.
SPECIFICATION FairSpec
CONSTANTS
    Clients = {c1, c2, c3}
    Edits = {e1}
    MaxConnections = 2
    MaxSaves = 2
    TokenAccepted <- MCBoth
    Disturbances = TRUE
INVARIANTS TypeOK CapacityHeld TokensFollowConnections
PROPERTY EditsSettle
