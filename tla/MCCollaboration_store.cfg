\* The state endpoints as they are: they take access tokens only.
SPECIFICATION FairSpec
CONSTANTS
    Clients = {c1}
    Edits = {e1}
    MaxConnections = 1
    MaxSaves = 1
    TokenAccepted <- MCNever
    Disturbances = FALSE
PROPERTY EditsReachBackend
