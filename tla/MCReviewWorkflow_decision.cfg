\* Two reviewers decide at once.
CONSTANTS
    Companies = {}
    Requests = {r1, r2}
    Operations <- DecidingOperations
    EnforceAudience = TRUE
    CreatedAs = {"draft"}
    None = None
    MaxVersions = 1
    MaxReviews = 1
    MaxEdits = 0
    MaxAudience = 1
SPECIFICATION Spec
PROPERTIES
    DecisionIsFinal
CHECK_DEADLOCK FALSE
