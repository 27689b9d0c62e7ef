\* Two versions, one review and a changing audience, one request at a time.
CONSTANTS
    Companies = {c1}
    Requests = {r1}
    Operations <- AllOperations
    EnforceAudience = TRUE
    CreatedAs = {"draft", "pending_review", "approved", "active", "archived"}
    None = None
    MaxVersions = 2
    MaxReviews = 1
    MaxEdits = 0
    MaxAudience = 2
SPECIFICATION Spec
PROPERTIES
    PublishedToAudience
    PublishedIsImmutable
CHECK_DEADLOCK FALSE
