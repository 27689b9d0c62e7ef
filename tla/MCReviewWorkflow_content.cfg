\* Two versions and three reviews of an internal document, one request at a time.
CONSTANTS
    Companies = {}
    Requests = {r1}
    Operations <- ConsistentOperations
    EnforceAudience = TRUE
    CreatedAs = {"draft"}
    None = None
    MaxVersions = 2
    MaxReviews = 3
    MaxEdits = 1
    MaxAudience = 1
SPECIFICATION Spec
INVARIANTS
    TypeOK
    OnePendingReview
    StatusFollowsReviews
    PublicIffPublished
PROPERTIES
    DecisionIsFinal
    ApprovedAsSubmitted
    PublishedAsApproved
    PublishedIsImmutable
    PublicationIsKept
CHECK_DEADLOCK FALSE
