\* Two requests that overlap at will.
CONSTANTS
    Companies = {c1}
    Requests = {r1, r2}
    Operations <- RacingOperations
    EnforceAudience = FALSE
    CreatedAs = {"draft", "pending_review", "approved", "active", "archived"}
    None = None
    MaxVersions = 2
    MaxReviews = 2
    MaxEdits = 0
    MaxAudience = 1
SPECIFICATION Spec
SYMMETRY MCSymmetry
INVARIANTS
    ReviewedVersionStays
PROPERTIES
    ApprovalTakesPending
CHECK_DEADLOCK FALSE
