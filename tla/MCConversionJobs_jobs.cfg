\* One attachment, two workers: leases expire under running conversions, a reader retries, a worker dies.
CONSTANTS
    Attachments = {a1}
    Workers = {w1, w2}
    None = None
    MaxAttempts = 2
    MaxResets = 1
    MaxFaults = 1
SPECIFICATION FairSpec
INVARIANTS
    TypeOK
    LeaseNeverDuplicates
    CompletedMeansReadable
PROPERTIES
    OnlyForcedRunsClearForce
    JobsSettle
CHECK_DEADLOCK FALSE
