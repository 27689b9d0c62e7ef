\* One attachment, one worker, no fault: what becomes of a PDF export job.
CONSTANTS
    Attachments = {a1}
    Workers = {w1}
    None = None
    MaxAttempts = 2
    MaxResets = 0
    MaxFaults = 0
SPECIFICATION FairSpec
PROPERTIES
    PdfJobsSettle
CHECK_DEADLOCK FALSE
