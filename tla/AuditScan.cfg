\* Two images, in ECR or not.
SPECIFICATION FairSpec
CONSTANTS
    Image = {"app", "proxy"}
INVARIANTS
    FinishedScanIsReturned
    OnlyScansAreReported
PROPERTIES
    CancelledCommandEnds
    GoroutineEnds
CHECK_DEADLOCK FALSE
