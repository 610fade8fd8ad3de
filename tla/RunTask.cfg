\* The container of the command beside another one.
SPECIFICATION FairSpec
CONSTANTS
    Names = {"app", "sidecar"}
    Container = "app"
INVARIANTS
    ResultIsTheExitCode
    SuccessIsReported
    NothingLeftRunning
PROPERTIES
    RunReturns
CHECK_DEADLOCK FALSE
