\* An albTask beside a simpleTask, with the periods and the limit of the code:
\* 40 seconds for the health checks are rounds of 15, 15 and 10.
SPECIFICATION TaskSpec
CONSTANTS
    Task = {lb, simple}
    LB = {lb}
    HealthChecked = {"app", "proxy"}
    TaskHealthCheckWait = 40
    CanaryTaskIdleWait = 20
    NotHealthyLimit = 5
INVARIANTS
    TaskTypeOK
    WaitNilMeansHealthy
    LeftTargetIsExplained
PROPERTIES
    DrainBeforeStop
