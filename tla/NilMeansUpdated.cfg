\* One load balancer; expected to be violated.
SPECIFICATION Spec
CONSTANTS
    LB = {lb}
    Simple = simple
    Task = {lb, simple}
    HealthChecked = {"app"}
    TaskHealthCheckWait = 10
    CanaryTaskIdleWait = 10
    NotHealthyLimit = 2
INVARIANTS
    NilMeansUpdated
