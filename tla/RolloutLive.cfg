\* Liveness of a rollout with one canary, with a load balancer or without, with
\* the periods and the limit of the code.
SPECIFICATION Spec
CONSTANTS
    LB = {lb}
    Simple = simple
    Task = {lb, simple}
    HealthChecked = {"app", "proxy"}
    TaskHealthCheckWait = 40
    CanaryTaskIdleWait = 20
    NotHealthyLimit = 5
PROPERTIES
    Terminates
    EveryCanaryIsStopped
