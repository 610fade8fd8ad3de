\* Safety of a rollout with up to two canaries, and that it is a canary release:
\* one container with a health check, one round of 10 seconds for each loop, and
\* a target that is given up at its first bad reply.
SPECIFICATION Spec
CONSTANTS
    LB = {lb1, lb2}
    Simple = simple
    Task = {lb1, lb2, simple}
    HealthChecked = {"app"}
    TaskHealthCheckWait = 10
    CanaryTaskIdleWait = 10
    NotHealthyLimit = 1
CONSTRAINT Focus
SYMMETRY Symmetry
INVARIANTS
    TypeOK
    CanaryGate
    NilMeansDone
    LeftoverIsReported
PROPERTIES
    NoLateRegistration
    ReleaseSpec
    CommandSpec
