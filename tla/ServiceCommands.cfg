\* Any two of two rollouts and two ups on one service, with one load balancer or none.
SPECIFICATION Spec
CONSTANTS
    Rollouts = {r1, r2}
    Ups = {u1, u2}
    LB = {lb}
    Initial = initial
    None = none
INVARIANTS
    ServiceTypeOK
    RunsOnlyApproved
    InstalledAsTested
    NilMeansInstalled
CONSTRAINT Focus
SYMMETRY Symmetry
CHECK_DEADLOCK FALSE
