----------------------------- MODULE MC_Rollout -----------------------------
(* Bounds for model checking Rollout. *)
EXTENDS Rollout, TLC

\* Load balancers are interchangeable: no definition singles one out.
Symmetry == Permutations(LB)

\* The safety run leaves out what AWS does once the process is gone, and, under
\* --updateService, starts from services with one load balancer only: the
\* canaries come from service.json then.
Focus ==
    /\ Running
    /\ phase = "describe" /\ input.updateService => Cardinality(service.lbs) = 1
=============================================================================
