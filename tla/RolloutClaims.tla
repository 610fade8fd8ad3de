--------------------------- MODULE RolloutClaims ---------------------------
(***************************************************************************)
(* What the messages and tests of the repository say of a rollout and the  *)
(* code of rollout/ and task/ does not do; Rollout states what holds.      *)
(***************************************************************************)
EXTENDS Rollout

\* rollout.go:28 reports "service roll out has completed successfully" for every
\* nil error, and README.md:82 promises a new task definition for it; a panic that
\* the deferred function of executor.go:43 swallows returns nil as well.
NilMeansUpdated == phase = "returned" /\ lastErr = "nil" => serviceUpdated
=============================================================================
