--------------------------- MODULE CanaryRelease ---------------------------
(***************************************************************************)
(* What a canary release promises, whatever calls it is made of: a trial   *)
(* of some canaries, each approved or not, and a service that is switched  *)
(* to the new task definition only when all of the trial is approved.      *)
(* Rollout is shown to implement this specification.                       *)
(***************************************************************************)
CONSTANT Task     \* the canaries a trial may consist of

VARIABLES
    trial,     \* the canaries of this release, {} until they are chosen
    approved,  \* the ones found healthy
    live,      \* the canaries whose task exists
    td,        \* the service: "old", "new", or "reverted" by its deployment
    outcome    \* "open" while it runs, then how it ended

releaseVars == <<trial, approved, live, td, outcome>>

Init ==
    /\ trial = {}
    /\ approved = {}
    /\ live = {}
    /\ td = "old"
    /\ outcome = "open"

\* The canaries are chosen once; there is at least one.
Enlist ==
    /\ outcome = "open"
    /\ trial = {}
    /\ trial' \in (SUBSET Task) \ {{}}
    /\ UNCHANGED <<approved, live, td, outcome>>

\* Canaries are launched before any of them is judged.
Launch(t) ==
    /\ outcome = "open"
    /\ approved = {}
    /\ t \in trial \ live
    /\ live' = live \cup {t}
    /\ UNCHANGED <<trial, approved, td, outcome>>

Approve(t) ==
    /\ outcome = "open"
    /\ td = "old"
    /\ t \in trial \ approved
    /\ approved' = approved \cup {t}
    /\ UNCHANGED <<trial, live, td, outcome>>

\* The gate: one canary that is not approved keeps the service as it is.
Switch ==
    /\ outcome = "open"
    /\ td = "old"
    /\ trial # {}
    /\ approved = trial
    /\ td' = "new"
    /\ UNCHANGED <<trial, approved, live, outcome>>

\* The canary's task ends, or the service's deployment is undone, at any time.
Vanish(t) ==
    /\ t \in live
    /\ live' = live \ {t}
    /\ UNCHANGED <<trial, approved, td, outcome>>

Revert ==
    /\ td = "new"
    /\ td' = "reverted"
    /\ UNCHANGED <<trial, approved, live, outcome>>

\* "done" promises a switched service and "silent" an untouched one, both with no
\* canary left; a release that failed or died promises neither.
Finish ==
    /\ outcome = "open"
    /\ \/ outcome' = "done" /\ td # "old" /\ live = {}
       \/ outcome' = "silent" /\ td = "old" /\ live = {}
       \/ outcome' \in {"failed", "dead"}
    /\ UNCHANGED <<trial, approved, live, td>>

Next ==
    \/ Enlist
    \/ \E t \in Task : Launch(t) \/ Approve(t) \/ Vanish(t)
    \/ Switch
    \/ Revert
    \/ Finish

Spec == Init /\ [][Next]_releaseVars
=============================================================================
