------------------------------ MODULE Rollout ------------------------------
(***************************************************************************)
(* One `cage rollout`: cage.RollOut (rollout.go), the executor             *)
(* (rollout/executor.go) and the task set (taskset/taskset.go) driving the *)
(* canaries of CanaryTask against one ECS service.                         *)
(*                                                                         *)
(* The main goroutine checks the service, makes the next task definition,  *)
(* starts a canary for each load balancer (or one simpleTask), waits for   *)
(* all of them in parallel goroutines, updates the service only if all     *)
(* passed, waits for it to be stable, and in a deferred function stops     *)
(* every canary, again in parallel.  The process may be killed at any      *)
(* time, and a panic in one of the goroutines takes it down.               *)
(***************************************************************************)
EXTENDS CanaryTask

CONSTANT Simple   \* the simpleTask of a service without load balancers

ASSUME RolloutAssumption ==
    /\ Simple \notin LB
    /\ Task = LB \cup {Simple}

VARIABLES
    phase,           \* program counter of the main goroutine
    input,           \* the --updateService flag and the loadBalancers of service.json
    canaries,        \* the tasks of the task set, {} while there is no set
    lastErr,         \* "nil" or "err": the error RollOut returns
    serviceUpdated,  \* executor.serviceUpdated
    service,         \* AWS: the service
    registered       \* AWS: the next task definition exists

rolloutVars == <<phase, input, canaries, lastErr, serviceUpdated, service, registered>>
vars == <<taskVars, rolloutVars>>

Phase == {"describe", "taskDefinition", "canaries", "start", "wait", "update", "stable",
          "cleanup", "stopping", "returned", "panicked", "killed"}

\* given: service.json has the key loadBalancers (a nil slice otherwise).
Input == [updateService : BOOLEAN, given : BOOLEAN, lbs : SUBSET LB]

\* The task definition is the one before the rollout or the one rolled out.  A
\* deployment is over, under way, or undone by the deployment circuit breaker.
Service == [status : {"ACTIVE", "INACTIVE"}, td : {"old", "new"}, lbs : SUBSET LB,
            deployment : {"steady", "rolling", "reverted"}]

Init ==
    /\ TaskInit
    /\ phase = "describe"
    /\ input \in {i \in Input : (i.given => i.updateService) /\ (~i.given => i.lbs = {})}
    /\ canaries = {}
    /\ lastErr = "nil"
    /\ serviceUpdated = FALSE
    /\ registered = FALSE
    /\ service \in {s \in Service : s.td = "old" /\ s.deployment = "steady"}

Running == phase \notin {"returned", "panicked", "killed"}

-----------------------------------------------------------------------------
(* rollout.go: before the executor *)

\* Go on, or return the error without a canary and with the service as it was.
ProceedOrReturn(next) ==
    \/ phase' = next /\ UNCHANGED lastErr
    \/ phase' = "returned" /\ lastErr' = "err"

\* DescribeServices: an error, no such service, a service that is not ACTIVE or
\* one on EC2 without --canaryInstanceArn end the rollout.
DescribeCurrentService ==
    /\ phase = "describe"
    /\ ProceedOrReturn("taskDefinition")
    /\ phase' = "taskDefinition" => service.status = "ACTIVE"
    /\ UNCHANGED <<taskVars, input, canaries, serviceUpdated, service, registered>>

\* RegisterTaskDefinition, whose reply may be lost, or DescribeTaskDefinition of
\* --taskDefinitionArn.
CreateNextTaskDefinition ==
    /\ phase = "taskDefinition"
    /\ ProceedOrReturn("canaries")
    /\ registered' \in {registered, TRUE}
    /\ phase' = "canaries" => registered'
    /\ UNCHANGED <<taskVars, input, canaries, serviceUpdated, service>>

-----------------------------------------------------------------------------
(* rollout/executor.go and taskset/taskset.go *)

\* NewSet: an albTask for each load balancer, a simpleTask if there is none.
CanariesFor(lbs) == IF lbs = {} THEN {Simple} ELSE lbs

\* startCanaryTasks: the set is made from service.json under --updateService and
\* from the service otherwise.  It runs before the defer statement, so that a
\* reply without the service (o.Services[0]) panics out of the process.
StartCanaryTasks ==
    /\ phase = "canaries"
    /\ \/ /\ input.updateService
          /\ canaries' = CanariesFor(input.lbs)
          /\ phase' = "start"
          /\ UNCHANGED lastErr
       \/ /\ ~input.updateService
          /\ canaries' = CanariesFor(service.lbs)
          /\ phase' = "start"
          /\ UNCHANGED lastErr
       \/ /\ ~input.updateService
          /\ phase' = "returned"
          /\ lastErr' = "err"
          /\ UNCHANGED canaries
       \/ /\ ~input.updateService
          /\ service.status = "INACTIVE"
          /\ phase' = "panicked"
          /\ UNCHANGED <<canaries, lastErr>>
    /\ UNCHANGED <<taskVars, input, serviceUpdated, service, registered>>

\* The first loop of Exec: the canaries are started one by one until one fails.
\* A panic in Start unwinds to the deferred function, which recovers it and
\* forgets it: lastErr stays nil.
ExecStart(t) ==
    /\ phase = "start"
    /\ t \in canaries
    /\ Start(t)
    /\ phase' = IF pc'[t] = "started" THEN "start" ELSE "cleanup"
    /\ lastErr' = IF pc'[t] = "startErr" THEN "err" ELSE lastErr
    /\ UNCHANGED <<input, canaries, serviceUpdated, service, registered>>

\* The second loop of Exec: a goroutine for each canary.
ExecWait ==
    /\ phase = "start"
    /\ \A t \in canaries : pc[t] = "started"
    /\ pc' = [t \in Task |-> IF t \in canaries THEN "running" ELSE pc[t]]
    /\ phase' = "wait"
    /\ UNCHANGED <<spc, taskArn, target, containers, rest, notHealthyCount, recentState,
                   awsVars, historyVars, input, canaries, lastErr, serviceUpdated, service, registered>>

\* Mutant of WaitsOver: the group is left at the first error.
WaitsOverAtFirstError ==
    \/ \E t \in canaries : pc[t] = "waitErr"
    \/ \A t \in canaries : pc[t] = "ok"
\* errgroup.Group.Wait: every goroutine has returned.
WaitsOver == \A t \in canaries : pc[t] \in {"ok", "waitErr"}

\* Mutant of ExecErr: only the failure of all canaries is one.
ExecErrIfAll == \A t \in canaries : pc[t] = "waitErr"
\* One of them returned an error.
ExecErr == \E t \in canaries : pc[t] = "waitErr"

\* The end of Exec.
ExecReturns ==
    /\ phase = "wait"
    /\ WaitsOver
    /\ phase' = IF ExecErr THEN "cleanup" ELSE "update"
    /\ lastErr' = IF ExecErr THEN "err" ELSE lastErr
    /\ UNCHANGED <<taskVars, input, canaries, serviceUpdated, service, registered>>

\* Mutant of NewLoadBalancers: --updateService does not pass the load balancers on.
NewLoadBalancersKept == service.lbs
\* The service's load balancers after the update: nil leaves them as they are.
NewLoadBalancers == IF input.updateService /\ input.given THEN input.lbs ELSE service.lbs

Updated == [service EXCEPT !.td = "new", !.lbs = NewLoadBalancers, !.deployment = "rolling"]

\* UpdateService: accepted, refused, or applied with its reply lost.
UpdateService ==
    /\ phase = "update"
    /\ \/ /\ service.status = "ACTIVE"
          /\ service' = Updated
          /\ serviceUpdated' = TRUE
          /\ phase' = "stable"
          /\ UNCHANGED lastErr
       \/ /\ service' = service \/ (service.status = "ACTIVE" /\ service' = Updated)
          /\ phase' = "cleanup"
          /\ lastErr' = "err"
          /\ UNCHANGED serviceUpdated
    /\ UNCHANGED <<taskVars, input, canaries, registered>>

\* Mutant of Stable: the waiter is satisfied with an ACTIVE service.
StableIfActive == service.status = "ACTIVE"
\* What ServicesStableWaiter waits for: one deployment, all of its tasks running.
Stable == service.status = "ACTIVE" /\ service.deployment # "rolling"

WaitServiceStable ==
    /\ phase = "stable"
    /\ \/ Stable /\ UNCHANGED lastErr
       \/ lastErr' = "err"
    /\ phase' = "cleanup"
    /\ UNCHANGED <<taskVars, input, canaries, serviceUpdated, service, registered>>

\* Mutant of ToStop: Cleanup leaves out the canaries whose Wait failed.
ToStopHealthy == {t \in canaries : pc[t] # "waitErr"}
\* The canaries Cleanup stops: all of the set.
ToStop == canaries

\* The deferred function: Cleanup runs Stop of every canary in a goroutine.
Cleanup ==
    /\ phase = "cleanup"
    /\ spc' = [t \in Task |-> IF t \in ToStop THEN StopNext(t) ELSE spc[t]]
    /\ phase' = "stopping"
    /\ UNCHANGED <<waitVars, awsVars, historyVars, input, canaries, lastErr, serviceUpdated,
                   service, registered>>

\* Mutant of CleanupErr: the error of Cleanup is dropped.
CleanupErrDropped == FALSE
\* Cleanup returned an error, which replaces the one of RollOut.
CleanupErr == \E t \in ToStop : spc[t] = "err"

CleanupReturns ==
    /\ phase = "stopping"
    /\ \A t \in ToStop : spc[t] \in {"ok", "err"}
    /\ phase' = "returned"
    /\ lastErr' = IF CleanupErr THEN "err" ELSE lastErr
    /\ UNCHANGED <<taskVars, input, canaries, serviceUpdated, service, registered>>

-----------------------------------------------------------------------------
(* The goroutines of the canaries *)

CanaryStep(t) ==
    /\ Running
    /\ WaitStep(t) \/ StopStep(t)
    /\ UNCHANGED rolloutVars

\* errgroup does not recover a panic: the process dies without its deferred
\* functions.
GoroutinePanics ==
    /\ Running
    /\ \E t \in Task : pc[t] = "waitPanic"
    /\ phase' = "panicked"
    /\ UNCHANGED <<taskVars, input, canaries, lastErr, serviceUpdated, service, registered>>

-----------------------------------------------------------------------------
(* The world outside *)

Killed ==
    /\ Running
    /\ phase' = "killed"
    /\ UNCHANGED <<taskVars, input, canaries, lastErr, serviceUpdated, service, registered>>

\* The deployment ends, or is undone by the circuit breaker, or the service is
\* deleted.
ServiceStep ==
    /\ \/ service.deployment = "rolling" /\ service' = [service EXCEPT !.deployment = "steady"]
       \/ /\ service.deployment = "rolling"
          /\ service' = [service EXCEPT !.td = "old", !.deployment = "reverted"]
       \/ service.status = "ACTIVE" /\ service' = [service EXCEPT !.status = "INACTIVE"]
    /\ UNCHANGED <<taskVars, phase, input, canaries, lastErr, serviceUpdated, registered>>

World ==
    \/ \E t \in Task : AwsStep(t) /\ UNCHANGED rolloutVars
    \/ ServiceStep
    \/ Killed

-----------------------------------------------------------------------------

MainStep ==
    \/ DescribeCurrentService
    \/ CreateNextTaskDefinition
    \/ StartCanaryTasks
    \/ \E t \in Task : ExecStart(t)
    \/ ExecWait
    \/ ExecReturns
    \/ UpdateService
    \/ WaitServiceStable
    \/ Cleanup
    \/ CleanupReturns

Over == ~Running /\ UNCHANGED vars

Next ==
    \/ MainStep
    \/ \E t \in Task : CanaryStep(t)
    \/ GoroutinePanics
    \/ World
    \/ Over

\* The main goroutine and the goroutine of each canary go on when they can; see
\* TaskFairness for what this says about a target that stays "initial".
Fairness ==
    /\ WF_vars(MainStep)
    /\ \A t \in Task : WF_vars(CanaryStep(t))
    /\ WF_vars(GoroutinePanics)

Spec == Init /\ [][Next]_vars /\ Fairness

-----------------------------------------------------------------------------
(* Properties *)

\* Every variable stays in its range.
TypeOK ==
    /\ TaskTypeOK
    /\ phase \in Phase
    /\ input \in Input
    /\ canaries \subseteq Task
    /\ lastErr \in {"nil", "err"}
    /\ serviceUpdated \in BOOLEAN
    /\ service \in Service
    /\ registered \in BOOLEAN

\* The service runs the new task definition only if there was a canary and every
\* one of them had given all the evidence that it is healthy: no failure, panic,
\* kill or lost reply on the way changes that (executor.go:56-78).
CanaryGate ==
    service.td = "new" =>
        /\ canaries # {}
        /\ \A t \in canaries : Proof(t) \subseteq seen[t]

\* A rollout that returns nil and did not swallow a panic has updated the service
\* and has seen the deployment come to its end (executor.go:96).
NilMeansDone ==
    phase = "returned" /\ lastErr = "nil" /\ (\A t \in Task : pc[t] # "startPanic") =>
        /\ serviceUpdated
        /\ service.deployment = "reverted" \/ service = [Updated EXCEPT
               !.deployment = "steady", !.status = service.status]

\* A rollout that returns leaves a canary behind only with an error, and only one
\* whose launch or stop failed; it does so too after a swallowed panic and after
\* the failure of another canary (executor.go:41-50).
LeftoverIsReported ==
    phase = "returned" =>
        \A t \in Task : ecs[t] \notin {"none", "stopped"} =>
            /\ lastErr = "err"
            /\ failed[t] \cap {"RunTask", "StopTask", "TasksStoppedWaiter"} # {}

\* No canary gets (back) into its target group once its Stop has begun, because
\* no goroutine of Exec is left when Cleanup starts (taskset.go:51-68).
NoLateRegistration ==
    [][\A t \in Task : tg[t] # "registered" /\ tg'[t] = "registered" => spc[t] = "none"]_vars

\* A rollout as a canary release: a canary is approved when its Wait has returned
\* nil, live while ECS has a task of it, and the outcome is what RollOut returned.
Approved == {t \in canaries : pc[t] = "ok"}
Live == {t \in Task : ecs[t] \notin {"none", "stopped"}}
Switched == IF service.deployment = "reverted" THEN "reverted" ELSE service.td
Outcome ==
    CASE Running -> "open"
      [] phase \in {"panicked", "killed"} -> "dead"
      [] phase = "returned" /\ lastErr = "err" -> "failed"
      [] phase = "returned" /\ lastErr = "nil" /\ serviceUpdated -> "done"
      [] OTHER -> "silent"

Release == INSTANCE CanaryRelease
    WITH trial <- canaries, approved <- Approved, live <- Live, td <- Switched,
         outcome <- Outcome

\* Every step of a rollout is a step of a canary release or changes nothing it
\* speaks of: no canary is launched once one has been judged, the service is
\* switched once and by an approved trial, and a nil error means no canary is left.
ReleaseSpec == Release!Spec

\* A rollout as the only command on the service, named after the task definition
\* it makes: its canaries are healthy when every one has returned nil.
Step == CASE phase \in {"start", "wait"} -> "exec"
          [] phase \in {"cleanup", "stopping"} -> "cleanup"
          [] phase \in {"panicked", "killed"} -> "killed"
          [] OTHER -> phase
Healthy == canaries # {} /\ Approved = canaries
Swallowed == \E t \in Task : pc[t] = "startPanic"
Written == service.td = "new" \/ service.deployment = "reverted"
Before == IF service.deployment = "rolling" THEN "old" ELSE service.td

Commands == INSTANCE ServiceCommands
    WITH Rollouts <- {"new"}, Ups <- {}, Initial <- "old", None <- "none",
         pc <- [c \in {"new"} |-> Step],
         input <- [c \in {"new"} |-> input],
         td <- [c \in {"new"} |-> IF registered THEN "new" ELSE "none"],
         canaryLbs <- [c \in {"new"} |-> canaries \ {Simple}],
         healthy <- {c \in {"new"} : Healthy},
         swallowed <- {c \in {"new"} : Swallowed},
         lastErr <- [c \in {"new"} |-> lastErr],
         registered <- {c \in {"new"} : registered},
         service <- [status |-> service.status, td |-> service.td, before |-> Before,
                     lbs |-> service.lbs, deployment |-> service.deployment],
         log <- IF Written THEN <<"new">> ELSE <<>>,
         readAt <- [c \in {"new"} |-> 0]

\* Every step of a rollout, with all of its canaries' calls, is a step of a rollout
\* of ServiceCommands or changes nothing that other commands could notice: what
\* ServiceCommands says of many commands rests on the calls that Rollout makes.
CommandSpec == Commands!Spec

\* RollOut returns or the process dies.
Terminates == <>(~Running)

\* A canary that was started is stopped, or the process dies first.
EveryCanaryIsStopped ==
    \A t \in Task : t \in taskArn ~> spc[t] \in {"ok", "err"} \/ phase \in {"panicked", "killed"}

=============================================================================
