-------------------------- MODULE ServiceCommands --------------------------
(***************************************************************************)
(* Several `cage rollout` and `cage up` at once on one ECS service:        *)
(* cage.RollOut with its executor (rollout.go, rollout/executor.go) and    *)
(* cage.Up (up.go), at the level of the calls that read or change the      *)
(* service.  A rollout's canaries are one step here; Rollout has them in   *)
(* detail and implements this module with a single rollout.                *)
(*                                                                         *)
(* Nothing orders the commands: each reads the service, works for minutes  *)
(* and then writes it, whatever has happened to it meanwhile.              *)
(***************************************************************************)
EXTENDS Integers, FiniteSets, Sequences

CONSTANTS
    Rollouts,   \* the invocations of `cage rollout`
    Ups,        \* the invocations of `cage up`
    LB,         \* load balancers
    Initial,    \* the task definition from before all of them
    None        \* no task definition yet

Command == Rollouts \cup Ups

ASSUME ServiceAssumption ==
    /\ Rollouts \cap Ups = {}
    /\ {Initial, None} \cap Command = {}
    /\ Initial # None

\* A task definition is known by the command that registered it.
TaskDefinition == Command \cup {Initial}

VARIABLES
    pc,          \* the next call of each command
    input,       \* --updateService and the loadBalancers of service.json
    td,          \* the task definition each command registered or was given
    canaryLbs,   \* the load balancers the canaries of each rollout stand in
    healthy,     \* the rollouts whose canaries have all proved healthy
    swallowed,   \* the rollouts whose deferred function recovered a panic
    lastErr,     \* the error each command returns
    registered,  \* AWS: the task definitions registered by the commands
    service,     \* AWS: the service
    log,         \* history: the commands that wrote the service, in order
    readAt       \* history: the length of log when a rollout read the service

vars == <<pc, input, td, canaryLbs, healthy, swallowed, lastErr, registered, service, log, readAt>>
canaryVars == <<canaryLbs, healthy, swallowed, readAt>>
awsVars == <<registered, service, log>>

Pc == {"describe", "taskDefinition", "canaries", "exec", "update", "check", "create",
       "stable", "cleanup", "returned", "killed"}

\* given: service.json has the key loadBalancers (a nil slice otherwise).
Input == [updateService : BOOLEAN, given : BOOLEAN, lbs : SUBSET LB]

\* before: the task definition a rollback of the deployment goes back to.
Service == [status : {"ACTIVE", "DRAINING", "INACTIVE"}, td : TaskDefinition,
            before : TaskDefinition, lbs : SUBSET LB,
            deployment : {"steady", "rolling", "reverted"}]

\* What a command may be called with: a rollout looks into service.json for load
\* balancers only under --updateService, and an up always.
Called(i, c) ==
    /\ c \in Rollouts => (i.given => i.updateService)
    /\ c \in Ups => i.given /\ ~i.updateService
    /\ ~i.given => i.lbs = {}

Init ==
    /\ pc = [c \in Command |-> IF c \in Rollouts THEN "describe" ELSE "taskDefinition"]
    /\ input \in {i \in [Command -> Input] : \A c \in Command : Called(i[c], c)}
    /\ td = [c \in Command |-> None]
    /\ canaryLbs = [c \in Command |-> {}]
    /\ healthy = {}
    /\ swallowed = {}
    /\ lastErr = [c \in Command |-> "nil"]
    /\ registered = {}
    /\ service \in {s \in Service :
           s.td = Initial /\ s.before = Initial /\ s.deployment = "steady"}
    /\ log = <<>>
    /\ readAt = [c \in Command |-> 0]

Goto(c, next) == pc' = [pc EXCEPT ![c] = next]
Fails(c) == lastErr' = [lastErr EXCEPT ![c] = "err"]

\* An error that the command returns at once.
ReturnErr(c) == Goto(c, "returned") /\ Fails(c)
\* Success of a call that decides nothing else.
GoOn(c, next) == Goto(c, next) /\ UNCHANGED lastErr

-----------------------------------------------------------------------------
(* Calls of both commands *)

\* Mutant of CreateNextTaskDefinition: a failed call is only logged.
CreateNextTaskDefinitionLogged(c) ==
    /\ pc[c] = "taskDefinition"
    /\ \/ registered' = registered \cup {c} /\ td' = [td EXCEPT ![c] = c]
       \/ UNCHANGED <<registered, td>>
    /\ GoOn(c, IF c \in Rollouts THEN "canaries" ELSE "check")
    /\ UNCHANGED <<input, canaryVars, service, log>>

\* RegisterTaskDefinition (whose reply may be lost), or DescribeTaskDefinition of
\* the one that --taskDefinitionArn names.  An up does this before it looks
\* whether the service exists.
CreateNextTaskDefinition(c) ==
    /\ pc[c] = "taskDefinition"
    /\ \/ /\ registered' = registered \cup {c}
          /\ td' = [td EXCEPT ![c] = c]
          /\ GoOn(c, IF c \in Rollouts THEN "canaries" ELSE "check")
       \/ /\ \E arn \in registered \cup {Initial} : td' = [td EXCEPT ![c] = arn]
          /\ GoOn(c, IF c \in Rollouts THEN "canaries" ELSE "check")
          /\ UNCHANGED registered
       \/ /\ \/ registered' = registered \cup {c} /\ td' = [td EXCEPT ![c] = c]
             \/ UNCHANGED <<registered, td>>
          /\ ReturnErr(c)
    /\ UNCHANGED <<input, canaryVars, service, log>>

\* What ServicesStableWaiter waits for: one deployment, all of its tasks running.
Stable == service.status = "ACTIVE" /\ service.deployment # "rolling"

\* A rollout goes on to its deferred Cleanup, an up returns.  The waiter asks for
\* the service, not for the deployment of this command.
WaitServiceStable(c) ==
    /\ pc[c] = "stable"
    /\ \/ Stable /\ UNCHANGED lastErr
       \/ Fails(c)
    /\ Goto(c, IF c \in Rollouts THEN "cleanup" ELSE "returned")
    /\ UNCHANGED <<input, td, canaryVars, awsVars>>

-----------------------------------------------------------------------------
(* cage rollout *)

DescribeCurrentService(r) ==
    /\ pc[r] = "describe"
    /\ \/ service.status = "ACTIVE" /\ GoOn(r, "taskDefinition")
       \/ ReturnErr(r)
    /\ UNCHANGED <<input, td, canaryVars, awsVars>>

\* startCanaryTasks reads the service again, minutes after the first time, unless
\* service.json replaces it.
StartCanaryTasks(r) ==
    /\ pc[r] = "canaries"
    /\ \/ /\ canaryLbs' = [canaryLbs EXCEPT ![r] =
                 IF input[r].updateService THEN input[r].lbs ELSE service.lbs]
          /\ readAt' = [readAt EXCEPT ![r] = Len(log)]
          /\ GoOn(r, "exec")
       \/ /\ ~input[r].updateService
          /\ ReturnErr(r)
          /\ UNCHANGED <<canaryLbs, readAt>>
    /\ UNCHANGED <<input, td, healthy, swallowed, awsVars>>

\* The last of the canaries has given all the evidence that it is healthy: Exec has
\* started all of them and each Wait has returned nil.
CanariesProve(r) ==
    /\ pc[r] = "exec"
    /\ r \notin healthy
    /\ healthy' = healthy \cup {r}
    /\ UNCHANGED <<pc, input, td, canaryLbs, swallowed, lastErr, awsVars, readAt>>

\* Mutant of MayUpdate: the service is updated whatever the canaries did.
MayUpdateAlways(r) == TRUE
\* Only canaries that all passed let the rollout go on to the update.
MayUpdate(r) == r \in healthy

\* Exec returns: to the update, with the error of a canary that was not started or
\* did not pass, or in a panic of Start, which the deferred function recovers
\* without an error.
Exec(r) ==
    /\ pc[r] = "exec"
    /\ \/ MayUpdate(r) /\ GoOn(r, "update") /\ UNCHANGED swallowed
       \/ /\ r \notin healthy
          /\ Goto(r, "cleanup")
          /\ \/ Fails(r) /\ UNCHANGED swallowed
             \/ swallowed' = swallowed \cup {r} /\ UNCHANGED lastErr
    /\ UNCHANGED <<input, td, canaryLbs, healthy, awsVars, readAt>>

\* Mutant of NewLoadBalancers: --updateService does not pass the load balancers on.
NewLoadBalancersKept(r) == service.lbs
\* Without --updateService, or with a nil list, the service keeps its own.
NewLoadBalancers(r) ==
    IF input[r].updateService /\ input[r].given THEN input[r].lbs ELSE service.lbs

\* Mutant of Updated: --updateService updates the configuration only.
UpdatedConfigOnly(r) ==
    [service EXCEPT !.td = IF input[r].updateService THEN service.td ELSE td[r],
         !.lbs = NewLoadBalancers(r), !.deployment = "rolling",
         !.before = IF service.deployment = "rolling" THEN service.before ELSE service.td]

\* A rollback goes back to the deployment before this one, or to the one before
\* that if that was not over.
Updated(r) ==
    [service EXCEPT !.td = td[r], !.lbs = NewLoadBalancers(r), !.deployment = "rolling",
         !.before = IF service.deployment = "rolling" THEN service.before ELSE service.td]

\* The call c makes to the service has this effect.
Writes(c, s) == service' = s /\ log' = Append(log, c)
NoWrite == UNCHANGED <<service, log>>

\* UpdateService: accepted, refused, or applied with its reply lost.
UpdateService(r) ==
    /\ pc[r] = "update"
    /\ \/ service.status = "ACTIVE" /\ Writes(r, Updated(r)) /\ GoOn(r, "stable")
       \/ /\ NoWrite \/ (service.status = "ACTIVE" /\ Writes(r, Updated(r)))
          /\ Fails(r)
          /\ Goto(r, "cleanup")
    /\ UNCHANGED <<input, td, canaryVars, registered>>

\* The deferred Cleanup, which may add an error.
Cleanup(r) ==
    /\ pc[r] = "cleanup"
    /\ Goto(r, "returned")
    /\ UNCHANGED lastErr \/ Fails(r)
    /\ UNCHANGED <<input, td, canaryVars, awsVars>>

-----------------------------------------------------------------------------
(* cage up *)

\* DescribeServices: an error, or a service that exists and is not INACTIVE, end
\* the command; the task definition stays registered.
CheckNotExists(u) ==
    /\ pc[u] = "check"
    /\ \/ service.status = "INACTIVE" /\ GoOn(u, "create")
       \/ ReturnErr(u)
    /\ UNCHANGED <<input, td, canaryVars, awsVars>>

Created(u) == [status |-> "ACTIVE", td |-> td[u], before |-> td[u], lbs |-> input[u].lbs,
               deployment |-> "rolling"]

\* CreateService: ECS refuses the name of a service that is not INACTIVE, such as
\* one that another up has created since the check.
CreateService(u) ==
    /\ pc[u] = "create"
    /\ \/ service.status = "INACTIVE" /\ Writes(u, Created(u)) /\ GoOn(u, "stable")
       \/ /\ NoWrite \/ (service.status = "INACTIVE" /\ Writes(u, Created(u)))
          /\ ReturnErr(u)
    /\ UNCHANGED <<input, td, canaryVars, registered>>

-----------------------------------------------------------------------------
(* The world outside *)

\* The process dies by a signal or a panic.
Killed(c) ==
    /\ pc[c] # "returned"
    /\ Goto(c, "killed")
    /\ UNCHANGED <<input, td, canaryVars, lastErr, awsVars>>

\* The deployment ends, or is undone by the circuit breaker; the service is
\* deleted, at once or after draining.
ServiceStep ==
    /\ \/ /\ service.deployment = "rolling"
          /\ service' = [service EXCEPT !.deployment = "steady", !.before = service.td]
       \/ /\ service.deployment = "rolling"
          /\ service' = [service EXCEPT !.deployment = "reverted", !.td = service.before]
       \/ /\ service.status = "ACTIVE"
          /\ service' = [service EXCEPT !.status = "DRAINING"]
       \/ /\ service.status # "INACTIVE"
          /\ service' = [service EXCEPT !.status = "INACTIVE"]
    /\ UNCHANGED <<pc, input, td, canaryVars, lastErr, registered, log>>

-----------------------------------------------------------------------------

RolloutStep(r) ==
    \/ DescribeCurrentService(r)
    \/ StartCanaryTasks(r)
    \/ CanariesProve(r)
    \/ Exec(r)
    \/ UpdateService(r)
    \/ Cleanup(r)

UpStep(u) == CheckNotExists(u) \/ CreateService(u)

Step(c) == CreateNextTaskDefinition(c) \/ WaitServiceStable(c) \/ Killed(c)

Next ==
    \/ \E c \in Command : Step(c)
    \/ \E r \in Rollouts : RolloutStep(r)
    \/ \E u \in Ups : UpStep(u)
    \/ ServiceStep

Spec == Init /\ [][Next]_vars

-----------------------------------------------------------------------------
(* Properties *)

ServiceTypeOK ==
    /\ pc \in [Command -> Pc]
    /\ input \in [Command -> Input]
    /\ td \in [Command -> TaskDefinition \cup {None}]
    /\ canaryLbs \in [Command -> SUBSET LB]
    /\ healthy \subseteq Rollouts
    /\ swallowed \subseteq Rollouts
    /\ lastErr \in [Command -> {"nil", "err"}]
    /\ registered \subseteq Command
    /\ service \in Service
    /\ log \in Seq(Command)
    /\ readAt \in [Command -> Nat]

\* The commands that wrote the service, and the last of them.
Writers == {log[i] : i \in DOMAIN log}
LastWriter(c) == log # <<>> /\ log[Len(log)] = c

\* A task definition that may run: the initial one, one that an up created the
\* service with, or one that a rollout installed after its canaries had passed.
Approved(v) ==
    \/ v = Initial
    \/ \E c \in Writers : td[c] = v /\ (c \in Rollouts => c \in healthy)

\* The service never runs, and is never rolled back to, a task definition that
\* nobody tested or created it with, however the commands overlap, fail or share
\* task definitions (executor.go:56-78, up.go:35).
RunsOnlyApproved == Approved(service.td) /\ Approved(service.before)

\* If nobody else wrote the service between a rollout's reading it and its update,
\* the load balancers of the service are those its canaries stood in, unless
\* --updateService came with a service.json without loadBalancers.  A rollout or
\* an up in between is the one way to a service with untested load balancers
\* (executor.go:122 against executor.go:78).
InstalledAsTested ==
    \A r \in Rollouts :
        (/\ LastWriter(r)
         /\ Len(log) = readAt[r] + 1 \/ input[r].updateService
         /\ input[r].updateService => input[r].given)
        => service.lbs = canaryLbs[r]

\* A command that returns nil, and swallowed no panic, has written the service;
\* and while it is the last to have done so the service has its task definition
\* or was rolled back.  A service that became stable in another command's
\* deployment is no false success (executor.go:84, up.go:53).
NilMeansInstalled ==
    \A c \in Command :
        pc[c] = "returned" /\ lastErr[c] = "nil" /\ c \notin swallowed =>
            /\ c \in Writers
            /\ LastWriter(c) => service.td = td[c] \/ service.deployment = "reverted"
=============================================================================
