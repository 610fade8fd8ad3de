----------------------------- MODULE CanaryTask -----------------------------
(***************************************************************************)
(* One canary of a rollout (package task): the ECS task that is started    *)
(* outside the service, watched until it proves healthy, and stopped.      *)
(*                                                                         *)
(* A canary has three methods: Start, Wait and Stop.  pc is the program    *)
(* counter of the goroutine that runs Start and then Wait, spc the one of  *)
(* the goroutine that runs Stop.  Every action is one AWS call with the    *)
(* local code up to the next call; its disjuncts are the replies the code  *)
(* distinguishes.  A reply may be an error although AWS applied the call:  *)
(* the request then has its effect and the caller sees a failure.  An SDK  *)
(* waiter is one action: it succeeds only in the awaited state and may     *)
(* time out in any state.                                                  *)
(*                                                                         *)
(* The context of a rollout is context.Background() (rollout.go:18), so    *)
(* the ctx.Done() branches of the polling loops are never taken.           *)
(***************************************************************************)
EXTENDS Integers, FiniteSets

CONSTANTS
    Task,                 \* the canaries
    LB,                   \* the ones that are an albTask, named after their load
                          \* balancer; the others are a simpleTask
    HealthChecked,        \* containers of the task definition with a HealthCheck
    TaskHealthCheckWait,  \* env.GetTaskHealthCheckWait(), in seconds
    CanaryTaskIdleWait,   \* env.GetCanaryTaskIdleWait(), in seconds
    NotHealthyLimit       \* replies that condemn a target: 5 in the code

ASSUME TaskAssumption ==
    /\ LB \subseteq Task
    /\ TaskHealthCheckWait \in Nat
    /\ CanaryTaskIdleWait \in Nat
    /\ NotHealthyLimit \in Nat \ {0}

VARIABLES
    pc,               \* [Task -> PcState]: Start, then Wait
    spc,              \* [Task -> SpcState]: Stop
    taskArn,          \* the canaries with c.taskArn # nil
    target,           \* the canaries with c.target # nil
    containers,       \* containerHasHealthChecks: containers still to be healthy
    rest,             \* the seconds a polling loop may still spend
    notHealthyCount,  \* replies so far that found the target not healthy
    recentState,      \* the last state reported for the target
    ecs,              \* AWS: LastStatus of the canary's task in ECS
    tg,               \* AWS: the canary's target in its target group
    seen,             \* history: the evidence AWS has reported for the canary
    failed            \* history: the calls of each canary that returned an error

programVars == <<pc, spc, taskArn, target, containers, rest, notHealthyCount, recentState>>
awsVars == <<ecs, tg>>
historyVars == <<seen, failed>>
taskVars == <<programVars, awsVars, historyVars>>

\* What a loop iteration waits before its reply (task/common.go:105,
\* task/simple_task.go:45, task/alb_task.go:185).
PollPeriod == 15

Waiting == {"running", "containers", "idle", "describe", "register", "target"}
PcState == {"new", "started", "startErr", "startPanic", "ok", "waitErr", "waitPanic"} \cup Waiting
Stopping == {"deregister", "deregWait", "stop", "stopWait"}
SpcState == {"none", "ok", "err"} \cup Stopping
EcsStatus == {"none", "pending", "running", "stopping", "stopped"}
TargetStatus == {"absent", "registered", "draining"}
TargetHealth == {"nil", "initial", "healthy", "unhealthy", "draining", "unused"}
Evidence == HealthChecked \cup {"running", "alive", "healthy"}
Call == {"RunTask", "DeregisterTargets", "TargetDeregisteredWaiter", "StopTask", "TasksStoppedWaiter"}

TaskInit ==
    /\ pc = [t \in Task |-> "new"]
    /\ spc = [t \in Task |-> "none"]
    /\ taskArn = {}
    /\ target = {}
    /\ containers = [t \in Task |-> {}]
    /\ rest = [t \in Task |-> 0]
    /\ notHealthyCount = [t \in Task |-> 0]
    /\ recentState = [t \in Task |-> "nil"]
    /\ ecs = [t \in Task |-> "none"]
    /\ tg = [t \in Task |-> "absent"]
    /\ seen = [t \in Task |-> {}]
    /\ failed = [t \in Task |-> {}]

-----------------------------------------------------------------------------
(* Helpers *)

Goto(t, label) == pc' = [pc EXCEPT ![t] = label]
StopGoto(t, label) == spc' = [spc EXCEPT ![t] = label]
Saw(t, evidence) == seen' = [seen EXCEPT ![t] = @ \cup evidence]
Failed(t, call) == failed' = [failed EXCEPT ![t] = @ \cup {call}]

\* Mutant of AfterPoll: the period is not shortened for the last round.
AfterPollOvershoots(r) == r - PollPeriod
\* What is left of a loop's time after one round: the last round is shortened.
AfterPoll(r) == IF r < PollPeriod THEN 0 ELSE r - PollPeriod

\* Where Wait goes when the container loop is at its head with these containers
\* still to be healthy and r seconds left: polling, on to the next stage, or out.
ContainersNext(t, left, r) ==
    IF left = {} THEN (IF t \in LB THEN "describe" ELSE "idle")
    ELSE IF r > 0 THEN "containers" ELSE "waitErr"

\* The time the loop at that label may spend.
LoopBudget(label, r) == IF label = "idle" THEN CanaryTaskIdleWait ELSE r

-----------------------------------------------------------------------------
(* Start *)

\* RunTask on Fargate, StartTask on the canary instance.  ECS may answer a call
\* without an error and without a task (its failures are in o.Failures, which is
\* not read): o.Tasks[0] then panics.
Start(t) ==
    /\ pc[t] = "new"
    /\ \/ /\ ecs' = [ecs EXCEPT ![t] = "pending"]
          /\ taskArn' = taskArn \cup {t}
          /\ Goto(t, "started")
          /\ UNCHANGED failed
       \/ /\ ecs' \in {ecs, [ecs EXCEPT ![t] = "pending"]}
          /\ Goto(t, "startErr")
          /\ Failed(t, "RunTask")
          /\ UNCHANGED taskArn
       \/ /\ Goto(t, "startPanic")
          /\ UNCHANGED <<ecs, taskArn, failed>>
    /\ UNCHANGED <<spc, target, containers, rest, notHealthyCount, recentState, tg, seen>>

-----------------------------------------------------------------------------
(* Wait *)

\* A DescribeTasks in the middle of Wait that ends it: the call failed, or the
\* task is not RUNNING, or the reply has no task or no StoppedReason for a task
\* that is going away and the goroutine panics.
WaitBroken(t) ==
    \/ Goto(t, "waitErr")
    \/ ecs[t] \in {"stopping", "stopped"} /\ Goto(t, "waitPanic")

\* waitForTaskRunning, and the head of the loop of waitContainerHealthCheck.
WaitForTaskRunning(t) ==
    /\ pc[t] = "running"
    /\ \/ /\ t \in taskArn
          /\ ecs[t] = "running"
          /\ containers' = [containers EXCEPT ![t] = HealthChecked]
          /\ LET label == ContainersNext(t, HealthChecked, TaskHealthCheckWait)
             IN  /\ Goto(t, label)
                 /\ rest' = [rest EXCEPT ![t] = LoopBudget(label, TaskHealthCheckWait)]
          /\ Saw(t, {"running"})
       \/ /\ Goto(t, "waitErr")
          /\ UNCHANGED <<containers, rest, seen>>
    /\ UNCHANGED <<spc, taskArn, target, notHealthyCount, recentState, awsVars, failed>>

\* Mutant of StillUnhealthy: a container counts as healthy once it is reported.
StillUnhealthyForgets(left, reported, healthy) == left \ reported
\* The containers left after a reply on the reported ones: a container that was
\* once HEALTHY is dropped and never looked at again.
StillUnhealthy(left, reported, healthy) == left \ healthy

\* A reply of waitContainerHealthCheck about these containers of a RUNNING task,
\* and the head of the loop after it.
ContainerRound(t, reported, healthy) ==
    LET left  == StillUnhealthy(containers[t], reported, healthy)
        label == ContainersNext(t, left, AfterPoll(rest[t]))
    IN  /\ containers' = [containers EXCEPT ![t] = left]
        /\ Goto(t, label)
        /\ rest' = [rest EXCEPT ![t] = LoopBudget(label, AfterPoll(rest[t]))]
        /\ Saw(t, healthy)

\* One round of waitContainerHealthCheck.
WaitContainerHealthCheck(t) ==
    /\ pc[t] = "containers"
    /\ \/ /\ ecs[t] = "running"
          /\ \E reported \in SUBSET HealthChecked : \E healthy \in SUBSET reported :
                ContainerRound(t, reported, healthy)
       \/ /\ WaitBroken(t)
          /\ UNCHANGED <<containers, rest, seen>>
    /\ UNCHANGED <<spc, taskArn, target, notHealthyCount, recentState, awsVars, failed>>

\* waitForIdleDuration of a simpleTask: one round of its loop, then the check.
IdleRound(t) ==
    /\ pc[t] = "idle"
    /\ rest[t] > 0
    /\ rest' = [rest EXCEPT ![t] = AfterPoll(rest[t])]
    /\ UNCHANGED <<pc, spc, taskArn, target, containers, notHealthyCount, recentState,
                   awsVars, historyVars>>

IdleCheck(t) ==
    /\ pc[t] = "idle"
    /\ rest[t] = 0
    /\ \/ ecs[t] = "running" /\ Goto(t, "ok") /\ Saw(t, {"alive"})
       \/ WaitBroken(t) /\ UNCHANGED seen
    /\ UNCHANGED <<spc, taskArn, target, containers, rest, notHealthyCount, recentState,
                   awsVars, failed>>

\* describeTaskTarget: reads that find the canary's address, port and zone.
\* c.target is set as soon as they succeed, before anything is registered.  Each
\* takes the first of a list or dereferences a pointer without a look at it, and
\* panics, whatever the task does, for a container without a port or a reply
\* without an entry.
DescribeTaskTarget(t) ==
    /\ pc[t] = "describe"
    /\ \/ Goto(t, "register") /\ target' = target \cup {t}
       \/ Goto(t, "waitErr") /\ UNCHANGED target
       \/ Goto(t, "waitPanic") /\ UNCHANGED target
    /\ UNCHANGED <<spc, taskArn, containers, rest, notHealthyCount, recentState,
                   awsVars, historyVars>>

\* RegisterTargets, then the local start of waitUntilTargetHealthy.
RegisterTargets(t) ==
    /\ pc[t] = "register"
    /\ \/ /\ tg' = [tg EXCEPT ![t] = "registered"]
          /\ Goto(t, "target")
       \/ /\ tg' \in {tg, [tg EXCEPT ![t] = "registered"]}
          /\ Goto(t, "waitErr")
    /\ notHealthyCount' = [notHealthyCount EXCEPT ![t] = 0]
    /\ recentState' = [recentState EXCEPT ![t] = "nil"]
    /\ UNCHANGED <<spc, taskArn, target, containers, rest, ecs, historyVars>>

\* What DescribeTargetHealth may say of the canary's target; "nil" when no
\* description in the reply is that target's.
TargetReply(status) ==
    CASE status = "registered" -> {"initial", "healthy", "unhealthy", "unused"}
      [] status = "draining"   -> {"draining"}
      [] status = "absent"     -> {"unused", "nil"}

\* Mutant of NotHealthy: only not healthy replies in a row condemn a target.
NotHealthyInARow(state, count) ==
    CASE state = "initial" -> 0
      [] state \in {"nil", "healthy"} -> count
      [] OTHER -> count + 1
\* The count of not healthy replies, after one more reply.
NotHealthy(state, count) == IF state \in {"nil", "healthy", "initial"} THEN count ELSE count + 1

\* Where Wait goes with this state of the target, the count of not healthy
\* replies including this one.
Verdict(state, count) ==
    CASE state = "nil" -> "waitErr"
      [] state = "healthy" -> "ok"
      [] state = "initial" -> "target"
      [] OTHER -> IF count < NotHealthyLimit THEN "target" ELSE "waitErr"

\* A reply of waitUntilTargetHealthy.  recentState survives the round, so a reply
\* without the target repeats the last one.
TargetRound(t, reply) ==
    LET state == IF reply = "nil" THEN recentState[t] ELSE reply
        count == NotHealthy(state, notHealthyCount[t])
    IN  /\ recentState' = [recentState EXCEPT ![t] = state]
        /\ notHealthyCount' = [notHealthyCount EXCEPT ![t] = count]
        /\ Goto(t, Verdict(state, count))
        /\ Saw(t, {reply} \cap {"healthy"})

\* One round of waitUntilTargetHealthy.
WaitUntilTargetHealthy(t) ==
    /\ pc[t] = "target"
    /\ \/ \E reply \in TargetReply(tg[t]) : TargetRound(t, reply)
       \/ /\ Goto(t, "waitErr")
          /\ UNCHANGED <<recentState, notHealthyCount, seen>>
    /\ UNCHANGED <<spc, taskArn, target, containers, rest, awsVars, failed>>

-----------------------------------------------------------------------------
(* Stop *)

waitVars == <<pc, taskArn, target, containers, rest, notHealthyCount, recentState>>

\* stopTask's early return: a task that was never started has nothing to stop.
StopTaskNext(t) == IF t \in taskArn THEN "stop" ELSE "ok"

\* Mutant of StopNext: only the target of a canary that proved healthy is removed.
StopNextIfHealthy(t) == IF t \in target /\ pc[t] = "ok" THEN "deregister" ELSE StopTaskNext(t)
\* Where a call of Stop starts: deregisterTarget returns at once without a target.
StopNext(t) == IF t \in target THEN "deregister" ELSE StopTaskNext(t)

\* deregisterTarget up to the reply of DeregisterTargets; the deregistration
\* delay it reads first only sets how long the next waiter waits.  An error is
\* logged, and Stop goes on to the task.
DeregisterTargets(t) ==
    /\ spc[t] = "deregister"
    /\ LET draining == [tg EXCEPT ![t] = IF @ = "absent" THEN @ ELSE "draining"]
       IN  \/ tg' = draining /\ StopGoto(t, "deregWait") /\ UNCHANGED failed
           \/ /\ tg' \in {tg, draining}
              /\ StopGoto(t, StopTaskNext(t))
              /\ Failed(t, "DeregisterTargets")
    /\ UNCHANGED <<waitVars, ecs, seen>>

\* Mutant of Deregistered: the waiter's result is not looked at.
DeregisteredUnchecked(t) == TRUE
\* What TargetDeregisteredWaiter waits for.
Deregistered(t) == tg[t] = "absent"

WaitTargetDeregistered(t) ==
    /\ spc[t] = "deregWait"
    /\ \/ Deregistered(t) /\ UNCHANGED failed
       \/ Failed(t, "TargetDeregisteredWaiter")
    /\ StopGoto(t, StopTaskNext(t))
    /\ UNCHANGED <<waitVars, awsVars, seen>>

\* StopTask: ECS asks the task to stop.
StopTask(t) ==
    /\ spc[t] = "stop"
    /\ LET stopping == [ecs EXCEPT ![t] = IF @ = "stopped" THEN @ ELSE "stopping"]
       IN  \/ ecs' = stopping /\ StopGoto(t, "stopWait") /\ UNCHANGED failed
           \/ /\ ecs' \in {ecs, stopping}
              /\ StopGoto(t, "err")
              /\ Failed(t, "StopTask")
    /\ UNCHANGED <<waitVars, tg, seen>>

\* What TasksStoppedWaiter waits for.
Stopped(t) == ecs[t] = "stopped"

WaitTaskStopped(t) ==
    /\ spc[t] = "stopWait"
    /\ \/ Stopped(t) /\ StopGoto(t, "ok") /\ UNCHANGED failed
       \/ StopGoto(t, "err") /\ Failed(t, "TasksStoppedWaiter")
    /\ UNCHANGED <<waitVars, awsVars, seen>>

-----------------------------------------------------------------------------
(* AWS: what ECS and the load balancer do on their own *)

\* A task comes up, or starts to go away (it crashed, its host is drained, an
\* operator stopped it), or is gone.
EcsStep(t) ==
    /\ \/ ecs[t] = "pending" /\ ecs' = [ecs EXCEPT ![t] = "running"]
       \/ ecs[t] \in {"pending", "running"} /\ ecs' = [ecs EXCEPT ![t] = "stopping"]
       \/ ecs[t] = "stopping" /\ ecs' = [ecs EXCEPT ![t] = "stopped"]
    /\ UNCHANGED <<programVars, tg, historyVars>>

\* Somebody else deregisters the target, or its connections have drained.
TargetStep(t) ==
    /\ \/ tg[t] = "registered" /\ tg' = [tg EXCEPT ![t] = "draining"]
       \/ tg[t] = "draining" /\ tg' = [tg EXCEPT ![t] = "absent"]
    /\ UNCHANGED <<programVars, ecs, historyVars>>

AwsStep(t) == EcsStep(t) \/ TargetStep(t)

-----------------------------------------------------------------------------
(* A canary on its own: the steps of its goroutines, called by a caller that *)
(* waits for a canary it has started and stops it once Wait is over.         *)

WaitStep(t) ==
    \/ WaitForTaskRunning(t)
    \/ WaitContainerHealthCheck(t)
    \/ IdleRound(t)
    \/ IdleCheck(t)
    \/ DescribeTaskTarget(t)
    \/ RegisterTargets(t)
    \/ WaitUntilTargetHealthy(t)

StopStep(t) ==
    \/ DeregisterTargets(t)
    \/ WaitTargetDeregistered(t)
    \/ StopTask(t)
    \/ WaitTaskStopped(t)

CallWait(t) ==
    /\ pc[t] = "started"
    /\ Goto(t, "running")
    /\ UNCHANGED <<spc, taskArn, target, containers, rest, notHealthyCount, recentState,
                   awsVars, historyVars>>

CallStop(t) ==
    /\ pc[t] \in {"startErr", "startPanic", "ok", "waitErr"}
    /\ spc[t] = "none"
    /\ StopGoto(t, StopNext(t))
    /\ UNCHANGED <<waitVars, awsVars, historyVars>>

\* Wait has panicked and taken the process with it, or Stop has returned.
CallsOver(t) == pc[t] = "waitPanic" \/ spc[t] \in {"ok", "err"}

CanaryNext(t) == Start(t) \/ CallWait(t) \/ WaitStep(t) \/ CallStop(t) \/ StopStep(t)

TaskNext ==
    \/ \E t \in Task : CanaryNext(t)
    \/ \E t \in Task : AwsStep(t)
    \/ (\A t \in Task : CallsOver(t)) /\ UNCHANGED taskVars

\* Goroutines that can go on do, and no timer waits for ever.  An "initial" that
\* repeats is a stuttering step of WaitUntilTargetHealthy: fairness of that
\* action says that a load balancer does not report "initial" for ever.
TaskFairness == \A t \in Task : WF_taskVars(WaitStep(t)) /\ WF_taskVars(StopStep(t))

TaskSpec == TaskInit /\ [][TaskNext]_taskVars /\ TaskFairness

-----------------------------------------------------------------------------
(* Properties *)

\* Every variable stays in its range: in particular a polling loop never goes
\* below zero seconds and never counts past its limit.
TaskTypeOK ==
    /\ pc \in [Task -> PcState]
    /\ spc \in [Task -> SpcState]
    /\ taskArn \subseteq Task
    /\ target \subseteq Task
    /\ containers \in [Task -> SUBSET HealthChecked]
    /\ rest \in [Task -> Nat]
    /\ notHealthyCount \in [Task -> 0..NotHealthyLimit]
    /\ recentState \in [Task -> TargetHealth]
    /\ ecs \in [Task -> EcsStatus]
    /\ tg \in [Task -> TargetStatus]
    /\ seen \in [Task -> SUBSET Evidence]
    /\ failed \in [Task -> SUBSET Call]

\* What AWS must have reported of a canary before it may pass: RUNNING, HEALTHY
\* for each container with a health check, and then a healthy target, or, without
\* a load balancer, RUNNING again after the idle time.
Proof(t) == HealthChecked \cup {"running"}
                          \cup (IF t \in LB THEN {"healthy"} ELSE {"alive"})

\* Wait returns nil only for a canary that has given all of its evidence
\* (simple_task.go:25, alb_task.go:40).
WaitNilMeansHealthy == \A t \in Task : pc[t] = "ok" => Proof(t) \subseteq seen[t]

\* When Stop is over, a target that is still in its target group is there because
\* a deregistration failed: also the one of a RegisterTargets whose reply was lost
\* (c.target is set before the call, alb_task.go:164).
LeftTargetIsExplained ==
    \A t \in Task :
        spc[t] \in {"ok", "err"} /\ tg[t] # "absent" =>
            failed[t] \cap {"DeregisterTargets", "TargetDeregisteredWaiter"} # {}

\* The canary's task is asked to stop only after its target has left the target
\* group, unless a deregistration failed: no request is sent to a stopping canary
\* (alb_task.go:60-63).
DrainBeforeStop ==
    [][\A t \in Task : spc[t] = "stop" /\ spc'[t] # "stop" /\ tg[t] # "absent" =>
           failed[t] \cap {"DeregisterTargets", "TargetDeregisteredWaiter"} # {}]_taskVars
=============================================================================
