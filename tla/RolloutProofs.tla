--------------------------- MODULE RolloutProofs ---------------------------
(***************************************************************************)
(* Proofs about Rollout, for every set of load balancers and of containers *)
(* with a health check, and every waiting time and limit.                  *)
(***************************************************************************)
EXTENDS Rollout, CanaryTaskProofs, Sequences

-----------------------------------------------------------------------------
(* The inductive invariant behind the gate *)

AllOk == canaries # {} /\ \A t \in canaries : pc[t] = "ok"

\* Until the update is under way the service is the old one; the update is tried
\* only with every canary through; and that is so whenever the service is new.
Gated ==
    /\ phase \in {"describe", "taskDefinition", "canaries", "start", "wait", "update"} =>
           service.td = "old"
    /\ phase \in {"start", "wait", "update", "stable"} => canaries # {}
    /\ phase \in {"update", "stable"} => AllOk
    /\ service.td = "new" => AllOk

IInv == TypeOK /\ Gathered /\ Gated

LEMMA CanariesForType == \A lbs \in SUBSET LB : CanariesFor(lbs) \in SUBSET Task /\ CanariesFor(lbs) # {}
BY RolloutAssumption DEF CanariesFor

LEMMA InitInv == Init => IInv
<1> SUFFICES ASSUME Init PROVE IInv
  OBVIOUS
<1>1. TaskIInv
  BY TaskInitInv DEF Init
<1>2. TypeOK
  BY <1>1 DEF Init, TypeOK, TaskIInv, Phase
<1>3. Gated
  BY DEF Init, Gated
<1> QED
  BY <1>1, <1>2, <1>3 DEF IInv, TaskIInv

-----------------------------------------------------------------------------
(* The main goroutine *)

\* Steps that leave the canaries alone.
LEMMA CanariesAlone ==
    ASSUME IInv, UNCHANGED taskVars
    PROVE  TaskTypeOK' /\ Gathered'
<1>1. TaskIInv
  BY DEF IInv, TypeOK, TaskIInv
<1> QED
  BY <1>1, TaskUnchangedInv DEF TaskIInv

LEMMA pcAlone == UNCHANGED taskVars => UNCHANGED pc
BY DEF taskVars, programVars

LEMMA BeforeInv ==
    ASSUME IInv, DescribeCurrentService \/ CreateNextTaskDefinition
    PROVE  IInv'
<1>0. UNCHANGED <<taskVars, input, canaries, serviceUpdated, service>>
  BY DEF DescribeCurrentService, CreateNextTaskDefinition
<1>1. TaskTypeOK' /\ Gathered' /\ UNCHANGED pc
  BY <1>0, CanariesAlone, pcAlone
<1>2. phase \in {"describe", "taskDefinition"} /\ phase' \in {"taskDefinition", "canaries", "returned"}
      /\ lastErr' \in {"nil", "err"} /\ registered' \in BOOLEAN
  BY DEF DescribeCurrentService, CreateNextTaskDefinition, ProceedOrReturn, IInv, TypeOK
<1>3. TypeOK'
  BY <1>0, <1>1, <1>2 DEF IInv, TypeOK, Phase
<1>4. Gated'
  BY <1>0, <1>1, <1>2 DEF IInv, Gated, AllOk
<1> QED
  BY <1>1, <1>3, <1>4 DEF IInv

LEMMA StartCanaryTasksInv ==
    ASSUME IInv, StartCanaryTasks
    PROVE  IInv'
<1>1. TaskTypeOK' /\ Gathered' /\ UNCHANGED pc
  BY CanariesAlone, pcAlone DEF StartCanaryTasks
<1>2. phase = "canaries" /\ UNCHANGED <<input, serviceUpdated, service, registered>>
  BY DEF StartCanaryTasks
<1>3. input.lbs \in SUBSET LB /\ service.lbs \in SUBSET LB
  BY DEF IInv, TypeOK, Input, Service
<1>4. /\ phase' \in {"start", "returned", "panicked"}
      /\ lastErr' \in {"nil", "err"}
      /\ canaries' \in SUBSET Task
      /\ phase' = "start" => canaries' # {}
  BY <1>3, CanariesForType DEF StartCanaryTasks, IInv, TypeOK
<1>5. TypeOK'
  BY <1>1, <1>2, <1>4 DEF IInv, TypeOK, Phase
<1>6. Gated'
  BY <1>2, <1>4 DEF IInv, Gated
<1> QED
  BY <1>1, <1>5, <1>6 DEF IInv

LEMMA ExecStartInv ==
    ASSUME IInv, NEW t \in Task, ExecStart(t)
    PROVE  IInv'
<1>1. TaskTypeOK' /\ Gathered'
  BY StartInv DEF ExecStart, IInv, TypeOK, TaskIInv
<1>2. phase = "start" /\ UNCHANGED <<input, canaries, serviceUpdated, service, registered>>
  BY DEF ExecStart
<1>3. phase' \in {"start", "cleanup"} /\ lastErr' \in {"nil", "err"}
  BY DEF ExecStart, IInv, TypeOK
<1>4. TypeOK'
  BY <1>1, <1>2, <1>3 DEF IInv, TypeOK, Phase
<1>5. Gated'
  BY <1>2, <1>3 DEF IInv, Gated
<1> QED
  BY <1>1, <1>4, <1>5 DEF IInv

LEMMA ExecWaitInv ==
    ASSUME IInv, ExecWait
    PROVE  IInv'
<1>1. TaskTypeOK'
  <2>1. pc' \in [Task -> PcState]
    BY DEF ExecWait, IInv, TypeOK, TaskTypeOK, PcState, Waiting
  <2> QED
    BY <2>1 DEF ExecWait, IInv, TypeOK, TaskTypeOK, awsVars, historyVars
<1>2. Gathered'
  BY DEF ExecWait, IInv, Gathered, GatheredBy, Proof, historyVars
<1>3. TypeOK'
  BY <1>1 DEF ExecWait, IInv, TypeOK, Phase
<1>4. Gated'
  BY DEF ExecWait, IInv, Gated
<1> QED
  BY <1>2, <1>3, <1>4 DEF IInv

LEMMA ExecReturnsInv ==
    ASSUME IInv, ExecReturns
    PROVE  IInv'
<1>1. TaskTypeOK' /\ Gathered' /\ UNCHANGED pc
  BY CanariesAlone, pcAlone DEF ExecReturns
<1>2. phase = "wait" /\ UNCHANGED <<input, canaries, serviceUpdated, service, registered>>
  BY DEF ExecReturns
<1>3. phase' \in {"cleanup", "update"} /\ lastErr' \in {"nil", "err"}
  BY DEF ExecReturns, IInv, TypeOK
<1>4. phase' = "update" => AllOk
  BY DEF ExecReturns, ExecErr, WaitsOver, AllOk, IInv, Gated
<1>5. TypeOK'
  BY <1>1, <1>2, <1>3 DEF IInv, TypeOK, Phase
<1>6. Gated'
  BY <1>1, <1>2, <1>3, <1>4 DEF IInv, Gated, AllOk
<1> QED
  BY <1>1, <1>5, <1>6 DEF IInv

LEMMA UpdatedType == TypeOK => Updated \in Service
BY DEF TypeOK, Updated, NewLoadBalancers, Service, Input

LEMMA UpdateServiceInv ==
    ASSUME IInv, UpdateService
    PROVE  IInv'
<1>1. TaskTypeOK' /\ Gathered' /\ UNCHANGED pc
  BY CanariesAlone, pcAlone DEF UpdateService
<1>2. phase = "update" /\ UNCHANGED <<input, canaries, registered>> /\ AllOk
  BY DEF UpdateService, IInv, Gated
<1>3. /\ phase' \in {"stable", "cleanup"}
      /\ lastErr' \in {"nil", "err"}
      /\ serviceUpdated' \in BOOLEAN
      /\ service' \in {service, Updated}
  BY DEF UpdateService, IInv, TypeOK
<1>4. TypeOK'
  BY <1>1, <1>2, <1>3, UpdatedType DEF IInv, TypeOK, Phase
<1>5. Gated'
  BY <1>1, <1>2, <1>3 DEF IInv, Gated, AllOk
<1> QED
  BY <1>1, <1>4, <1>5 DEF IInv

\* What is left of the main goroutine after the update neither changes the
\* service nor the canaries' verdicts.
LEMMA AfterInv ==
    ASSUME IInv, WaitServiceStable \/ CleanupReturns
    PROVE  IInv'
<1>1. TaskTypeOK' /\ Gathered' /\ UNCHANGED pc
  BY CanariesAlone, pcAlone DEF WaitServiceStable, CleanupReturns
<1>2. /\ phase' \in {"cleanup", "returned"}
      /\ lastErr' \in {"nil", "err"}
      /\ UNCHANGED <<input, canaries, serviceUpdated, service, registered>>
  BY DEF WaitServiceStable, CleanupReturns, IInv, TypeOK
<1>3. TypeOK'
  BY <1>1, <1>2 DEF IInv, TypeOK, Phase
<1>4. Gated'
  BY <1>1, <1>2 DEF IInv, Gated, AllOk
<1> QED
  BY <1>1, <1>3, <1>4 DEF IInv

LEMMA CleanupInv ==
    ASSUME IInv, Cleanup
    PROVE  IInv'
<1>1. spc' \in [Task -> SpcState]
  BY StopNextType DEF Cleanup, IInv, TypeOK, TaskTypeOK
<1>2. UNCHANGED <<waitVars, awsVars, historyVars, input, canaries, lastErr, serviceUpdated, service, registered>>
      /\ phase' = "stopping"
  BY DEF Cleanup
<1>3. TypeOK'
  BY <1>1, <1>2 DEF IInv, TypeOK, TaskTypeOK, Phase, waitVars, awsVars, historyVars
<1>4. Gathered'
  BY <1>2, GatheredUnchanged DEF IInv, waitVars, historyVars
<1>5. Gated'
  BY <1>2 DEF IInv, Gated, AllOk, waitVars
<1> QED
  BY <1>3, <1>4, <1>5 DEF IInv

-----------------------------------------------------------------------------
(* The goroutines of the canaries and the world outside *)

\* A canary that is through stays so: no step of Wait starts from there.
LEMMA OkStays ==
    ASSUME TaskTypeOK, NEW t \in Task, WaitStep(t) \/ StopStep(t)
    PROVE  \A u \in Task : pc[u] = "ok" => pc'[u] = "ok"
<1>1. CASE StopStep(t)
  BY <1>1, StopStepFrame DEF waitVars
<1>2. CASE WaitStep(t)
  <2>1. pc[t] # "ok"
    BY <1>2 DEF WaitStep, WaitForTaskRunning, WaitContainerHealthCheck, IdleRound, IdleCheck,
              DescribeTaskTarget, RegisterTargets, WaitUntilTargetHealthy
  <2>2. pc' = pc \/ \E label : pc' = [pc EXCEPT ![t] = label]
    BY <1>2 DEF WaitStep, WaitForTaskRunning, WaitContainerHealthCheck, ContainerRound, IdleRound,
              IdleCheck, DescribeTaskTarget, RegisterTargets, WaitUntilTargetHealthy, TargetRound,
              WaitBroken, Goto
  <2> QED
    BY <2>1, <2>2 DEF TaskTypeOK
<1> QED
  BY <1>1, <1>2

LEMMA CanaryStepInv ==
    ASSUME IInv, NEW t \in Task, CanaryStep(t)
    PROVE  IInv'
<1>1. TaskTypeOK' /\ Gathered'
  BY WaitStepInv, StopStepInv DEF CanaryStep, IInv, TypeOK, TaskIInv
<1>2. \A u \in Task : pc[u] = "ok" => pc'[u] = "ok"
  BY OkStays DEF CanaryStep, IInv, TypeOK
<1>3. UNCHANGED <<phase, input, canaries, lastErr, serviceUpdated, service, registered>>
  BY DEF CanaryStep, rolloutVars
<1>4. TypeOK'
  BY <1>1, <1>3 DEF IInv, TypeOK
<1>5. Gated'
  BY <1>2, <1>3 DEF IInv, Gated, AllOk, TypeOK
<1> QED
  BY <1>1, <1>4, <1>5 DEF IInv

LEMMA DeathInv ==
    ASSUME IInv, GoroutinePanics \/ Killed
    PROVE  IInv'
<1>1. TaskTypeOK' /\ Gathered' /\ UNCHANGED pc
  BY CanariesAlone, pcAlone DEF GoroutinePanics, Killed
<1>2. /\ phase' \in {"panicked", "killed"}
      /\ UNCHANGED <<input, canaries, lastErr, serviceUpdated, service, registered>>
  BY DEF GoroutinePanics, Killed
<1>3. TypeOK'
  BY <1>1, <1>2 DEF IInv, TypeOK, Phase
<1>4. Gated'
  BY <1>1, <1>2 DEF IInv, Gated, AllOk
<1> QED
  BY <1>1, <1>3, <1>4 DEF IInv

LEMMA AwsInv ==
    ASSUME IInv, NEW t \in Task, AwsStep(t), UNCHANGED rolloutVars
    PROVE  IInv'
<1>1. TaskTypeOK' /\ Gathered'
  BY AwsStepInv DEF IInv, TypeOK, TaskIInv
<1>2. UNCHANGED <<pc, phase, input, canaries, lastErr, serviceUpdated, service, registered>>
  BY AwsStepFrame DEF rolloutVars, programVars
<1>3. TypeOK'
  BY <1>1, <1>2 DEF IInv, TypeOK
<1>4. Gated'
  BY <1>2 DEF IInv, Gated, AllOk
<1> QED
  BY <1>1, <1>3, <1>4 DEF IInv

LEMMA ServiceStepInv ==
    ASSUME IInv, ServiceStep
    PROVE  IInv'
<1>1. TaskTypeOK' /\ Gathered' /\ UNCHANGED pc
  BY CanariesAlone, pcAlone DEF ServiceStep
<1>2. UNCHANGED <<phase, input, canaries, lastErr, serviceUpdated, registered>>
  BY DEF ServiceStep
<1>3. service' \in Service /\ service'.td \in {service.td, "old"}
  BY DEF ServiceStep, IInv, TypeOK, Service
<1>4. TypeOK'
  BY <1>1, <1>2, <1>3 DEF IInv, TypeOK
<1>5. Gated'
  BY <1>1, <1>2, <1>3 DEF IInv, Gated, AllOk
<1> QED
  BY <1>1, <1>4, <1>5 DEF IInv

LEMMA NextInv == IInv /\ [Next]_vars => IInv'
<1> SUFFICES ASSUME IInv, [Next]_vars PROVE IInv'
  OBVIOUS
<1>1. CASE MainStep
  BY <1>1, BeforeInv, StartCanaryTasksInv, ExecStartInv, ExecWaitInv, ExecReturnsInv,
     UpdateServiceInv, AfterInv, CleanupInv DEF MainStep
<1>2. ASSUME NEW t \in Task, CanaryStep(t) PROVE IInv'
  BY <1>2, CanaryStepInv
<1>3. CASE GoroutinePanics
  BY <1>3, DeathInv
<1>4. CASE World
  BY <1>4, AwsInv, ServiceStepInv, DeathInv DEF World
<1>5. CASE UNCHANGED vars
  <2>1. UNCHANGED <<taskVars, phase, input, canaries, lastErr, serviceUpdated, service, registered>>
    BY <1>5 DEF vars, rolloutVars
  <2>2. TaskTypeOK' /\ Gathered' /\ UNCHANGED pc
    BY <2>1, CanariesAlone, pcAlone
  <2>3. TypeOK'
    BY <2>1, <2>2 DEF IInv, TypeOK
  <2>4. Gated'
    BY <2>1, <2>2 DEF IInv, Gated, AllOk
  <2> QED
    BY <2>2, <2>3, <2>4 DEF IInv
<1> QED
  BY <1>1, <1>2, <1>3, <1>4, <1>5 DEF Next, Over

LEMMA Invariant == Spec => []IInv
<1> QED
  BY InitInv, NextInv, PTL DEF Spec

-----------------------------------------------------------------------------
(* The theorems *)

\* Every variable of a rollout stays in its range, with any number of canaries.
THEOREM TypeCorrect == Spec => []TypeOK
<1>1. IInv => TypeOK
  BY DEF IInv
<1> QED
  BY <1>1, Invariant, PTL

\* The gate: whatever fails, panics, is lost or is killed, the service runs the
\* new task definition only after every canary has given all of its evidence.
THEOREM GateHolds == Spec => []CanaryGate
<1>1. IInv => CanaryGate
  BY DEF IInv, TypeOK, Gated, AllOk, Gathered, GatheredBy, CanaryGate
<1> QED
  BY <1>1, Invariant, PTL

-----------------------------------------------------------------------------
(* What a nil error says *)

\* The service as the rollout has updated it.
Installed == service.td = "new" /\ service.lbs = NewLoadBalancers

\* From the update on the service is the updated one or was rolled back; and after
\* the waiter a missing error says that this, or a panic, has happened.
Honest ==
    /\ phase = "stable" => serviceUpdated /\ (service.deployment = "reverted" \/ Installed)
    /\ phase \in {"cleanup", "stopping", "returned"} /\ lastErr = "nil" /\ ~Swallowed =>
           /\ serviceUpdated
           /\ service.deployment = "reverted" \/ (service.deployment = "steady" /\ Installed)

\* A canary whose Start has panicked does nothing any more.
LEMMA PanicStays ==
    ASSUME TaskTypeOK, NEW t \in Task, WaitStep(t) \/ StopStep(t)
    PROVE  Swallowed => Swallowed'
<1>1. CASE StopStep(t)
  BY <1>1, StopStepFrame DEF waitVars, Swallowed
<1>2. CASE WaitStep(t)
  <2>1. pc[t] # "startPanic"
    BY <1>2 DEF WaitStep, WaitForTaskRunning, WaitContainerHealthCheck, IdleRound, IdleCheck,
              DescribeTaskTarget, RegisterTargets, WaitUntilTargetHealthy
  <2>2. pc' = pc \/ \E label : pc' = [pc EXCEPT ![t] = label]
    BY <1>2 DEF WaitStep, WaitForTaskRunning, WaitContainerHealthCheck, ContainerRound, IdleRound,
              IdleCheck, DescribeTaskTarget, RegisterTargets, WaitUntilTargetHealthy, TargetRound,
              WaitBroken, Goto
  <2> QED
    BY <2>1, <2>2 DEF TaskTypeOK, Swallowed
<1> QED
  BY <1>1, <1>2

\* The steps before the update end in an error, or in a panic that is swallowed.
LEMMA HonestBefore ==
    ASSUME IInv, DescribeCurrentService \/ CreateNextTaskDefinition \/ StartCanaryTasks
                     \/ ExecWait \/ ExecReturns
    PROVE  Honest'
BY DEF DescribeCurrentService, CreateNextTaskDefinition, ProceedOrReturn, StartCanaryTasks, ExecWait,
       ExecReturns, Honest

LEMMA HonestStart ==
    ASSUME IInv, NEW t \in Task, ExecStart(t)
    PROVE  Honest'
<1>1. pc'[t] \in {"started", "startErr", "startPanic"}
  BY DEF ExecStart, Start, Goto, IInv, TypeOK, TaskTypeOK
<1> QED
  BY <1>1 DEF ExecStart, Honest, Swallowed

LEMMA HonestUpdate ==
    ASSUME IInv, UpdateService
    PROVE  Honest'
<1>1. CASE phase' = "cleanup"
  BY <1>1 DEF UpdateService, Honest
<1>2. CASE phase' = "stable"
  <2>1. service' = Updated /\ serviceUpdated' = TRUE /\ input' = input
    BY <1>2 DEF UpdateService
  <2>2. service \in Service
    BY DEF IInv, TypeOK
  <2>3. service'.td = "new" /\ service'.lbs = NewLoadBalancers
    BY <2>1, <2>2 DEF Updated, Service
  <2>4. Installed'
    BY <2>1, <2>3 DEF Installed, NewLoadBalancers
  <2> QED
    BY <1>2, <2>1, <2>4 DEF Honest
<1> QED
  BY <1>1, <1>2 DEF UpdateService

LEMMA HonestAfter ==
    ASSUME IInv, Honest, WaitServiceStable \/ Cleanup \/ CleanupReturns
    PROVE  Honest'
<1>1. UNCHANGED <<pc, input, serviceUpdated, service>>
  BY DEF WaitServiceStable, Cleanup, CleanupReturns, waitVars, taskVars, programVars
<1>2. CASE WaitServiceStable
  BY <1>1, <1>2 DEF WaitServiceStable, Stable, Honest, Installed, NewLoadBalancers, Swallowed,
                    IInv, TypeOK, Service
<1>3. CASE Cleanup \/ CleanupReturns
  BY <1>1, <1>3 DEF Cleanup, CleanupReturns, Honest, Installed, NewLoadBalancers, Swallowed
<1> QED
  BY <1>2, <1>3

LEMMA HonestServiceStep ==
    ASSUME IInv, Honest, ServiceStep
    PROVE  Honest'
<1>1. UNCHANGED <<pc, phase, input, lastErr, serviceUpdated>> /\ service \in Service
  BY pcAlone DEF ServiceStep, IInv, TypeOK
<1>2. CASE service.deployment = "rolling" /\ service' = [service EXCEPT !.deployment = "steady"]
  BY <1>1, <1>2 DEF Honest, Installed, NewLoadBalancers, Swallowed, Service
<1>3. CASE service' = [service EXCEPT !.td = "old", !.deployment = "reverted"]
  BY <1>1, <1>3 DEF Honest, Swallowed, Service, ServiceStep
<1>4. CASE service' = [service EXCEPT !.status = "INACTIVE"]
  BY <1>1, <1>4 DEF Honest, Installed, NewLoadBalancers, Swallowed, Service
<1> QED
  BY <1>2, <1>3, <1>4 DEF ServiceStep

LEMMA HonestNext == IInv /\ Honest /\ [Next]_vars => Honest'
<1> SUFFICES ASSUME IInv, Honest, [Next]_vars PROVE Honest'
  OBVIOUS
<1>1. CASE MainStep
  BY <1>1, HonestBefore, HonestStart, HonestUpdate, HonestAfter DEF MainStep
<1>2. ASSUME NEW t \in Task, CanaryStep(t) PROVE Honest'
  <2>1. Swallowed => Swallowed'
    BY <1>2, PanicStays DEF CanaryStep, IInv, TypeOK
  <2> QED
    BY <1>2, <2>1 DEF CanaryStep, rolloutVars, Honest, Installed, NewLoadBalancers
<1>3. CASE GoroutinePanics \/ Killed
  BY <1>3 DEF GoroutinePanics, Killed, Honest
<1>4. CASE ServiceStep
  BY <1>4, HonestServiceStep
<1>5. ASSUME NEW t \in Task, AwsStep(t), UNCHANGED rolloutVars PROVE Honest'
  BY <1>5, AwsStepFrame DEF rolloutVars, programVars, Honest, Installed, NewLoadBalancers, Swallowed
<1>6. CASE UNCHANGED vars
  BY <1>6, pcAlone DEF vars, rolloutVars, Honest, Installed, NewLoadBalancers, Swallowed
<1> QED
  BY <1>1, <1>2, <1>3, <1>4, <1>5, <1>6 DEF Next, World, Over

LEMMA HonestInvariant == Spec => []Honest
<1>1. Init => Honest
  BY DEF Init, Honest
<1> QED
  BY <1>1, HonestNext, Invariant, PTL DEF Spec

\* A nil error without a swallowed panic means that the service was updated and that
\* its deployment came to its end, also when that end was a rollback.
THEOREM NilIsDone == Spec => []NilMeansDone
<1>1. IInv /\ Honest => NilMeansDone
  <2> SUFFICES ASSUME IInv, Honest, phase = "returned", lastErr = "nil", ~Swallowed,
                      service.deployment # "reverted"
               PROVE  serviceUpdated /\ service = [Updated EXCEPT !.deployment = "steady",
                                                                 !.status = service.status]
    BY DEF Honest, NilMeansDone, Swallowed
  <2>1. serviceUpdated /\ service.deployment = "steady" /\ Installed
    BY DEF Honest
  <2>2. service \in Service
    BY DEF IInv, TypeOK
  <2>3. service = [Updated EXCEPT !.deployment = "steady", !.status = service.status]
    BY <2>1, <2>2 DEF Installed, Updated, Service
  <2> QED
    BY <2>1, <2>3
<1> QED
  BY <1>1, Invariant, HonestInvariant, PTL

-----------------------------------------------------------------------------
(* What becomes of the canaries *)

\* A canary's task that the rollout knows of is in ECS, and Stop ends well only with
\* it stopped; one that it does not know of comes from a RunTask without a reply.
TrackedBy(t) ==
    /\ pc[t] = "new" => ecs[t] = "none"
    /\ pc[t] = "startErr" => lastErr = "err"
    /\ t \in taskArn => ecs[t] # "none"
    /\ ecs[t] # "none" => t \in canaries
    /\ ecs[t] # "none" /\ t \notin taskArn => pc[t] = "startErr" /\ "RunTask" \in failed[t]
    /\ spc[t] = "stop" => t \in taskArn
    /\ spc[t] = "ok" => t \notin taskArn \/ ecs[t] = "stopped"
    /\ spc[t] = "err" => failed[t] \cap {"StopTask", "TasksStoppedWaiter"} # {}

BeforeCanaries == {"describe", "taskDefinition", "canaries"}
BeforeCleanup == BeforeCanaries \cup {"start", "wait", "update", "stable", "cleanup"}

\* No task is started before there is a canary, no Stop before Cleanup, and Cleanup
\* has ended every Stop, and heard of every failed one, when RollOut returns.
TrackedPhase(t) ==
    /\ phase \in BeforeCanaries => ecs[t] = "none"
    /\ phase \in BeforeCleanup => spc[t] = "none"
    /\ phase = "returned" /\ ecs[t] # "none" =>
           spc[t] \in {"ok", "err"} /\ (spc[t] = "err" => lastErr = "err")

Tracked == \A t \in Task : TrackedBy(t) /\ TrackedPhase(t)

\* The steps of the main goroutine that touch neither a canary nor the set, whose
\* error is never lost, and that do not return.
LEMMA TrackedQuiet ==
    ASSUME Tracked, UNCHANGED <<taskVars, canaries>>,
           lastErr = "err" => lastErr' = "err",
           phase' \in BeforeCanaries => phase \in BeforeCanaries,
           phase' \in BeforeCleanup => phase \in BeforeCleanup,
           phase' = "returned" => phase \in BeforeCanaries \/ (phase' = phase /\ lastErr' = lastErr)
    PROVE  Tracked'
<1> SUFFICES ASSUME NEW t \in Task PROVE TrackedBy(t)' /\ TrackedPhase(t)'
  BY DEF Tracked
<1>1. TrackedBy(t) /\ TrackedPhase(t)
  BY DEF Tracked
<1>2. UNCHANGED <<pc, spc, taskArn, ecs, failed>>
  BY DEF taskVars, programVars, awsVars, historyVars
<1> QED
  BY <1>1, <1>2 DEF TrackedBy, TrackedPhase

LEMMA TrackedMain ==
    ASSUME IInv, Tracked,
           DescribeCurrentService \/ CreateNextTaskDefinition \/ ExecReturns \/ UpdateService
               \/ WaitServiceStable \/ GoroutinePanics \/ Killed \/ ServiceStep
    PROVE  Tracked'
<1> USE DEF BeforeCanaries, BeforeCleanup
<1>1. CASE DescribeCurrentService \/ CreateNextTaskDefinition
  BY <1>1, TrackedQuiet DEF DescribeCurrentService, CreateNextTaskDefinition, ProceedOrReturn
<1>2. CASE ExecReturns
  BY <1>2, TrackedQuiet DEF ExecReturns
<1>3. CASE UpdateService \/ WaitServiceStable
  BY <1>3, TrackedQuiet DEF UpdateService, WaitServiceStable
<1>4. CASE GoroutinePanics \/ Killed
  BY <1>4, TrackedQuiet DEF GoroutinePanics, Killed
<1>5. CASE ServiceStep
  BY <1>5, TrackedQuiet DEF ServiceStep
<1> QED
  BY <1>1, <1>2, <1>3, <1>4, <1>5

LEMMA TrackedStartCanaryTasks ==
    ASSUME IInv, Tracked, StartCanaryTasks
    PROVE  Tracked'
<1> SUFFICES ASSUME NEW t \in Task PROVE TrackedBy(t)' /\ TrackedPhase(t)'
  BY DEF Tracked
<1>1. TrackedBy(t) /\ ecs[t] = "none" /\ spc[t] = "none"
  BY DEF Tracked, TrackedPhase, StartCanaryTasks, BeforeCanaries, BeforeCleanup
<1>2. UNCHANGED <<pc, spc, taskArn, ecs, failed>> /\ (lastErr = "err" => lastErr' = "err")
  BY DEF StartCanaryTasks, taskVars, programVars, awsVars, historyVars
<1> QED
  BY <1>1, <1>2 DEF TrackedBy, TrackedPhase

LEMMA TrackedExecStart ==
    ASSUME IInv, Tracked, NEW t \in Task, ExecStart(t)
    PROVE  Tracked'
<1> SUFFICES ASSUME NEW u \in Task PROVE TrackedBy(u)' /\ TrackedPhase(u)'
  BY DEF Tracked
<1>1. /\ TrackedBy(u) /\ spc[u] = "none" /\ spc' = spc
      /\ phase' \in {"start", "cleanup"} /\ t \in canaries /\ canaries' = canaries
      /\ (lastErr = "err" => lastErr' = "err")
  BY DEF Tracked, TrackedPhase, ExecStart, Start, BeforeCleanup
<1>2. CASE u # t
  <2>1. /\ pc'[u] = pc[u] /\ ecs'[u] = ecs[u] /\ failed'[u] = failed[u]
        /\ (u \in taskArn' <=> u \in taskArn)
    BY <1>2 DEF ExecStart, Start, Goto, Failed, IInv, TypeOK, TaskTypeOK
  <2> QED
    BY <1>1, <2>1 DEF TrackedBy, TrackedPhase, BeforeCanaries
<1>3. CASE u = t
  <2>1. pc[t] = "new" /\ ecs[t] = "none" /\ t \notin taskArn
    BY <1>1, <1>3 DEF ExecStart, Start, TrackedBy
  <2>2. \/ pc'[t] = "started" /\ ecs'[t] = "pending" /\ t \in taskArn'
        \/ /\ pc'[t] = "startErr" /\ "RunTask" \in failed'[t] /\ taskArn' = taskArn
           /\ lastErr' = "err"
        \/ pc'[t] = "startPanic" /\ ecs' = ecs /\ taskArn' = taskArn
    BY DEF ExecStart, Start, Goto, Failed, IInv, TypeOK, TaskTypeOK
  <2> QED
    BY <1>1, <1>3, <2>1, <2>2 DEF TrackedBy, TrackedPhase, BeforeCanaries
<1> QED
  BY <1>2, <1>3

LEMMA TrackedExecWait ==
    ASSUME IInv, Tracked, ExecWait
    PROVE  Tracked'
<1> SUFFICES ASSUME NEW t \in Task PROVE TrackedBy(t)' /\ TrackedPhase(t)'
  BY DEF Tracked
<1>1. TrackedBy(t) /\ TrackedPhase(t)
  BY DEF Tracked
<1>2. /\ pc'[t] = pc[t] \/ (pc[t] = "started" /\ pc'[t] = "running")
      /\ UNCHANGED <<spc, taskArn, ecs, failed, canaries, lastErr>>
      /\ phase = "start" /\ phase' = "wait"
  BY DEF ExecWait, awsVars, historyVars
<1> QED
  BY <1>1, <1>2 DEF TrackedBy, TrackedPhase, BeforeCanaries, BeforeCleanup

LEMMA TrackedCleanup ==
    ASSUME IInv, Tracked, Cleanup \/ CleanupReturns
    PROVE  Tracked'
<1> SUFFICES ASSUME NEW t \in Task PROVE TrackedBy(t)' /\ TrackedPhase(t)'
  BY DEF Tracked
<1>1. TrackedBy(t) /\ TrackedPhase(t)
  BY DEF Tracked
<1>2. CASE Cleanup
  <2>1. /\ UNCHANGED <<pc, taskArn, ecs, failed, canaries, lastErr>>
        /\ phase' = "stopping"
        /\ spc[t] = "none"
    BY <1>1, <1>2 DEF Cleanup, waitVars, awsVars, historyVars, TrackedPhase, BeforeCleanup
  <2>2. spc'[t] = IF t \in canaries THEN StopNext(t) ELSE "none"
    BY <1>2, <2>1 DEF Cleanup, ToStop
  <2>3. spc'[t] \in {"none", "deregister"} \/ (spc'[t] = "stop" /\ t \in taskArn)
        \/ (spc'[t] = "ok" /\ t \notin taskArn)
    BY <2>2 DEF StopNext, StopTaskNext
  <2> QED
    BY <1>1, <2>1, <2>3 DEF TrackedBy, TrackedPhase, BeforeCanaries, BeforeCleanup
<1>3. CASE CleanupReturns
  <2>1. /\ UNCHANGED <<pc, spc, taskArn, ecs, failed, canaries>>
        /\ phase' = "returned"
        /\ lastErr = "err" => lastErr' = "err"
        /\ t \in canaries => spc[t] \in {"ok", "err"} /\ (spc[t] = "err" => lastErr' = "err")
    BY <1>3 DEF CleanupReturns, CleanupErr, ToStop, taskVars, programVars, awsVars, historyVars
  <2> QED
    BY <1>1, <2>1 DEF TrackedBy, TrackedPhase, BeforeCanaries, BeforeCleanup
<1> QED
  BY <1>2, <1>3

\* A step of Stop ends well only without a task or with a stopped one.
LEMMA TrackedStopStep ==
    ASSUME IInv, Tracked, NEW t \in Task, StopStep(t), UNCHANGED rolloutVars, Running
    PROVE  Tracked'
<1> SUFFICES ASSUME NEW u \in Task PROVE TrackedBy(u)' /\ TrackedPhase(u)'
  BY DEF Tracked
<1>1. TrackedBy(u) /\ TrackedPhase(u)
  BY DEF Tracked
<1>2. UNCHANGED <<pc, taskArn, phase, canaries, lastErr>>
  BY StopStepFrame DEF waitVars, rolloutVars
<1>3. phase \notin BeforeCleanup /\ phase # "returned"
  <2>1. spc[t] # "none"
    BY DEF StopStep, DeregisterTargets, WaitTargetDeregistered, StopTask, WaitTaskStopped
  <2> QED
    BY <2>1 DEF Tracked, TrackedPhase, Running
<1>4. phase' \notin BeforeCanaries /\ phase' \notin BeforeCleanup /\ phase' # "returned"
  BY <1>2, <1>3 DEF BeforeCleanup
<1>5. CASE u # t
  <2>1. ecs'[u] = ecs[u] /\ spc'[u] = spc[u] /\ failed'[u] = failed[u]
    BY <1>5 DEF StopStep, DeregisterTargets, WaitTargetDeregistered, StopTask, WaitTaskStopped,
                StopGoto, Failed, awsVars, IInv, TypeOK, TaskTypeOK
  <2> QED
    BY <1>1, <1>2, <1>4, <2>1 DEF TrackedBy, TrackedPhase
<1>6. CASE u = t
  <2> USE <1>1, <1>2, <1>4, <1>6 DEF TrackedBy, TrackedPhase, StopGoto, Failed, StopTaskNext
  <2>0. /\ spc \in [Task -> SpcState] /\ ecs \in [Task -> EcsStatus]
        /\ failed \in [Task -> SUBSET Call]
    BY DEF IInv, TypeOK, TaskTypeOK
  <2>1. CASE DeregisterTargets(t)
    BY <2>0, <2>1 DEF DeregisterTargets
  <2>2. CASE WaitTargetDeregistered(t)
    BY <2>0, <2>2 DEF WaitTargetDeregistered, awsVars
  <2>3. CASE StopTask(t)
    BY <2>0, <2>3 DEF StopTask
  <2>4. CASE WaitTaskStopped(t)
    BY <2>0, <2>4 DEF WaitTaskStopped, Stopped, awsVars
  <2> QED
    BY <2>1, <2>2, <2>3, <2>4 DEF StopStep
<1> QED
  BY <1>5, <1>6

LEMMA TrackedCanary ==
    ASSUME IInv, Tracked, NEW t \in Task, CanaryStep(t)
    PROVE  Tracked'
<1>1. CASE StopStep(t)
  BY <1>1, TrackedStopStep DEF CanaryStep
<1>2. CASE WaitStep(t)
  <2> SUFFICES ASSUME NEW u \in Task PROVE TrackedBy(u)' /\ TrackedPhase(u)'
    BY DEF Tracked
  <2>1. TrackedBy(u) /\ TrackedPhase(u)
    BY DEF Tracked
  <2>2. /\ UNCHANGED <<spc, taskArn, ecs, failed, phase, canaries, lastErr>>
        /\ IF pc[u] \in StartLabel THEN pc'[u] = pc[u] ELSE pc'[u] \notin StartLabel
    BY <1>2, WaitStepFrame DEF CanaryStep, rolloutVars, IInv, TypeOK
  <2> QED
    BY <2>1, <2>2 DEF TrackedBy, TrackedPhase, StartLabel
<1> QED
  BY <1>1, <1>2 DEF CanaryStep

\* What ECS does by itself neither creates a task nor brings one back.
LEMMA TrackedAws ==
    ASSUME IInv, Tracked, NEW t \in Task, AwsStep(t), UNCHANGED rolloutVars
    PROVE  Tracked'
<1> SUFFICES ASSUME NEW u \in Task PROVE TrackedBy(u)' /\ TrackedPhase(u)'
  BY DEF Tracked
<1>1. TrackedBy(u) /\ TrackedPhase(u)
  BY DEF Tracked
<1>2. UNCHANGED <<pc, spc, taskArn, failed, phase, canaries, lastErr>>
  BY AwsStepFrame DEF programVars, historyVars, rolloutVars
<1>3. (ecs'[u] = "none" <=> ecs[u] = "none") /\ (ecs[u] = "stopped" => ecs'[u] = "stopped")
  BY DEF AwsStep, EcsStep, TargetStep, IInv, TypeOK, TaskTypeOK
<1> QED
  BY <1>1, <1>2, <1>3 DEF TrackedBy, TrackedPhase

LEMMA TrackedNext == IInv /\ Tracked /\ [Next]_vars => Tracked'
<1> SUFFICES ASSUME IInv, Tracked, [Next]_vars PROVE Tracked'
  OBVIOUS
<1>1. CASE MainStep
  BY <1>1, TrackedMain, TrackedStartCanaryTasks, TrackedExecStart, TrackedExecWait, TrackedCleanup
  DEF MainStep
<1>2. CASE UNCHANGED vars
  BY <1>2, TrackedQuiet DEF vars, rolloutVars
<1> QED
  BY <1>1, <1>2, TrackedMain, TrackedCanary, TrackedAws DEF Next, World, Over

LEMMA TrackedInvariant == Spec => []Tracked
<1>1. Init => Tracked
  BY DEF Init, TaskInit, Tracked, TrackedBy, TrackedPhase, BeforeCanaries, BeforeCleanup
<1> QED
  BY <1>1, TrackedNext, Invariant, PTL DEF Spec

\* A rollout that returns leaves a canary's task only with an error, and only after
\* a call that should have told of it or stopped it has failed.
THEOREM LeftoverIsSaid == Spec => []LeftoverIsReported
<1>1. Tracked => LeftoverIsReported
  BY DEF Tracked, TrackedBy, TrackedPhase, LeftoverIsReported
<1> QED
  BY <1>1, TrackedInvariant, PTL

-----------------------------------------------------------------------------
(* Which phase the canaries are in *)

\* There are canaries once the set is made; only they are started; none is waited for
\* but by Exec, so that all goroutines of Wait are over when Cleanup starts.
OrderedBy(t) ==
    /\ pc[t] # "new" => t \in canaries
    /\ phase \in BeforeCanaries \cup {"start"} => pc[t] \in StartLabel
    /\ phase \notin {"wait", "panicked", "killed"} => pc[t] \notin Waiting

Ordered == (phase \in BeforeCanaries => canaries = {}) /\ \A t \in Task : OrderedBy(t)

\* Steps of the main goroutine that leave the canaries alone and do not enter Exec.
LEMMA OrderedQuiet ==
    ASSUME Ordered, UNCHANGED <<pc, canaries>>,
           phase' \in BeforeCanaries => phase \in BeforeCanaries,
           phase' = "start" => phase = "start",
           phase \in {"wait", "panicked", "killed"} => phase' \in {"wait", "panicked", "killed"}
    PROVE  Ordered'
BY DEF Ordered, OrderedBy

LEMMA OrderedMain ==
    ASSUME IInv, Ordered, MainStep
    PROVE  Ordered'
<1> USE DEF BeforeCanaries
<1>1. CASE DescribeCurrentService \/ CreateNextTaskDefinition
  BY <1>1, OrderedQuiet, pcAlone DEF DescribeCurrentService, CreateNextTaskDefinition, ProceedOrReturn
<1>2. CASE StartCanaryTasks
  <2>1. UNCHANGED pc /\ phase = "canaries" /\ phase' \in {"start", "returned", "panicked"}
    BY <1>2, pcAlone DEF StartCanaryTasks
  <2>2. \A t \in Task : pc[t] = "new"
    BY <2>1 DEF Ordered, OrderedBy
  <2> QED
    BY <2>1, <2>2 DEF Ordered, OrderedBy, StartLabel, Waiting
<1>3. ASSUME NEW t \in Task, ExecStart(t) PROVE Ordered'
  <2>1. /\ t \in canaries /\ canaries' = canaries
        /\ phase = "start" /\ phase' \in {"start", "cleanup"}
        /\ pc'[t] \in StartLabel /\ \A u \in Task \ {t} : pc'[u] = pc[u]
    BY <1>3 DEF ExecStart, Start, Goto, IInv, TypeOK, TaskTypeOK, StartLabel
  <2>2. StartLabel \cap Waiting = {}
    BY DEF StartLabel, Waiting
  <2> QED
    BY <2>1, <2>2 DEF Ordered, OrderedBy
<1>4. CASE ExecWait
  <2>1. /\ canaries' = canaries /\ phase' = "wait" /\ phase = "start"
        /\ \A t \in Task : t \in canaries \/ pc'[t] = pc[t]
    BY <1>4 DEF ExecWait
  <2> QED
    BY <2>1 DEF Ordered, OrderedBy
<1>5. CASE ExecReturns
  <2>1. UNCHANGED <<pc, canaries>> /\ phase' \in {"cleanup", "update"}
    BY <1>5, pcAlone DEF ExecReturns
  <2>2. \A t \in Task : pc[t] \notin Waiting
    BY <1>5 DEF ExecReturns, WaitsOver, Ordered, OrderedBy, Waiting
  <2> QED
    BY <2>1, <2>2 DEF Ordered, OrderedBy
<1>6. CASE UpdateService \/ WaitServiceStable \/ CleanupReturns
  BY <1>6, OrderedQuiet, pcAlone DEF UpdateService, WaitServiceStable, CleanupReturns
<1>7. CASE Cleanup
  BY <1>7, OrderedQuiet DEF Cleanup, waitVars
<1> QED
  BY <1>1, <1>2, <1>3, <1>4, <1>5, <1>6, <1>7 DEF MainStep

\* A goroutine of a canary that is in Wait belongs to Exec.
LEMMA WaitingInExec ==
    ASSUME Ordered, Running, NEW t \in Task, pc[t] \in Waiting
    PROVE  phase = "wait" /\ t \in canaries
BY DEF Ordered, OrderedBy, Running, Waiting

LEMMA OrderedCanary ==
    ASSUME IInv, Ordered, NEW t \in Task, CanaryStep(t)
    PROVE  Ordered'
<1>1. UNCHANGED <<phase, canaries>> /\ Running /\ TaskTypeOK
  BY DEF CanaryStep, rolloutVars, IInv, TypeOK
<1>2. CASE StopStep(t)
  BY <1>1, <1>2, StopStepFrame, OrderedQuiet DEF waitVars
<1>3. CASE WaitStep(t)
  <2>1. pc[t] \in Waiting /\ \A u \in Task \ {t} : pc'[u] = pc[u]
    BY <1>1, <1>3, WaitStepTarget
  <2>2. phase = "wait" /\ t \in canaries
    BY <1>1, <2>1, WaitingInExec
  <2> QED
    BY <1>1, <2>1, <2>2 DEF Ordered, OrderedBy, BeforeCanaries
<1> QED
  BY <1>2, <1>3 DEF CanaryStep

LEMMA OrderedNext == IInv /\ Ordered /\ [Next]_vars => Ordered'
<1> SUFFICES ASSUME IInv, Ordered, [Next]_vars PROVE Ordered'
  OBVIOUS
<1> USE DEF BeforeCanaries
<1>1. CASE GoroutinePanics \/ Killed
  BY <1>1, OrderedQuiet, pcAlone DEF GoroutinePanics, Killed, Running
<1>2. CASE ServiceStep
  BY <1>2, OrderedQuiet, pcAlone DEF ServiceStep
<1>3. ASSUME NEW t \in Task, AwsStep(t), UNCHANGED rolloutVars PROVE Ordered'
  BY <1>3, OrderedQuiet, AwsStepFrame DEF rolloutVars, programVars
<1>4. CASE UNCHANGED vars
  BY <1>4, OrderedQuiet, pcAlone DEF vars, rolloutVars
<1> QED
  BY <1>1, <1>2, <1>3, <1>4, OrderedMain, OrderedCanary DEF Next, World, Over

LEMMA OrderedInvariant == Spec => []Ordered
<1>1. Init => Ordered
  BY DEF Init, TaskInit, Ordered, OrderedBy, StartLabel, Waiting
<1> QED
  BY <1>1, OrderedNext, Invariant, PTL DEF Spec

-----------------------------------------------------------------------------
(* What becomes of the targets *)

LEMMA RolloutDrainedNext == IInv /\ Tracked /\ Ordered /\ Drained /\ [Next]_vars => Drained'
<1> SUFFICES ASSUME IInv, Tracked, Ordered, Drained, [Next]_vars PROVE Drained'
  OBVIOUS
<1>0. TaskTypeOK
  BY DEF IInv, TypeOK
<1>1. CASE UNCHANGED taskVars
  BY <1>1, DrainedUnchanged DEF taskVars, programVars, awsVars, historyVars
<1>2. ASSUME NEW t \in Task, ExecStart(t) PROVE Drained'
  BY <1>0, <1>2, StartDrained DEF ExecStart
<1>3. CASE ExecWait
  <2>1. /\ UNCHANGED <<spc, target, tg, failed>>
        /\ \A t \in Task : pc'[t] = pc[t] \/ pc'[t] = "running"
        /\ \A t \in Task : spc[t] = "none"
    BY <1>3 DEF ExecWait, awsVars, historyVars, Tracked, TrackedPhase, BeforeCleanup
  <2> QED
    BY <2>1 DEF Drained, DrainedBy
<1>4. CASE Cleanup
  <2> SUFFICES ASSUME NEW t \in Task PROVE DrainedBy(t)'
    BY DEF Drained
  <2>1. /\ UNCHANGED <<pc, target, tg, failed>> /\ DrainedBy(t)
        /\ spc[t] = "none" /\ pc[t] \notin Waiting
    BY <1>4 DEF Cleanup, waitVars, awsVars, historyVars, Drained, Tracked, TrackedPhase, BeforeCleanup,
                Ordered, OrderedBy
  <2>2. t \in target => spc'[t] \in {"none", "deregister"}
    BY <1>4, <2>1 DEF Cleanup, StopNext
  <2> QED
    BY <2>1, <2>2 DEF DrainedBy, Explained
<1>5. ASSUME NEW t \in Task, CanaryStep(t) PROVE Drained'
  BY <1>0, <1>5, WaitStepDrained, StopStepDrained DEF CanaryStep
<1>6. ASSUME NEW t \in Task, AwsStep(t) PROVE Drained'
  BY <1>0, <1>6, AwsStepDrained
<1>7. CASE GoroutinePanics \/ ServiceStep \/ Killed \/ Over
  BY <1>1, <1>7 DEF GoroutinePanics, ServiceStep, Killed, Over, vars
<1>8. CASE MainStep
  BY <1>1, <1>2, <1>3, <1>4, <1>8 DEF MainStep, DescribeCurrentService, CreateNextTaskDefinition,
     StartCanaryTasks, ExecReturns, UpdateService, WaitServiceStable, CleanupReturns
<1> QED
  BY <1>1, <1>5, <1>6, <1>7, <1>8 DEF Next, World, vars

LEMMA RolloutDrained == Spec => []Drained
<1>1. Init => Drained
  BY DrainedInit DEF Init
<1> QED
  BY <1>1, RolloutDrainedNext, Invariant, TrackedInvariant, OrderedInvariant, PTL DEF Spec

\* A rollout keeps what a canary on its own keeps: a target that is left over after
\* Stop is there because a call of its deregistration has failed.
THEOREM RolloutLeavesNoTarget == Spec => []LeftTargetIsExplained
<1>1. Drained => LeftTargetIsExplained
  BY DEF Drained, DrainedBy, Explained, LeftTargetIsExplained
<1> QED
  BY <1>1, RolloutDrained, PTL

\* Only RegisterTargets puts a target into its group, and only from Wait.
LEMMA RegisteredInWait ==
    ASSUME IInv, Drained, [Next]_vars, NEW t \in Task, tg[t] # "registered", tg'[t] = "registered"
    PROVE  spc[t] = "none"
<1>0. TaskTypeOK
  BY DEF IInv, TypeOK
<1>1. ASSUME NEW u \in Task, CanaryStep(u) PROVE spc[t] = "none"
  <2>1. CASE WaitStep(u)
    BY <1>0, <2>1, WaitStepTarget DEF Drained, DrainedBy
  <2>2. CASE StopStep(u)
    BY <1>0, <2>2 DEF StopStep, DeregisterTargets, WaitTargetDeregistered, StopTask, WaitTaskStopped,
                      awsVars, TaskTypeOK
  <2> QED
    BY <1>1, <2>1, <2>2 DEF CanaryStep
<1>2. ASSUME NEW u \in Task, AwsStep(u) PROVE FALSE
  BY <1>0, <1>2 DEF AwsStep, EcsStep, TargetStep, TaskTypeOK
<1>3. CASE MainStep \/ GoroutinePanics \/ ServiceStep \/ Killed \/ UNCHANGED vars
  <2>1. tg' = tg
    BY <1>3 DEF MainStep, DescribeCurrentService, CreateNextTaskDefinition, StartCanaryTasks, ExecStart,
         Start, ExecWait, ExecReturns, UpdateService, WaitServiceStable, Cleanup, CleanupReturns,
         GoroutinePanics, ServiceStep, Killed, vars, taskVars, awsVars
  <2> QED
    BY <2>1
<1> QED
  BY <1>1, <1>2, <1>3 DEF Next, World, Over

\* No canary gets back into its target group once its Stop has begun: however the
\* goroutines interleave and whatever fails, every Wait is over before (taskset.go:51-68).
THEOREM NeverLate == Spec => NoLateRegistration
<1>1. IInv /\ Drained /\ [Next]_vars =>
         [\A t \in Task : tg[t] # "registered" /\ tg'[t] = "registered" => spc[t] = "none"]_vars
  BY RegisteredInWait
<1> QED
  BY <1>1, Invariant, RolloutDrained, PTL DEF Spec, NoLateRegistration

-----------------------------------------------------------------------------
(* The service and the error of the rollout *)

BeforeUpdate == BeforeCanaries \cup {"start", "wait", "update"}

\* Before the update there is no deployment; one that is under way is the rollout's;
\* and the rollout knows that it has updated the service, or returns an error, as
\* after a lost reply.
Served ==
    /\ phase \in BeforeUpdate => service.deployment = "steady" /\ ~serviceUpdated
    /\ phase \in BeforeUpdate \ {"describe", "taskDefinition"} => registered
    /\ service.deployment = "rolling" => service.td = "new"
    /\ service.deployment = "reverted" => service.td = "old"
    /\ serviceUpdated => Written
    /\ Written => serviceUpdated \/ lastErr = "err"

\* Steps that leave the service alone.
LEMMA ServedQuiet ==
    ASSUME Served, UNCHANGED <<service, serviceUpdated>>,
           phase' \in BeforeUpdate => phase \in BeforeUpdate,
           phase' \in BeforeUpdate \ {"describe", "taskDefinition"} =>
               registered' \/ (registered' = registered /\ phase \notin {"describe", "taskDefinition"}),
           lastErr = "err" => lastErr' = "err"
    PROVE  Served'
BY DEF Served, Written

LEMMA ServedMain ==
    ASSUME IInv, Served, MainStep
    PROVE  Served'
<1> USE DEF BeforeUpdate, BeforeCanaries
<1>1. CASE DescribeCurrentService \/ CreateNextTaskDefinition
  BY <1>1, ServedQuiet DEF DescribeCurrentService, CreateNextTaskDefinition, ProceedOrReturn
<1>2. CASE StartCanaryTasks
  BY <1>2, ServedQuiet DEF StartCanaryTasks
<1>3. ASSUME NEW t \in Task, ExecStart(t) PROVE Served'
  BY <1>3, ServedQuiet DEF ExecStart
<1>4. CASE ExecWait \/ ExecReturns
  BY <1>4, ServedQuiet DEF ExecWait, ExecReturns
<1>5. CASE UpdateService
  <2>1. /\ phase = "update" /\ phase' \in {"stable", "cleanup"}
        /\ service' \in {service, Updated} /\ service \in Service
        /\ service' = Updated => serviceUpdated' \/ lastErr' = "err"
        /\ service' = service => serviceUpdated' = serviceUpdated \/ service' = Updated
        /\ serviceUpdated' = serviceUpdated \/ service' = Updated
        /\ lastErr = "err" => lastErr' = "err"
    BY <1>5 DEF UpdateService, IInv, TypeOK
  <2>2. Updated.td = "new" /\ Updated.deployment = "rolling"
    BY <2>1 DEF Updated, Service
  <2> QED
    BY <2>1, <2>2 DEF Served, Written
<1>6. CASE WaitServiceStable \/ Cleanup \/ CleanupReturns
  BY <1>6, ServedQuiet DEF WaitServiceStable, Cleanup, CleanupReturns
<1> QED
  BY <1>1, <1>2, <1>3, <1>4, <1>5, <1>6 DEF MainStep

\* What happens to a service without the rollout: its deployment ends or is undone.
LEMMA ServiceStepCases ==
    ASSUME service \in Service, ServiceStep
    PROVE  /\ service' \in Service /\ service'.lbs = service.lbs
           /\ \/ /\ service.deployment = "rolling" /\ service'.deployment = "steady"
                 /\ service'.td = service.td /\ service'.status = service.status
              \/ /\ service.deployment = "rolling" /\ service'.deployment = "reverted"
                 /\ service'.td = "old" /\ service'.status = service.status
              \/ /\ service.status = "ACTIVE" /\ service'.status = "INACTIVE"
                 /\ service'.td = service.td /\ service'.deployment = service.deployment
<1>1. CASE service.deployment = "rolling" /\ service' = [service EXCEPT !.deployment = "steady"]
  BY <1>1 DEF Service
<1>2. CASE service.deployment = "rolling"
           /\ service' = [service EXCEPT !.td = "old", !.deployment = "reverted"]
  BY <1>2 DEF Service
<1>3. CASE service.status = "ACTIVE" /\ service' = [service EXCEPT !.status = "INACTIVE"]
  BY <1>3 DEF Service
<1> QED
  BY <1>1, <1>2, <1>3 DEF ServiceStep

LEMMA ServedNext == IInv /\ Served /\ [Next]_vars => Served'
<1> SUFFICES ASSUME IInv, Served, [Next]_vars PROVE Served'
  OBVIOUS
<1>1. CASE UNCHANGED rolloutVars
  BY <1>1 DEF rolloutVars, Served, Written
<1>2. CASE GoroutinePanics \/ Killed
  BY <1>2, ServedQuiet DEF GoroutinePanics, Killed, BeforeUpdate, BeforeCanaries
<1>3. CASE ServiceStep
  <2>1. service \in Service /\ UNCHANGED <<phase, lastErr, serviceUpdated, registered>>
    BY <1>3 DEF ServiceStep, IInv, TypeOK
  <2> QED
    BY <1>3, <2>1, ServiceStepCases DEF Served, Written
<1> QED
  BY <1>1, <1>2, <1>3, ServedMain DEF Next, World, Over, CanaryStep, vars

LEMMA ServedInvariant == Spec => []Served
<1>1. Init => Served
  BY DEF Init, Served, Written, BeforeUpdate, BeforeCanaries
<1> QED
  BY <1>1, ServedNext, Invariant, PTL DEF Spec

-----------------------------------------------------------------------------
(* A rollout is a canary release *)

\* Everything that is known of a rollout.
RInv == IInv /\ Tracked /\ Ordered /\ Served

LEMMA RInvariant == Spec => []RInv
BY Invariant, TrackedInvariant, OrderedInvariant, ServedInvariant, PTL DEF RInv

ReleaseStep == [Release!Next]_(Release!releaseVars)

\* A release is open exactly while the program runs.
LEMMA OutcomeOpen ==
    /\ Running => Outcome = "open"
    /\ Running' => Outcome' = "open"
BY DEF Outcome, Running

\* A step in which the release goes on or comes to its end, and no more.
LEMMA ReleaseEnds ==
    ASSUME Running, UNCHANGED <<canaries, Approved, Live, Switched>>,
           \/ Running'
           \/ Outcome' \in {"failed", "dead"}
           \/ Outcome' = "done" /\ Switched # "old" /\ Live = {}
           \/ Outcome' = "silent" /\ Switched = "old" /\ Live = {}
    PROVE  ReleaseStep
<1>1. Outcome = "open" /\ (Running' => Outcome' = "open")
  BY OutcomeOpen
<1>2. CASE Outcome' = "open"
  BY <1>1, <1>2 DEF ReleaseStep, Release!releaseVars
<1>3. CASE Outcome' # "open"
  <2>1. Release!Finish
    BY <1>1, <1>3 DEF Release!Finish
  <2> QED
    BY <2>1 DEF ReleaseStep, Release!Next
<1> QED
  BY <1>2, <1>3

\* What the abstract variables are made of.
LEMMA AbstractSame ==
    /\ UNCHANGED <<pc, canaries>> => UNCHANGED Approved
    /\ UNCHANGED ecs => UNCHANGED Live
    /\ UNCHANGED service => UNCHANGED Switched
    /\ UNCHANGED <<phase, lastErr, serviceUpdated>> => UNCHANGED Outcome
BY DEF Approved, Live, Switched, Outcome, Running

LEMMA taskVarsParts == UNCHANGED taskVars => UNCHANGED <<pc, spc, taskArn, target, ecs, tg, failed>>
BY DEF taskVars, programVars, awsVars, historyVars

LEMMA ReleaseBefore ==
    ASSUME RInv, DescribeCurrentService \/ CreateNextTaskDefinition
    PROVE  ReleaseStep
<1>1. Running /\ UNCHANGED <<pc, ecs, canaries, service>>
  BY taskVarsParts DEF DescribeCurrentService, CreateNextTaskDefinition, Running
<1>2. Running' \/ Outcome' \in {"failed", "dead"}
  BY DEF DescribeCurrentService, CreateNextTaskDefinition, ProceedOrReturn, Running, Outcome
<1> QED
  BY <1>1, <1>2, AbstractSame, ReleaseEnds

LEMMA ReleaseStartCanaryTasks ==
    ASSUME RInv, StartCanaryTasks
    PROVE  ReleaseStep
<1>1. /\ Running /\ phase = "canaries" /\ canaries = {} /\ UNCHANGED <<pc, ecs, service>>
      /\ \A t \in Task : pc[t] # "ok"
  BY taskVarsParts DEF StartCanaryTasks, Running, RInv, IInv, Gathered, Ordered, OrderedBy, BeforeCanaries, StartLabel
<1>2. CASE phase' = "start"
  <2>1. canaries' \in (SUBSET Task) \ {{}}
    BY <1>2, CanariesForType DEF StartCanaryTasks, RInv, IInv, TypeOK, Input, Service
  <2>2. Approved = {} /\ Approved' = {}
    BY <1>1, <2>1 DEF Approved
  <2>5. UNCHANGED <<Approved, Live, Switched>>
    BY <1>1, <2>2, AbstractSame
  <2>3. Outcome = "open" /\ Outcome' = "open"
    BY <1>1, <1>2, OutcomeOpen DEF Running
  <2>4. Release!Enlist
    BY <1>1, <2>1, <2>5, <2>3 DEF Release!Enlist
  <2> QED
    BY <2>4 DEF ReleaseStep, Release!Next
<1>3. CASE phase' # "start"
  <2>1. canaries' = canaries /\ Outcome' \in {"failed", "dead"}
    BY <1>3 DEF StartCanaryTasks, Outcome, Running
  <2> QED
    BY <1>1, <2>1, AbstractSame, ReleaseEnds
<1> QED
  BY <1>2, <1>3

LEMMA ReleaseExecStart ==
    ASSUME RInv, NEW t \in Task, ExecStart(t)
    PROVE  ReleaseStep
<1>1. /\ Running /\ Running' /\ t \in canaries /\ UNCHANGED <<canaries, service>>
      /\ pc[t] = "new" /\ ecs[t] = "none" /\ phase = "start"
  BY DEF ExecStart, Start, Running, RInv, Tracked, TrackedBy
<1>2. Approved = {} /\ Approved' = {}
  <2>1. \A u \in Task : pc[u] # "ok" /\ pc'[u] # "ok"
    BY <1>1 DEF RInv, IInv, TypeOK, TaskTypeOK, Ordered, OrderedBy, StartLabel, ExecStart, Start, Goto
  <2>2. canaries \subseteq Task /\ canaries' \subseteq Task
    BY <1>1 DEF RInv, IInv, TypeOK
  <2> QED
    BY <2>1, <2>2 DEF Approved
<1>3. CASE ecs' = ecs
  BY <1>1, <1>2, <1>3, AbstractSame, ReleaseEnds
<1>4. CASE ecs' = [ecs EXCEPT ![t] = "pending"]
  <2>1. Live' = Live \cup {t} /\ t \notin Live
    BY <1>1, <1>4 DEF Live, RInv, IInv, TypeOK, TaskTypeOK
  <2>2. Outcome = "open" /\ Outcome' = "open"
    BY <1>1, OutcomeOpen
  <2>3. Release!Launch(t)
    BY <1>1, <1>2, <2>1, <2>2, AbstractSame DEF Release!Launch
  <2> QED
    BY <2>3 DEF ReleaseStep, Release!Next
<1> QED
  BY <1>3, <1>4 DEF ExecStart, Start

LEMMA ReleaseExec ==
    ASSUME RInv, ExecWait \/ ExecReturns
    PROVE  ReleaseStep
<1>1. Running /\ Running' /\ UNCHANGED <<ecs, canaries, service>>
  BY taskVarsParts DEF ExecWait, ExecReturns, Running, awsVars
<1>2. UNCHANGED Approved
  <2>1. CASE ExecReturns
    BY <1>1, <2>1, taskVarsParts, AbstractSame DEF ExecReturns
  <2>2. CASE ExecWait
    BY <1>1, <2>2 DEF ExecWait, Approved, RInv, IInv, TypeOK
  <2> QED
    BY <2>1, <2>2
<1> QED
  BY <1>1, <1>2, AbstractSame, ReleaseEnds

LEMMA ReleaseUpdateService ==
    ASSUME RInv, UpdateService
    PROVE  ReleaseStep
<1>1. /\ Running /\ Running' /\ UNCHANGED <<pc, ecs, canaries>> /\ phase = "update"
  BY taskVarsParts DEF UpdateService, Running
<1>2. CASE service' = service
  BY <1>1, <1>2, AbstractSame, ReleaseEnds
<1>3. CASE service' = Updated
  <2>1. Switched = "old"
    BY <1>1 DEF RInv, IInv, Gated, Served, BeforeUpdate, Switched
  <2>2. service \in Service
    BY DEF RInv, IInv, TypeOK
  <2>3. Updated.td = "new" /\ Updated.deployment = "rolling"
    BY <2>2 DEF Updated, Service
  <2>4. Switched' = "new"
    BY <1>3, <2>3 DEF Switched
  <2>5. canaries # {} /\ Approved = canaries
    BY <1>1 DEF RInv, IInv, Gated, AllOk, Approved
  <2>6. Outcome = "open" /\ Outcome' = "open"
    BY <1>1, OutcomeOpen
  <2>7. Release!Switch
    BY <1>1, <2>1, <2>4, <2>5, <2>6, AbstractSame DEF Release!Switch
  <2> QED
    BY <2>7 DEF ReleaseStep, Release!Next
<1> QED
  BY <1>2, <1>3 DEF UpdateService

LEMMA ReleaseAfter ==
    ASSUME RInv, WaitServiceStable \/ Cleanup
    PROVE  ReleaseStep
<1>1. Running /\ Running' /\ UNCHANGED <<pc, ecs, canaries, service>>
  BY taskVarsParts DEF WaitServiceStable, Cleanup, Running, waitVars, awsVars
<1> QED
  BY <1>1, AbstractSame, ReleaseEnds

\* The end with Tracked' holding: a nil error with a canary left would break it.
LEMMA ReleaseCleanupReturns ==
    ASSUME RInv, Tracked', Served', CleanupReturns
    PROVE  ReleaseStep
<1>1. /\ Running /\ phase' = "returned" /\ UNCHANGED <<pc, spc, taskArn, ecs, canaries, serviceUpdated, service>>
      /\ lastErr' \in {"nil", "err"}
  BY taskVarsParts DEF CleanupReturns, Running, RInv, IInv, TypeOK
<1>2. CASE lastErr' = "err"
  <2>1. Outcome' = "failed"
    BY <1>1, <1>2 DEF Outcome, Running
  <2> QED
    BY <1>1, <2>1, AbstractSame, ReleaseEnds
<1>3. CASE lastErr' = "nil"
  <2>1. Live = {}
    <3> SUFFICES ASSUME NEW t \in Task, ecs[t] \notin {"none", "stopped"} PROVE FALSE
      BY DEF Live
    <3>1. TrackedBy(t)' /\ TrackedPhase(t)'
      BY DEF Tracked
    <3> QED
      BY <1>1, <1>3, <3>1 DEF TrackedBy, TrackedPhase
  <2>2. serviceUpdated <=> Switched # "old"
    BY <1>1, <1>3 DEF Served, Written, Switched, RInv, IInv, TypeOK, Service
  <2>3. Outcome' = IF serviceUpdated THEN "done" ELSE "silent"
    BY <1>1, <1>3 DEF Outcome, Running
  <2> QED
    BY <1>1, <2>1, <2>2, <2>3, AbstractSame, ReleaseEnds
<1> QED
  BY <1>1, <1>2, <1>3

\* A canary's step approves it or changes nothing.
LEMMA ReleaseCanaryStep ==
    ASSUME RInv, NEW t \in Task, CanaryStep(t)
    PROVE  ReleaseStep
<1>0. /\ TaskTypeOK /\ Running /\ Running' /\ UNCHANGED <<phase, canaries, lastErr, serviceUpdated, service>>
  BY DEF RInv, IInv, TypeOK, CanaryStep, rolloutVars, Running
<1>1. CASE WaitStep(t)
  <2>1. /\ pc[t] \in Waiting /\ ecs' = ecs
        /\ \A u \in Task \ {t} : pc'[u] = pc[u]
    BY <1>0, <1>1, WaitStepTarget, WaitStepFrame
  <2>2. phase = "wait" /\ t \in canaries /\ t \notin Approved
    BY <1>0, <2>1, WaitingInExec DEF RInv, Approved, Waiting
  <2>3. CASE pc'[t] = "ok"
    <3>1. Approved' = Approved \cup {t}
      BY <1>0, <2>1, <2>2, <2>3 DEF Approved, RInv, IInv, TypeOK
    <3>2. Switched = "old"
      BY <2>2 DEF RInv, IInv, Gated, Served, BeforeUpdate, Switched
    <3>3. Outcome = "open" /\ Outcome' = "open"
      BY <1>0, OutcomeOpen
    <3>4. Release!Approve(t)
      BY <1>0, <2>1, <2>2, <3>1, <3>2, <3>3, AbstractSame DEF Release!Approve
    <3> QED
      BY <3>4 DEF ReleaseStep, Release!Next
  <2>4. CASE pc'[t] # "ok"
    <3>1. Approved' = Approved
      BY <1>0, <2>1, <2>2, <2>4 DEF Approved, RInv, IInv, TypeOK
    <3> QED
      BY <1>0, <2>1, <3>1, AbstractSame, ReleaseEnds
  <2> QED
    BY <2>3, <2>4
<1>2. CASE StopStep(t)
  <2>1. UNCHANGED pc
    BY <1>2, StopStepFrame DEF waitVars
  <2>2. \A u \in Task : ecs'[u] \in {"none", "stopped"} <=> ecs[u] \in {"none", "stopped"}
    <3>1. spc[t] = "stop" => ecs[t] # "none"
      BY DEF RInv, Tracked, TrackedBy
    <3>2. CASE ecs' = ecs
      BY <3>2
    <3>3. CASE spc[t] = "stop" /\ ecs' = [ecs EXCEPT ![t] = IF @ = "stopped" THEN @ ELSE "stopping"]
      BY <1>0, <3>1, <3>3 DEF TaskTypeOK
    <3> QED
      BY <1>2, <3>2, <3>3 DEF StopStep, DeregisterTargets, WaitTargetDeregistered, StopTask,
                              WaitTaskStopped, awsVars
  <2>3. UNCHANGED Live
    BY <2>2 DEF Live
  <2> QED
    BY <1>0, <2>1, <2>3, AbstractSame, ReleaseEnds
<1> QED
  BY <1>1, <1>2 DEF CanaryStep

LEMMA ReleaseAwsStep ==
    ASSUME RInv, NEW t \in Task, AwsStep(t), UNCHANGED rolloutVars
    PROVE  ReleaseStep
<1>0. /\ TaskTypeOK /\ UNCHANGED <<pc, phase, canaries, lastErr, serviceUpdated, service>>
  BY AwsStepFrame DEF RInv, IInv, TypeOK, rolloutVars, programVars
<1>1. UNCHANGED <<canaries, Approved, Switched, Outcome>>
  BY <1>0, AbstractSame
<1>2. CASE ecs[t] = "stopping" /\ ecs' = [ecs EXCEPT ![t] = "stopped"]
  <2>1. t \in Live /\ Live' = Live \ {t}
    BY <1>0, <1>2 DEF Live, TaskTypeOK
  <2>2. Release!Vanish(t)
    BY <1>1, <2>1 DEF Release!Vanish
  <2> QED
    BY <2>2 DEF ReleaseStep, Release!Next
<1>3. CASE UNCHANGED Live
  BY <1>1, <1>3 DEF ReleaseStep, Release!releaseVars
<1>4. CASE ecs' = ecs
  BY <1>3, <1>4, AbstractSame
<1>5. CASE \/ ecs[t] = "pending" /\ ecs' = [ecs EXCEPT ![t] = "running"]
           \/ ecs[t] \in {"pending", "running"} /\ ecs' = [ecs EXCEPT ![t] = "stopping"]
  <2>1. UNCHANGED Live
    BY <1>0, <1>5 DEF Live, TaskTypeOK
  <2> QED
    BY <1>3, <2>1
<1> QED
  BY <1>2, <1>4, <1>5 DEF AwsStep, EcsStep, TargetStep

LEMMA ReleaseServiceStep ==
    ASSUME RInv, ServiceStep
    PROVE  ReleaseStep
<1>0. UNCHANGED <<pc, ecs, phase, canaries, lastErr, serviceUpdated>> /\ service \in Service
  BY taskVarsParts DEF ServiceStep, RInv, IInv, TypeOK
<1>1. UNCHANGED <<canaries, Approved, Live, Outcome>>
  BY <1>0, AbstractSame
<1>2. CASE Switched' = Switched
  BY <1>1, <1>2 DEF ReleaseStep, Release!releaseVars
<1>3. CASE Switched = "new" /\ Switched' = "reverted"
  <2>1. Release!Revert
    BY <1>1, <1>3 DEF Release!Revert
  <2> QED
    BY <2>1 DEF ReleaseStep, Release!Next
<1>4. Switched' = Switched \/ (Switched = "new" /\ Switched' = "reverted")
  BY <1>0, ServiceStepCases DEF Switched, RInv, Served
<1> QED
  BY <1>2, <1>3, <1>4

LEMMA ReleaseNext == RInv /\ RInv' /\ [Next]_vars => ReleaseStep
<1> SUFFICES ASSUME RInv, RInv', [Next]_vars PROVE ReleaseStep
  OBVIOUS
<1>1. CASE MainStep
  BY <1>1, ReleaseBefore, ReleaseStartCanaryTasks, ReleaseExecStart, ReleaseExec, ReleaseUpdateService,
     ReleaseAfter, ReleaseCleanupReturns DEF MainStep, RInv
<1>2. CASE GoroutinePanics \/ Killed
  <2>1. Running /\ UNCHANGED <<pc, ecs, canaries, service>> /\ Outcome' = "dead"
    BY <1>2, taskVarsParts DEF GoroutinePanics, Killed, Outcome, Running
  <2> QED
    BY <2>1, AbstractSame, ReleaseEnds
<1>3. CASE UNCHANGED vars
  <2>1. UNCHANGED <<pc, ecs, phase, canaries, lastErr, serviceUpdated, service>>
    BY <1>3, taskVarsParts DEF vars, rolloutVars
  <2> QED
    BY <2>1, AbstractSame DEF ReleaseStep, Release!releaseVars
<1> QED
  BY <1>1, <1>2, <1>3, ReleaseCanaryStep, ReleaseAwsStep, ReleaseServiceStep DEF Next, World, Over

\* Every rollout is a canary release: with any number of canaries, and whatever fails,
\* panics or is killed, each of its steps is a step of CanaryRelease or none.
THEOREM ImplementsRelease == Spec => ReleaseSpec
<1>1. Init => Release!Init
  BY DEF Init, TaskInit, Release!Init, Approved, Live, Switched, Outcome, Running
<1>2. RInv /\ RInv' /\ [Next]_vars => [Release!Next]_(Release!releaseVars)
  BY ReleaseNext DEF ReleaseStep
<1> QED
  BY <1>1, <1>2, RInvariant, PTL DEF Spec, ReleaseSpec, Release!Spec

-----------------------------------------------------------------------------
(* A rollout is a command on the service *)

CommandStep == [Commands!Next]_(Commands!vars)

\* What the variables of ServiceCommands are made of.
CommandVars == <<Step, input, registered, canaries \ {Simple}, Healthy, Swallowed, lastErr, service>>

LEMMA CommandStutters == UNCHANGED CommandVars => CommandStep
BY DEF CommandVars, CommandStep, Commands!vars, Before, Written

LEMMA CommandActs ==
    /\ Commands!Step("new") => CommandStep
    /\ Commands!RolloutStep("new") => CommandStep
    /\ Commands!ServiceStep => CommandStep
BY DEF CommandStep, Commands!Next, Commands!Command

\* The rollout's moves as those of the command.
LEMMA CommandMoves ==
    /\ \A label : Step' = label => Commands!Goto("new", label)
    /\ lastErr' = "err" => Commands!Fails("new")
    /\ \A label : Step' = label /\ lastErr' = lastErr => Commands!GoOn("new", label)
    /\ \A label : Step' = "returned" /\ lastErr' = "err" => Commands!ReturnErr("new")
BY DEF Commands!Goto, Commands!Fails, Commands!GoOn, Commands!ReturnErr

LEMMA CommandSame ==
    /\ UNCHANGED input => UNCHANGED [c \in {"new"} |-> input]
    /\ UNCHANGED registered => /\ UNCHANGED [c \in {"new"} |-> IF registered THEN "new" ELSE "none"]
                               /\ UNCHANGED {c \in {"new"} : registered}
    /\ UNCHANGED (canaries \ {Simple}) => UNCHANGED [c \in {"new"} |-> canaries \ {Simple}]
    /\ UNCHANGED Healthy => UNCHANGED {c \in {"new"} : Healthy}
    /\ UNCHANGED Swallowed => UNCHANGED {c \in {"new"} : Swallowed}
    /\ UNCHANGED lastErr => UNCHANGED [c \in {"new"} |-> lastErr]
    /\ UNCHANGED [c \in {"new"} |-> 0]
    /\ UNCHANGED service =>
           /\ UNCHANGED [status |-> service.status, td |-> service.td, before |-> Before,
                         lbs |-> service.lbs, deployment |-> service.deployment]
           /\ UNCHANGED (IF Written THEN <<"new">> ELSE <<>>)
BY DEF Before, Written

LEMMA CommandCanariesSame == UNCHANGED <<pc, canaries>> => UNCHANGED <<Healthy, Swallowed, canaries \ {Simple}>>
BY DEF Healthy, Swallowed, Approved

\* Canaries are healthy only once all of them have been judged.
LEMMA NotHealthyYet ==
    /\ Ordered /\ canaries \subseteq Task /\ phase \in BeforeCanaries \cup {"start"} => Healthy = FALSE
    /\ \A t \in canaries : pc[t] # "ok" => Healthy = FALSE
BY DEF Ordered, OrderedBy, StartLabel, Healthy, Approved

LEMMA CommandDescribe ==
    ASSUME RInv, DescribeCurrentService
    PROVE  CommandStep
<1>1. UNCHANGED <<pc, input, canaries, service, registered>> /\ Step = "describe"
  BY taskVarsParts DEF DescribeCurrentService, Step
<1>2. \/ Step' = "taskDefinition" /\ lastErr' = lastErr /\ service.status = "ACTIVE"
      \/ Step' = "returned" /\ lastErr' = "err"
  BY DEF DescribeCurrentService, ProceedOrReturn, Step
<1>3. Commands!DescribeCurrentService("new")
  BY <1>1, <1>2, CommandMoves, CommandSame, CommandCanariesSame
     DEF Commands!DescribeCurrentService, Commands!canaryVars, Commands!awsVars
<1> QED
  BY <1>3, CommandActs DEF Commands!RolloutStep

LEMMA CommandCreate ==
    ASSUME RInv, CreateNextTaskDefinition
    PROVE  CommandStep
<1>1. UNCHANGED <<pc, input, canaries, service>> /\ Step = "taskDefinition"
  BY taskVarsParts DEF CreateNextTaskDefinition, Step
<1>2. registered \in BOOLEAN /\ registered' \in BOOLEAN /\ (registered => registered')
  <2>1. registered \in BOOLEAN /\ registered' \in {registered, TRUE}
    BY DEF CreateNextTaskDefinition, RInv, IInv, TypeOK
  <2>2. CASE registered' = TRUE
    BY <2>1, <2>2
  <2>3. CASE registered' = registered
    BY <2>1, <2>3
  <2> QED
    BY <2>1, <2>2, <2>3
<1>3. \/ Step' = "canaries" /\ lastErr' = lastErr /\ registered'
      \/ Step' = "returned" /\ lastErr' = "err"
  BY DEF CreateNextTaskDefinition, ProceedOrReturn, Step
<1>4. registered' =>
          /\ {c \in {"new"} : registered'} = {c \in {"new"} : registered} \cup {"new"}
          /\ [c \in {"new"} |-> IF registered' THEN "new" ELSE "none"]
                 = [[c \in {"new"} |-> IF registered THEN "new" ELSE "none"] EXCEPT !["new"] = "new"]
  OBVIOUS
<1>5. Commands!CreateNextTaskDefinition("new")
  <2>1. ~registered' => UNCHANGED registered
    BY <1>2
  <2> QED
    BY <1>1, <1>3, <1>4, <2>1, CommandMoves, CommandSame, CommandCanariesSame
       DEF Commands!CreateNextTaskDefinition, Commands!canaryVars
<1> QED
  BY <1>5, CommandActs DEF Commands!Step

LEMMA CommandStartCanaryTasks ==
    ASSUME RInv, RInv', StartCanaryTasks
    PROVE  CommandStep
<1>1. /\ UNCHANGED <<pc, input, service, registered>> /\ Step = "canaries" /\ phase = "canaries"
      /\ Running /\ canaries = {} /\ canaries \subseteq Task
  BY taskVarsParts DEF StartCanaryTasks, Step, Running, RInv, IInv, TypeOK, Ordered, BeforeCanaries
<1>2. Healthy = FALSE /\ UNCHANGED Swallowed
  BY <1>1, NotHealthyYet DEF RInv, BeforeCanaries, Swallowed
<1>3. CASE phase' = "start"
  <2>1. canaries' = CanariesFor(IF input.updateService THEN input.lbs ELSE service.lbs)
        /\ lastErr' = lastErr /\ Step' = "exec"
    BY <1>3 DEF StartCanaryTasks, Step
  <2>2. canaries' \ {Simple} = IF input.updateService THEN input.lbs ELSE service.lbs
    BY <2>1, RolloutAssumption DEF CanariesFor, RInv, IInv, TypeOK, Input, Service
  <2>3. UNCHANGED Healthy
    <3>1. \A t \in canaries' : t \in Task /\ pc[t] \in StartLabel
      BY <1>1 DEF RInv, IInv, TypeOK, Ordered, OrderedBy, BeforeCanaries
    <3>2. Approved' = {}
      BY <1>1, <3>1 DEF Approved, StartLabel
    <3>3. canaries' # {}
      BY <2>1, CanariesForType DEF RInv, IInv, TypeOK, Input, Service
    <3> QED
      BY <1>2, <3>2, <3>3 DEF Healthy
  <2>4. ~Written
    BY <1>1 DEF RInv, IInv, Gated, Served, BeforeUpdate, BeforeCanaries, Written
  <2>5. Commands!StartCanaryTasks("new")
    BY <1>1, <1>2, <2>1, <2>2, <2>3, <2>4, CommandMoves, CommandSame
       DEF Commands!StartCanaryTasks, Commands!awsVars
  <2> QED
    BY <2>5, CommandActs DEF Commands!RolloutStep
<1>4. CASE phase' # "start"
  <2>1. /\ canaries' = canaries
        /\ \/ ~input.updateService /\ Step' = "returned" /\ lastErr' = "err"
           \/ Step' = "killed" /\ lastErr' = lastErr
    BY <1>4 DEF StartCanaryTasks, Step
  <2>2. UNCHANGED Healthy
    BY <1>1, <2>1, CommandCanariesSame
  <2>3. CASE ~input.updateService /\ Step' = "returned" /\ lastErr' = "err"
    <3>1. Commands!StartCanaryTasks("new")
      BY <1>1, <1>2, <2>1, <2>2, <2>3, CommandMoves, CommandSame
         DEF Commands!StartCanaryTasks, Commands!awsVars
    <3> QED
      BY <3>1, CommandActs DEF Commands!RolloutStep
  <2>4. CASE Step' = "killed" /\ lastErr' = lastErr
    <3>1. Commands!Killed("new")
      BY <1>1, <1>2, <2>1, <2>2, <2>4, CommandMoves, CommandSame
         DEF Commands!Killed, Commands!awsVars, Commands!canaryVars
    <3> QED
      BY <3>1, CommandActs DEF Commands!Step
  <2> QED
    BY <2>1, <2>3, <2>4
<1> QED
  BY <1>3, <1>4

\* A canary started is not seen; one that is not ends the command's Exec.
LEMMA CommandExecStart ==
    ASSUME RInv, RInv', NEW t \in Task, ExecStart(t)
    PROVE  CommandStep
<1>1. /\ UNCHANGED <<input, canaries, service, serviceUpdated, registered>>
      /\ phase = "start" /\ t \in canaries /\ pc[t] = "new" /\ Step = "exec"
      /\ pc \in [Task -> PcState] /\ canaries \subseteq Task
  BY DEF ExecStart, Start, Step, RInv, IInv, TypeOK, TaskTypeOK
<1>2. \/ pc' = [pc EXCEPT ![t] = "started"] /\ phase' = "start" /\ lastErr' = lastErr
      \/ pc' = [pc EXCEPT ![t] = "startErr"] /\ phase' = "cleanup" /\ lastErr' = "err"
      \/ pc' = [pc EXCEPT ![t] = "startPanic"] /\ phase' = "cleanup" /\ lastErr' = lastErr
  BY <1>1 DEF ExecStart, Start, Goto
<1>3. Healthy = FALSE /\ Healthy' = FALSE
  <2>1. pc'[t] # "ok"
    BY <1>1, <1>2
  <2>2. t \notin Approved /\ t \notin Approved'
    BY <1>1, <2>1 DEF Approved
  <2> QED
    BY <1>1, <2>2 DEF Healthy
<1>4. pc'[t] # "startPanic" => UNCHANGED Swallowed
  BY <1>1, <1>2 DEF Swallowed
<1>5. pc'[t] = "startPanic" => Swallowed'
  BY DEF Swallowed
<1>6. CASE pc'[t] = "started"
  <2>1. UNCHANGED CommandVars
    BY <1>1, <1>2, <1>3, <1>4, <1>6 DEF CommandVars, Step
  <2> QED
    BY <2>1, CommandStutters
<1>7. CASE pc'[t] \in {"startErr", "startPanic"}
  <2>1. Step' = "cleanup"
    BY <1>1, <1>2, <1>7 DEF Step
  <2>2. "new" \notin {c \in {"new"} : Healthy}
    BY <1>3
  <2>3. Swallowed' => {c \in {"new"} : Swallowed'} = {c \in {"new"} : Swallowed} \cup {"new"}
    OBVIOUS
  <2>4. \/ lastErr' = "err" /\ UNCHANGED Swallowed
        \/ Swallowed' /\ lastErr' = lastErr
    BY <1>1, <1>2, <1>4, <1>5, <1>7
  <2>5. Commands!Exec("new")
    BY <1>1, <1>3, <2>1, <2>2, <2>3, <2>4, CommandMoves, CommandSame DEF Commands!Exec, Commands!awsVars
  <2> QED
    BY <2>5, CommandActs DEF Commands!RolloutStep
<1> QED
  BY <1>1, <1>2, <1>6, <1>7

LEMMA CommandExecWait ==
    ASSUME RInv, ExecWait
    PROVE  CommandStep
<1>1. /\ UNCHANGED <<input, canaries, service, lastErr, registered>>
      /\ Step = "exec" /\ Step' = "exec" /\ canaries # {}
      /\ \A t \in canaries : t \in Task /\ pc[t] = "started" /\ pc'[t] = "running"
      /\ \A t \in Task \ canaries : pc'[t] = pc[t]
  BY DEF ExecWait, Step, RInv, IInv, TypeOK, Gated
<1>2. Approved = {} /\ Approved' = {}
  BY <1>1 DEF Approved
<1>3. Healthy = FALSE /\ Healthy' = FALSE
  BY <1>1, <1>2 DEF Healthy
<1>4. \A t \in Task : pc'[t] = "startPanic" <=> pc[t] = "startPanic"
  BY <1>1
<1>5. UNCHANGED Swallowed
  BY <1>4 DEF Swallowed
<1> QED
  BY <1>1, <1>3, <1>5, CommandStutters DEF CommandVars

LEMMA CommandExecReturns ==
    ASSUME RInv, ExecReturns
    PROVE  CommandStep
<1>1. UNCHANGED <<pc, input, canaries, service, registered>> /\ Step = "exec" /\ canaries # {}
  BY taskVarsParts DEF ExecReturns, Step, RInv, IInv, Gated
<1>2. CASE ExecErr
  <2>1. Step' = "cleanup" /\ lastErr' = "err"
    BY <1>2 DEF ExecReturns, Step
  <2>2. Healthy = FALSE
    BY <1>2, NotHealthyYet DEF ExecErr
  <2>3. "new" \notin {c \in {"new"} : Healthy}
    BY <2>2
  <2>4. Commands!Exec("new")
    BY <1>1, <2>1, <2>3, CommandMoves, CommandSame, CommandCanariesSame DEF Commands!Exec, Commands!awsVars
  <2> QED
    BY <2>4, CommandActs DEF Commands!RolloutStep
<1>3. CASE ~ExecErr
  <2>1. Step' = "update" /\ lastErr' = lastErr
    BY <1>3 DEF ExecReturns, Step
  <2>2. Healthy
    BY <1>1, <1>3 DEF ExecReturns, ExecErr, WaitsOver, Healthy, Approved
  <2>3. Commands!MayUpdate("new")
    BY <2>2 DEF Commands!MayUpdate
  <2>4. Commands!Exec("new")
    BY <1>1, <2>1, <2>3, CommandMoves, CommandSame, CommandCanariesSame DEF Commands!Exec, Commands!awsVars
  <2> QED
    BY <2>4, CommandActs DEF Commands!RolloutStep
<1> QED
  BY <1>2, <1>3

\* What the record of the service becomes when some of its fields are replaced.
Record(V) == [status : V, td : V, before : V, lbs : V, deployment : V]

LEMMA SameRecord ==
    ASSUME NEW V, NEW q \in Record(V), NEW z \in Record(V),
           q.status = z.status, q.td = z.td, q.before = z.before, q.lbs = z.lbs,
           q.deployment = z.deployment
    PROVE  q = z
BY DEF Record

LEMMA RecordUpdated ==
    ASSUME NEW a, NEW v, NEW b, NEW l, NEW d, NEW v1, NEW l1, NEW d1, NEW b1
    PROVE  [[status |-> a, td |-> v, before |-> b, lbs |-> l, deployment |-> d]
                EXCEPT !.td = v1, !.lbs = l1, !.deployment = d1, !.before = b1]
               = [status |-> a, td |-> v1, before |-> b1, lbs |-> l1, deployment |-> d1]
<1> DEFINE V == {a, v, b, l, d, v1, l1, d1, b1}
           s == [status |-> a, td |-> v, before |-> b, lbs |-> l, deployment |-> d]
           q == [s EXCEPT !.td = v1, !.lbs = l1, !.deployment = d1, !.before = b1]
           z == [status |-> a, td |-> v1, before |-> b1, lbs |-> l1, deployment |-> d1]
<1>1. s \in Record(V) /\ s.status = a /\ s.td = v /\ s.before = b /\ s.lbs = l /\ s.deployment = d
  BY DEF Record
<1>2. /\ z \in Record(V)
      /\ z.status = a /\ z.td = v1 /\ z.before = b1 /\ z.lbs = l1 /\ z.deployment = d1
  BY DEF Record
<1>3. {a, v, b, l, d, v1, l1, d1, b1} \subseteq V
  OBVIOUS
<1> HIDE DEF V, s
<1>4. /\ q \in Record(V)
      /\ q.status = a /\ q.td = v1 /\ q.before = b1 /\ q.lbs = l1 /\ q.deployment = d1
  BY <1>1, <1>3 DEF Record
<1> HIDE DEF q, z
<1>5. q = z
  BY <1>2, <1>4, SameRecord
<1> QED
  BY <1>5 DEF q, z, s

LEMMA RecordSettled ==
    ASSUME NEW a, NEW v, NEW b, NEW l, NEW d, NEW d1, NEW b1
    PROVE  [[status |-> a, td |-> v, before |-> b, lbs |-> l, deployment |-> d]
                EXCEPT !.deployment = d1, !.before = b1]
               = [status |-> a, td |-> v, before |-> b1, lbs |-> l, deployment |-> d1]
<1> DEFINE V == {a, v, b, l, d, d1, b1}
           s == [status |-> a, td |-> v, before |-> b, lbs |-> l, deployment |-> d]
           q == [s EXCEPT !.deployment = d1, !.before = b1]
           z == [status |-> a, td |-> v, before |-> b1, lbs |-> l, deployment |-> d1]
<1>1. s \in Record(V) /\ s.status = a /\ s.td = v /\ s.before = b /\ s.lbs = l /\ s.deployment = d
  BY DEF Record
<1>2. /\ z \in Record(V)
      /\ z.status = a /\ z.td = v /\ z.before = b1 /\ z.lbs = l /\ z.deployment = d1
  BY DEF Record
<1>3. {a, v, b, l, d, d1, b1} \subseteq V
  OBVIOUS
<1> HIDE DEF V, s
<1>4. /\ q \in Record(V)
      /\ q.status = a /\ q.td = v /\ q.before = b1 /\ q.lbs = l /\ q.deployment = d1
  BY <1>1, <1>3 DEF Record
<1> HIDE DEF q, z
<1>5. q = z
  BY <1>2, <1>4, SameRecord
<1> QED
  BY <1>5 DEF q, z, s

LEMMA RecordReverted ==
    ASSUME NEW a, NEW v, NEW b, NEW l, NEW d, NEW d1, NEW v1
    PROVE  [[status |-> a, td |-> v, before |-> b, lbs |-> l, deployment |-> d]
                EXCEPT !.deployment = d1, !.td = v1]
               = [status |-> a, td |-> v1, before |-> b, lbs |-> l, deployment |-> d1]
<1> DEFINE V == {a, v, b, l, d, d1, v1}
           s == [status |-> a, td |-> v, before |-> b, lbs |-> l, deployment |-> d]
           q == [s EXCEPT !.deployment = d1, !.td = v1]
           z == [status |-> a, td |-> v1, before |-> b, lbs |-> l, deployment |-> d1]
<1>1. s \in Record(V) /\ s.status = a /\ s.td = v /\ s.before = b /\ s.lbs = l /\ s.deployment = d
  BY DEF Record
<1>2. /\ z \in Record(V)
      /\ z.status = a /\ z.td = v1 /\ z.before = b /\ z.lbs = l /\ z.deployment = d1
  BY DEF Record
<1>3. {a, v, b, l, d, d1, v1} \subseteq V
  OBVIOUS
<1> HIDE DEF V, s
<1>4. /\ q \in Record(V)
      /\ q.status = a /\ q.td = v1 /\ q.before = b /\ q.lbs = l /\ q.deployment = d1
  BY <1>1, <1>3 DEF Record
<1> HIDE DEF q, z
<1>5. q = z
  BY <1>2, <1>4, SameRecord
<1> QED
  BY <1>5 DEF q, z, s

LEMMA RecordDeleted ==
    ASSUME NEW a, NEW v, NEW b, NEW l, NEW d, NEW a1
    PROVE  [[status |-> a, td |-> v, before |-> b, lbs |-> l, deployment |-> d] EXCEPT !.status = a1]
               = [status |-> a1, td |-> v, before |-> b, lbs |-> l, deployment |-> d]
OBVIOUS

LEMMA CommandUpdateService ==
    ASSUME RInv, UpdateService
    PROVE  CommandStep
<1>1. /\ UNCHANGED <<pc, input, canaries, registered>> /\ phase = "update" /\ Step = "update"
      /\ service \in Service
  BY taskVarsParts DEF UpdateService, Step, RInv, IInv, TypeOK
<1>2. registered /\ service.td = "old" /\ service.deployment = "steady"
  BY <1>1 DEF RInv, IInv, Gated, Served, BeforeUpdate, BeforeCanaries
<1>3. \/ service.status = "ACTIVE" /\ service' = Updated /\ Step' = "stable" /\ lastErr' = lastErr
      \/ /\ service' = service \/ (service.status = "ACTIVE" /\ service' = Updated)
         /\ Step' = "cleanup" /\ lastErr' = "err"
  BY DEF UpdateService, Step
<1>4. service' = Updated =>
          Commands!Writes("new", Commands!Updated("new"))
  <2> SUFFICES ASSUME service' = Updated PROVE Commands!Writes("new", Commands!Updated("new"))
    OBVIOUS
  <2>1. /\ service'.status = service.status /\ service'.td = "new" /\ service'.lbs = NewLoadBalancers
        /\ service'.deployment = "rolling"
    BY <1>1 DEF Updated, Service
  <2>2. Before = "old" /\ Before' = "old" /\ ~Written /\ Written'
    BY <1>2, <2>1 DEF Before, Written
  <2>3. NewLoadBalancers = Commands!NewLoadBalancers("new")
    BY DEF NewLoadBalancers, Commands!NewLoadBalancers
  <2>4. Append(<<>>, "new") = <<"new">>
    OBVIOUS
  <2>5. Commands!Updated("new") = [status |-> service.status, td |-> "new", before |-> "old",
                                   lbs |-> NewLoadBalancers, deployment |-> "rolling"]
    <3> DEFINE s == [status |-> service.status, td |-> service.td, before |-> Before,
                     lbs |-> service.lbs, deployment |-> service.deployment]
    <3>1. s.deployment = "steady" /\ s.td = "old"
      BY <1>2
    <3>2. [c \in {"new"} |-> IF registered THEN "new" ELSE "none"]["new"] = "new"
      BY <1>2
    <3>3. (IF s.deployment = "rolling" THEN s.before ELSE s.td) = "old"
      BY <3>1
    <3>4. Commands!Updated("new") = [s EXCEPT !.td = "new", !.lbs = NewLoadBalancers,
                                              !.deployment = "rolling", !.before = "old"]
      BY <2>3, <3>2, <3>3, Zenon DEF Commands!Updated
    <3> QED
      BY <3>4, RecordUpdated
  <2> QED
    BY <2>1, <2>2, <2>4, <2>5 DEF Commands!Writes
<1>5. service' = service => Commands!NoWrite
  BY CommandSame DEF Commands!NoWrite
<1>6. Commands!UpdateService("new")
  BY <1>1, <1>3, <1>4, <1>5, CommandMoves, CommandSame, CommandCanariesSame
     DEF Commands!UpdateService, Commands!canaryVars
<1> QED
  BY <1>6, CommandActs DEF Commands!RolloutStep

LEMMA CommandAfter ==
    ASSUME RInv, WaitServiceStable \/ Cleanup \/ CleanupReturns
    PROVE  CommandStep
<1>1. UNCHANGED <<pc, input, canaries, service, registered>>
  BY taskVarsParts DEF WaitServiceStable, Cleanup, CleanupReturns, waitVars
<1>2. UNCHANGED <<Healthy, Swallowed, canaries \ {Simple}>>
  BY <1>1, CommandCanariesSame
<1>3. CASE WaitServiceStable
  <2>1. Step = "stable" /\ Step' = "cleanup"
    BY <1>3 DEF WaitServiceStable, Step
  <2>2. (Commands!Stable /\ lastErr' = lastErr) \/ lastErr' = "err"
    BY <1>3 DEF WaitServiceStable, Stable, Commands!Stable
  <2>3. Commands!WaitServiceStable("new")
    BY <1>1, <1>2, <2>1, <2>2, CommandMoves, CommandSame
       DEF Commands!WaitServiceStable, Commands!canaryVars, Commands!awsVars
  <2> QED
    BY <2>3, CommandActs DEF Commands!Step
<1>4. CASE Cleanup
  <2>1. Step' = Step /\ lastErr' = lastErr
    BY <1>4 DEF Cleanup, Step
  <2> QED
    BY <1>1, <1>2, <2>1, CommandStutters DEF CommandVars
<1>5. CASE CleanupReturns
  <2>1. Step = "cleanup" /\ Step' = "returned" /\ (lastErr' = lastErr \/ lastErr' = "err")
    BY <1>5 DEF CleanupReturns, Step
  <2>2. Commands!Cleanup("new")
    BY <1>1, <1>2, <2>1, CommandMoves, CommandSame
       DEF Commands!Cleanup, Commands!canaryVars, Commands!awsVars
  <2> QED
    BY <2>2, CommandActs DEF Commands!RolloutStep
<1> QED
  BY <1>3, <1>4, <1>5

\* Of the canaries' own steps the command notices the one that completes the proof.
LEMMA CommandCanaryStep ==
    ASSUME RInv, NEW t \in Task, CanaryStep(t)
    PROVE  CommandStep
<1>0. /\ TaskTypeOK /\ canaries \subseteq Task /\ Running
      /\ UNCHANGED <<phase, input, canaries, lastErr, service, registered>>
  BY DEF RInv, IInv, TypeOK, CanaryStep, rolloutVars
<1>1. UNCHANGED Step
  BY <1>0 DEF Step
<1>2. CASE WaitStep(t)
  <2>1. pc[t] \in Waiting
    BY <1>0, <1>2, WaitStepTarget
  <2>2. \A u \in Task : pc'[u] = "startPanic" <=> pc[u] = "startPanic"
    BY <1>0, <1>2, WaitStepFrame DEF StartLabel
  <2>3. UNCHANGED Swallowed
    BY <2>2 DEF Swallowed
  <2>4. phase = "wait" /\ t \in canaries /\ pc[t] # "ok"
    BY <1>0, <2>1, WaitingInExec DEF RInv, Waiting
  <2>5. Healthy = FALSE /\ Step = "exec"
    BY <2>4, NotHealthyYet DEF Step
  <2>6. CASE Healthy' = FALSE
    BY <1>0, <1>1, <2>3, <2>5, <2>6, CommandStutters DEF CommandVars
  <2>7. CASE Healthy'
    <3>1. /\ "new" \notin {c \in {"new"} : Healthy}
          /\ {c \in {"new"} : Healthy'} = {c \in {"new"} : Healthy} \cup {"new"}
      BY <2>5, <2>7
    <3>2. UNCHANGED [c \in {"new"} |-> Step]
      BY <1>1
    <3>3. Commands!CanariesProve("new")
      BY <1>0, <2>3, <2>5, <3>1, <3>2, CommandSame DEF Commands!CanariesProve, Commands!awsVars
    <3> QED
      BY <3>3, CommandActs DEF Commands!RolloutStep
  <2> QED
    BY <2>6, <2>7 DEF Healthy
<1>3. CASE StopStep(t)
  <2>1. UNCHANGED pc
    BY <1>3, StopStepFrame DEF waitVars
  <2> QED
    BY <1>0, <1>1, <2>1, CommandCanariesSame, CommandStutters DEF CommandVars
<1> QED
  BY <1>2, <1>3 DEF CanaryStep

LEMMA CommandDeath ==
    ASSUME RInv, GoroutinePanics \/ Killed
    PROVE  CommandStep
<1>1. /\ UNCHANGED <<pc, input, canaries, lastErr, service, registered>>
      /\ Step # "returned" /\ Step' = "killed"
  BY taskVarsParts DEF GoroutinePanics, Killed, Running, Step
<1>2. Commands!Killed("new")
  BY <1>1, CommandMoves, CommandSame, CommandCanariesSame
     DEF Commands!Killed, Commands!awsVars, Commands!canaryVars
<1> QED
  BY <1>2, CommandActs DEF Commands!Step

LEMMA CommandServiceStep ==
    ASSUME RInv, ServiceStep
    PROVE  CommandStep
<1>1. /\ UNCHANGED <<pc, phase, input, canaries, lastErr, registered>> /\ service \in Service
  BY taskVarsParts DEF ServiceStep, RInv, IInv, TypeOK
<1>2. UNCHANGED <<Step, Healthy, Swallowed, canaries \ {Simple}>>
  BY <1>1, CommandCanariesSame DEF Step
<1>3. service.deployment = "rolling" => service.td = "new" /\ Before = "old"
  BY DEF RInv, Served, Before
<1>4. service'.lbs = service.lbs /\ (Written <=> Written') /\
      \/ /\ service.deployment = "rolling" /\ service'.deployment = "steady"
         /\ service'.td = service.td /\ service'.status = service.status /\ Before' = service.td
      \/ /\ service.deployment = "rolling" /\ service'.deployment = "reverted"
         /\ service'.td = Before /\ service'.status = service.status /\ Before' = Before
      \/ /\ service.status = "ACTIVE" /\ service'.status = "INACTIVE"
         /\ service'.td = service.td /\ service'.deployment = service.deployment /\ Before' = Before
  BY <1>1, <1>3, ServiceStepCases DEF Before, Written
<1>5. UNCHANGED (IF Written THEN <<"new">> ELSE <<>>)
  BY <1>4
<1> DEFINE s == [status |-> service.status, td |-> service.td, before |-> Before,
                 lbs |-> service.lbs, deployment |-> service.deployment]
<1> DEFINE V == {service.status, service.td, Before, service.lbs, service.deployment,
                 "steady", "reverted"}
<1>6. /\ {service.status, service.td, Before, service.lbs, service.deployment, "steady", "reverted"} \subseteq V
      /\ s \in Record(V) /\ s.status = service.status /\ s.td = service.td /\ s.before = Before
      /\ s.lbs = service.lbs /\ s.deployment = service.deployment
  BY DEF Record
<1> HIDE DEF s, V
<1>7. ASSUME service.deployment = "rolling", service'.deployment = "steady"
      PROVE  s' = [s EXCEPT !.deployment = "steady", !.before = s.td]
  <2> DEFINE q == [s EXCEPT !.deployment = "steady", !.before = s.td]
             z == [status |-> service'.status, td |-> service'.td, before |-> Before',
                   lbs |-> service'.lbs, deployment |-> service'.deployment]
  <2>1. /\ q \in Record(V) /\ q.status = service.status /\ q.td = service.td /\ q.before = service.td
        /\ q.lbs = service.lbs /\ q.deployment = "steady"
    BY <1>6 DEF Record
  <2>2. /\ z.status = service.status /\ z.td = service.td /\ z.before = service.td
        /\ z.lbs = service.lbs /\ z.deployment = "steady"
    BY <1>4, <1>7
  <2>3. z \in Record(V)
    BY <1>4, <1>6, <1>7 DEF Record
  <2> HIDE DEF q, z
  <2>4. q = z
    BY <2>1, <2>2, <2>3, SameRecord
  <2> QED
    BY <2>4 DEF q, z, s
<1>8. ASSUME service.deployment = "rolling", service'.deployment = "reverted"
      PROVE  s' = [s EXCEPT !.deployment = "reverted", !.td = s.before]
  <2> DEFINE q == [s EXCEPT !.deployment = "reverted", !.td = s.before]
             z == [status |-> service'.status, td |-> service'.td, before |-> Before',
                   lbs |-> service'.lbs, deployment |-> service'.deployment]
  <2>1. /\ q \in Record(V) /\ q.status = service.status /\ q.td = Before /\ q.before = Before
        /\ q.lbs = service.lbs /\ q.deployment = "reverted"
    BY <1>6 DEF Record
  <2>2. /\ z.status = service.status /\ z.td = Before /\ z.before = Before
        /\ z.lbs = service.lbs /\ z.deployment = "reverted"
    BY <1>4, <1>8
  <2>3. z \in Record(V)
    BY <1>4, <1>6, <1>8 DEF Record
  <2> HIDE DEF q, z
  <2>4. q = z
    BY <2>1, <2>2, <2>3, SameRecord
  <2> QED
    BY <2>4 DEF q, z, s
<1>9. ASSUME service.status = "ACTIVE", service'.status = "INACTIVE"
      PROVE  s.status # "INACTIVE" /\ s' = [s EXCEPT !.status = "INACTIVE"]
  BY <1>4, <1>9, RecordDeleted DEF s
<1>10. \/ s.deployment = "rolling" /\ s' = [s EXCEPT !.deployment = "steady", !.before = s.td]
       \/ s.deployment = "rolling" /\ s' = [s EXCEPT !.deployment = "reverted", !.td = s.before]
       \/ s.status # "INACTIVE" /\ s' = [s EXCEPT !.status = "INACTIVE"]
  BY <1>4, <1>6, <1>7, <1>8, <1>9
<1>11. Commands!ServiceStep
  BY <1>1, <1>2, <1>5, <1>10, CommandSame DEF Commands!ServiceStep, Commands!canaryVars, s
<1> QED
  BY <1>11, CommandActs

LEMMA CommandNext == RInv /\ RInv' /\ [Next]_vars => CommandStep
<1> SUFFICES ASSUME RInv, RInv', [Next]_vars PROVE CommandStep
  OBVIOUS
<1>1. CASE MainStep
  BY <1>1, CommandDescribe, CommandCreate, CommandStartCanaryTasks, CommandExecStart, CommandExecWait,
     CommandExecReturns, CommandUpdateService, CommandAfter DEF MainStep
<1>2. ASSUME NEW t \in Task, AwsStep(t), UNCHANGED rolloutVars PROVE CommandStep
  <2>1. UNCHANGED <<pc, phase, input, canaries, lastErr, service, registered>>
    BY <1>2, AwsStepFrame DEF rolloutVars, programVars
  <2> QED
    BY <2>1, CommandCanariesSame, CommandStutters DEF CommandVars, Step
<1>3. CASE UNCHANGED vars
  <2>1. UNCHANGED <<pc, phase, input, canaries, lastErr, service, registered>>
    BY <1>3, taskVarsParts DEF vars, rolloutVars
  <2> QED
    BY <2>1, CommandCanariesSame, CommandStutters DEF CommandVars, Step
<1> QED
  BY <1>1, <1>2, <1>3, CommandCanaryStep, CommandDeath, CommandServiceStep DEF Next, World, Over

\* With all the calls of its canaries, a rollout is a command of ServiceCommands: what
\* is proved there of many commands holds of the program.
THEOREM ImplementsCommands == Spec => CommandSpec
<1>1. Init => Commands!Init
  <2> SUFFICES ASSUME Init PROVE Commands!Init
    OBVIOUS
  <2>1. /\ Step = "describe" /\ canaries = {} /\ registered = FALSE /\ lastErr = "nil"
        /\ service \in Service /\ service.td = "old" /\ service.deployment = "steady"
        /\ input \in Input /\ (input.given => input.updateService) /\ (~input.given => input.lbs = {})
        /\ Swallowed = FALSE
    BY DEF Init, TaskInit, Step, Swallowed
  <2>2. Before = "old" /\ Written = FALSE /\ Healthy = FALSE
    BY <2>1 DEF Before, Written, Healthy
  <2>3. Commands!Command = {"new"}
    BY DEF Commands!Command
  <2>4. [c \in {"new"} |-> input] \in [{"new"} -> Commands!Input]
    BY <2>1 DEF Input, Commands!Input
  <2>5. [status |-> service.status, td |-> service.td, before |-> Before,
         lbs |-> service.lbs, deployment |-> service.deployment] \in Commands!Service
    BY <2>1, <2>2 DEF Service, Commands!Service, Commands!TaskDefinition
  <2> QED
    BY <2>1, <2>2, <2>3, <2>4, <2>5 DEF Commands!Init, Commands!Called
<1>2. RInv /\ RInv' /\ [Next]_vars => [Commands!Next]_(Commands!vars)
  BY CommandNext DEF CommandStep
<1> QED
  BY <1>1, <1>2, RInvariant, PTL DEF Spec, CommandSpec, Commands!Spec
=============================================================================
