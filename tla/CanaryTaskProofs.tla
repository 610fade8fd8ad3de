-------------------------- MODULE CanaryTaskProofs --------------------------
(***************************************************************************)
(* Proofs about CanaryTask, for every set of canaries and of containers    *)
(* with a health check, and every waiting time and limit.                  *)
(***************************************************************************)
EXTENDS CanaryTask, TLAPS

-----------------------------------------------------------------------------
(* Type correctness: a lemma for each action *)

\* Helpers stay in their ranges: a loop never has less than no time left, ...
LEMMA AfterPollType == \A r \in Nat : AfterPoll(r) \in Nat
BY DEF AfterPoll, PollPeriod

\* ... and the container loop is followed by a stage of Wait or by its failure.
LEMMA ContainersNextType ==
    \A t, left, r : ContainersNext(t, left, r) \in PcState
BY DEF ContainersNext, PcState, Waiting

LEMMA LoopBudgetType == \A label : \A r \in Nat : LoopBudget(label, r) \in Nat
BY TaskAssumption DEF LoopBudget

LEMMA StopNextType == \A t : StopTaskNext(t) \in SpcState /\ StopNext(t) \in SpcState
BY DEF StopTaskNext, StopNext, SpcState, Stopping

LEMMA StartType ==
    ASSUME TaskTypeOK, NEW t \in Task, Start(t)
    PROVE  TaskTypeOK'
BY DEF TaskTypeOK, Start, Goto, Failed, PcState, EcsStatus, Call

LEMMA WaitForTaskRunningType ==
    ASSUME TaskTypeOK, NEW t \in Task, WaitForTaskRunning(t)
    PROVE  TaskTypeOK'
<1>1. ContainersNext(t, HealthChecked, TaskHealthCheckWait) \in PcState
  BY ContainersNextType
<1>2. LoopBudget(ContainersNext(t, HealthChecked, TaskHealthCheckWait), TaskHealthCheckWait) \in Nat
  BY LoopBudgetType, TaskAssumption
<1>3. "waitErr" \in PcState /\ {"running"} \subseteq Evidence
  BY DEF PcState, Evidence
<1> QED
  BY <1>1, <1>2, <1>3 DEF TaskTypeOK, WaitForTaskRunning, Goto, Saw, awsVars

LEMMA ContainerRoundType ==
    ASSUME TaskTypeOK, NEW t \in Task, NEW reported \in SUBSET HealthChecked,
           NEW healthy \in SUBSET reported, ContainerRound(t, reported, healthy)
    PROVE  /\ containers' \in [Task -> SUBSET HealthChecked]
           /\ pc' \in [Task -> PcState]
           /\ rest' \in [Task -> Nat]
           /\ seen' \in [Task -> SUBSET Evidence]
<1> DEFINE left  == StillUnhealthy(containers[t], reported, healthy)
           label == ContainersNext(t, left, AfterPoll(rest[t]))
<1>1. left \in SUBSET HealthChecked
  BY DEF StillUnhealthy, TaskTypeOK
<1>2. label \in PcState
  BY ContainersNextType
<1>3. LoopBudget(label, AfterPoll(rest[t])) \in Nat
  BY LoopBudgetType, AfterPollType DEF TaskTypeOK
<1>4. healthy \subseteq Evidence
  BY DEF Evidence
<1>5. /\ containers' = [containers EXCEPT ![t] = left]
      /\ pc' = [pc EXCEPT ![t] = label]
      /\ rest' = [rest EXCEPT ![t] = LoopBudget(label, AfterPoll(rest[t]))]
      /\ seen' = [seen EXCEPT ![t] = @ \cup healthy]
  BY DEF ContainerRound, Goto, Saw
<1> HIDE DEF left, label
<1> QED
  BY <1>1, <1>2, <1>3, <1>4, <1>5 DEF TaskTypeOK

\* A call that ends Wait leaves the program counter in its range.
LEMMA WaitBrokenType ==
    ASSUME TaskTypeOK, NEW t \in Task, WaitBroken(t)
    PROVE  pc' \in [Task -> PcState]
BY DEF TaskTypeOK, WaitBroken, Goto, PcState

LEMMA WaitContainerHealthCheckType ==
    ASSUME TaskTypeOK, NEW t \in Task, WaitContainerHealthCheck(t)
    PROVE  TaskTypeOK'
<1>1. UNCHANGED <<spc, taskArn, target, notHealthyCount, recentState, ecs, tg, failed>>
  BY DEF WaitContainerHealthCheck, awsVars
<1>2. /\ containers' \in [Task -> SUBSET HealthChecked]
      /\ pc' \in [Task -> PcState]
      /\ rest' \in [Task -> Nat]
      /\ seen' \in [Task -> SUBSET Evidence]
  <2>1. CASE \E reported \in SUBSET HealthChecked : \E healthy \in SUBSET reported :
                ContainerRound(t, reported, healthy)
    BY <2>1, ContainerRoundType
  <2>2. CASE WaitBroken(t) /\ UNCHANGED <<containers, rest, seen>>
    BY <2>2, WaitBrokenType DEF TaskTypeOK
  <2> QED
    BY <2>1, <2>2 DEF WaitContainerHealthCheck
<1> QED
  BY <1>1, <1>2 DEF TaskTypeOK

LEMMA IdleRoundType ==
    ASSUME TaskTypeOK, NEW t \in Task, IdleRound(t)
    PROVE  TaskTypeOK'
BY AfterPollType DEF TaskTypeOK, IdleRound, awsVars, historyVars

LEMMA IdleCheckType ==
    ASSUME TaskTypeOK, NEW t \in Task, IdleCheck(t)
    PROVE  TaskTypeOK'
<1>1. pc' \in [Task -> PcState]
  BY WaitBrokenType DEF IdleCheck, TaskTypeOK, Goto, PcState
<1>2. seen' \in [Task -> SUBSET Evidence]
  BY DEF IdleCheck, TaskTypeOK, Saw, Evidence
<1> QED
  BY <1>1, <1>2 DEF TaskTypeOK, IdleCheck, awsVars

LEMMA DescribeTaskTargetType ==
    ASSUME TaskTypeOK, NEW t \in Task, DescribeTaskTarget(t)
    PROVE  TaskTypeOK'
<1>1. pc' \in [Task -> PcState]
  BY WaitBrokenType DEF DescribeTaskTarget, TaskTypeOK, Goto, PcState, Waiting
<1> QED
  BY <1>1 DEF TaskTypeOK, DescribeTaskTarget, awsVars, historyVars

LEMMA RegisterTargetsType ==
    ASSUME TaskTypeOK, NEW t \in Task, RegisterTargets(t)
    PROVE  TaskTypeOK'
<1>1. pc' \in [Task -> PcState]
  BY DEF RegisterTargets, TaskTypeOK, Goto, PcState, Waiting
<1>2. tg' \in [Task -> TargetStatus]
  BY DEF RegisterTargets, TaskTypeOK, TargetStatus
<1>3. notHealthyCount' \in [Task -> 0..NotHealthyLimit] /\ recentState' \in [Task -> TargetHealth]
  BY TaskAssumption DEF RegisterTargets, TaskTypeOK, TargetHealth
<1> QED
  BY <1>1, <1>2, <1>3 DEF TaskTypeOK, RegisterTargets, historyVars

\* The count stays within the limit because a round starts below it.
LEMMA TargetRoundType ==
    ASSUME TaskTypeOK, NEW t \in Task, notHealthyCount[t] < NotHealthyLimit,
           NEW reply \in TargetReply(tg[t]), TargetRound(t, reply)
    PROVE  /\ recentState' \in [Task -> TargetHealth]
           /\ notHealthyCount' \in [Task -> 0..NotHealthyLimit]
           /\ pc' \in [Task -> PcState]
           /\ seen' \in [Task -> SUBSET Evidence]
           /\ pc'[t] = "target" => notHealthyCount'[t] < NotHealthyLimit
<1> DEFINE state == IF reply = "nil" THEN recentState[t] ELSE reply
           count == NotHealthy(state, notHealthyCount[t])
<1>1. /\ recentState' = [recentState EXCEPT ![t] = state]
      /\ notHealthyCount' = [notHealthyCount EXCEPT ![t] = count]
      /\ pc' = [pc EXCEPT ![t] = Verdict(state, count)]
      /\ seen' = [seen EXCEPT ![t] = @ \cup ({reply} \cap {"healthy"})]
  BY DEF TargetRound, Goto, Saw
<1>2. reply \in TargetHealth
  BY DEF TargetReply, TargetHealth, TaskTypeOK, TargetStatus
<1>3. state \in TargetHealth
  BY <1>2 DEF TaskTypeOK
<1>4. count \in 0..NotHealthyLimit
  BY TaskAssumption DEF NotHealthy, TaskTypeOK
<1>5. Verdict(state, count) \in {"waitErr", "ok", "target"}
  BY DEF Verdict
<1>6. Verdict(state, count) = "target" => count < NotHealthyLimit
  BY <1>4 DEF Verdict, NotHealthy
<1> HIDE DEF state, count
<1> QED
  BY <1>1, <1>3, <1>4, <1>5, <1>6 DEF TaskTypeOK, PcState, Waiting, Evidence

LEMMA WaitUntilTargetHealthyType ==
    ASSUME TaskTypeOK, NEW t \in Task, notHealthyCount[t] < NotHealthyLimit,
           WaitUntilTargetHealthy(t)
    PROVE  TaskTypeOK'
<1>1. /\ recentState' \in [Task -> TargetHealth]
      /\ notHealthyCount' \in [Task -> 0..NotHealthyLimit]
      /\ pc' \in [Task -> PcState]
      /\ seen' \in [Task -> SUBSET Evidence]
  <2>1. CASE \E reply \in TargetReply(tg[t]) : TargetRound(t, reply)
    BY <2>1, TargetRoundType
  <2>2. CASE Goto(t, "waitErr") /\ UNCHANGED <<recentState, notHealthyCount, seen>>
    BY <2>2 DEF TaskTypeOK, Goto, PcState
  <2> QED
    BY <2>1, <2>2 DEF WaitUntilTargetHealthy
<1> QED
  BY <1>1 DEF TaskTypeOK, WaitUntilTargetHealthy, awsVars

LEMMA StopStepType ==
    ASSUME TaskTypeOK, NEW t \in Task, StopStep(t)
    PROVE  TaskTypeOK'
<1>1. StopTaskNext(t) \in SpcState /\ {"ok", "err", "stopWait", "deregWait"} \subseteq SpcState
  BY StopNextType DEF SpcState, Stopping
<1>2. CASE DeregisterTargets(t)
  BY <1>1, <1>2 DEF TaskTypeOK, DeregisterTargets, StopGoto, Failed, TargetStatus, Call, waitVars
<1>3. CASE WaitTargetDeregistered(t)
  BY <1>1, <1>3 DEF TaskTypeOK, WaitTargetDeregistered, StopGoto, Failed, Call, waitVars, awsVars
<1>4. CASE StopTask(t)
  BY <1>1, <1>4 DEF TaskTypeOK, StopTask, StopGoto, Failed, EcsStatus, Call, waitVars
<1>5. CASE WaitTaskStopped(t)
  BY <1>1, <1>5 DEF TaskTypeOK, WaitTaskStopped, StopGoto, Failed, Call, waitVars, awsVars
<1> QED
  BY <1>2, <1>3, <1>4, <1>5 DEF StopStep

LEMMA AwsStepType ==
    ASSUME TaskTypeOK, NEW t \in Task, AwsStep(t)
    PROVE  TaskTypeOK'
BY DEF TaskTypeOK, AwsStep, EcsStep, TargetStep, EcsStatus, TargetStatus, programVars, historyVars

-----------------------------------------------------------------------------
(* The evidence behind each stage of Wait *)

\* A canary past its first stage was reported RUNNING, a container it no longer
\* waits for was reported HEALTHY, and it leaves the container loop only with none
\* to wait for; from there a canary without a load balancer idles and one with a
\* load balancer is registered.  A target is condemned when the count reaches the
\* limit, and the state kept for a reply without it is never "healthy".
GatheredBy(t) ==
    /\ pc[t] \in {"containers", "idle", "describe", "register", "target", "ok"} =>
           "running" \in seen[t] /\ HealthChecked \subseteq containers[t] \cup seen[t]
    /\ pc[t] \in {"idle", "describe", "register", "target", "ok"} => containers[t] = {}
    /\ pc[t] = "idle" => t \notin LB
    /\ pc[t] \in {"describe", "register", "target"} => t \in LB
    /\ pc[t] = "target" => notHealthyCount[t] < NotHealthyLimit /\ recentState[t] # "healthy"
    /\ pc[t] = "ok" => Proof(t) \subseteq seen[t]

Gathered == \A t \in Task : GatheredBy(t)

\* The variables of other canaries that GatheredBy speaks of.
OthersAsTheyWere(t) ==
    \A u \in Task \ {t} : /\ pc'[u] = pc[u]
                          /\ containers'[u] = containers[u]
                          /\ seen'[u] = seen[u]
                          /\ notHealthyCount'[u] = notHealthyCount[u]
                          /\ recentState'[u] = recentState[u]

LEMMA GatheredFrame ==
    ASSUME Gathered, NEW t \in Task, OthersAsTheyWere(t), GatheredBy(t)'
    PROVE  Gathered'
<1> SUFFICES ASSUME NEW u \in Task, u # t PROVE GatheredBy(u)'
  BY DEF Gathered
<1> QED
  BY DEF Gathered, GatheredBy, OthersAsTheyWere, Proof

\* A canary that is at none of the stages owes no evidence.
LEMMA GatheredOutside ==
    ASSUME TaskTypeOK, Gathered, NEW t \in Task,
           NEW label \in {"new", "started", "startErr", "startPanic", "running", "waitErr", "waitPanic"},
           Goto(t, label), UNCHANGED <<containers, seen>>,
           \A u \in Task \ {t} : /\ notHealthyCount'[u] = notHealthyCount[u]
                                 /\ recentState'[u] = recentState[u]
    PROVE  Gathered'
<1>1. pc'[t] = label /\ \A u \in Task \ {t} : pc'[u] = pc[u]
  BY DEF Goto, TaskTypeOK
<1>2. OthersAsTheyWere(t)
  BY <1>1 DEF OthersAsTheyWere
<1>3. GatheredBy(t)'
  BY <1>1 DEF GatheredBy
<1> QED
  BY <1>2, <1>3, GatheredFrame

LEMMA WaitBrokenGathered ==
    ASSUME TaskTypeOK, Gathered, NEW t \in Task, WaitBroken(t),
           UNCHANGED <<containers, seen, notHealthyCount, recentState>>
    PROVE  Gathered'
BY GatheredOutside DEF WaitBroken

LEMMA StartGathered ==
    ASSUME TaskTypeOK, Gathered, NEW t \in Task, Start(t)
    PROVE  Gathered'
BY GatheredOutside DEF Start

LEMMA WaitForTaskRunningGathered ==
    ASSUME TaskTypeOK, Gathered, NEW t \in Task, WaitForTaskRunning(t)
    PROVE  Gathered'
<1>1. CASE Goto(t, "waitErr") /\ UNCHANGED <<containers, rest, seen>>
  BY <1>1, GatheredOutside DEF WaitForTaskRunning
<1>2. CASE /\ containers' = [containers EXCEPT ![t] = HealthChecked]
           /\ Goto(t, ContainersNext(t, HealthChecked, TaskHealthCheckWait))
           /\ Saw(t, {"running"})
  <2>1. OthersAsTheyWere(t)
    BY <1>2 DEF OthersAsTheyWere, Goto, Saw, TaskTypeOK, WaitForTaskRunning
  <2>2. GatheredBy(t)'
    BY <1>2 DEF GatheredBy, Goto, Saw, TaskTypeOK, ContainersNext
  <2> QED
    BY <2>1, <2>2, GatheredFrame
<1> QED
  BY <1>1, <1>2 DEF WaitForTaskRunning

LEMMA WaitContainerHealthCheckGathered ==
    ASSUME TaskTypeOK, Gathered, NEW t \in Task, WaitContainerHealthCheck(t)
    PROVE  Gathered'
<1>1. CASE WaitBroken(t) /\ UNCHANGED <<containers, rest, seen>>
  BY <1>1, WaitBrokenGathered DEF WaitContainerHealthCheck
<1>2. ASSUME NEW reported \in SUBSET HealthChecked, NEW healthy \in SUBSET reported,
             ContainerRound(t, reported, healthy)
      PROVE  Gathered'
  <2>1. OthersAsTheyWere(t)
    BY <1>2 DEF OthersAsTheyWere, ContainerRound, Goto, Saw, TaskTypeOK, WaitContainerHealthCheck
  <2>2. /\ pc'[t] = ContainersNext(t, containers[t] \ healthy, AfterPoll(rest[t]))
        /\ containers'[t] = containers[t] \ healthy
        /\ seen'[t] = seen[t] \cup healthy
    BY <1>2 DEF ContainerRound, Goto, Saw, StillUnhealthy, TaskTypeOK
  <2>3. "running" \in seen[t] /\ HealthChecked \subseteq containers[t] \cup seen[t]
    BY DEF Gathered, GatheredBy, WaitContainerHealthCheck
  <2>4. GatheredBy(t)'
    BY <2>2, <2>3 DEF GatheredBy, ContainersNext
  <2> QED
    BY <2>1, <2>4, GatheredFrame
<1> QED
  BY <1>1, <1>2 DEF WaitContainerHealthCheck

LEMMA IdleCheckGathered ==
    ASSUME TaskTypeOK, Gathered, NEW t \in Task, IdleCheck(t)
    PROVE  Gathered'
<1>1. CASE WaitBroken(t) /\ UNCHANGED seen
  BY <1>1, WaitBrokenGathered DEF IdleCheck
<1>2. CASE Goto(t, "ok") /\ Saw(t, {"alive"})
  <2>1. OthersAsTheyWere(t)
    BY <1>2 DEF OthersAsTheyWere, Goto, Saw, TaskTypeOK, IdleCheck
  <2>2. pc'[t] = "ok" /\ seen'[t] = seen[t] \cup {"alive"} /\ containers'[t] = containers[t]
    BY <1>2 DEF Goto, Saw, TaskTypeOK, IdleCheck
  <2>3. GatheredBy(t) /\ pc[t] = "idle"
    BY DEF Gathered, IdleCheck
  <2>4. GatheredBy(t)'
    BY <2>2, <2>3 DEF GatheredBy, Proof
  <2> QED
    BY <2>1, <2>4, GatheredFrame
<1> QED
  BY <1>1, <1>2 DEF IdleCheck

LEMMA DescribeTaskTargetGathered ==
    ASSUME TaskTypeOK, Gathered, NEW t \in Task, DescribeTaskTarget(t)
    PROVE  Gathered'
<1>1. CASE Goto(t, "waitErr") \/ Goto(t, "waitPanic")
  BY <1>1, GatheredOutside DEF DescribeTaskTarget, historyVars
<1>2. CASE Goto(t, "register")
  <2>1. OthersAsTheyWere(t)
    BY <1>2 DEF OthersAsTheyWere, Goto, TaskTypeOK, DescribeTaskTarget, historyVars
  <2>2. pc'[t] = "register" /\ UNCHANGED <<seen, containers>>
    BY <1>2 DEF Goto, TaskTypeOK, DescribeTaskTarget, historyVars
  <2>3. GatheredBy(t)'
    BY <2>2 DEF GatheredBy, Gathered, DescribeTaskTarget
  <2> QED
    BY <2>1, <2>3, GatheredFrame
<1> QED
  BY <1>1, <1>2 DEF DescribeTaskTarget

LEMMA RegisterTargetsGathered ==
    ASSUME TaskTypeOK, Gathered, NEW t \in Task, RegisterTargets(t)
    PROVE  Gathered'
<1>1. \A u \in Task \ {t} : notHealthyCount'[u] = notHealthyCount[u]
                             /\ recentState'[u] = recentState[u]
  BY DEF RegisterTargets, TaskTypeOK
<1>2. CASE Goto(t, "waitErr")
  BY <1>1, <1>2, GatheredOutside DEF RegisterTargets, historyVars
<1>3. CASE Goto(t, "target")
  <2>1. OthersAsTheyWere(t)
    BY <1>1, <1>3 DEF OthersAsTheyWere, Goto, TaskTypeOK, RegisterTargets, historyVars
  <2>2. /\ pc'[t] = "target" /\ notHealthyCount'[t] = 0 /\ recentState'[t] = "nil"
        /\ UNCHANGED <<seen, containers>>
    BY <1>3 DEF Goto, TaskTypeOK, RegisterTargets, historyVars
  <2>3. GatheredBy(t)'
    BY <2>2, TaskAssumption DEF GatheredBy, Gathered, RegisterTargets
  <2> QED
    BY <2>1, <2>3, GatheredFrame
<1> QED
  BY <1>2, <1>3 DEF RegisterTargets

LEMMA WaitUntilTargetHealthyGathered ==
    ASSUME TaskTypeOK, Gathered, NEW t \in Task, WaitUntilTargetHealthy(t)
    PROVE  Gathered'
<1>1. CASE Goto(t, "waitErr") /\ UNCHANGED <<recentState, notHealthyCount, seen>>
  BY <1>1, GatheredOutside DEF WaitUntilTargetHealthy
<1>2. ASSUME NEW reply \in TargetReply(tg[t]), TargetRound(t, reply)
      PROVE  Gathered'
  <2> DEFINE state == IF reply = "nil" THEN recentState[t] ELSE reply
             count == NotHealthy(state, notHealthyCount[t])
  <2>0. pc[t] = "target" /\ GatheredBy(t) /\ containers' = containers
    BY DEF Gathered, WaitUntilTargetHealthy
  <2>1. OthersAsTheyWere(t)
    BY <1>2 DEF OthersAsTheyWere, TargetRound, Goto, Saw, TaskTypeOK, WaitUntilTargetHealthy
  <2>2. pc'[t] = "target" => notHealthyCount'[t] < NotHealthyLimit
    BY <1>2, <2>0, TargetRoundType DEF GatheredBy
  <2>3. /\ pc'[t] = Verdict(state, count) /\ recentState'[t] = state
        /\ seen'[t] = seen[t] \cup ({reply} \cap {"healthy"})
    BY <1>2 DEF TargetRound, Goto, Saw, TaskTypeOK
  <2>4. pc'[t] \in {"waitErr", "ok", "target"}
    BY <2>3 DEF Verdict
  <2>5. pc'[t] = "ok" => reply = "healthy"
    BY <2>0, <2>3 DEF Verdict, GatheredBy
  <2>6. pc'[t] = "target" => recentState'[t] # "healthy"
    BY <2>3 DEF Verdict
  <2>7. GatheredBy(t)'
    BY <2>0, <2>2, <2>3, <2>4, <2>5, <2>6 DEF GatheredBy, Proof
  <2> QED
    BY <2>1, <2>7, GatheredFrame
<1> QED
  BY <1>1, <1>2 DEF WaitUntilTargetHealthy

-----------------------------------------------------------------------------
(* The steps of a canary's goroutines, and of AWS *)

TaskIInv == TaskTypeOK /\ Gathered

\* Steps that change none of the variables that Gathered speaks of.
LEMMA GatheredUnchanged ==
    ASSUME Gathered, UNCHANGED <<pc, containers, seen, notHealthyCount, recentState>>
    PROVE  Gathered'
BY DEF Gathered, GatheredBy, Proof

LEMMA IdleRoundInv ==
    ASSUME TaskIInv, NEW t \in Task, IdleRound(t)
    PROVE  TaskIInv'
BY IdleRoundType, GatheredUnchanged DEF TaskIInv, IdleRound, historyVars

LEMMA WaitStepInv ==
    ASSUME TaskIInv, NEW t \in Task, WaitStep(t)
    PROVE  TaskIInv'
<1>1. CASE WaitForTaskRunning(t)
  BY <1>1, WaitForTaskRunningType, WaitForTaskRunningGathered DEF TaskIInv
<1>2. CASE WaitContainerHealthCheck(t)
  BY <1>2, WaitContainerHealthCheckType, WaitContainerHealthCheckGathered DEF TaskIInv
<1>3. CASE IdleRound(t)
  BY <1>3, IdleRoundInv
<1>4. CASE IdleCheck(t)
  BY <1>4, IdleCheckType, IdleCheckGathered DEF TaskIInv
<1>5. CASE DescribeTaskTarget(t)
  BY <1>5, DescribeTaskTargetType, DescribeTaskTargetGathered DEF TaskIInv
<1>6. CASE RegisterTargets(t)
  BY <1>6, RegisterTargetsType, RegisterTargetsGathered DEF TaskIInv
<1>7. CASE WaitUntilTargetHealthy(t)
  <2>1. notHealthyCount[t] < NotHealthyLimit
    BY <1>7 DEF TaskIInv, Gathered, GatheredBy, WaitUntilTargetHealthy
  <2> QED
    BY <1>7, <2>1, WaitUntilTargetHealthyType, WaitUntilTargetHealthyGathered DEF TaskIInv
<1> QED
  BY <1>1, <1>2, <1>3, <1>4, <1>5, <1>6, <1>7 DEF WaitStep

LEMMA StopStepFrame ==
    ASSUME NEW t \in Task, StopStep(t)
    PROVE  UNCHANGED <<waitVars, seen>>
BY DEF StopStep, DeregisterTargets, WaitTargetDeregistered, StopTask, WaitTaskStopped, waitVars

LEMMA StopStepInv ==
    ASSUME TaskIInv, NEW t \in Task, StopStep(t)
    PROVE  TaskIInv'
BY StopStepType, StopStepFrame, GatheredUnchanged DEF TaskIInv, waitVars

LEMMA AwsStepFrame ==
    ASSUME NEW t \in Task, AwsStep(t)
    PROVE  UNCHANGED <<programVars, historyVars>>
BY DEF AwsStep, EcsStep, TargetStep

LEMMA AwsStepInv ==
    ASSUME TaskIInv, NEW t \in Task, AwsStep(t)
    PROVE  TaskIInv'
BY AwsStepType, AwsStepFrame, GatheredUnchanged DEF TaskIInv, programVars, historyVars

LEMMA StartInv ==
    ASSUME TaskIInv, NEW t \in Task, Start(t)
    PROVE  TaskIInv'
BY StartType, StartGathered DEF TaskIInv

LEMMA TaskUnchangedInv ==
    ASSUME TaskIInv, UNCHANGED taskVars
    PROVE  TaskIInv'
<1>1. TaskTypeOK'
  BY DEF TaskIInv, TaskTypeOK, taskVars, programVars, awsVars, historyVars
<1>2. Gathered'
  BY GatheredUnchanged DEF TaskIInv, taskVars, programVars, historyVars
<1> QED
  BY <1>1, <1>2 DEF TaskIInv

LEMMA TaskInitInv == TaskInit => TaskIInv
<1> SUFFICES ASSUME TaskInit PROVE TaskIInv
  OBVIOUS
<1>1. TaskTypeOK
  BY TaskAssumption DEF TaskInit, TaskTypeOK, PcState, SpcState, TargetHealth, EcsStatus, TargetStatus
<1>2. Gathered
  BY DEF TaskInit, Gathered, GatheredBy
<1> QED
  BY <1>1, <1>2 DEF TaskIInv

-----------------------------------------------------------------------------
(* A canary on its own *)

LEMMA CallWaitInv ==
    ASSUME TaskIInv, NEW t \in Task, CallWait(t)
    PROVE  TaskIInv'
<1>1. TaskTypeOK'
  BY DEF TaskIInv, TaskTypeOK, CallWait, Goto, PcState, Waiting, awsVars, historyVars
<1>2. Gathered'
  BY GatheredOutside DEF TaskIInv, CallWait, historyVars
<1> QED
  BY <1>1, <1>2 DEF TaskIInv

LEMMA CallStopInv ==
    ASSUME TaskIInv, NEW t \in Task, CallStop(t)
    PROVE  TaskIInv'
<1>1. TaskTypeOK'
  BY StopNextType DEF TaskIInv, TaskTypeOK, CallStop, StopGoto, waitVars, awsVars, historyVars
<1>2. Gathered'
  BY GatheredUnchanged DEF TaskIInv, CallStop, waitVars, historyVars
<1> QED
  BY <1>1, <1>2 DEF TaskIInv

LEMMA TaskNextInv == TaskIInv /\ [TaskNext]_taskVars => TaskIInv'
<1> SUFFICES ASSUME TaskIInv, [TaskNext]_taskVars PROVE TaskIInv'
  OBVIOUS
<1>1. ASSUME NEW t \in Task, CanaryNext(t) PROVE TaskIInv'
  BY <1>1, StartInv, CallWaitInv, WaitStepInv, CallStopInv, StopStepInv DEF CanaryNext
<1>2. ASSUME NEW t \in Task, AwsStep(t) PROVE TaskIInv'
  BY <1>2, AwsStepInv
<1>3. CASE UNCHANGED taskVars
  BY <1>3, TaskUnchangedInv
<1> QED
  BY <1>1, <1>2, <1>3 DEF TaskNext

LEMMA TaskInvariant == TaskSpec => []TaskIInv
<1> QED
  BY TaskInitInv, TaskNextInv, PTL DEF TaskSpec

\* The variables of a canary stay in their ranges: no loop of Wait overdraws its
\* time or counts past its limit, whatever the periods and limits are.
THEOREM TaskTypeCorrect == TaskSpec => []TaskTypeOK
<1>1. TaskIInv => TaskTypeOK
  BY DEF TaskIInv
<1> QED
  BY <1>1, TaskInvariant, PTL

\* A canary whose Wait returned nil was reported RUNNING, every container with a
\* health check was reported HEALTHY, and then its target was healthy or, without
\* a load balancer, it was still RUNNING after the idle time.
THEOREM WaitIsSound == TaskSpec => []WaitNilMeansHealthy
<1>1. TaskIInv => WaitNilMeansHealthy
  BY DEF TaskIInv, Gathered, GatheredBy, WaitNilMeansHealthy
<1> QED
  BY <1>1, TaskInvariant, PTL

-----------------------------------------------------------------------------
(* What becomes of the target *)

Explained(t) == failed[t] \cap {"DeregisterTargets", "TargetDeregisteredWaiter"} # {}

\* Only a canary that has kept its target registers it, so that its Stop starts with
\* the deregistration; Wait is over by then and registers nothing again; and Stop
\* comes past the deregistration only with the target gone or a failed call.
DrainedBy(t) ==
    /\ pc[t] \in {"register", "target"} => t \in target
    /\ tg[t] # "absent" => t \in target
    /\ spc[t] # "none" => pc[t] \notin Waiting
    /\ spc[t] \in {"stop", "stopWait", "ok", "err"} /\ tg[t] # "absent" => Explained(t)

Drained == \A t \in Task : DrainedBy(t)

\* The variables of other canaries that DrainedBy speaks of.
OthersDrained(t) ==
    \A u \in Task \ {t} : /\ pc'[u] = pc[u]
                          /\ spc'[u] = spc[u]
                          /\ tg'[u] = tg[u]
                          /\ failed'[u] = failed[u]
                          /\ u \in target' <=> u \in target

LEMMA DrainedFrame ==
    ASSUME Drained, NEW t \in Task, OthersDrained(t), DrainedBy(t)'
    PROVE  Drained'
<1> SUFFICES ASSUME NEW u \in Task, u # t PROVE DrainedBy(u)'
  BY DEF Drained
<1> QED
  BY DEF Drained, DrainedBy, OthersDrained, Explained

LEMMA DrainedUnchanged ==
    ASSUME Drained, UNCHANGED <<pc, spc, target, tg, failed>>
    PROVE  Drained'
BY DEF Drained, DrainedBy, Explained

LEMMA StartDrained ==
    ASSUME TaskTypeOK, Drained, NEW t \in Task, Start(t)
    PROVE  Drained'
<1>1. OthersDrained(t)
  BY DEF Start, Goto, Failed, TaskTypeOK, OthersDrained
<1>2. /\ pc'[t] \in {"started", "startErr", "startPanic"}
      /\ UNCHANGED <<spc, target, tg>> /\ failed[t] \subseteq failed'[t]
  BY DEF Start, Goto, Failed, TaskTypeOK
<1>3. DrainedBy(t)'
  BY <1>2 DEF Drained, DrainedBy, Explained, Waiting
<1> QED
  BY <1>1, <1>3, DrainedFrame

\* Where Start can have left a canary; no step of Wait starts or ends there.
StartLabel == {"new", "started", "startErr", "startPanic"}

\* What Wait leaves alone: it neither starts nor stops a task.
LEMMA WaitStepFrame ==
    ASSUME TaskTypeOK, NEW t \in Task, WaitStep(t)
    PROVE  /\ UNCHANGED <<spc, taskArn, ecs, failed>>
           /\ \A u \in Task : IF pc[u] \in StartLabel THEN pc'[u] = pc[u]
                              ELSE pc'[u] \notin StartLabel
<1> USE DEF StartLabel
<1>1. pc[t] \notin StartLabel
  BY DEF WaitStep, WaitForTaskRunning, WaitContainerHealthCheck, IdleRound, IdleCheck,
         DescribeTaskTarget, RegisterTargets, WaitUntilTargetHealthy
<1>2. pc' = pc \/ \E label : pc' = [pc EXCEPT ![t] = label] /\ label \notin StartLabel
  <2> USE DEF Goto
  <2>1. \A left, r : ContainersNext(t, left, r) \notin StartLabel
    BY DEF ContainersNext
  <2>2. CASE WaitForTaskRunning(t)
    BY <2>1, <2>2 DEF WaitForTaskRunning
  <2>3. CASE WaitContainerHealthCheck(t)
    BY <2>1, <2>3 DEF WaitContainerHealthCheck, ContainerRound, WaitBroken
  <2>4. CASE IdleRound(t) \/ IdleCheck(t)
    BY <2>4 DEF IdleRound, IdleCheck, WaitBroken
  <2>5. CASE DescribeTaskTarget(t) \/ RegisterTargets(t)
    BY <2>5 DEF DescribeTaskTarget, RegisterTargets
  <2>6. CASE WaitUntilTargetHealthy(t)
    BY <2>6 DEF WaitUntilTargetHealthy, TargetRound, WaitBroken, Verdict
  <2> QED
    BY <2>2, <2>3, <2>4, <2>5, <2>6 DEF WaitStep
<1>3. UNCHANGED <<spc, taskArn, ecs, failed>>
  BY DEF WaitStep, WaitForTaskRunning, WaitContainerHealthCheck, IdleRound,
         IdleCheck, DescribeTaskTarget, RegisterTargets, WaitUntilTargetHealthy, TargetRound,
         awsVars, historyVars
<1> QED
  BY <1>1, <1>2, <1>3 DEF TaskTypeOK

\* What Wait does to the target and the other canaries' program counters: it goes
\* on to the registration only with a target, and registers only from there.
LEMMA WaitStepTarget ==
    ASSUME TaskTypeOK, NEW t \in Task, WaitStep(t)
    PROVE  /\ pc[t] \in Waiting
           /\ UNCHANGED <<spc, failed>>
           /\ \A u \in Task \ {t} : /\ pc'[u] = pc[u] /\ tg'[u] = tg[u]
                                    /\ u \in target' <=> u \in target
           /\ t \in target => t \in target'
           /\ tg'[t] # tg[t] => pc[t] = "register"
           /\ pc'[t] \in {"register", "target"} => t \in target' \/ pc[t] \in {"register", "target"}
<1>1. CASE WaitForTaskRunning(t)
  BY <1>1 DEF WaitForTaskRunning, Goto, ContainersNext, TaskTypeOK, Waiting, awsVars
<1>2. CASE WaitContainerHealthCheck(t)
  BY <1>2 DEF WaitContainerHealthCheck, ContainerRound, WaitBroken, Goto, ContainersNext,
              TaskTypeOK, Waiting, awsVars
<1>3. CASE IdleRound(t) \/ IdleCheck(t)
  BY <1>3 DEF IdleRound, IdleCheck, WaitBroken, Goto, TaskTypeOK, Waiting, awsVars, historyVars
<1>4. CASE DescribeTaskTarget(t)
  BY <1>4 DEF DescribeTaskTarget, Goto, TaskTypeOK, Waiting, awsVars, historyVars
<1>5. CASE RegisterTargets(t)
  BY <1>5 DEF RegisterTargets, Goto, TaskTypeOK, Waiting, historyVars
<1>6. CASE WaitUntilTargetHealthy(t)
  BY <1>6 DEF WaitUntilTargetHealthy, TargetRound, Goto, TaskTypeOK, Waiting, awsVars
<1> QED
  BY <1>1, <1>2, <1>3, <1>4, <1>5, <1>6 DEF WaitStep

LEMMA WaitStepDrained ==
    ASSUME TaskTypeOK, Drained, NEW t \in Task, WaitStep(t)
    PROVE  Drained'
<1>1. OthersDrained(t)
  BY WaitStepTarget DEF OthersDrained
<1>2. DrainedBy(t) /\ spc[t] = "none" /\ spc' = spc
  BY WaitStepTarget DEF Drained, DrainedBy
<1>3. DrainedBy(t)'
  BY <1>2, WaitStepTarget DEF DrainedBy
<1> QED
  BY <1>1, <1>3, DrainedFrame

LEMMA StopStepDrained ==
    ASSUME TaskTypeOK, Drained, NEW t \in Task, StopStep(t)
    PROVE  Drained'
<1> USE DEF StopGoto, Failed, TaskTypeOK
<1>1. UNCHANGED <<pc, target>>
  BY StopStepFrame DEF waitVars
<1>2. OthersDrained(t)
  BY <1>1 DEF OthersDrained, StopStep, DeregisterTargets, WaitTargetDeregistered, StopTask,
              WaitTaskStopped, awsVars
<1>3. /\ spc[t] # "none" /\ DrainedBy(t)
      /\ spc'[t] \in {"deregWait", "stop", "stopWait", "ok", "err"}
      /\ tg'[t] # "absent" => tg[t] # "absent"
      /\ failed[t] \subseteq failed'[t]
  BY DEF StopStep, DeregisterTargets, WaitTargetDeregistered, StopTask, WaitTaskStopped, StopTaskNext,
         awsVars, Drained
<1>4. spc'[t] \in {"stop", "stopWait", "ok", "err"} /\ tg'[t] # "absent" => Explained(t)'
  <2>1. CASE DeregisterTargets(t)
    BY <2>1 DEF DeregisterTargets, Explained
  <2>2. CASE WaitTargetDeregistered(t)
    BY <2>2 DEF WaitTargetDeregistered, Deregistered, Explained, awsVars
  <2>3. CASE StopTask(t) \/ WaitTaskStopped(t)
    BY <1>3, <2>3 DEF StopTask, WaitTaskStopped, Explained, DrainedBy
  <2> QED
    BY <2>1, <2>2, <2>3 DEF StopStep
<1>5. DrainedBy(t)'
  BY <1>1, <1>3, <1>4 DEF DrainedBy
<1> QED
  BY <1>2, <1>5, DrainedFrame

\* AWS takes targets away and never adds one.
LEMMA AwsStepDrained ==
    ASSUME TaskTypeOK, Drained, NEW t \in Task, AwsStep(t)
    PROVE  Drained'
<1>1. UNCHANGED <<pc, spc, target, failed>>
  BY AwsStepFrame DEF programVars, historyVars
<1>2. \A u \in Task : tg'[u] # "absent" => tg[u] # "absent"
  BY DEF AwsStep, EcsStep, TargetStep, TaskTypeOK
<1> QED
  BY <1>1, <1>2 DEF Drained, DrainedBy, Explained

\* A canary on its own is stopped only once Start and Wait are over.
Ended == \A t \in Task : spc[t] # "none" => pc[t] \notin {"new", "started"}

LEMMA DrainedInit == TaskInit => Drained /\ Ended
BY DEF TaskInit, Drained, DrainedBy, Ended

LEMMA CallDrained ==
    ASSUME TaskTypeOK, Drained, Ended, NEW t \in Task, CallWait(t) \/ CallStop(t)
    PROVE  Drained' /\ Ended'
<1>1. CASE CallWait(t)
  <2>1. /\ pc[t] = "started" /\ pc' = [pc EXCEPT ![t] = "running"]
        /\ UNCHANGED <<spc, target, tg, failed>>
    BY <1>1 DEF CallWait, Goto, awsVars, historyVars
  <2>2. spc[t] = "none"
    BY <2>1 DEF Ended
  <2>3. OthersDrained(t) /\ DrainedBy(t)' /\ Ended'
    BY <2>1, <2>2 DEF OthersDrained, Drained, DrainedBy, Ended, Explained, TaskTypeOK
  <2> QED
    BY <2>3, DrainedFrame
<1>2. CASE CallStop(t)
  <2>1. /\ pc[t] \in {"startErr", "startPanic", "ok", "waitErr"}
        /\ spc' = [spc EXCEPT ![t] = StopNext(t)]
        /\ UNCHANGED <<pc, target, tg, failed>>
    BY <1>2 DEF CallStop, StopGoto, waitVars, awsVars, historyVars
  <2>2. t \in target => spc'[t] = "deregister"
    BY <2>1 DEF StopNext, TaskTypeOK
  <2>3. OthersDrained(t) /\ DrainedBy(t)' /\ Ended'
    BY <2>1, <2>2 DEF OthersDrained, Drained, DrainedBy, Ended, TaskTypeOK, Waiting
  <2> QED
    BY <2>3, DrainedFrame
<1> QED
  BY <1>1, <1>2

\* No step but those two takes a canary to where it can be started or waited for, or
\* into its Stop.
LEMMA EndedKept ==
    ASSUME TaskTypeOK, Ended, NEW t \in Task, Start(t) \/ WaitStep(t) \/ StopStep(t)
    PROVE  Ended'
<1>1. CASE Start(t)
  <2>1. pc[t] = "new" /\ spc' = spc /\ \A u \in Task \ {t} : pc'[u] = pc[u]
    BY <1>1 DEF Start, Goto, TaskTypeOK
  <2> QED
    BY <2>1 DEF Ended
<1>2. CASE WaitStep(t)
  <2>1. /\ UNCHANGED spc /\ \A u \in Task \ {t} : pc'[u] = pc[u]
    BY <1>2, WaitStepTarget
  <2>2. pc[t] \in {"new", "started"} \/ pc'[t] \notin {"new", "started"}
    BY <1>2, WaitStepFrame DEF StartLabel
  <2>3. pc[t] \notin {"new", "started"}
    BY <1>2, WaitStepTarget DEF Waiting
  <2> QED
    BY <2>1, <2>2, <2>3 DEF Ended
<1>3. CASE StopStep(t)
  <2>1. UNCHANGED pc /\ spc[t] # "none" /\ \A u \in Task \ {t} : spc'[u] = spc[u]
    BY <1>3, StopStepFrame DEF waitVars, StopStep, DeregisterTargets, WaitTargetDeregistered, StopTask,
                               WaitTaskStopped, StopGoto, TaskTypeOK
  <2> QED
    BY <2>1 DEF Ended
<1> QED
  BY <1>1, <1>2, <1>3

LEMMA DrainedNext == TaskTypeOK /\ Drained /\ Ended /\ [TaskNext]_taskVars => Drained' /\ Ended'
<1> SUFFICES ASSUME TaskTypeOK, Drained, Ended, [TaskNext]_taskVars PROVE Drained' /\ Ended'
  OBVIOUS
<1>1. ASSUME NEW t \in Task, CanaryNext(t) PROVE Drained' /\ Ended'
  BY <1>1, StartDrained, WaitStepDrained, StopStepDrained, CallDrained, EndedKept DEF CanaryNext
<1>2. ASSUME NEW t \in Task, AwsStep(t) PROVE Drained' /\ Ended'
  BY <1>2, AwsStepDrained, AwsStepFrame DEF Ended, programVars
<1>3. CASE UNCHANGED taskVars
  BY <1>3, DrainedUnchanged DEF taskVars, programVars, awsVars, historyVars, Ended
<1> QED
  BY <1>1, <1>2, <1>3 DEF TaskNext

LEMMA DrainedInvariant == TaskSpec => []Drained
BY DrainedInit, DrainedNext, TaskTypeCorrect, PTL DEF TaskSpec

\* When Stop is over, a target still in its target group is there because a call of
\* the deregistration failed, also the one of a registration whose reply was lost.
THEOREM LeftTargetExplained == TaskSpec => []LeftTargetIsExplained
<1>1. Drained => LeftTargetIsExplained
  BY DEF Drained, DrainedBy, Explained, LeftTargetIsExplained
<1> QED
  BY <1>1, DrainedInvariant, PTL

\* Stop asks for the end of the task only after the target is gone, or after a call
\* of its deregistration has failed (alb_task.go:60-63).
THEOREM DrainsBeforeStop == TaskSpec => DrainBeforeStop
<1> DEFINE Step == \A t \in Task : spc[t] = "stop" /\ spc'[t] # "stop" /\ tg[t] # "absent" =>
                      failed[t] \cap {"DeregisterTargets", "TargetDeregisteredWaiter"} # {}
<1>1. Drained => Step
  BY DEF Drained, DrainedBy, Explained
<1> QED
  BY <1>1, DrainedInvariant, PTL DEF DrainBeforeStop
=============================================================================
