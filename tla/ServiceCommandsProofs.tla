----------------------- MODULE ServiceCommandsProofs -----------------------
(***************************************************************************)
(* Proofs about ServiceCommands, for any number of rollouts and ups on the *)
(* service and any load balancers.                                         *)
(***************************************************************************)
EXTENDS ServiceCommands, TLAPS

-----------------------------------------------------------------------------
(* The inductive invariant *)

\* Where a command is tells what it has: it writes the service once, with a task
\* definition, and a rollout only with healthy canaries.
Order ==
    /\ \A c \in Command :
        /\ pc[c] \in {"canaries", "exec", "update", "check", "create", "stable"} => td[c] # None
        /\ pc[c] \in {"describe", "taskDefinition"} => c \notin registered
        /\ c \in registered => td[c] = c
        /\ c \in Writers =>
               pc[c] \in {"stable", "cleanup", "returned", "killed"} /\ td[c] # None
    /\ \A r \in Rollouts :
        /\ pc[r] = "update" => r \in healthy
        /\ r \in Writers => r \in healthy

\* What the canaries of a rollout that has not written yet stand in, by where it
\* was read from.
Reading ==
    \A r \in Rollouts :
        /\ readAt[r] <= Len(log)
        /\ pc[r] \in {"exec", "update"} =>
               /\ input[r].updateService => canaryLbs[r] = input[r].lbs
               /\ ~input[r].updateService /\ readAt[r] = Len(log) => canaryLbs[r] = service.lbs

\* A command that has gone through its calls without an error has written.
Honest ==
    \A c \in Command :
        /\ pc[c] = "stable" => c \in Writers
        /\ pc[c] \in {"cleanup", "returned"} /\ lastErr[c] = "nil" /\ c \notin swallowed =>
               c \in Writers
        /\ LastWriter(c) => service.td = td[c] \/ service.deployment = "reverted"

IInv ==
    /\ ServiceTypeOK
    /\ Order
    /\ RunsOnlyApproved
    /\ Reading
    /\ InstalledAsTested
    /\ Honest

LEMMA InitInv == Init => IInv
<1> SUFFICES ASSUME Init PROVE IInv
  OBVIOUS
<1>1. Writers = {} /\ log = <<>> /\ Len(log) = 0
  BY DEF Init, Writers
<1>2. ServiceTypeOK
  BY <1>1, ServiceAssumption DEF Init, ServiceTypeOK, Command, TaskDefinition, Pc, Service
<1>3. Order
  BY <1>1 DEF Init, Order, Command
<1>4. RunsOnlyApproved
  BY DEF Init, RunsOnlyApproved, Approved
<1>5. Reading /\ InstalledAsTested /\ Honest
  BY <1>1, ServiceAssumption DEF Init, Reading, InstalledAsTested, Honest, LastWriter, Command
<1> QED
  BY <1>2, <1>3, <1>4, <1>5 DEF IInv

-----------------------------------------------------------------------------
(* Steps that do not write the service *)

\* Such a step keeps Approved if no writer changes its task definition and no
\* rollout loses its canaries' health.
LEMMA ApprovedStays ==
    ASSUME UNCHANGED log, healthy \subseteq healthy',
           \A c \in Writers : td'[c] = td[c],
           NEW v, Approved(v)
    PROVE  Approved(v)'
BY DEF Approved, Writers

LEMMA CreateNextTaskDefinitionInv ==
    ASSUME IInv, NEW c \in Command, CreateNextTaskDefinition(c)
    PROVE  IInv'
<1>1. /\ pc[c] = "taskDefinition"
      /\ UNCHANGED <<input, canaryLbs, healthy, swallowed, readAt, service, log>>
      /\ UNCHANGED Writers
  BY DEF CreateNextTaskDefinition, Writers, canaryVars
<1>2. PICK p \in {"canaries", "check", "returned"}, d \in TaskDefinition \cup {None} :
      /\ pc' = [pc EXCEPT ![c] = p]
      /\ td' = [td EXCEPT ![c] = d]
      /\ p = "returned" => lastErr' = [lastErr EXCEPT ![c] = "err"]
      /\ p # "returned" => lastErr' = lastErr /\ d # None
      /\ \/ registered' = registered
         \/ registered' = registered \cup {c} /\ d = c
  <2>1. c \notin registered
    BY <1>1 DEF IInv, Order
  <2>2. td \in [Command -> TaskDefinition \cup {None}] /\ registered \subseteq Command
    BY DEF IInv, ServiceTypeOK
  <2>3. td[c] \in TaskDefinition \cup {None} /\ td = [td EXCEPT ![c] = td[c]]
    BY <2>2
  <2> DEFINE p == IF c \in Rollouts THEN "canaries" ELSE "check"
  <2>4. CASE registered' = registered \cup {c} /\ td' = [td EXCEPT ![c] = c] /\ GoOn(c, p)
    <3>1. c \in TaskDefinition /\ c # None
      BY ServiceAssumption DEF TaskDefinition
    <3> QED
      BY <2>4, <3>1 DEF GoOn, Goto
  <2>5. CASE /\ \E arn \in registered \cup {Initial} : td' = [td EXCEPT ![c] = arn]
             /\ GoOn(c, p)
             /\ UNCHANGED registered
    <3>1. \A arn \in registered \cup {Initial} : arn \in TaskDefinition /\ arn # None
      BY <2>2, ServiceAssumption DEF TaskDefinition
    <3> QED
      BY <2>1, <2>5, <3>1 DEF GoOn, Goto
  <2>6. CASE /\ \/ registered' = registered \cup {c} /\ td' = [td EXCEPT ![c] = c]
                \/ UNCHANGED <<registered, td>>
             /\ ReturnErr(c)
    <3>1. c \in TaskDefinition
      BY DEF TaskDefinition
    <3> QED
      BY <2>1, <2>3, <2>6, <3>1 DEF ReturnErr, Goto, Fails
  <2> QED
    BY <2>4, <2>5, <2>6 DEF CreateNextTaskDefinition
<1>3. c \notin Writers /\ c \notin registered
  BY <1>1 DEF IInv, Order
<1>4. ServiceTypeOK'
  BY <1>1, <1>2 DEF IInv, ServiceTypeOK, Pc
<1>5. Order'
  BY <1>1, <1>2, <1>3 DEF IInv, ServiceTypeOK, Order, Command
<1>6. RunsOnlyApproved'
  BY <1>1, <1>2, <1>3, ApprovedStays DEF IInv, ServiceTypeOK, RunsOnlyApproved
<1>7. Reading'
  BY <1>1, <1>2 DEF IInv, ServiceTypeOK, Reading, Command
<1>8. InstalledAsTested'
  BY <1>1 DEF IInv, InstalledAsTested, LastWriter
<1>9. Honest'
  <2>1. ~LastWriter(c)
    BY <1>3 DEF LastWriter, Writers, IInv, ServiceTypeOK
  <2> QED
    BY <1>1, <1>2, <2>1 DEF IInv, ServiceTypeOK, Honest, LastWriter
<1> QED
  BY <1>4, <1>5, <1>6, <1>7, <1>8, <1>9 DEF IInv

\* Steps that move one command on, perhaps with an error, and change neither a task
\* definition nor anything at AWS.  What they do to the canaries of a rollout is
\* left to the steps.
Moves(c, to) ==
    /\ \E p \in to : pc' = [pc EXCEPT ![c] = p]
    /\ lastErr' = lastErr \/ lastErr' = [lastErr EXCEPT ![c] = "err"]
    /\ UNCHANGED <<input, td, registered, service, log>>

LEMMA MovesType ==
    ASSUME IInv, NEW c \in Command, NEW to \in SUBSET Pc, Moves(c, to)
    PROVE  /\ pc' \in [Command -> Pc] /\ pc'[c] \in to
           /\ lastErr' \in [Command -> {"nil", "err"}]
           /\ \A d \in Command \ {c} : pc'[d] = pc[d] /\ lastErr'[d] = lastErr[d]
           /\ \A d \in Command : lastErr'[d] = "nil" => lastErr[d] = "nil"
           /\ UNCHANGED Writers
BY DEF Moves, IInv, ServiceTypeOK, Writers

\* The place a quiet move may go to.
Allowed(c) ==
    /\ pc'[c] \in {"canaries", "create"} => td[c] # None
    /\ pc'[c] = "taskDefinition" => pc[c] = "describe"
    /\ c \in Writers => pc'[c] \in {"cleanup", "returned", "killed"}
    /\ pc'[c] \in {"cleanup", "returned"} /\ lastErr'[c] = "nil" /\ c \notin swallowed =>
           c \in Writers

LEMMA QuietMoveInv ==
    ASSUME IInv, NEW c \in Command, UNCHANGED canaryVars, Allowed(c),
           Moves(c, {"taskDefinition", "canaries", "create", "cleanup", "returned", "killed"})
    PROVE  IInv'
<1> DEFINE to == {"taskDefinition", "canaries", "create", "cleanup", "returned", "killed"}
<1>0. UNCHANGED <<input, td, registered, service, log, canaryLbs, healthy, swallowed, readAt>>
  BY DEF Moves, canaryVars
<1>1. to \in SUBSET Pc
  BY DEF Pc
<1>2. /\ pc' \in [Command -> Pc] /\ pc'[c] \in to
      /\ lastErr' \in [Command -> {"nil", "err"}]
      /\ \A d \in Command \ {c} : pc'[d] = pc[d] /\ lastErr'[d] = lastErr[d]
      /\ \A d \in Command : lastErr'[d] = "nil" => lastErr[d] = "nil"
      /\ UNCHANGED Writers
  BY <1>1, MovesType
<1> HIDE DEF to
<1>3. ServiceTypeOK'
  BY <1>0, <1>2 DEF IInv, ServiceTypeOK
<1>4. Order'
  BY <1>0, <1>2 DEF IInv, Order, Allowed, Command, to
<1>5. RunsOnlyApproved'
  BY <1>0, ApprovedStays DEF IInv, RunsOnlyApproved
<1>6. Reading'
  BY <1>0, <1>2 DEF IInv, Reading, Command, to
<1>7. InstalledAsTested'
  BY <1>0 DEF IInv, InstalledAsTested, LastWriter
<1>8. Honest'
  BY <1>0, <1>2 DEF IInv, Honest, LastWriter, Allowed, to
<1> QED
  BY <1>3, <1>4, <1>5, <1>6, <1>7, <1>8 DEF IInv

LEMMA QuietStepInv ==
    ASSUME IInv, NEW c \in Command,
           \/ DescribeCurrentService(c)
           \/ WaitServiceStable(c)
           \/ Cleanup(c)
           \/ CheckNotExists(c)
           \/ Killed(c)
    PROVE  IInv'
<1> USE DEF GoOn, ReturnErr, Goto, Fails, awsVars
<1>1. UNCHANGED canaryVars
      /\ Moves(c, {"taskDefinition", "canaries", "create", "cleanup", "returned", "killed"})
  BY DEF DescribeCurrentService, WaitServiceStable, Cleanup, CheckNotExists, Killed, Moves
<1>2. pc \in [Command -> Pc] /\ lastErr \in [Command -> {"nil", "err"}]
  BY DEF IInv, ServiceTypeOK
<1>3. CASE DescribeCurrentService(c)
  BY <1>1, <1>2, <1>3, QuietMoveInv DEF DescribeCurrentService, Allowed, IInv, Order
<1>4. CASE WaitServiceStable(c)
  BY <1>1, <1>2, <1>4, QuietMoveInv DEF WaitServiceStable, Allowed, IInv, Honest
<1>5. CASE Cleanup(c)
  BY <1>1, <1>2, <1>5, QuietMoveInv DEF Cleanup, Allowed, IInv, Honest
<1>6. CASE CheckNotExists(c)
  BY <1>1, <1>2, <1>6, QuietMoveInv DEF CheckNotExists, Allowed, IInv, Order
<1>7. CASE Killed(c)
  BY <1>1, <1>2, <1>7, QuietMoveInv DEF Killed, Allowed
<1> QED
  BY <1>3, <1>4, <1>5, <1>6, <1>7

LEMMA StartCanaryTasksInv ==
    ASSUME IInv, NEW r \in Rollouts, StartCanaryTasks(r)
    PROVE  IInv'
<1> USE DEF GoOn, ReturnErr, Goto, Fails, awsVars
<1>0. r \in Command /\ pc[r] = "canaries" /\ r \notin Writers /\ td[r] # None
  BY DEF Command, StartCanaryTasks, IInv, Order
<1>1. CASE ReturnErr(r) /\ UNCHANGED <<canaryLbs, readAt>>
  <2>1. UNCHANGED canaryVars
        /\ Moves(r, {"taskDefinition", "canaries", "create", "cleanup", "returned", "killed"})
    BY <1>1 DEF StartCanaryTasks, Moves, canaryVars
  <2> QED
    BY <1>0, <1>1, <2>1, QuietMoveInv DEF Allowed, IInv, ServiceTypeOK
<1>2. CASE GoOn(r, "exec")
  <2>1. /\ canaryLbs' = [canaryLbs EXCEPT ![r] =
               IF input[r].updateService THEN input[r].lbs ELSE service.lbs]
        /\ readAt' = [readAt EXCEPT ![r] = Len(log)]
        /\ pc' = [pc EXCEPT ![r] = "exec"]
        /\ UNCHANGED <<input, td, healthy, swallowed, lastErr, registered, service, log>>
        /\ UNCHANGED Writers
    BY <1>0, <1>2 DEF StartCanaryTasks, Writers, IInv, ServiceTypeOK
  <2>2. Len(log) \in Nat
    BY DEF IInv, ServiceTypeOK
  <2>3. ServiceTypeOK'
    <3>1. input[r].lbs \in SUBSET LB /\ service.lbs \in SUBSET LB
      BY <1>0 DEF IInv, ServiceTypeOK, Input, Service
    <3>2. canaryLbs' \in [Command -> SUBSET LB]
      BY <2>1, <3>1 DEF IInv, ServiceTypeOK
    <3>3. pc' \in [Command -> Pc] /\ readAt' \in [Command -> Nat]
      BY <2>1, <2>2 DEF IInv, ServiceTypeOK, Pc
    <3> QED
      BY <2>1, <3>2, <3>3 DEF IInv, ServiceTypeOK
  <2>4. Order'
    BY <1>0, <2>1 DEF IInv, ServiceTypeOK, Order
  <2>5. RunsOnlyApproved'
    BY <2>1, ApprovedStays DEF IInv, RunsOnlyApproved
  <2>6. Reading'
    BY <1>0, <2>1, <2>2 DEF IInv, ServiceTypeOK, Reading, Command
  <2>7. ~LastWriter(r)
    BY <1>0 DEF LastWriter, Writers, IInv, ServiceTypeOK
  <2>8. InstalledAsTested'
    BY <1>0, <2>1, <2>7 DEF IInv, ServiceTypeOK, InstalledAsTested, LastWriter, Command
  <2>9. Honest'
    BY <1>0, <2>1 DEF IInv, ServiceTypeOK, Honest, LastWriter
  <2> QED
    BY <2>3, <2>4, <2>5, <2>6, <2>8, <2>9 DEF IInv
<1> QED
  BY <1>0, <1>1, <1>2 DEF StartCanaryTasks

LEMMA CanariesProveInv ==
    ASSUME IInv, NEW r \in Rollouts, CanariesProve(r)
    PROVE  IInv'
<1>1. /\ healthy' = healthy \cup {r}
      /\ UNCHANGED <<pc, input, td, canaryLbs, swallowed, lastErr, registered, service, log, readAt>>
      /\ UNCHANGED Writers
  BY DEF CanariesProve, Writers, awsVars
<1>2. ServiceTypeOK'
  BY <1>1 DEF IInv, ServiceTypeOK
<1>3. Order' /\ Reading' /\ InstalledAsTested' /\ Honest'
  BY <1>1 DEF IInv, Order, Reading, InstalledAsTested, Honest, LastWriter
<1>4. RunsOnlyApproved'
  BY <1>1, ApprovedStays DEF IInv, RunsOnlyApproved
<1> QED
  BY <1>2, <1>3, <1>4 DEF IInv

LEMMA ExecInv ==
    ASSUME IInv, NEW r \in Rollouts, Exec(r)
    PROVE  IInv'
<1>0. r \in Command /\ pc[r] = "exec" /\ r \notin Writers /\ td[r] # None
  BY DEF Command, Exec, IInv, Order
<1>1. /\ UNCHANGED <<input, td, canaryLbs, healthy, registered, service, log, readAt>>
      /\ UNCHANGED Writers
      /\ swallowed' \in {swallowed, swallowed \cup {r}}
      /\ lastErr' \in {lastErr, [lastErr EXCEPT ![r] = "err"]}
  BY DEF Exec, Writers, awsVars, GoOn, Goto, Fails
<1>2. \/ pc' = [pc EXCEPT ![r] = "update"] /\ r \in healthy
      \/ pc' = [pc EXCEPT ![r] = "cleanup"] /\ (r \in swallowed' \/ lastErr'[r] = "err")
  BY <1>0 DEF Exec, MayUpdate, GoOn, Goto, Fails, IInv, ServiceTypeOK
<1>3. ServiceTypeOK'
  BY <1>1, <1>2 DEF IInv, ServiceTypeOK, Pc
<1>4. Order'
  <2>1. CASE pc' = [pc EXCEPT ![r] = "update"] /\ r \in healthy
    BY <1>0, <1>1, <2>1 DEF IInv, ServiceTypeOK, Order, Command
  <2>2. CASE pc' = [pc EXCEPT ![r] = "cleanup"]
    BY <1>0, <1>1, <2>2 DEF IInv, ServiceTypeOK, Order, Command
  <2> QED
    BY <1>2, <2>1, <2>2
<1>5. RunsOnlyApproved'
  BY <1>1, ApprovedStays DEF IInv, RunsOnlyApproved
<1>6. Reading'
  BY <1>0, <1>1, <1>2 DEF IInv, ServiceTypeOK, Reading, Command
<1>7. InstalledAsTested'
  BY <1>1 DEF IInv, InstalledAsTested, LastWriter
<1>8. Honest'
  BY <1>0, <1>1, <1>2 DEF IInv, ServiceTypeOK, Honest, LastWriter
<1> QED
  BY <1>3, <1>4, <1>5, <1>6, <1>7, <1>8 DEF IInv

-----------------------------------------------------------------------------
(* Steps that write the service *)

\* What an update and a creation have in common: c writes once, its own task
\* definition, over one that was approved.
Installs(c, s) ==
    /\ Writes(c, s)
    /\ s \in Service /\ s.td = td[c] /\ s.before \in {service.td, service.before, td[c]}
    /\ c \in Rollouts => c \in healthy
    /\ \E p \in {"stable", "cleanup", "returned"} : pc' = [pc EXCEPT ![c] = p]
    /\ lastErr' \in {lastErr, [lastErr EXCEPT ![c] = "err"]}
    /\ UNCHANGED <<input, td, canaryVars, registered>>

LEMMA AppendWriters ==
    ASSUME IInv, NEW c \in Command, log' = Append(log, c)
    PROVE  /\ log' \in Seq(Command) /\ Len(log') = Len(log) + 1
           /\ Writers' = Writers \cup {c}
           /\ \A d \in Command : LastWriter(d)' <=> d = c
<1>1. log \in Seq(Command) /\ Len(log) \in Nat /\ DOMAIN log = 1 .. Len(log)
  BY DEF IInv, ServiceTypeOK
<1>2. log' \in Seq(Command) /\ Len(log') = Len(log) + 1 /\ DOMAIN log' = 1 .. Len(log) + 1
  BY <1>1
<1>3. log'[Len(log) + 1] = c /\ \A i \in 1 .. Len(log) : log'[i] = log[i]
  BY <1>1
<1>4. Writers' = Writers \cup {c}
  BY <1>1, <1>2, <1>3 DEF Writers
<1>5. log' # <<>>
  BY <1>2
<1>6. \A d \in Command : LastWriter(d)' <=> d = c
  BY <1>1, <1>2, <1>3, <1>5 DEF LastWriter
<1> QED
  BY <1>2, <1>4, <1>6

LEMMA InstallsInv ==
    ASSUME IInv, NEW c \in Command, NEW s, Installs(c, s), c \notin Writers, td[c] # None,
           c \in Rollouts =>
              ((/\ Len(log) = readAt[c] \/ input[c].updateService
                /\ input[c].updateService => input[c].given)
               => s.lbs = canaryLbs[c])
    PROVE  IInv'
<1>1. /\ service' = s /\ log' = Append(log, c)
      /\ UNCHANGED <<input, td, canaryLbs, healthy, swallowed, readAt, registered>>
      /\ lastErr' \in {lastErr, [lastErr EXCEPT ![c] = "err"]}
  BY DEF Installs, Writes, canaryVars
<1>2. PICK p \in {"stable", "cleanup", "returned"} : pc' = [pc EXCEPT ![c] = p]
  BY DEF Installs
<1>3. /\ log' \in Seq(Command) /\ Len(log') = Len(log) + 1 /\ Len(log) \in Nat
      /\ Writers' = Writers \cup {c}
      /\ \A d \in Command : LastWriter(d)' <=> d = c
  BY <1>1, AppendWriters DEF IInv, ServiceTypeOK
<1>4. ServiceTypeOK'
  BY <1>1, <1>2, <1>3 DEF IInv, ServiceTypeOK, Pc, Installs
<1>5. Order'
  BY <1>1, <1>2, <1>3 DEF IInv, ServiceTypeOK, Order, Installs, Command
<1>6. RunsOnlyApproved'
  <2>1. \A v : Approved(v) => Approved(v)'
    BY <1>1, <1>3 DEF Approved
  <2>2. Approved(td[c])'
    BY <1>1, <1>3 DEF Approved, Installs
  <2> QED
    BY <1>1, <2>1, <2>2 DEF IInv, RunsOnlyApproved, Installs
<1>7. Reading'
  BY <1>1, <1>2, <1>3 DEF IInv, ServiceTypeOK, Reading, Command
<1>8. InstalledAsTested'
  BY <1>1, <1>3, ServiceAssumption DEF IInv, ServiceTypeOK, InstalledAsTested, Command
<1>9. Honest'
  BY <1>1, <1>2, <1>3 DEF IInv, ServiceTypeOK, Honest, Installs
<1> QED
  BY <1>4, <1>5, <1>6, <1>7, <1>8, <1>9 DEF IInv

LEMMA UpdateServiceInv ==
    ASSUME IInv, NEW r \in Rollouts, UpdateService(r)
    PROVE  IInv'
<1> USE DEF GoOn, Goto, Fails
<1>0. r \in Command /\ pc[r] = "update" /\ r \notin Writers /\ td[r] # None /\ r \in healthy
  BY DEF Command, UpdateService, IInv, Order
<1>1. UNCHANGED <<input, td, canaryVars, registered>>
  BY DEF UpdateService
<1>2. CASE Writes(r, Updated(r)) /\ (GoOn(r, "stable") \/ (Fails(r) /\ Goto(r, "cleanup")))
  <2>1. input[r].lbs \in SUBSET LB /\ td[r] \in TaskDefinition /\ service \in Service
    BY <1>0 DEF IInv, ServiceTypeOK, Input
  <2>2. NewLoadBalancers(r) \in SUBSET LB
    BY <2>1 DEF NewLoadBalancers, Service
  <2>3. /\ Updated(r) \in Service /\ Updated(r).td = td[r]
        /\ Updated(r).before \in {service.td, service.before}
        /\ Updated(r).lbs = NewLoadBalancers(r)
    BY <2>1, <2>2 DEF Updated, Service
  <2>4. Installs(r, Updated(r))
    BY <1>0, <1>1, <1>2, <2>3 DEF Installs
  <2>5. (/\ Len(log) = readAt[r] \/ input[r].updateService
         /\ input[r].updateService => input[r].given)
        => NewLoadBalancers(r) = canaryLbs[r]
    BY <1>0 DEF IInv, ServiceTypeOK, Input, Reading, NewLoadBalancers
  <2> QED
    BY <1>0, <2>3, <2>4, <2>5, InstallsInv
<1>3. CASE NoWrite /\ Fails(r) /\ Goto(r, "cleanup")
  <2>1. UNCHANGED canaryVars
        /\ Moves(r, {"taskDefinition", "canaries", "create", "cleanup", "returned", "killed"})
    BY <1>1, <1>3 DEF Moves, NoWrite
  <2> QED
    BY <1>0, <1>3, <2>1, QuietMoveInv DEF Allowed, IInv, ServiceTypeOK
<1> QED
  BY <1>2, <1>3 DEF UpdateService

LEMMA CreateServiceInv ==
    ASSUME IInv, NEW u \in Ups, CreateService(u)
    PROVE  IInv'
<1> USE DEF GoOn, ReturnErr, Goto, Fails
<1>0. /\ u \in Command /\ u \notin Rollouts
      /\ pc[u] = "create" /\ u \notin Writers /\ td[u] # None
  BY ServiceAssumption DEF Command, CreateService, IInv, Order
<1>1. UNCHANGED <<input, td, canaryVars, registered>>
  BY DEF CreateService
<1>2. CASE Writes(u, Created(u)) /\ (GoOn(u, "stable") \/ ReturnErr(u))
  <2>1. input[u].lbs \in SUBSET LB /\ td[u] \in TaskDefinition
    BY <1>0 DEF IInv, ServiceTypeOK, Input
  <2>2. Created(u) \in Service /\ Created(u).td = td[u] /\ Created(u).before = td[u]
    BY <2>1 DEF Created, Service
  <2>3. Installs(u, Created(u))
    BY <1>0, <1>1, <1>2, <2>2 DEF Installs
  <2> QED
    BY <1>0, <2>3, InstallsInv
<1>3. CASE NoWrite /\ ReturnErr(u)
  <2>1. UNCHANGED canaryVars
        /\ Moves(u, {"taskDefinition", "canaries", "create", "cleanup", "returned", "killed"})
    BY <1>1, <1>3 DEF Moves, NoWrite
  <2> QED
    BY <1>0, <1>3, <2>1, QuietMoveInv DEF Allowed, IInv, ServiceTypeOK
<1> QED
  BY <1>2, <1>3 DEF CreateService

-----------------------------------------------------------------------------
(* The world, and every step *)

LEMMA ServiceStepInv ==
    ASSUME IInv, ServiceStep
    PROVE  IInv'
<1>1. UNCHANGED <<pc, input, td, canaryLbs, healthy, swallowed, readAt, lastErr, registered, log>>
      /\ UNCHANGED Writers
  BY DEF ServiceStep, canaryVars, Writers
<1>2. /\ service' \in Service
      /\ service'.lbs = service.lbs
      /\ service'.td \in {service.td, service.before}
      /\ service'.before \in {service.td, service.before}
      /\ \/ service'.deployment = "reverted"
         \/ /\ service'.td = service.td
            /\ service'.deployment \in {service.deployment, "steady"}
            /\ service.deployment = "reverted" => service'.deployment = "reverted"
  BY DEF ServiceStep, IInv, ServiceTypeOK, Service
<1>3. ServiceTypeOK'
  BY <1>1, <1>2 DEF IInv, ServiceTypeOK
<1>4. Order' /\ Reading' /\ InstalledAsTested'
  BY <1>1, <1>2 DEF IInv, Order, Reading, InstalledAsTested, LastWriter
<1>5. RunsOnlyApproved'
  BY <1>1, <1>2, ApprovedStays DEF IInv, RunsOnlyApproved
<1>6. Honest'
  BY <1>1, <1>2 DEF IInv, Honest, LastWriter
<1> QED
  BY <1>3, <1>4, <1>5, <1>6 DEF IInv

LEMMA NextInv == IInv /\ [Next]_vars => IInv'
<1> SUFFICES ASSUME IInv, [Next]_vars PROVE IInv'
  OBVIOUS
<1>1. ASSUME NEW c \in Command, Step(c) PROVE IInv'
  BY <1>1, CreateNextTaskDefinitionInv, QuietStepInv DEF Step
<1>2. ASSUME NEW r \in Rollouts, RolloutStep(r) PROVE IInv'
  <2>1. r \in Command
    BY DEF Command
  <2> QED
    BY <1>2, <2>1, QuietStepInv, StartCanaryTasksInv, CanariesProveInv, ExecInv, UpdateServiceInv
       DEF RolloutStep
<1>3. ASSUME NEW u \in Ups, UpStep(u) PROVE IInv'
  <2>1. u \in Command
    BY DEF Command
  <2> QED
    BY <1>3, <2>1, QuietStepInv, CreateServiceInv DEF UpStep
<1>4. CASE ServiceStep
  BY <1>4, ServiceStepInv
<1>5. CASE UNCHANGED vars
  BY <1>5 DEF vars, canaryVars, IInv, ServiceTypeOK, Order, Writers, RunsOnlyApproved, Approved,
     Reading, InstalledAsTested, Honest, LastWriter
<1> QED
  BY <1>1, <1>2, <1>3, <1>4, <1>5 DEF Next

LEMMA Invariant == Spec => []IInv
<1> QED
  BY InitInv, NextInv, PTL DEF Spec

-----------------------------------------------------------------------------
(* The theorems *)

\* Every variable stays in its range, with any number of commands on the service.
THEOREM ServiceTypeCorrect == Spec => []ServiceTypeOK
<1>1. IInv => ServiceTypeOK
  BY DEF IInv
<1> QED
  BY <1>1, Invariant, PTL

\* Any number of rollouts and ups, overlapping in any way, never make the service
\* run, or fall back to, a task definition that nobody tested or created it with.
THEOREM OnlyApprovedRuns == Spec => []RunsOnlyApproved
<1>1. IInv => RunsOnlyApproved
  BY DEF IInv
<1> QED
  BY <1>1, Invariant, PTL

\* The service has the load balancers that the last rollout's canaries stood in,
\* unless another command wrote it while they were judged.
THEOREM InstalledIsTested == Spec => []InstalledAsTested
<1>1. IInv => InstalledAsTested
  BY DEF IInv
<1> QED
  BY <1>1, Invariant, PTL

\* A command that returns nil has installed its task definition, whatever the
\* others did, and it stays until somebody else writes or ECS rolls it back.
THEOREM NilIsInstalled == Spec => []NilMeansInstalled
<1>1. IInv => NilMeansInstalled
  BY DEF IInv, Honest, NilMeansInstalled
<1> QED
  BY <1>1, Invariant, PTL
=============================================================================
