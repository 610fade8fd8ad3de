-------------------------- MODULE InvocationProofs --------------------------
(***************************************************************************)
(* What a command has read and asked by the time it calls AWS, for any     *)
(* flags, files and environments: the answers and the completeness of the  *)
(* Envars, the directory, then the substitution of the variables in        *)
(* service.json, which needs recursion over its text, and the types.       *)
(***************************************************************************)
EXTENDS Invocation, SequenceTheorems, FiniteSetTheorems, TLAPS

Fields == Strings \cup {"taskDefinitionInput", "serviceDefinitionInput"}

\* The steps after the merge; from the questions on the Envars are complete.
Asking == {"region", "cluster", "service", "yes"}
Merging == {"ensure", "act"} \cup Asking

\* The Envars as the steps before the questions leave them.  A run has no flag for
\* a task definition, and the one of the file is read only without a flag.
Loaded ==
    /\ DOMAIN envars = Fields
    /\ cmd.name = "run" => envars.taskDefinitionArn = <<>>
    /\ pc \in {"args", "service.json", "task-definition.json"} =>
           envars.taskDefinitionInput = FALSE
    /\ pc \in {"merge"} \cup Merging =>
           (envars.taskDefinitionArn = <<>> <=> envars.taskDefinitionInput)

\* Once they are merged the Envars differ from service.json only where that has an
\* empty string.
Agrees ==
    /\ envars.serviceDefinitionInput # {}
    /\ \A d \in envars.serviceDefinitionInput :
          /\ d.cluster \in {<<>>, envars.cluster}
          /\ d.service \in {<<>>, envars.service}

\* The answers given by the time of each question.
Answered ==
    /\ pc \in {"cluster", "service", "yes"} => Confirmed("region", envars.region)
    /\ pc \in {"service", "yes"} => Confirmed("cluster", envars.cluster)
    /\ pc = "yes" /\ cmd.name # "run" => Confirmed("service", envars.service)
    /\ pc = "act" /\ ~cmd.ci =>
          /\ Confirmed("region", envars.region) /\ Confirmed("cluster", envars.cluster)
          /\ cmd.name # "run" => Confirmed("service", envars.service)
          /\ Confirmed("yes", <<>>)

IInv ==
    /\ cmd.wait \in Int
    /\ cmd.name \in Command
    /\ Loaded
    /\ cmd.name = "audit" => pc \in {"args", "done", "err"}
    /\ pc \in Merging => Agrees
    /\ pc \in {"act"} \cup Asking => Ensured
    /\ Answered
    /\ asked # {} => pc = "done"
    /\ ConfirmedIsChanged
    /\ CompleteBeforeAsking

-----------------------------------------------------------------------------

\* No wait is over before it begins: what is not positive is the default.
LEMMA WaitsArePositive ==
    ASSUME cmd.wait \in Int
    PROVE  CanaryTaskIdleWait > 0 /\ OtherWaits > 0
BY DEF CanaryTaskIdleWait, OtherWaits, Wait

LEMMA InitInv == Init => IInv
<1> SUFFICES ASSUME Init PROVE IInv
  OBVIOUS
<1>1. cmd.wait \in Int /\ cmd.name \in Command
  BY InvocationAssumption DEF Init
<1>2. pc = "args" /\ asked = {} /\ envars = FromFlags
  BY DEF Init
<1>3. /\ DOMAIN envars = Fields
      /\ envars.taskDefinitionInput = FALSE
      /\ cmd.name = "run" => envars.taskDefinitionArn = <<>>
  BY <1>2 DEF FromFlags, Fields, Strings, FlagsOf
<1> QED
  BY <1>1, <1>2, <1>3
  DEF IInv, Loaded, Answered, ConfirmedIsChanged, CompleteBeforeAsking, Merging, Asking

\* While nothing has been asked of AWS the two properties say nothing.
LEMMA NothingAsked == asked = {} => ConfirmedIsChanged /\ CompleteBeforeAsking
BY DEF ConfirmedIsChanged, CompleteBeforeAsking

\* The steps that read the directory.
LEMMA LoadInv ==
    ASSUME IInv, RequireArgs \/ LoadServiceDefinition \/ LoadTaskDefinition
    PROVE  IInv'
<1>1. UNCHANGED <<cmd, asked>> /\ asked = {}
  BY DEF IInv, RequireArgs, LoadServiceDefinition, LoadTaskDefinition, inputs
<1>2. (asked = {})' /\ (ConfirmedIsChanged /\ CompleteBeforeAsking)'
  BY <1>1 DEF ConfirmedIsChanged, CompleteBeforeAsking
<1>3. pc' \in {"service.json", "task-definition.json", "merge", "err"}
  BY DEF RequireArgs, LoadServiceDefinition, LoadTaskDefinition, Goto
<1>4. Loaded'
  <2>1. CASE RequireArgs \/ LoadServiceDefinition
    BY <2>1, <1>1 DEF IInv, Loaded, RequireArgs, LoadServiceDefinition, Goto, Merging, Asking
  <2>2. CASE LoadTaskDefinition
    <3>1. /\ pc = "task-definition.json" /\ DOMAIN envars = Fields
          /\ envars.taskDefinitionInput = FALSE
          /\ cmd.name = "run" => envars.taskDefinitionArn = <<>>
      BY <2>2 DEF IInv, Loaded, LoadTaskDefinition
    <3>2. CASE UNCHANGED envars /\ (pc' = "err" \/ envars.taskDefinitionArn # <<>>)
      BY <1>1, <1>3, <3>1, <3>2 DEF Loaded, Merging, Asking
    <3>3. CASE envars.taskDefinitionArn = <<>> /\ envars' = [envars EXCEPT !.taskDefinitionInput = TRUE]
               /\ pc' = "merge"
      <4>1. /\ DOMAIN envars' = Fields /\ envars'.taskDefinitionArn = <<>>
            /\ envars'.taskDefinitionInput = TRUE
        BY <3>1, <3>3 DEF Fields, Strings
      <4>2. envars'.taskDefinitionArn = <<>> <=> envars'.taskDefinitionInput
        BY <4>1
      <4> QED
        BY <1>1, <3>3, <4>1, <4>2 DEF Loaded, Merging, Asking
    <3> QED
      BY <2>2, <3>2, <3>3 DEF LoadTaskDefinition, Goto
  <2> QED
    BY <2>1, <2>2
<1>5. cmd.name # "audit"
  BY DEF IInv, RequireArgs, LoadServiceDefinition, LoadTaskDefinition
<1> QED
  BY <1>1, <1>2, <1>3, <1>4, <1>5 DEF IInv, Merging, Asking, Answered

LEMMA MergeEnvarsInv ==
    ASSUME IInv, MergeEnvars
    PROVE  IInv'
<1>1. UNCHANGED <<cmd, asked>> /\ asked = {} /\ pc = "merge" /\ DOMAIN envars = Fields
  BY DEF IInv, MergeEnvars, inputs, Loaded
<1>2. (ConfirmedIsChanged /\ CompleteBeforeAsking)'
  BY <1>1 DEF ConfirmedIsChanged, CompleteBeforeAsking
<1>3. cmd.name # "audit"
  BY <1>1 DEF IInv
<1>4. CASE pc' = "panic" /\ UNCHANGED envars
  BY <1>1, <1>2, <1>4 DEF IInv, Loaded, Merging, Asking, Answered
<1>5. ASSUME NEW file,
             envars' = [envars EXCEPT !.cluster = Merged(@, file.cluster),
                                      !.service = Merged(@, file.service),
                                      !.serviceDefinitionInput = {file}],
             pc' = "ensure"
      PROVE  IInv'
  <2>1. /\ DOMAIN envars' = Fields
        /\ envars'.taskDefinitionArn = envars.taskDefinitionArn
        /\ envars'.taskDefinitionInput = envars.taskDefinitionInput
        /\ envars'.serviceDefinitionInput = {file}
        /\ envars'.cluster = Merged(envars.cluster, file.cluster)
        /\ envars'.service = Merged(envars.service, file.service)
    BY <1>1, <1>5 DEF Fields, Strings
  <2>2. Agrees'
    BY <2>1 DEF Agrees, Merged
  <2>3. Loaded'
    BY <1>1, <1>5, <2>1 DEF IInv, Loaded
  <2> QED
    BY <1>1, <1>2, <1>3, <1>5, <2>2, <2>3 DEF IInv, Merging, Asking, Answered
<1> QED
  BY <1>4, <1>5 DEF MergeEnvars, Goto

LEMMA EnsureEnvarsInv ==
    ASSUME IInv, EnsureEnvars
    PROVE  IInv'
<1>1. UNCHANGED <<cmd, asked, envars, confirmed>> /\ asked = {} /\ pc = "ensure"
  BY DEF IInv, EnsureEnvars, inputs
<1>2. pc' = "err" \/ (Ensured /\ pc' = "act" /\ cmd.ci) \/ (Ensured /\ pc' = "region" /\ ~cmd.ci)
  BY DEF EnsureEnvars, Goto
<1>3. (ConfirmedIsChanged /\ CompleteBeforeAsking)'
  BY <1>1 DEF ConfirmedIsChanged, CompleteBeforeAsking
<1> QED
  BY <1>1, <1>2, <1>3 DEF IInv, Loaded, Agrees, Ensured, Merging, Asking, Answered

LEMMA ConfirmStackChangeInv ==
    ASSUME IInv, ConfirmStackChange
    PROVE  IInv'
<1>1. UNCHANGED <<cmd, asked, envars>> /\ asked = {} /\ pc \in Asking
  BY DEF IInv, ConfirmStackChange, Confirm, Asking, inputs
<1>2. (ConfirmedIsChanged /\ CompleteBeforeAsking)'
  BY <1>1 DEF ConfirmedIsChanged, CompleteBeforeAsking
<1>3. \A name, value : Confirmed(name, value) => Confirmed(name, value)'
  BY DEF Confirmed, ConfirmStackChange, Confirm
<1>4. pc' \in {"cluster", "service", "yes", "act", "err"}
  BY DEF ConfirmStackChange, Confirm, Goto, AfterCluster
<1>5. Loaded' /\ (Agrees)' /\ Ensured'
  BY <1>1, <1>4 DEF IInv, Loaded, Agrees, Ensured, Merging, Asking
<1>6. Answered'
  <2>1. CASE pc' = "err"
    BY <2>1 DEF Answered
  <2>2. ASSUME NEW name, NEW value, NEW next, Confirm(name, value, next), pc' # "err"
        PROVE  pc = name /\ pc' = next /\ Confirmed(name, value)'
    BY <2>2 DEF Confirm, Goto, Confirmed
  <2>3. CASE Confirm("region", envars.region, "cluster") /\ pc' # "err"
    BY <1>1, <2>2, <2>3 DEF Answered, Confirmed
  <2>4. CASE Confirm("cluster", envars.cluster, AfterCluster) /\ pc' # "err"
    <3>1. /\ pc = "cluster" /\ pc' = AfterCluster /\ Confirmed("cluster", envars.cluster)'
          /\ Confirmed("region", envars.region)'
      BY <1>1, <1>3, <2>2, <2>4 DEF IInv, Answered, Confirmed
    <3> QED
      BY <1>1, <3>1 DEF Answered, AfterCluster, Confirmed
  <2>5. CASE Confirm("service", envars.service, "yes") /\ pc' # "err"
    <3>1. /\ pc = "service" /\ pc' = "yes" /\ Confirmed("service", envars.service)'
          /\ Confirmed("region", envars.region)' /\ Confirmed("cluster", envars.cluster)'
      BY <1>1, <1>3, <2>2, <2>5 DEF IInv, Answered, Confirmed
    <3> QED
      BY <1>1, <3>1 DEF Answered, Confirmed
  <2>6. CASE Confirm("yes", <<>>, "act") /\ pc' # "err"
    <3>1. /\ pc = "yes" /\ pc' = "act" /\ Confirmed("yes", <<>>)'
          /\ Confirmed("region", envars.region)' /\ Confirmed("cluster", envars.cluster)'
          /\ cmd.name # "run" => Confirmed("service", envars.service)'
      BY <1>1, <1>3, <2>2, <2>6 DEF IInv, Answered, Confirmed
    <3> QED
      BY <1>1, <3>1 DEF Answered, Confirmed
  <2> QED
    BY <2>1, <2>3, <2>4, <2>5, <2>6 DEF ConfirmStackChange
<1> QED
  BY <1>1, <1>2, <1>4, <1>5, <1>6 DEF IInv, Merging, Asking

LEMMA ActInv ==
    ASSUME IInv, Act
    PROVE  IInv'
<1>1. /\ UNCHANGED <<cmd, envars, confirmed>> /\ pc = "act" /\ pc' = "done"
      /\ asked' = Calls /\ cmd.name # "audit" /\ cmd.name \in Command
  BY DEF IInv, Act, inputs, Goto, Merging
<1>2. Ensured /\ Agrees /\ (envars.taskDefinitionArn = <<>> <=> envars.taskDefinitionInput)
      /\ (cmd.name = "run" => envars.taskDefinitionArn = <<>>)
  BY <1>1 DEF IInv, Loaded, Merging
<1>3. CompleteBeforeAsking'
  BY <1>1, <1>2, WaitsArePositive
  DEF IInv, CompleteBeforeAsking, Ensured, Agrees, CanaryTaskIdleWait, OtherWaits
<1>4. ConfirmedIsChanged'
  <2> SUFFICES ASSUME ~cmd.ci, NEW a \in Calls
               PROVE  /\ \/ Confirmed("cluster", a.cluster)
                         \/ a.api = "CreateService" /\ a.cluster = <<>>
                      /\ \/ Confirmed("service", a.service)
                         \/ a.api = "CreateService" /\ a.service = <<>>
                         \/ a.api = "RunTask"
    BY <1>1 DEF IInv, Answered, ConfirmedIsChanged, Confirmed
  <2>1. /\ Confirmed("cluster", envars.cluster)
        /\ cmd.name # "run" => Confirmed("service", envars.service)
    BY <1>1 DEF IInv, Answered
  <2>2. CASE cmd.name = "rollout"
    BY <2>1, <2>2 DEF Calls, Call
  <2>3. CASE cmd.name = "run"
    BY <2>1, <2>3 DEF Calls, Call
  <2>4. CASE cmd.name = "up"
    BY <1>2, <2>1, <2>4 DEF Calls, Call, Agrees
  <2> QED
    BY <1>1, <2>2, <2>3, <2>4 DEF Command
<1>5. Loaded'
  BY <1>1 DEF IInv, Loaded, Merging, Asking
<1> QED
  BY <1>1, <1>3, <1>4, <1>5 DEF IInv, Merging, Asking, Answered

LEMMA AuditInv ==
    ASSUME IInv, Audit
    PROVE  IInv'
<1>1. UNCHANGED <<cmd, envars>> /\ cmd.name = "audit" /\ pc' \in {"done", "err"}
      /\ (asked' # {} => pc' = "done")
  BY DEF IInv, Audit, inputs, Goto
<1>2. (ConfirmedIsChanged /\ CompleteBeforeAsking)'
  BY <1>1 DEF ConfirmedIsChanged, CompleteBeforeAsking
<1> QED
  BY <1>1, <1>2 DEF IInv, Loaded, Merging, Asking, Answered

LEMMA NextInv == IInv /\ [Next]_vars => IInv'
<1> SUFFICES ASSUME IInv, [Next]_vars PROVE IInv'
  OBVIOUS
<1>1. CASE UNCHANGED vars
  BY <1>1 DEF vars, inputs, IInv, Loaded, Agrees, Ensured, Answered, Confirmed, ConfirmedIsChanged,
              CompleteBeforeAsking, CanaryTaskIdleWait, OtherWaits
<1> QED
  BY <1>1, LoadInv, MergeEnvarsInv, EnsureEnvarsInv, ConfirmStackChangeInv, ActInv, AuditInv DEF Next

LEMMA AlwaysInv == Spec => []IInv
BY InitInv, NextInv, PTL DEF Spec

\* What a command changes without --ci is what the user typed, whatever the flags,
\* the files and the variables were (prompt.go:44, up.go:35).
THEOREM ChangedIsConfirmed == Spec => []ConfirmedIsChanged
<1>1. IInv => ConfirmedIsChanged
  BY DEF IInv
<1> QED
  BY <1>1, AlwaysInv, PTL

\* No call is made before the input is complete, whatever the flags, the files and
\* the variables were (env.go:47, run.go:38).
THEOREM CompleteWhenAsking == Spec => []CompleteBeforeAsking
<1>1. IInv => CompleteBeforeAsking
  BY DEF IInv
<1> QED
  BY <1>1, AlwaysInv, PTL

-----------------------------------------------------------------------------
(* The directory decides.  What ReadFileAndApplyEnvars makes of the text plays no   *)
(* part: the files and the environment do not change, so that every reading gives   *)
(* the same ServiceDefinition.                                                      *)

\* Once merged, the Envars name the service of service.json where that has a name.
Directed ==
    /\ pc \in Merging =>
          /\ envars.serviceDefinitionInput = {ServiceDefinition}
          /\ ServiceDefinition.cluster # <<>> => envars.cluster = ServiceDefinition.cluster
          /\ ServiceDefinition.service # <<>> => envars.service = ServiceDefinition.service
    /\ DirectoryDecides

\* Every step reads the same directory and the same environment.
LEMMA SameDirectory ==
    ASSUME [Next]_vars
    PROVE  UNCHANGED inputs /\ UNCHANGED ServiceDefinition
<1>1. UNCHANGED inputs
  BY DEF Next, vars, RequireArgs, LoadServiceDefinition, LoadTaskDefinition, MergeEnvars, EnsureEnvars,
         ConfirmStackChange, Confirm, Act, Audit, inputs
<1>2. UNCHANGED ServiceDefinition
  BY <1>1 DEF inputs, ServiceDefinition, Field, Applied, FileText
<1> QED
  BY <1>1, <1>2

\* The steps that neither merge nor ask.
LEMMA DirectedQuiet ==
    ASSUME Directed, [Next]_vars, UNCHANGED asked,
           pc' \in Merging => pc \in Merging /\ UNCHANGED envars
    PROVE  Directed'
BY SameDirectory DEF Directed, DirectoryDecides, inputs

LEMMA DirectedMerge ==
    ASSUME IInv, Directed, [Next]_vars, MergeEnvars
    PROVE  Directed'
<1>1. DOMAIN envars = Fields /\ UNCHANGED asked /\ pc = "merge" /\ asked = {}
  BY DEF IInv, Loaded, MergeEnvars
<1>2. CASE pc' = "panic"
  BY <1>1, <1>2, DirectedQuiet DEF Merging, Asking
<1>3. CASE envars' = [envars EXCEPT !.cluster = Merged(@, ServiceDefinition.cluster),
                                    !.service = Merged(@, ServiceDefinition.service),
                                    !.serviceDefinitionInput = {ServiceDefinition}]
  <2>1. /\ envars'.serviceDefinitionInput = {ServiceDefinition}
        /\ envars'.cluster = Merged(envars.cluster, ServiceDefinition.cluster)
        /\ envars'.service = Merged(envars.service, ServiceDefinition.service)
    BY <1>1, <1>3 DEF Fields, Strings
  <2> QED
    BY <1>1, <2>1, SameDirectory DEF Directed, Merged, DirectoryDecides
<1> QED
  BY <1>2, <1>3 DEF MergeEnvars, Goto

LEMMA DirectedAct ==
    ASSUME IInv, Directed, [Next]_vars, Act
    PROVE  Directed'
<1>1. /\ UNCHANGED <<cmd, envars>> /\ pc = "act" /\ pc' = "done" /\ asked' = Calls
      /\ cmd.name \in Command /\ cmd.name # "audit"
  BY DEF IInv, Act, inputs, Goto
<1>2. /\ envars.serviceDefinitionInput = {ServiceDefinition}
      /\ ServiceDefinition.cluster # <<>> => envars.cluster = ServiceDefinition.cluster
      /\ ServiceDefinition.service # <<>> => envars.service = ServiceDefinition.service
  BY <1>1 DEF Directed, Merging
<1>3. \A a \in Calls :
          /\ ServiceDefinition.cluster # <<>> => a.cluster = ServiceDefinition.cluster
          /\ ServiceDefinition.service # <<>> /\ a.api # "RunTask" =>
                 a.service = ServiceDefinition.service
  <2>1. CASE cmd.name = "rollout"
    BY <1>2, <2>1 DEF Calls, Call
  <2>2. CASE cmd.name = "run"
    BY <1>2, <2>2 DEF Calls, Call
  <2>3. CASE cmd.name = "up"
    BY <1>2, <2>3 DEF Calls, Call
  <2> QED
    BY <1>1, <2>1, <2>2, <2>3 DEF Command
<1> QED
  BY <1>1, <1>3, SameDirectory DEF Directed, DirectoryDecides, Merging, Asking

\* An audit reads the names of a directory, and those of the flags without one.
LEMMA DirectedAudit ==
    ASSUME IInv, Directed, [Next]_vars, Audit
    PROVE  Directed'
<1>1. UNCHANGED cmd /\ pc' \in {"done", "err"}
  BY DEF Audit, inputs, Goto
<1>2. CASE UNCHANGED asked
  BY <1>1, <1>2, DirectedQuiet DEF Merging, Asking
<1>3. CASE AuditArguments
           /\ asked' = {Call("DescribeServices", AuditTarget.cluster, AuditTarget.service)}
  <2>1. cmd.args # 0 => AuditTarget = ServiceDefinition
    BY <1>3 DEF AuditArguments, Arguments, AuditTarget
  <2> QED
    BY <1>1, <1>3, <2>1, SameDirectory DEF Directed, DirectoryDecides, Call, Merging, Asking
<1> QED
  BY <1>2, <1>3 DEF Audit

LEMMA DirectedNext == IInv /\ Directed /\ [Next]_vars => Directed'
<1> SUFFICES ASSUME IInv, Directed, [Next]_vars PROVE Directed'
  OBVIOUS
<1>1. CASE RequireArgs \/ LoadServiceDefinition \/ LoadTaskDefinition
  BY <1>1, DirectedQuiet
  DEF RequireArgs, LoadServiceDefinition, LoadTaskDefinition, Goto, Merging, Asking
<1>2. CASE EnsureEnvars
  BY <1>2, DirectedQuiet DEF EnsureEnvars, Merging
<1>3. CASE ConfirmStackChange
  BY <1>3, DirectedQuiet DEF ConfirmStackChange, Confirm, Merging, Asking
<1>4. CASE UNCHANGED vars
  BY <1>4, DirectedQuiet DEF vars
<1> QED
  BY <1>1, <1>2, <1>3, <1>4, DirectedMerge, DirectedAct, DirectedAudit DEF Next

\* Every command works on the service that the service.json of its directory names,
\* whatever the flags, the text of the file and the variables were (command.go:58,
\* audit.go:50).
THEOREM DirectoryWins == Spec => []DirectoryDecides
<1>1. Init => Directed
  BY DEF Init, Directed, DirectoryDecides, Merging, Asking
<1>2. Directed => DirectoryDecides
  BY DEF Directed
<1> QED
  BY <1>1, <1>2, AlwaysInv, DirectedNext, PTL DEF Spec

-----------------------------------------------------------------------------
(* Recursion: induction and the existence of functions defined by recursion, with   *)
(* sets and functions in place of the operators that the provers cannot instantiate. *)

\* A set of numbers that is not empty has a least element: the initial segments its
\* elements span are finite, and strict inclusion is well-founded on finite sets.
LEMMA Least ==
    ASSUME NEW T \in SUBSET Nat, T # {}
    PROVE  \E m \in T : \A x \in T : m <= x
<1> DEFINE Segments == {1 .. x : x \in T}
<1>1. Segments \subseteq FiniteSubsetsOf(Nat)
  <2>1. ASSUME NEW x \in T PROVE 1 .. x \in SUBSET Nat /\ IsFiniteSet(1 .. x)
    <3>1. x \in Int /\ 1 \in Int
      OBVIOUS
    <3>2. IsFiniteSet(1 .. x)
      BY <3>1, FS_Interval
    <3> QED
      BY <3>1, <3>2
  <2> QED
    BY <2>1 DEF FiniteSubsetsOf
<1>2. \E s \in Segments : \A r \in Segments : <<r, s>> \notin StrictSubsetOrdering(Nat)
  <2>1. Segments # {}
    OBVIOUS
  <2> HIDE DEF Segments
  <2> QED
    BY <1>1, <2>1, FS_StrictSubsetOrderingWellFounded, WFMin
<1>3. PICK m \in T : \A x \in T : <<1 .. x, 1 .. m>> \notin StrictSubsetOrdering(Nat)
  BY <1>2
<1>4. ASSUME NEW x \in T, x < m PROVE FALSE
  <2>1. /\ m \in 1 .. m /\ m \notin 1 .. x /\ 1 .. x \subseteq 1 .. m
        /\ 1 .. x \in SUBSET Nat /\ 1 .. m \in SUBSET Nat
    BY <1>4
  <2> QED
    BY <1>3, <2>1 DEF StrictSubsetOrdering
<1> QED
  BY <1>3, <1>4

LEMMA Induction ==
    ASSUME NEW T \in SUBSET Nat, 0 \in T, \A n \in T : n + 1 \in T
    PROVE  T = Nat
<1> SUFFICES ASSUME Nat \ T # {} PROVE FALSE
  OBVIOUS
<1>1. PICK m \in Nat \ T : \A x \in Nat \ T : m <= x
  BY Least
<1>2. m # 0 /\ m - 1 \in Nat
  BY <1>1
<1>3. m - 1 \in T
  BY <1>1, <1>2
<1> QED
  BY <1>1, <1>2, <1>3

\* A function on the natural numbers may be defined from its value at 0 and a function
\* that gives each further value from the last.
Iterates(h, b, g, V) ==
    h \in [Nat -> V] /\ h[0] = b /\ \A n \in Nat : h[n + 1] = g[n][h[n]]

LEMMA Recursion ==
    ASSUME NEW V, NEW b \in V, NEW g, \A n \in Nat : \A x \in V : g[n][x] \in V
    PROVE  \E h : Iterates(h, b, g, V)
<1> DEFINE A(n) == {h \in [0 .. n -> V] : h[0] = b /\ \A i \in 0 .. n - 1 : h[i + 1] = g[i][h[i]]}
<1>1. \A n \in Nat : A(n) # {}
  <2> DEFINE T == {n \in Nat : A(n) # {}}
  <2>1. 0 \in T
    <3>1. [i \in 0 .. 0 |-> b] \in A(0)
      OBVIOUS
    <3> QED
      BY <3>1
  <2>2. ASSUME NEW n \in T PROVE n + 1 \in T
    <3>1. PICK h \in [0 .. n -> V] : h[0] = b /\ \A i \in 0 .. n - 1 : h[i + 1] = g[i][h[i]]
      OBVIOUS
    <3> DEFINE k == [i \in 0 .. n + 1 |-> IF i = n + 1 THEN g[n][h[n]] ELSE h[i]]
    <3>2. k \in [0 .. n + 1 -> V] /\ k[0] = b
      BY <3>1
    <3>3. \A i \in 0 .. (n + 1) - 1 : k[i + 1] = g[i][k[i]]
      BY <3>1
    <3>4. k \in A(n + 1)
      BY <3>2, <3>3
    <3> HIDE DEF A, k
    <3> QED
      BY <3>4
  <2> HIDE DEF T
  <2>3. T = Nat
    BY <2>1, <2>2, Induction DEF T
  <2> QED
    BY <2>3 DEF T
<1>2. \A m, n \in Nat : \A h \in A(m), k \in A(n) : \A i \in 0 .. m : i <= n => h[i] = k[i]
  <2> SUFFICES ASSUME NEW m \in Nat, NEW n \in Nat, NEW h \in A(m), NEW k \in A(n)
               PROVE  \A i \in 0 .. m : i <= n => h[i] = k[i]
    OBVIOUS
  <2> DEFINE T == {i \in Nat : i <= m /\ i <= n => h[i] = k[i]}
  <2>1. 0 \in T
    OBVIOUS
  <2>2. ASSUME NEW i \in T PROVE i + 1 \in T
    <3>1. CASE i + 1 <= m /\ i + 1 <= n
      <4>1. i \in 0 .. m - 1 /\ i \in 0 .. n - 1 /\ h[i] = k[i]
        BY <3>1
      <4>2. h[i + 1] = g[i][h[i]] /\ k[i + 1] = g[i][k[i]]
        BY <4>1
      <4> QED
        BY <4>1, <4>2
    <3> QED
      BY <3>1
  <2> HIDE DEF T
  <2>3. T = Nat
    BY <2>1, <2>2, Induction DEF T
  <2>4. ASSUME NEW i \in 0 .. m, i <= n PROVE h[i] = k[i]
    <3>1. i \in T
      BY <2>3
    <3> QED
      BY <2>4, <3>1 DEF T
  <2> QED
    BY <2>4
<1> DEFINE H(n) == CHOOSE h \in A(n) : TRUE
           f == [n \in Nat |-> H(n)[n]]
<1>3. \A n \in Nat : H(n) \in A(n)
  <2> HIDE DEF A
  <2> QED
    BY <1>1
<1> HIDE DEF H
<1>4. f \in [Nat -> V] /\ f[0] = b
  BY <1>3
<1>5. ASSUME NEW n \in Nat PROVE f[n + 1] = g[n][f[n]]
  <2>1. H(n + 1)[n + 1] = g[n][H(n + 1)[n]]
    <3>1. H(n + 1) \in A(n + 1) /\ n \in 0 .. (n + 1) - 1
      BY <1>3
    <3> QED
      BY <3>1
  <2>2. H(n + 1)[n] = H(n)[n]
    <3>1. H(n + 1) \in A(n + 1) /\ H(n) \in A(n) /\ n \in 0 .. n + 1 /\ n <= n /\ n + 1 \in Nat
      BY <1>3
    <3> HIDE DEF A
    <3> QED
      BY <1>2, <3>1
  <2> QED
    BY <2>1, <2>2
<1>6. Iterates(f, b, g, V)
  BY <1>4, <1>5 DEF Iterates
<1> QED
  BY <1>6

\* The same up to a bound n.
BoundedIterates(h, n, b, g, V) ==
    h \in [0 .. n -> V] /\ h[0] = b /\ \A i \in 1 .. n : h[i] = g[i][h[i - 1]]

LEMMA BoundedRecursion ==
    ASSUME NEW V, NEW b \in V, NEW n \in Nat, NEW g, \A i \in 1 .. n : \A x \in V : g[i][x] \in V
    PROVE  \E h : BoundedIterates(h, n, b, g, V)
<1> DEFINE G == [i \in Nat |-> IF i + 1 <= n THEN g[i + 1] ELSE [x \in V |-> x]]
<1>1. \A i \in Nat : \A x \in V : G[i][x] \in V
  OBVIOUS
<1>2. \A i \in 1 .. n : i - 1 \in Nat /\ (i - 1) + 1 = i /\ G[i - 1] = g[i]
  OBVIOUS
<1> HIDE DEF G
<1>3. PICK h : Iterates(h, b, G, V)
  BY <1>1, Recursion
<1> DEFINE k == [i \in 0 .. n |-> h[i]]
<1>4. k \in [0 .. n -> V] /\ k[0] = b
  BY <1>3 DEF Iterates
<1>5. ASSUME NEW i \in 1 .. n PROVE k[i] = g[i][k[i - 1]]
  <2>1. h[(i - 1) + 1] = G[i - 1][h[i - 1]]
    BY <1>2, <1>3 DEF Iterates
  <2>2. k[i] = h[i] /\ k[i - 1] = h[i - 1]
    OBVIOUS
  <2> QED
    BY <1>2, <2>1, <2>2
<1>6. BoundedIterates(k, n, b, g, V)
  BY <1>4, <1>5 DEF BoundedIterates
<1> QED
  BY <1>6

-----------------------------------------------------------------------------
(* FlattenSeq, over the prefixes of a sequence of sequences *)

\* h gives what the first i members of ss are flattened to.
Flattens(h, ss, S) ==
    /\ h \in [0 .. Len(ss) -> Seq(S)]
    /\ h[0] = <<>>
    /\ \A i \in 1 .. Len(ss) : h[i] = h[i - 1] \o ss[i]

LEMMA FlattenStep ==
    ASSUME NEW S, NEW ss \in Seq(Seq(S)), Len(ss) # 0
    PROVE  \E f \in [1 .. Len(ss) -> Seq(S)] :
               /\ \A i \in 1 .. Len(ss) : f[i] = IF i = 1 THEN ss[i] ELSE f[i - 1] \o ss[i]
               /\ FlattenSeq(ss) = f[Len(ss)]
<1> DEFINE n == Len(ss)
           V == Seq(S)
           g == [i \in 1 .. n |-> [x \in V |-> x \o ss[i]]]
           P(f) == f = [i \in 1 .. n |-> IF i = 1 THEN ss[i] ELSE f[i - 1] \o ss[i]]
           f == CHOOSE f : P(f)
<1>1. /\ n \in Nat /\ n >= 1 /\ <<>> \in V /\ \A i \in 1 .. n : ss[i] \in V
      /\ \A x, y \in V : x \o y \in V
      /\ \A x \in V : <<>> \o x = x
  OBVIOUS
<1>2. FlattenSeq(ss) = f[n]
  BY DEF FlattenSeq
<1> HIDE DEF n, V
<1>3. \A i \in 1 .. n : \A x \in V : g[i][x] \in V /\ g[i][x] = x \o ss[i]
  BY <1>1
<1>4. PICK h : BoundedIterates(h, n, <<>>, g, V)
  <2> HIDE DEF g
  <2> QED
    BY <1>1, <1>3, BoundedRecursion
<1> HIDE DEF g
<1>5. /\ h[0] = <<>> /\ \A i \in 0 .. n : h[i] \in V
      /\ \A i \in 1 .. n : h[i] = h[i - 1] \o ss[i]
  <2>1. h \in [0 .. n -> V] /\ h[0] = <<>> /\ \A i \in 1 .. n : h[i] = g[i][h[i - 1]]
    BY <1>4 DEF BoundedIterates
  <2>2. \A i \in 1 .. n : i - 1 \in 0 .. n
    BY <1>1
  <2>3. \A i \in 1 .. n : h[i] = h[i - 1] \o ss[i]
    BY <1>3, <2>1, <2>2
  <2> QED
    BY <2>1, <2>3
<1> DEFINE k == [i \in 1 .. n |-> h[i]]
<1>6. \A i \in 1 .. n : k[i] = IF i = 1 THEN ss[i] ELSE k[i - 1] \o ss[i]
  <2> SUFFICES ASSUME NEW i \in 1 .. n PROVE k[i] = IF i = 1 THEN ss[i] ELSE k[i - 1] \o ss[i]
    OBVIOUS
  <2>1. CASE i = 1
    <3>1. 1 \in 1 .. n /\ 1 - 1 = 0
      BY <1>1
    <3>2. h[1] = h[0] \o ss[1]
      BY <1>5, <3>1
    <3> QED
      BY <1>1, <1>5, <2>1, <3>1, <3>2
  <2>2. CASE i # 1
    <3>1. i - 1 \in 1 .. n
      BY <1>1, <2>2
    <3> QED
      BY <1>5, <2>2, <3>1
  <2> QED
    BY <2>1, <2>2
<1>7. P(k)
  <2>1. k = [i \in 1 .. n |-> k[i]]
    OBVIOUS
  <2> HIDE DEF k
  <2> QED
    BY <1>6, <2>1
<1>8. P(f)
  <2> HIDE DEF P, k
  <2> QED
    BY <1>7
<1> HIDE DEF f, k
<1>9. \A i \in 1 .. n : f[i] = IF i = 1 THEN ss[i] ELSE f[i - 1] \o ss[i]
  BY <1>8
<1>10. \A i \in 1 .. n : f[i] = k[i]
  <2> DEFINE T == {i \in Nat : i \in 1 .. n => f[i] = k[i]}
  <2>1. ASSUME NEW i \in T PROVE i + 1 \in T
    <3>1. CASE i + 1 \in 1 .. n
      <4>1. f[i + 1] = IF i + 1 = 1 THEN ss[i + 1] ELSE f[i] \o ss[i + 1]
        BY <1>9, <3>1
      <4>2. k[i + 1] = IF i + 1 = 1 THEN ss[i + 1] ELSE k[i] \o ss[i + 1]
        BY <1>6, <3>1
      <4>3. i + 1 # 1 => i \in 1 .. n
        BY <1>1, <3>1
      <4> QED
        BY <4>1, <4>2, <4>3
    <3> QED
      BY <3>1
  <2>2. 0 \in T
    BY <1>1
  <2> HIDE DEF T
  <2>3. T = Nat
    BY <2>1, <2>2, Induction DEF T
  <2>4. \A i \in 1 .. n : i \in T
    BY <1>1, <2>3
  <2> QED
    BY <2>4 DEF T
<1>11. f \in [1 .. n -> V]
  <2>1. \A i \in 1 .. n : f[i] \in V
    BY <1>1, <1>5, <1>10 DEF k
  <2>2. f = [i \in 1 .. n |-> f[i]]
    BY <1>8
  <2> HIDE DEF P
  <2> QED
    BY <2>1, <2>2
<1> QED
  <2> HIDE DEF P
  <2> QED
    BY <1>2, <1>9, <1>11 DEF n, V

LEMMA FlattenPrefixes ==
    ASSUME NEW S, NEW ss \in Seq(Seq(S))
    PROVE  \E h : Flattens(h, ss, S) /\ FlattenSeq(ss) = h[Len(ss)]
<1>1. CASE Len(ss) = 0
  <2>1. ss = <<>> /\ FlattenSeq(ss) = <<>>
    BY <1>1 DEF FlattenSeq
  <2>2. Flattens([i \in 0 .. 0 |-> <<>>], ss, S)
    BY <1>1 DEF Flattens
  <2> QED
    BY <1>1, <2>1, <2>2
<1>2. CASE Len(ss) # 0
  <2>1. PICK f \in [1 .. Len(ss) -> Seq(S)] :
            /\ \A i \in 1 .. Len(ss) : f[i] = IF i = 1 THEN ss[i] ELSE f[i - 1] \o ss[i]
            /\ FlattenSeq(ss) = f[Len(ss)]
    BY <1>2, FlattenStep
  <2> DEFINE h == [i \in 0 .. Len(ss) |-> IF i = 0 THEN <<>> ELSE f[i]]
  <2>2. h \in [0 .. Len(ss) -> Seq(S)] /\ h[0] = <<>> /\ h[Len(ss)] = f[Len(ss)]
    BY <1>2
  <2>3. ASSUME NEW i \in 1 .. Len(ss) PROVE h[i] = h[i - 1] \o ss[i]
    <3>1. h[i] = f[i] /\ i \in 0 .. Len(ss) /\ i - 1 \in 0 .. Len(ss) /\ ss[i] \in Seq(S)
      BY <1>2
    <3>2. CASE i = 1
      <4>1. f[i] = ss[i]
        BY <2>1, <3>2
      <4>2. i - 1 = 0
        BY <3>2
      <4>3. h[i - 1] = <<>>
        BY <2>2, <4>2
      <4> HIDE DEF h
      <4> QED
        BY <3>1, <4>1, <4>3
    <3>3. CASE i # 1
      <4>1. h[i - 1] = f[i - 1]
        BY <3>1, <3>3
      <4> HIDE DEF h
      <4> QED
        BY <2>1, <3>1, <3>3, <4>1
    <3> QED
      BY <3>2, <3>3
  <2>4. Flattens(h, ss, S)
    BY <2>2, <2>3 DEF Flattens
  <2> QED
    BY <2>1, <2>2, <2>4
<1> QED
  BY <1>1, <1>2

\* There is one such function.
LEMMA FlattenIs ==
    ASSUME NEW S, NEW ss \in Seq(Seq(S)), NEW h, Flattens(h, ss, S)
    PROVE  FlattenSeq(ss) = h[Len(ss)]
<1>1. PICK k : Flattens(k, ss, S) /\ FlattenSeq(ss) = k[Len(ss)]
  BY FlattenPrefixes
<1> DEFINE T == {i \in Nat : i <= Len(ss) => h[i] = k[i]}
<1>2. 0 \in T
  BY <1>1 DEF Flattens
<1>3. ASSUME NEW i \in T PROVE i + 1 \in T
  <2>1. CASE i + 1 <= Len(ss)
    <3>1. i + 1 \in 1 .. Len(ss) /\ (i + 1) - 1 = i /\ h[i] = k[i]
      BY <2>1
    <3>2. h[i + 1] = h[i] \o ss[i + 1] /\ k[i + 1] = k[i] \o ss[i + 1]
      BY <1>1, <3>1 DEF Flattens
    <3>3. h[i + 1] = k[i + 1]
      BY <3>1, <3>2
    <3> QED
      BY <3>3
  <2> QED
    BY <2>1
<1> HIDE DEF T
<1>4. T = Nat
  BY <1>2, <1>3, Induction DEF T
<1>5. Len(ss) \in T
  BY <1>4
<1> QED
  BY <1>1, <1>5 DEF T

LEMMA Concats ==
    ASSUME NEW S
    PROVE  /\ \A x, y \in Seq(S) : x \o y \in Seq(S)
           /\ \A x, y, z \in Seq(S) : x \o (y \o z) = (x \o y) \o z
           /\ \A x \in Seq(S) : x \o <<>> = x
BY ConcatAssociative

\* What is flattened is a sequence of the same members.
LEMMA FlattenType ==
    ASSUME NEW S, NEW ss \in Seq(Seq(S))
    PROVE  FlattenSeq(ss) \in Seq(S)
<1>1. PICK h : Flattens(h, ss, S) /\ FlattenSeq(ss) = h[Len(ss)]
  BY FlattenPrefixes
<1>2. Len(ss) \in 0 .. Len(ss)
  OBVIOUS
<1> QED
  BY <1>1, <1>2 DEF Flattens

\* A sequence of single members is flattened to what they are.
LEMMA FlattenSingles ==
    ASSUME NEW S, NEW s \in Seq(S), NEW ss \in Seq(Seq(S)), Len(ss) = Len(s),
           \A i \in 1 .. Len(s) : ss[i] = <<s[i]>>
    PROVE  FlattenSeq(ss) = s
<1> DEFINE n == Len(s)
           h == [i \in 0 .. n |-> SubSeq(s, 1, i)]
<1>1. n \in Nat /\ Len(ss) = n /\ \A i \in 1 .. n : ss[i] = <<s[i]>>
  OBVIOUS
<1>2. /\ \A i \in 0 .. n : SubSeq(s, 1, i) \in Seq(S)
      /\ SubSeq(s, 1, 0) = <<>> /\ SubSeq(s, 1, n) = s
  BY <1>1, SubSeqProperties, SubSeqEmpty, SubSeqFull
<1>3. \A i \in 1 .. n : SubSeq(s, 1, i) = SubSeq(s, 1, i - 1) \o <<s[i]>>
  BY <1>1, SubSeqRecursiveSecond
<1> HIDE DEF n
<1>4. h \in [0 .. n -> Seq(S)] /\ h[0] = <<>> /\ h[n] = s
  BY <1>1, <1>2
<1>5. ASSUME NEW i \in 1 .. n PROVE h[i] = h[i - 1] \o ss[i]
  <2>1. h[i] = SubSeq(s, 1, i) /\ h[i - 1] = SubSeq(s, 1, i - 1)
    BY <1>1
  <2> HIDE DEF h
  <2> QED
    BY <1>1, <1>3, <2>1
<1> HIDE DEF h
<1>6. Flattens(h, ss, S)
  BY <1>1, <1>4, <1>5 DEF Flattens
<1> QED
  BY <1>1, <1>4, <1>6, FlattenIs

\* o[i] is where the first i members end in w, which they are flattened to.
Layout(o, ss, w) ==
    /\ Len(ss) \in Nat /\ \A i \in 1 .. Len(ss) : Len(ss[i]) \in Nat
    /\ o \in [0 .. Len(ss) -> Nat]
    /\ o[0] = 0
    /\ \A i \in 1 .. Len(ss) : o[i] = o[i - 1] + Len(ss[i])
    /\ o[Len(ss)] = Len(w)
    /\ \A i, j \in 0 .. Len(ss) : i <= j => o[i] <= o[j]
    /\ \A i \in 1 .. Len(ss) : \A d \in 1 .. Len(ss[i]) : w[o[i - 1] + d] = ss[i][d]

\* A function that never decreases from one number to the next.
LEMMA Monotone ==
    ASSUME NEW n \in Nat, NEW o \in [0 .. n -> Nat], \A i \in 1 .. n : o[i - 1] <= o[i]
    PROVE  \A i, j \in 0 .. n : i <= j => o[i] <= o[j]
<1> DEFINE T == {k \in Nat : \A i \in 0 .. n : i + k <= n => o[i] <= o[i + k]}
<1>1. 0 \in T
  OBVIOUS
<1>2. ASSUME NEW k \in T PROVE k + 1 \in T
  <2> SUFFICES ASSUME NEW i \in 0 .. n, i + (k + 1) <= n PROVE o[i] <= o[i + (k + 1)]
    OBVIOUS
  <2>1. k \in Nat /\ i + (k + 1) \in 1 .. n /\ (i + (k + 1)) - 1 = i + k /\ i + k \in 0 .. n
        /\ i + (k + 1) \in 0 .. n
    OBVIOUS
  <2>2. o[i] <= o[i + k]
    BY <2>1
  <2>3. o[i + k] <= o[i + (k + 1)]
    BY <2>1
  <2>4. o[i] \in Nat /\ o[i + k] \in Nat /\ o[i + (k + 1)] \in Nat
    BY <2>1
  <2> QED
    BY <2>2, <2>3, <2>4
<1> HIDE DEF T
<1>3. T = Nat
  BY <1>1, <1>2, Induction DEF T
<1>4. ASSUME NEW i \in 0 .. n, NEW j \in 0 .. n, i <= j PROVE o[i] <= o[j]
  <2>1. j - i \in T /\ i + (j - i) = j
    BY <1>3, <1>4
  <2> QED
    BY <2>1 DEF T
<1> QED
  BY <1>4

\* There is such a function.
LEMMA Lays ==
    ASSUME NEW S, NEW ss \in Seq(Seq(S))
    PROVE  \E o : Layout(o, ss, FlattenSeq(ss))
<1> DEFINE n == Len(ss)
           w == FlattenSeq(ss)
<1>1. PICK h : Flattens(h, ss, S) /\ w = h[n]
  BY FlattenPrefixes
<1> DEFINE o == [i \in 0 .. n |-> Len(h[i])]
<1>2. /\ n \in Nat /\ h[0] = <<>>
      /\ \A i \in 0 .. n : h[i] \in Seq(S)
      /\ \A i \in 1 .. n : i - 1 \in 0 .. n /\ i \in 0 .. n /\ ss[i] \in Seq(S)
      /\ \A i \in 1 .. n : h[i] = h[i - 1] \o ss[i]
  <2>1. n \in Nat /\ \A i \in 1 .. n : i - 1 \in 0 .. n /\ i \in 0 .. n /\ ss[i] \in Seq(S)
    OBVIOUS
  <2> QED
    BY <1>1, <2>1 DEF Flattens
<1> HIDE DEF n, w
<1>3. \A i \in 0 .. n : Len(h[i]) \in Nat
  BY <1>2
<1>4. o \in [0 .. n -> Nat] /\ o[0] = 0 /\ o[n] = Len(w) /\ \A i \in 0 .. n : o[i] = Len(h[i])
  BY <1>1, <1>2, <1>3
<1> HIDE DEF o
<1>5. ASSUME NEW i \in 1 .. n
      PROVE  /\ o[i] = o[i - 1] + Len(ss[i]) /\ o[i - 1] <= o[i]
             /\ \A d \in 1 .. Len(ss[i]) : h[i][o[i - 1] + d] = ss[i][d]
             /\ \A p \in 1 .. o[i - 1] : h[i][p] = h[i - 1][p]
  <2> DEFINE x == h[i - 1]
             y == ss[i]
             z == x \o y
  <2>1. x \in Seq(S) /\ y \in Seq(S) /\ h[i] = z /\ o[i] = Len(z) /\ o[i - 1] = Len(x)
    BY <1>2, <1>4
  <2> HIDE DEF x, y
  <2>2. /\ Len(z) = Len(x) + Len(y) /\ Len(x) \in Nat /\ Len(y) \in Nat
        /\ \A d \in 1 .. Len(y) : z[Len(x) + d] = y[d]
        /\ \A p \in 1 .. Len(x) : z[p] = x[p]
    BY <2>1
  <2> HIDE DEF z
  <2>3. /\ o[i] = o[i - 1] + Len(y) /\ o[i - 1] <= o[i]
        /\ \A d \in 1 .. Len(y) : h[i][o[i - 1] + d] = y[d]
        /\ \A p \in 1 .. o[i - 1] : h[i][p] = x[p]
    BY <2>1, <2>2
  <2> QED
    BY <2>3 DEF x, y
<1>6. \A i, j \in 0 .. n : i <= j => o[i] <= o[j]
  BY <1>2, <1>4, <1>5, Monotone
<1>7. \A i \in 1 .. n : \A d \in 1 .. Len(ss[i]) : w[o[i - 1] + d] = ss[i][d]
  <2> DEFINE Kept(i, j) == \A p \in 1 .. o[i] : h[j][p] = h[i][p]
             T == {k \in Nat : \A i \in 0 .. n : i + k <= n => Kept(i, i + k)}
  <2>1. 0 \in T
    OBVIOUS
  <2>2. ASSUME NEW k \in T PROVE k + 1 \in T
    <3> SUFFICES ASSUME NEW i \in 0 .. n, i + (k + 1) <= n PROVE Kept(i, i + (k + 1))
      OBVIOUS
    <3> DEFINE j == i + (k + 1)
    <3>1. /\ k \in Nat /\ j \in 1 .. n /\ j - 1 = i + k /\ i + k \in 0 .. n
          /\ i <= i + k /\ i + k <= n
      BY <1>2
    <3>2. Kept(i, j - 1) /\ o[i] <= o[j - 1] /\ o[i] \in Nat /\ o[j - 1] \in Nat
      BY <1>4, <1>6, <3>1
    <3>3. \A p \in 1 .. o[j - 1] : h[j][p] = h[j - 1][p]
      BY <1>5, <3>1
    <3> HIDE DEF j
    <3>4. \A p \in 1 .. o[i] : p \in 1 .. o[j - 1]
      BY <3>2
    <3>5. Kept(i, j)
      BY <3>2, <3>3, <3>4
    <3> QED
      BY <3>5 DEF j
  <2> HIDE DEF T
  <2>3. T = Nat
    BY <2>1, <2>2, Induction DEF T
  <2> SUFFICES ASSUME NEW i \in 1 .. n, NEW d \in 1 .. Len(ss[i])
               PROVE  w[o[i - 1] + d] = ss[i][d]
    OBVIOUS
  <2>4. n - i \in T /\ i + (n - i) = n /\ i \in 0 .. n
    BY <1>2, <2>3
  <2>5. Kept(i, n)
    <3>1. \A k \in T : \A x \in 0 .. n : x + k <= n => Kept(x, x + k)
      BY DEF T
    <3>2. i + (n - i) <= n
      BY <1>2, <2>4
    <3> HIDE DEF Kept
    <3>3. Kept(i, i + (n - i))
      BY <2>4, <3>1, <3>2
    <3> QED
      BY <2>4, <3>3
  <2>6. o[i] = o[i - 1] + Len(ss[i]) /\ h[i][o[i - 1] + d] = ss[i][d]
        /\ o[i - 1] \in Nat /\ Len(ss[i]) \in Nat
    <3>1. i - 1 \in 0 .. n /\ ss[i] \in Seq(S)
      BY <1>2
    <3>2. o[i] = o[i - 1] + Len(ss[i]) /\ h[i][o[i - 1] + d] = ss[i][d]
      BY <1>5
    <3>3. Len(ss[i]) \in Nat
      BY <3>1
    <3>4. o[i - 1] \in Nat
      BY <1>4, <3>1
    <3> QED
      BY <3>2, <3>3, <3>4
  <2>7. o[i - 1] + d \in 1 .. o[i]
    BY <2>6
  <2> QED
    BY <1>1, <2>5, <2>6, <2>7
<1>8. Layout(o, ss, w)
  <2>1. \A i \in 1 .. n : Len(ss[i]) \in Nat
    BY <1>2
  <2>2. \A i \in 1 .. n : o[i] = o[i - 1] + Len(ss[i])
    BY <1>5
  <2>3. n \in Nat /\ o \in [0 .. n -> Nat] /\ o[0] = 0 /\ o[n] = Len(w)
    BY <1>2, <1>4
  <2> QED
    BY <1>6, <1>7, <2>1, <2>2, <2>3 DEF Layout, n
<1> QED
  BY <1>8 DEF w

\* What a layout says of one member.
LEMMA LayoutAt ==
    ASSUME NEW ss, NEW w, NEW o, Layout(o, ss, w), NEW i \in 1 .. Len(ss)
    PROVE  /\ o[i - 1] \in Nat /\ o[i] \in Nat /\ Len(ss[i]) \in Nat
           /\ o[i] = o[i - 1] + Len(ss[i])
           /\ \A j \in 0 .. Len(ss) : i <= j => o[i] <= o[j]
           /\ \A d \in 1 .. Len(ss[i]) : w[o[i - 1] + d] = ss[i][d]
<1> DEFINE n == Len(ss)
<1>1. i \in 0 .. n /\ i - 1 \in 0 .. n
  BY DEF Layout
<1>2. Len(ss[i]) \in Nat
  BY DEF Layout
<1> HIDE DEF n
<1>3. /\ o \in [0 .. n -> Nat]
      /\ \A k \in 1 .. n : o[k] = o[k - 1] + Len(ss[k])
      /\ \A k, j \in 0 .. n : k <= j => o[k] <= o[j]
      /\ \A k \in 1 .. n : \A d \in 1 .. Len(ss[k]) : w[o[k - 1] + d] = ss[k][d]
  BY DEF Layout, n
<1>4. o[i - 1] \in Nat /\ o[i] \in Nat
  BY <1>1, <1>3
<1>5. i \in 1 .. n
  BY DEF n
<1> QED
  BY <1>1, <1>2, <1>3, <1>4, <1>5 DEF n

\* Every position of w is in one member, at one place.
LEMMA Placed ==
    ASSUME NEW ss, NEW w, NEW o, Layout(o, ss, w),
           NEW p \in 1 .. Len(w), Len(w) \in Nat
    PROVE  \E i \in 1 .. Len(ss) : \E d \in 1 .. Len(ss[i]) : p = o[i - 1] + d
<1> DEFINE n == Len(ss)
           U == {i \in Nat : i <= n /\ p <= o[i]}
<1>1. n \in Nat /\ n \in U
  BY DEF Layout
<1>2. PICK m \in U : \A x \in U : m <= x
  <2>1. U \in SUBSET Nat /\ U # {}
    BY <1>1
  <2> HIDE DEF U
  <2> QED
    BY <2>1, Least
<1>3. m # 0
  BY DEF Layout
<1>4. /\ m \in 1 .. n /\ m - 1 \in Nat /\ m - 1 \notin U /\ m - 1 <= n
      /\ m \in 1 .. Len(ss) /\ p <= o[m]
  BY <1>1, <1>2, <1>3
<1>5. /\ o[m] = o[m - 1] + Len(ss[m]) /\ o[m - 1] \in Nat /\ Len(ss[m]) \in Nat
      /\ ~(p <= o[m - 1])
  BY <1>4, LayoutAt
<1>6. p - o[m - 1] \in 1 .. Len(ss[m]) /\ p = o[m - 1] + (p - o[m - 1])
  BY <1>5
<1> QED
  BY <1>4, <1>6

\* A position of w is in no other member and at no other place.
LEMMA PlacedOnce ==
    ASSUME NEW ss, NEW w, NEW o, Layout(o, ss, w),
           NEW i \in 1 .. Len(ss), NEW d \in 1 .. Len(ss[i]),
           NEW j \in 1 .. Len(ss), NEW c \in 1 .. Len(ss[j]),
           o[i - 1] + d = o[j - 1] + c
    PROVE  i = j /\ d = c
<1>1. /\ o[i] = o[i - 1] + Len(ss[i]) /\ o[i - 1] \in Nat /\ Len(ss[i]) \in Nat
      /\ \A k \in 0 .. Len(ss) : i <= k => o[i] <= o[k]
  BY LayoutAt
<1>2. /\ o[j] = o[j - 1] + Len(ss[j]) /\ o[j - 1] \in Nat /\ Len(ss[j]) \in Nat
      /\ \A k \in 0 .. Len(ss) : j <= k => o[j] <= o[k]
  BY LayoutAt
<1>3. i - 1 \in 0 .. Len(ss) /\ j - 1 \in 0 .. Len(ss) /\ i \in Nat /\ j \in Nat
  BY DEF Layout
<1>4. ~(i <= j - 1)
  <2> SUFFICES ASSUME i <= j - 1 PROVE FALSE
    OBVIOUS
  <2>1. o[i] <= o[j - 1]
    BY <1>1, <1>3
  <2> QED
    BY <1>1, <1>2, <2>1
<1>5. ~(j <= i - 1)
  <2> SUFFICES ASSUME j <= i - 1 PROVE FALSE
    OBVIOUS
  <2>1. o[j] <= o[i - 1]
    BY <1>2, <1>3
  <2> QED
    BY <1>1, <1>2, <2>1
<1>6. i = j
  BY <1>3, <1>4, <1>5
<1> QED
  BY <1>1, <1>6

\* The flattened ss is taken character by character in rr: for a member of one character
\* rr has the member of tt, for any other it has the characters, and tt the member itself.
Regroups(ss, tt, rr, o) ==
    \A i \in 1 .. Len(ss) :
        \/ Len(ss[i]) = 1 /\ rr[o[i - 1] + 1] = tt[i]
        \/ tt[i] = ss[i] /\ \A d \in 1 .. Len(ss[i]) : rr[o[i - 1] + d] = <<ss[i][d]>>

LEMMA Regroup ==
    ASSUME NEW S, NEW ss \in Seq(Seq(S)), NEW tt \in Seq(Seq(S)), Len(tt) = Len(ss),
           NEW w, NEW o, Layout(o, ss, w), NEW rr \in Seq(Seq(S)), Len(rr) = Len(w),
           Regroups(ss, tt, rr, o)
    PROVE  FlattenSeq(rr) = FlattenSeq(tt)
<1> DEFINE n == Len(ss)
           m == Len(w)
           V == Seq(S)
           cat(x, y) == x \o y
<1>1. PICK h : Flattens(h, rr, S) /\ FlattenSeq(rr) = h[m]
  BY FlattenPrefixes
<1>2. /\ n \in Nat /\ m \in Nat /\ o[0] = 0 /\ o[n] = m
      /\ \A i \in 0 .. n : o[i] \in 0 .. m
  <2>1. m \in Nat
    OBVIOUS
  <2>2. /\ n \in Nat /\ o[0] = 0 /\ o[n] = m /\ o \in [0 .. n -> Nat]
        /\ \A i, j \in 0 .. n : i <= j => o[i] <= o[j]
    BY DEF Layout
  <2>3. n \in 0 .. n /\ \A i \in 0 .. n : i <= n
    BY <2>2
  <2> HIDE DEF n, m
  <2>4. \A i \in 0 .. n : o[i] \in Nat /\ o[i] <= o[n]
    BY <2>2, <2>3
  <2> QED
    BY <2>1, <2>2, <2>4
<1>3. /\ h[0] = <<>>
      /\ \A p \in 0 .. m : h[p] \in V
      /\ \A p \in 1 .. m : h[p] = cat(h[p - 1], rr[p])
  BY <1>1 DEF Flattens
<1>4. \A i \in 1 .. n : ss[i] \in V /\ tt[i] \in V
  OBVIOUS
<1>5. /\ \A x, y \in V : cat(x, y) \in V
      /\ \A x, y, z \in V : cat(x, cat(y, z)) = cat(cat(x, y), z)
      /\ \A x \in V : cat(x, <<>>) = x
  BY Concats
<1>6. \A x \in V : /\ SubSeq(x, 1, 0) = <<>> /\ SubSeq(x, 1, Len(x)) = x
                   /\ Len(x) \in Nat
                   /\ \A d \in 0 .. Len(x) : SubSeq(x, 1, d) \in V
                   /\ \A d \in 1 .. Len(x) :
                         /\ SubSeq(x, 1, d) = cat(SubSeq(x, 1, d - 1), <<x[d]>>)
                         /\ <<x[d]>> \in V
  <2> SUFFICES ASSUME NEW x \in V
               PROVE  /\ SubSeq(x, 1, 0) = <<>> /\ SubSeq(x, 1, Len(x)) = x
                      /\ Len(x) \in Nat
                      /\ \A d \in 0 .. Len(x) : SubSeq(x, 1, d) \in V
                      /\ \A d \in 1 .. Len(x) :
                            /\ SubSeq(x, 1, d) = cat(SubSeq(x, 1, d - 1), <<x[d]>>)
                            /\ <<x[d]>> \in V
    OBVIOUS
  <2>1. SubSeq(x, 1, 0) = <<>> /\ SubSeq(x, 1, Len(x)) = x /\ Len(x) \in Nat
    BY SubSeqEmpty, SubSeqFull
  <2>2. \A d \in 0 .. Len(x) : SubSeq(x, 1, d) \in V
    BY SubSeqProperties
  <2>3. \A d \in 1 .. Len(x) : SubSeq(x, 1, d) = cat(SubSeq(x, 1, d - 1), <<x[d]>>)
    BY SubSeqRecursiveSecond
  <2>4. \A d \in 1 .. Len(x) : <<x[d]>> \in V
    OBVIOUS
  <2> QED
    BY <2>1, <2>2, <2>3, <2>4
<1>7. \A i \in 1 .. n :
          /\ o[i] = o[i - 1] + Len(ss[i]) /\ Len(ss[i]) \in Nat
          /\ \/ Len(ss[i]) = 1 /\ rr[o[i - 1] + 1] = tt[i]
             \/ tt[i] = ss[i] /\ \A d \in 1 .. Len(ss[i]) : rr[o[i - 1] + d] = <<ss[i][d]>>
  BY DEF Layout, Regroups
<1> HIDE DEF n, m, V, cat
<1>8. ASSUME NEW i \in 1 .. n
      PROVE  h[o[i]] = cat(h[o[i - 1]], tt[i])
  <2>1. /\ o[i] = o[i - 1] + Len(ss[i]) /\ o[i - 1] \in 0 .. m /\ o[i] \in 0 .. m
        /\ ss[i] \in V /\ Len(ss[i]) \in Nat /\ h[o[i - 1]] \in V
    <3>1. i \in 0 .. n /\ i - 1 \in 0 .. n
      BY <1>2
    <3> QED
      BY <1>2, <1>3, <1>4, <1>7, <3>1
  <2>2. CASE Len(ss[i]) = 1 /\ rr[o[i - 1] + 1] = tt[i]
    <3>1. o[i] \in 1 .. m /\ o[i] - 1 = o[i - 1] /\ rr[o[i]] = tt[i]
      <4>1. o[i] = o[i - 1] + 1 /\ o[i] \in 1 .. m /\ o[i] - 1 = o[i - 1]
        <5>1. o[i] = o[i - 1] + 1 /\ o[i - 1] \in Nat /\ o[i] \in 0 .. m
          BY <2>1, <2>2
        <5> QED
          BY <1>2, <5>1
      <4> QED
        BY <2>2, <4>1
    <3> QED
      BY <1>3, <3>1
  <2>3. CASE tt[i] = ss[i] /\ \A d \in 1 .. Len(ss[i]) : rr[o[i - 1] + d] = <<ss[i][d]>>
    <3> DEFINE x == ss[i]
               b == o[i - 1]
               l == Len(x)
               Holds(d) == h[b + d] = cat(h[b], SubSeq(x, 1, d))
               T == {d \in Nat : d <= l => Holds(d)}
    <3>1. /\ x \in V /\ l \in Nat /\ b \in Nat /\ b + l = o[i] /\ b + l <= m /\ h[b] \in V
          /\ \A d \in 1 .. l : rr[b + d] = <<x[d]>>
      <4>1. b \in Nat /\ b + l = o[i] /\ b + l <= m
        BY <1>2, <2>1
      <4> QED
        BY <2>1, <2>3, <4>1
    <3>2. /\ SubSeq(x, 1, 0) = <<>> /\ SubSeq(x, 1, l) = x
          /\ \A d \in 0 .. l : SubSeq(x, 1, d) \in V
          /\ \A d \in 1 .. l : /\ SubSeq(x, 1, d) = cat(SubSeq(x, 1, d - 1), <<x[d]>>)
                               /\ <<x[d]>> \in V
      BY <1>6, <3>1
    <3> HIDE DEF x, b, l
    <3>3. 0 \in T
      <4>1. cat(h[b], <<>>) = h[b]
        BY <1>5, <3>1
      <4>2. b + 0 = b
        BY <3>1
      <4> QED
        BY <3>2, <4>1, <4>2
    <3>4. ASSUME NEW d \in T PROVE d + 1 \in T
      <4> SUFFICES ASSUME d + 1 <= l PROVE Holds(d + 1)
        OBVIOUS
      <4>1. /\ d \in Nat /\ d + 1 \in 1 .. l /\ (d + 1) - 1 = d /\ d \in 0 .. l
            /\ b + (d + 1) \in 1 .. m /\ (b + (d + 1)) - 1 = b + d
        BY <1>2, <3>1
      <4>2. h[b + d] = cat(h[b], SubSeq(x, 1, d))
        BY <4>1
      <4>3. h[b + (d + 1)] = cat(h[b + d], <<x[d + 1]>>)
        BY <1>3, <3>1, <4>1
      <4>4. SubSeq(x, 1, d + 1) = cat(SubSeq(x, 1, d), <<x[d + 1]>>)
        BY <3>2, <4>1
      <4>5. SubSeq(x, 1, d) \in V /\ <<x[d + 1]>> \in V
        BY <3>2, <4>1
      <4> DEFINE y == SubSeq(x, 1, d)
                 z == <<x[d + 1]>>
      <4> HIDE DEF y, z
      <4>6. cat(h[b], cat(y, z)) = cat(cat(h[b], y), z)
        BY <1>5, <3>1, <4>5 DEF y, z
      <4> QED
        BY <4>2, <4>3, <4>4, <4>6 DEF y, z
    <3> HIDE DEF Holds, T
    <3>5. T = Nat
      BY <3>3, <3>4, Induction DEF T
    <3>6. Holds(l)
      BY <3>1, <3>5 DEF T
    <3>7. h[o[i]] = cat(h[b], x)
      BY <3>1, <3>2, <3>6 DEF Holds
    <3> QED
      BY <2>3, <3>7 DEF x, b
  <2> QED
    BY <1>7, <2>2, <2>3
<1> DEFINE k == [i \in 0 .. n |-> h[o[i]]]
<1>9. Flattens(k, tt, S)
  <2>1. k \in [0 .. n -> V] /\ k[0] = <<>>
    BY <1>2, <1>3
  <2>2. ASSUME NEW i \in 1 .. n PROVE k[i] = k[i - 1] \o tt[i]
    <3>1. i \in 0 .. n /\ i - 1 \in 0 .. n
      BY <1>2
    <3>2. k[i] = h[o[i]] /\ k[i - 1] = h[o[i - 1]]
      BY <3>1
    <3> HIDE DEF k
    <3> QED
      BY <1>8, <3>2 DEF cat
  <2> HIDE DEF k
  <2> QED
    BY <2>1, <2>2 DEF Flattens, n, V
<1>10. FlattenSeq(tt) = k[n]
  <2> HIDE DEF k
  <2> QED
    BY <1>9, FlattenIs DEF n
<1>11. k[n] = h[m]
  BY <1>2
<1> QED
  BY <1>1, <1>10, <1>11

-----------------------------------------------------------------------------
(* Literals *)

\* What a file is made of.
Characters == Char \cup {Newline}

\* Min of a set of numbers that is not empty.
LEMMA Minimum ==
    ASSUME NEW T \in SUBSET Nat, T # {}
    PROVE  Min(T) \in T /\ \A x \in T : Min(T) <= x
<1>1. \E m \in T : \A x \in T : m <= x
  BY Least
<1> QED
  BY <1>1 DEF Min

\* The characters of a literal.
LEMMA LiteralChars ==
    ASSUME NEW name \in Variable
    PROVE  /\ name \in Seq(Char) /\ Len(name) \in Nat \ {0}
           /\ Literal(name) \in Seq(Char)
           /\ Len(Literal(name)) = Len(name) + 3
           /\ Literal(name)[1] = Dollar /\ Literal(name)[2] = Open
           /\ Literal(name)[Len(name) + 3] = Close
           /\ \A q \in 1 .. Len(name) :
                 /\ Literal(name)[q + 2] = name[q]
                 /\ name[q] \notin {Dollar, Open, Close, Newline}
<1> DEFINE S == Char \ {Dollar, Open, Close}
           a == <<Dollar, Open>>
           z == <<Close>>
           b == a \o name
           l == b \o z
<1>1. name \in Seq(S) /\ name # <<>>
  BY InvocationAssumption
<1>2. /\ name \in Seq(Char) /\ Len(name) \in Nat \ {0}
      /\ \A q \in 1 .. Len(name) : name[q] \notin {Dollar, Open, Close, Newline}
  <2>1. Len(name) \in Nat \ {0} /\ \A q \in 1 .. Len(name) : name[q] \in S
    BY <1>1
  <2>2. S \subseteq Char /\ \A c \in S : c \notin {Dollar, Open, Close, Newline}
    BY InvocationAssumption
  <2>3. name \in Seq(Char)
    BY <1>1, <2>2
  <2> HIDE DEF S
  <2> QED
    BY <2>1, <2>2, <2>3
<1>3. a \in Seq(Char) /\ Len(a) = 2 /\ a[1] = Dollar /\ a[2] = Open
  BY InvocationAssumption
<1>4. z \in Seq(Char) /\ Len(z) = 1 /\ z[1] = Close
  BY InvocationAssumption
<1> HIDE DEF a, z
<1>5. /\ b \in Seq(Char) /\ Len(b) = 2 + Len(name) /\ b[1] = Dollar /\ b[2] = Open
      /\ \A q \in 1 .. Len(name) : b[2 + q] = name[q]
  <2>1. /\ b \in Seq(Char) /\ Len(b) = Len(a) + Len(name)
        /\ \A q \in 1 .. Len(a) + Len(name) :
              b[q] = IF q <= Len(a) THEN a[q] ELSE name[q - Len(a)]
    <3>1. a \in Seq(Char) /\ name \in Seq(Char)
      BY <1>2, <1>3
    <3> QED
      BY <3>1, ConcatProperties
  <2> HIDE DEF b
  <2>2. 1 \in 1 .. 2 + Len(name) /\ 2 \in 1 .. 2 + Len(name)
    BY <1>2
  <2>3. ASSUME NEW q \in 1 .. Len(name) PROVE b[2 + q] = name[q]
    <3>1. 2 + q \in 1 .. 2 + Len(name) /\ ~(2 + q <= 2) /\ (2 + q) - 2 = q
      BY <1>2
    <3> QED
      BY <1>3, <2>1, <3>1
  <2> QED
    BY <1>3, <2>1, <2>2, <2>3
<1> HIDE DEF b
<1>6. /\ l \in Seq(Char) /\ Len(l) = Len(name) + 3 /\ l[1] = b[1] /\ l[2] = b[2]
      /\ l[Len(name) + 3] = Close
      /\ \A q \in 1 .. Len(name) : l[q + 2] = b[2 + q]
  <2>1. /\ l \in Seq(Char) /\ Len(l) = Len(b) + 1 /\ l[Len(b) + 1] = z[1]
        /\ \A q \in 1 .. Len(b) : l[q] = b[q]
    <3>1. /\ l \in Seq(Char) /\ Len(l) = Len(b) + Len(z)
          /\ \A q \in 1 .. Len(b) + Len(z) : l[q] = IF q <= Len(b) THEN b[q] ELSE z[q - Len(b)]
      BY <1>4, <1>5, ConcatProperties
    <3> HIDE DEF l
    <3>2. Len(b) \in Nat
      BY <1>2, <1>5
    <3>3. Len(b) + 1 \in 1 .. Len(b) + 1 /\ ~(Len(b) + 1 <= Len(b)) /\ (Len(b) + 1) - Len(b) = 1
      BY <3>2
    <3>4. \A q \in 1 .. Len(b) : q \in 1 .. Len(b) + 1 /\ q <= Len(b)
      BY <3>2
    <3> QED
      BY <1>4, <3>1, <3>3, <3>4
  <2> HIDE DEF l
  <2>2. 1 \in 1 .. Len(b) /\ 2 \in 1 .. Len(b) /\ Len(b) + 1 = Len(name) + 3
    BY <1>2, <1>5
  <2>3. \A q \in 1 .. Len(name) : q + 2 \in 1 .. Len(b) /\ q + 2 = 2 + q
    BY <1>2, <1>5
  <2> QED
    BY <1>4, <2>1, <2>2, <2>3
<1>7. Literal(name) = l
  BY DEF Literal, l, b, a, z
<1> HIDE DEF l
<1> QED
  BY <1>2, <1>5, <1>6, <1>7

\* A literal of the text of which the name is a variable is spelled as its Literal.
LEMMA Spelled ==
    ASSUME NEW text \in Seq(Characters), NEW i \in 1 .. Len(text), IsLiteral(text, i),
           NameAt(text, i) \in Variable
    PROVE  /\ Min(Closings(text, i)) = i + Len(Literal(NameAt(text, i))) - 1
           /\ Min(Closings(text, i)) \in i + 3 .. Len(text)
           /\ \A q \in 1 .. Len(Literal(NameAt(text, i))) :
                 text[i + q - 1] = Literal(NameAt(text, i))[q]
<1> DEFINE n == Len(text)
           C == Closings(text, i)
           c == Min(C)
           name == NameAt(text, i)
           l == Literal(name)
<1>1. n \in Nat /\ i \in 1 .. n /\ i < n /\ text[i] = Dollar /\ text[i + 1] = Open /\ C # {}
  BY DEF IsLiteral
<1>2. c \in i + 3 .. n /\ text[c] = Close
  <2>1. C \in SUBSET Nat
    BY <1>1 DEF Closings
  <2>2. c \in C
    BY <1>1, <2>1, Minimum
  <2> QED
    BY <2>2 DEF Closings
<1>3. Len(name) = c - i - 2 /\ \A q \in 1 .. c - i - 2 : name[q] = text[i + 1 + q]
  <2> DEFINE b == i + 2
             d == c - 1
  <2>1. b \in 1 .. n /\ d \in 1 .. n /\ b <= d /\ d - b + 1 = c - i - 2 /\ name = SubSeq(text, b, d)
    BY <1>1, <1>2 DEF NameAt
  <2> HIDE DEF b, d
  <2>2. Len(SubSeq(text, b, d)) = d - b + 1 /\ \A q \in 1 .. d - b + 1 : SubSeq(text, b, d)[q] = text[b + q - 1]
    BY <2>1, SubSeqProperties
  <2>3. \A q \in 1 .. c - i - 2 : name[q] = text[b + q - 1]
    BY <2>1, <2>2
  <2>4. \A q \in 1 .. c - i - 2 : b + q - 1 = i + 1 + q
    BY <1>1, <1>2 DEF b
  <2> HIDE DEF c, name
  <2> QED
    BY <2>1, <2>2, <2>3, <2>4
<1>4. /\ Len(l) = Len(name) + 3 /\ l[1] = Dollar /\ l[2] = Open /\ l[Len(name) + 3] = Close
      /\ \A q \in 1 .. Len(name) : l[q + 2] = name[q]
  BY LiteralChars
<1> HIDE DEF n, C, c, name, l
<1>5. ASSUME NEW q \in 1 .. Len(l) PROVE text[i + q - 1] = l[q]
  <2>1. Len(l) = c - i + 1 /\ q \in Nat /\ c \in Nat /\ i \in Nat
    BY <1>1, <1>2, <1>3, <1>4
  <2>2. CASE q = 1
    BY <1>1, <1>4, <2>1, <2>2
  <2>3. CASE q = 2
    BY <1>1, <1>4, <2>1, <2>3
  <2>4. CASE q = Len(l)
    <3>1. i + q - 1 = c /\ l[q] = Close
      BY <1>3, <1>4, <2>1, <2>4
    <3> QED
      BY <1>2, <3>1
  <2>5. CASE q \in 3 .. Len(l) - 1
    <3>1. q - 2 \in 1 .. c - i - 2 /\ (q - 2) + 2 = q /\ i + 1 + (q - 2) = i + q - 1
      BY <2>1, <2>5
    <3>2. l[(q - 2) + 2] = name[q - 2] /\ name[q - 2] = text[i + 1 + (q - 2)]
      BY <1>3, <1>4, <3>1
    <3> QED
      BY <3>1, <3>2
  <2> QED
    BY <2>1, <2>2, <2>3, <2>4, <2>5
<1>6. c = i + Len(l) - 1
  BY <1>1, <1>2, <1>3, <1>4
<1> QED
  BY <1>2, <1>5, <1>6 DEF n, C, c, name, l

\* The other way round.
LEMMA Recognized ==
    ASSUME NEW text \in Seq(Characters), NEW i \in 1 .. Len(text), NEW name \in Variable,
           i + Len(Literal(name)) - 1 <= Len(text),
           \A q \in 1 .. Len(Literal(name)) : text[i + q - 1] = Literal(name)[q]
    PROVE  IsLiteral(text, i) /\ NameAt(text, i) = name
<1> DEFINE n == Len(text)
           l == Literal(name)
           k == Len(name)
           c == i + k + 2
           C == Closings(text, i)
<1>1. /\ n \in Nat /\ k \in Nat \ {0} /\ name \in Seq(Char)
      /\ Len(l) = k + 3 /\ l[1] = Dollar /\ l[2] = Open /\ l[k + 3] = Close
      /\ \A q \in 1 .. k : l[q + 2] = name[q] /\ name[q] \notin {Dollar, Open, Close, Newline}
  BY LiteralChars
<1>2. /\ i \in 1 .. n /\ c <= n /\ \A q \in 1 .. k + 3 : text[i + q - 1] = l[q]
  BY <1>1
<1> HIDE DEF n, l, k
<1>3. text[i] = Dollar /\ text[i + 1] = Open /\ text[c] = Close /\ c \in i + 3 .. n
  <2>1. 1 \in 1 .. k + 3 /\ 2 \in 1 .. k + 3 /\ k + 3 \in 1 .. k + 3
    BY <1>1
  <2>2. i + 1 - 1 = i /\ i + 2 - 1 = i + 1 /\ i + (k + 3) - 1 = c
    BY <1>1, <1>2
  <2>3. text[i + 1 - 1] = l[1] /\ text[i + 2 - 1] = l[2] /\ text[i + (k + 3) - 1] = l[k + 3]
    BY <1>2, <2>1
  <2> QED
    BY <1>1, <1>2, <2>2, <2>3
<1>4. \A j \in i + 2 .. c - 1 : text[j] = name[j - i - 1] /\ text[j] \notin {Dollar, Open, Close, Newline}
  <2> SUFFICES ASSUME NEW j \in i + 2 .. c - 1
               PROVE  text[j] = name[j - i - 1] /\ text[j] \notin {Dollar, Open, Close, Newline}
    OBVIOUS
  <2>1. /\ j - i - 1 \in 1 .. k /\ (j - i - 1) + 2 \in 1 .. k + 3
        /\ i + ((j - i - 1) + 2) - 1 = j
    BY <1>1, <1>2
  <2>2. text[i + ((j - i - 1) + 2) - 1] = l[(j - i - 1) + 2]
    BY <1>2, <2>1
  <2> HIDE DEF c
  <2> QED
    BY <1>1, <2>1, <2>2
<1> HIDE DEF c
<1>5. c \in C /\ C \in SUBSET Nat /\ \A j \in C : c <= j
  <2>1. c \in C
    BY <1>3, <1>4 DEF C, Closings, n
  <2>2. C \in SUBSET Nat
    BY <1>1, <1>2 DEF C, Closings
  <2>3. ASSUME NEW j \in C, j < c PROVE FALSE
    <3>1. j \in i + 3 .. n /\ text[j] = Close
      BY DEF C, Closings, n
    <3>2. j \in i + 2 .. c - 1
      BY <1>2, <1>3, <2>3, <3>1
    <3> QED
      BY <1>4, <3>1, <3>2
  <2>4. c \in Nat /\ \A j \in C : j \in Nat
    BY <2>1, <2>2
  <2> QED
    BY <2>1, <2>2, <2>3, <2>4
<1> HIDE DEF C
<1>6. Min(C) = c
  <2>1. Min(C) \in C /\ \A j \in C : Min(C) <= j
    BY <1>5, Minimum
  <2> DEFINE m == Min(C)
  <2>2. m \in Nat /\ c \in Nat /\ m <= c /\ c <= m
    BY <1>5, <2>1
  <2> HIDE DEF m
  <2>3. m = c
    BY <2>2
  <2> QED
    BY <2>3 DEF m
<1>7. IsLiteral(text, i)
  BY <1>2, <1>3, <1>5 DEF IsLiteral, C, n
<1>8. NameAt(text, i) = name
  <2> DEFINE b == i + 2
             d == c - 1
             s == SubSeq(text, b, d)
  <2>1. b \in 1 .. n /\ d \in 1 .. n /\ b <= d /\ d - b + 1 = k
    <3>1. i \in 1 .. n /\ n \in Nat /\ k \in Nat \ {0} /\ c \in i + 3 .. n
      BY <1>1, <1>2, <1>3
    <3>2. c = i + k + 2
      BY DEF c
    <3>3. i \in Nat \ {0} /\ c \in Nat /\ c <= n
      BY <3>1
    <3>4. i + 2 \in 1 .. n /\ c - 1 \in 1 .. n
      BY <3>1, <3>2, <3>3
    <3>5. i + 2 <= c - 1 /\ (c - 1) - (i + 2) + 1 = k
      BY <3>1, <3>2, <3>3
    <3> QED
      BY <3>4, <3>5
  <2> HIDE DEF b, d
  <2>2. s \in Seq(Characters) /\ Len(s) = d - b + 1 /\ \A q \in 1 .. d - b + 1 : s[q] = text[b + q - 1]
    BY <2>1, SubSeqProperties DEF n
  <2>3. \A q \in 1 .. k : b + q - 1 \in i + 2 .. c - 1 /\ (b + q - 1) - i - 1 = q
    BY <1>1, <1>2, <1>3 DEF b, c
  <2> HIDE DEF s
  <2>4. \A q \in 1 .. k : s[q] = name[q]
    BY <1>4, <2>1, <2>2, <2>3
  <2>5. name \in Seq(Characters)
    BY <1>1 DEF Characters
  <2>6. s = name
    BY <2>1, <2>2, <2>4, <2>5, SeqEqual DEF k
  <2> QED
    BY <1>6, <2>6 DEF NameAt, s, b, d, C
<1> QED
  BY <1>7, <1>8

\* In a literal only the first character is a $, and only the last a }.
LEMMA LiteralOnce ==
    ASSUME NEW name \in Variable
    PROVE  /\ Len(Literal(name)) \in Nat /\ Len(Literal(name)) >= 4
           /\ \A q \in 2 .. Len(Literal(name)) : Literal(name)[q] # Dollar
           /\ \A q \in 3 .. Len(Literal(name)) - 1 : Literal(name)[q] \notin {Open, Close, Newline}
<1> DEFINE k == Len(name)
           l == Literal(name)
<1>1. /\ k \in Nat \ {0} /\ Len(l) = k + 3 /\ l[1] = Dollar /\ l[2] = Open /\ l[k + 3] = Close
      /\ \A q \in 1 .. k : l[q + 2] = name[q] /\ name[q] \notin {Dollar, Open, Close, Newline}
  BY LiteralChars
<1>2. Open # Dollar /\ Close # Dollar
  BY InvocationAssumption
<1> HIDE DEF k, l
<1>3. ASSUME NEW q \in 3 .. k + 2 PROVE l[q] \notin {Dollar, Open, Close, Newline}
  <2>1. q - 2 \in 1 .. k /\ (q - 2) + 2 = q
    BY <1>1
  <2> QED
    BY <1>1, <2>1
<1>4. ASSUME NEW q \in 2 .. k + 3 PROVE l[q] # Dollar
  <2>1. q = 2 \/ q = k + 3 \/ q \in 3 .. k + 2
    BY <1>1
  <2> QED
    BY <1>1, <1>2, <1>3, <2>1
<1>5. k + 3 \in Nat /\ k + 3 >= 4 /\ (k + 3) - 1 = k + 2
  BY <1>1
<1>6. /\ Len(l) \in Nat /\ Len(l) >= 4
      /\ \A q \in 2 .. Len(l) : l[q] # Dollar
      /\ \A q \in 3 .. Len(l) - 1 : l[q] \notin {Open, Close, Newline}
  BY <1>1, <1>3, <1>4, <1>5
<1> QED
  BY <1>6 DEF l

\* An inert value is not empty, does not begin with { or end with $, and holds no ${.
LEMMA InertValue ==
    ASSUME NEW v \in Seq(Char), Inert(v)
    PROVE  /\ Len(v) \in Nat \ {0} /\ v[1] # Open /\ v[Len(v)] # Dollar
           /\ \A d \in 1 .. Len(v) - 1 : ~(v[d] = Dollar /\ v[d + 1] = Open)
<1> DEFINE a == <<Dollar>>
           z == <<Open>>
           b == a \o v
           x == b \o z
           n == Len(v)
<1>1. /\ n \in Nat /\ v \in Seq(Char)
      /\ a \in Seq(Char) /\ Len(a) = 1 /\ a[1] = Dollar
      /\ z \in Seq(Char) /\ Len(z) = 1 /\ z[1] = Open
  BY InvocationAssumption
<1>2. \A i \in 1 .. Len(x) - 1 : ~(x[i] = Dollar /\ x[i + 1] = Open)
  BY DEF Inert
<1> HIDE DEF a, z, n
<1>3. /\ b \in Seq(Char) /\ Len(b) = n + 1 /\ b[1] = Dollar
      /\ \A d \in 1 .. n : b[d + 1] = v[d]
  <2>1. /\ b \in Seq(Char) /\ Len(b) = Len(a) + n
        /\ \A q \in 1 .. Len(a) + n : b[q] = IF q <= Len(a) THEN a[q] ELSE v[q - Len(a)]
    <3>1. a \in Seq(Char) /\ v \in Seq(Char)
      BY <1>1
    <3> QED
      BY <3>1, ConcatProperties DEF n
  <2> HIDE DEF b
  <2>2. 1 \in 1 .. 1 + n
    BY <1>1
  <2>3. ASSUME NEW d \in 1 .. n PROVE b[d + 1] = v[d]
    <3>1. d + 1 \in 1 .. 1 + n /\ ~(d + 1 <= 1) /\ (d + 1) - 1 = d
      BY <1>1
    <3> QED
      BY <1>1, <2>1, <3>1
  <2> QED
    BY <1>1, <2>1, <2>2, <2>3
<1> HIDE DEF b
<1>4. Len(x) = n + 2 /\ x[n + 2] = Open /\ \A q \in 1 .. n + 1 : x[q] = b[q]
  <2>1. /\ Len(x) = Len(b) + Len(z)
        /\ \A q \in 1 .. Len(b) + Len(z) : x[q] = IF q <= Len(b) THEN b[q] ELSE z[q - Len(b)]
    <3>1. b \in Seq(Char) /\ z \in Seq(Char)
      BY <1>1, <1>3
    <3> QED
      BY <3>1, ConcatProperties
  <2> HIDE DEF x
  <2>2. n + 2 \in 1 .. n + 2 /\ ~(n + 2 <= n + 1) /\ (n + 2) - (n + 1) = 1
    BY <1>1
  <2>3. \A q \in 1 .. n + 1 : q \in 1 .. n + 2 /\ q <= n + 1
    BY <1>1
  <2>4. (n + 1) + 1 = n + 2
    BY <1>1
  <2> QED
    BY <1>1, <1>3, <2>1, <2>2, <2>3, <2>4
<1> HIDE DEF x
<1>5. \A q \in 1 .. n + 1 : ~(x[q] = Dollar /\ x[q + 1] = Open)
  <2>1. Len(x) - 1 = n + 1
    BY <1>1, <1>4
  <2> QED
    BY <1>2, <2>1
<1>6. x[1] = Dollar /\ \A d \in 1 .. n : x[d + 1] = v[d]
  <2>1. 1 \in 1 .. n + 1 /\ \A d \in 1 .. n : d + 1 \in 1 .. n + 1
    BY <1>1
  <2> QED
    BY <1>3, <1>4, <2>1
<1>7. n # 0
  <2> SUFFICES ASSUME n = 0 PROVE FALSE
    OBVIOUS
  <2>1. 1 \in 1 .. n + 1 /\ 1 + 1 = n + 2
    OBVIOUS
  <2> QED
    BY <1>4, <1>5, <1>6, <2>1
<1>8. v[1] # Open
  <2>1. 1 \in 1 .. n /\ 1 \in 1 .. n + 1
    BY <1>1, <1>7
  <2> QED
    BY <1>5, <1>6, <2>1
<1>9. v[n] # Dollar
  <2>1. n \in 1 .. n /\ n + 1 \in 1 .. n + 1 /\ (n + 1) + 1 = n + 2
    BY <1>1, <1>7
  <2> QED
    BY <1>4, <1>5, <1>6, <2>1
<1>10. \A d \in 1 .. n - 1 : ~(v[d] = Dollar /\ v[d + 1] = Open)
  <2> SUFFICES ASSUME NEW d \in 1 .. n - 1 PROVE ~(v[d] = Dollar /\ v[d + 1] = Open)
    OBVIOUS
  <2>1. d \in 1 .. n /\ d + 1 \in 1 .. n /\ d + 1 \in 1 .. n + 1
    BY <1>1
  <2> QED
    BY <1>5, <1>6, <2>1
<1> QED
  BY <1>1, <1>7, <1>8, <1>9, <1>10 DEF n

-----------------------------------------------------------------------------
(* The text with the literals of some of the variables replaced *)

\* A literal of one of these names begins at i, and i is behind the beginning of one.
Starts(text, D, i) == IsLiteral(text, i) /\ NameAt(text, i) \in D
Inside(text, D, i) == \E k \in 1 .. i - 1 : Within(text, k, i) /\ NameAt(text, k) \in D
Stays(text, D, i) == ~Starts(text, D, i) /\ ~Inside(text, D, i)

\* What becomes of the position i of the text, and of the text.
Part(text, D, e, i) ==
    IF Starts(text, D, i) THEN e[NameAt(text, i)]
    ELSE IF Inside(text, D, i) THEN <<>> ELSE <<text[i]>>
Parts(text, D, e) == [i \in DOMAIN text |-> Part(text, D, e, i)]
Put(text, D, e) == FlattenSeq(Parts(text, D, e))

\* Every literal of the text is defined, by a value that is inert.
Good(text, e) ==
    /\ text \in Seq(Characters)
    /\ \A i \in DOMAIN text :
          IsLiteral(text, i) =>
              /\ NameAt(text, i) \in Variable
              /\ e[NameAt(text, i)] \in Seq(Char)
              /\ Inert(e[NameAt(text, i)])

\* The parts of a text are strings.
LEMMA PartsType ==
    ASSUME NEW text, NEW e, Good(text, e), NEW D
    PROVE  /\ Parts(text, D, e) \in Seq(Seq(Characters))
           /\ Len(Parts(text, D, e)) = Len(text)
           /\ \A i \in 1 .. Len(text) : Parts(text, D, e)[i] = Part(text, D, e, i)
<1> DEFINE n == Len(text)
           V == Seq(Characters)
           p == [i \in 1 .. n |-> Part(text, D, e, i)]
<1>1. n \in Nat /\ DOMAIN text = 1 .. n /\ \A i \in 1 .. n : text[i] \in Characters
  BY DEF Good
<1>2. Parts(text, D, e) = p
  BY <1>1 DEF Parts
<1>3. Seq(Char) \subseteq V
  BY DEF Characters
<1>4. \A i \in 1 .. n : <<text[i]>> \in V /\ <<>> \in V
  BY <1>1
<1>5. ASSUME NEW i \in 1 .. n, Starts(text, D, i) PROVE e[NameAt(text, i)] \in V
  BY <1>1, <1>3, <1>5 DEF Good, Starts
<1> HIDE DEF n, V
<1>6. \A i \in 1 .. n : Part(text, D, e, i) \in V
  BY <1>4, <1>5 DEF Part
<1>7. p \in [1 .. n -> V]
  BY <1>6
<1>8. p \in Seq(V) /\ Len(p) = n
  <2> HIDE DEF p
  <2> QED
    BY <1>1, <1>7
<1> QED
  BY <1>2, <1>8 DEF n, V

\* Behind its beginning a literal holds no $.
LEMMA WithinChars ==
    ASSUME NEW text, NEW e, Good(text, e), NEW k \in 1 .. Len(text), NEW i, Within(text, k, i),
           i \in Nat
    PROVE  /\ i \in 1 .. Len(text) /\ text[i] # Dollar /\ ~IsLiteral(text, i)
           /\ i - k + 1 \in 2 .. Len(Literal(NameAt(text, k)))
<1> DEFINE name == NameAt(text, k)
           l == Literal(name)
           c == Min(Closings(text, k))
<1>1. /\ text \in Seq(Characters) /\ IsLiteral(text, k) /\ k < i /\ i <= c /\ name \in Variable
      /\ DOMAIN text = 1 .. Len(text)
  BY DEF Good, Within
<1>2. c = k + Len(l) - 1 /\ c \in k + 3 .. Len(text) /\ \A q \in 1 .. Len(l) : text[k + q - 1] = l[q]
  BY <1>1, Spelled
<1>3. Len(l) \in Nat /\ \A q \in 2 .. Len(l) : l[q] # Dollar
  BY <1>1, LiteralOnce
<1>4. k \in Nat /\ Len(text) \in Nat
  BY <1>1
<1> HIDE DEF c, l
<1>5. i \in 1 .. Len(text) /\ i - k + 1 \in 2 .. Len(l) /\ k + (i - k + 1) - 1 = i
  BY <1>1, <1>2, <1>3, <1>4
<1>6. text[i] = l[i - k + 1]
  <2>1. i - k + 1 \in 1 .. Len(l)
    BY <1>3, <1>5
  <2> QED
    BY <1>2, <1>5, <2>1
<1>7. text[i] # Dollar
  BY <1>3, <1>5, <1>6
<1> QED
  BY <1>5, <1>7 DEF IsLiteral, l

\* w is the text with the names of D replaced, and o where its positions end in w.
Laid(text, D, e, o, w) ==
    /\ Good(text, e)
    /\ w = Put(text, D, e)
    /\ Layout(o, Parts(text, D, e), w)

\* What Laid says of one position.
LEMMA LaidAt ==
    ASSUME NEW text, NEW D, NEW e, NEW o, NEW w, Laid(text, D, e, o, w)
    PROVE  /\ Len(text) \in Nat /\ DOMAIN text = 1 .. Len(text)
           /\ w \in Seq(Characters) /\ Len(w) \in Nat /\ o[Len(text)] = Len(w)
           /\ \A i, j \in 0 .. Len(text) : i <= j => o[i] <= o[j]
           /\ \A i \in 0 .. Len(text) : o[i] \in Nat
           /\ \A i \in 1 .. Len(text) :
                 /\ o[i] = o[i - 1] + Len(Part(text, D, e, i))
                 /\ \A d \in 1 .. Len(Part(text, D, e, i)) :
                       w[o[i - 1] + d] = Part(text, D, e, i)[d]
<1> DEFINE n == Len(text)
           ss == Parts(text, D, e)
<1>1. n \in Nat /\ DOMAIN text = 1 .. n
  BY DEF Laid, Good
<1>2. /\ ss \in Seq(Seq(Characters)) /\ Len(ss) = n
      /\ \A i \in 1 .. n : ss[i] = Part(text, D, e, i)
  BY PartsType DEF Laid
<1>3. w \in Seq(Characters)
  BY <1>2, FlattenType DEF Laid, Put
<1>4. Len(w) \in Nat
  BY <1>3
<1> HIDE DEF n, ss
<1>5. Layout(o, ss, w)
  BY DEF Laid, ss
<1>6. /\ o \in [0 .. n -> Nat] /\ o[n] = Len(w)
      /\ \A i, j \in 0 .. n : i <= j => o[i] <= o[j]
      /\ \A i \in 1 .. n : o[i] = o[i - 1] + Len(ss[i])
      /\ \A i \in 1 .. n : \A d \in 1 .. Len(ss[i]) : w[o[i - 1] + d] = ss[i][d]
  BY <1>2, <1>5 DEF Layout
<1>7. \A i \in 0 .. n : o[i] \in Nat
  BY <1>6
<1> QED
  BY <1>1, <1>2, <1>3, <1>4, <1>6, <1>7 DEF n

\* A position that stays is one character of w.
LEMMA StaysAt ==
    ASSUME NEW text, NEW D, NEW e, NEW o, NEW w, Laid(text, D, e, o, w),
           NEW i \in 1 .. Len(text), Stays(text, D, i)
    PROVE  /\ Part(text, D, e, i) = <<text[i]>>
           /\ Len(Part(text, D, e, i)) = 1
           /\ o[i] = o[i - 1] + 1 /\ w[o[i - 1] + 1] = text[i] /\ o[i - 1] \in Nat
<1>1. Part(text, D, e, i) = <<text[i]>>
  BY DEF Part, Stays
<1> DEFINE x == <<text[i]>>
<1>2. Len(x) = 1 /\ x[1] = text[i] /\ 1 \in 1 .. 1
  OBVIOUS
<1>3. i - 1 \in 0 .. Len(text)
  BY LaidAt
<1> HIDE DEF x
<1>4. Part(text, D, e, i) = x
  BY <1>1 DEF x
<1>5. /\ o[i] = o[i - 1] + Len(x) /\ o[i - 1] \in Nat
      /\ \A d \in 1 .. Len(x) : w[o[i - 1] + d] = x[d]
  BY <1>3, <1>4, LaidAt
<1> QED
  BY <1>2, <1>4, <1>5 DEF x

\* Within its literal every position stays, as long as its name is not replaced.
LEMMA StaysWithin ==
    ASSUME NEW text, NEW e, Good(text, e), NEW D, NEW k \in 1 .. Len(text),
           IsLiteral(text, k), NameAt(text, k) \notin D,
           NEW i \in 1 .. Len(text), i = k \/ Within(text, k, i)
    PROVE  Stays(text, D, i)
<1>1. ~Starts(text, D, i)
  <2>1. CASE i = k
    BY <2>1 DEF Starts
  <2>2. CASE Within(text, k, i)
    <3>1. ~IsLiteral(text, i)
      BY <2>2, WithinChars
    <3> QED
      BY <3>1 DEF Starts
  <2> QED
    BY <2>1, <2>2
<1>2. ASSUME NEW j \in 1 .. i - 1, Within(text, j, i), NameAt(text, j) \in D PROVE FALSE
  <2>1. /\ IsLiteral(text, j) /\ j < i /\ i <= Min(Closings(text, j)) /\ j # k
        /\ j \in 1 .. Len(text) /\ j \in Nat /\ k \in Nat /\ i \in Nat
    BY <1>2 DEF Within
  <2>2. CASE j < k
    <3>1. Min(Closings(text, j)) \in Int
      <4>1. NameAt(text, j) \in Variable /\ text \in Seq(Characters) /\ DOMAIN text = 1 .. Len(text)
        BY <2>1 DEF Good
      <4>2. Min(Closings(text, j)) \in j + 3 .. Len(text)
        BY <2>1, <4>1, Spelled
      <4> QED
        BY <2>1, <4>2
    <3>2. k <= i
      BY <2>1 DEF Within
    <3>3. Within(text, j, k)
      BY <2>1, <2>2, <3>1, <3>2 DEF Within
    <3> QED
      BY <2>1, <3>3, WithinChars
  <2>3. CASE k < j
    <3>1. i # k
      BY <2>1, <2>3
    <3>2. i <= Min(Closings(text, k)) /\ IsLiteral(text, k)
      BY <3>1 DEF Within
    <3>3. Min(Closings(text, k)) \in Int
      <4>1. NameAt(text, k) \in Variable /\ text \in Seq(Characters) /\ DOMAIN text = 1 .. Len(text)
        BY DEF Good
      <4>2. Min(Closings(text, k)) \in k + 3 .. Len(text)
        BY <3>2, <4>1, Spelled
      <4> QED
        BY <2>1, <4>2
    <3>4. Within(text, k, j)
      BY <2>1, <2>3, <3>2, <3>3 DEF Within
    <3>5. ~IsLiteral(text, j)
      BY <2>1, <3>4, WithinChars
    <3> QED
      BY <2>1, <3>5
  <2> QED
    BY <2>1, <2>2, <2>3
<1> QED
  BY <1>1, <1>2 DEF Stays, Inside

\* A literal that is not replaced stands in w as it stands in the text.
LEMMA StandsInPut ==
    ASSUME NEW text, NEW D, NEW e, NEW o, NEW w, Laid(text, D, e, o, w),
           NEW k \in 1 .. Len(text), IsLiteral(text, k), NameAt(text, k) \notin D
    PROVE  /\ Occurs(w, Literal(NameAt(text, k)), o[k - 1] + 1)
           /\ \A q \in 1 .. Len(Literal(NameAt(text, k))) :
                 /\ k + q - 1 \in 1 .. Len(text) /\ Stays(text, D, k + q - 1)
                 /\ o[k + q - 2] = o[k - 1] + q - 1
<1> DEFINE n == Len(text)
           name == NameAt(text, k)
           l == Literal(name)
           m == Len(l)
<1>1. Good(text, e) /\ text \in Seq(Characters) /\ name \in Variable /\ n \in Nat /\ k \in 1 .. n
      /\ DOMAIN text = 1 .. n
  BY DEF Laid, Good
<1>2. /\ Min(Closings(text, k)) = k + m - 1 /\ k + m - 1 <= n
      /\ \A q \in 1 .. m : text[k + q - 1] = l[q]
  <2>1. /\ Min(Closings(text, k)) = k + m - 1 /\ Min(Closings(text, k)) \in k + 3 .. n
        /\ \A q \in 1 .. m : text[k + q - 1] = l[q]
    BY <1>1, Spelled
  <2> QED
    BY <1>1, <2>1
<1>3. m \in Nat /\ m >= 4 /\ DOMAIN l = 1 .. m
  <2>1. l \in Seq(Char)
    BY <1>1, LiteralChars
  <2> QED
    BY <1>1, <2>1, LiteralOnce
<1> HIDE DEF n, name, l, m
<1>4. ASSUME NEW q \in 1 .. m
      PROVE  /\ k + q - 1 \in 1 .. n /\ Stays(text, D, k + q - 1)
             /\ o[k + q - 1] = o[(k + q - 1) - 1] + 1
             /\ w[o[(k + q - 1) - 1] + 1] = text[k + q - 1]
  <2> DEFINE i == k + q - 1
  <2>1. i \in 1 .. n /\ (i = k \/ (k < i /\ i <= k + m - 1))
    BY <1>1, <1>2, <1>3
  <2>2. i = k \/ Within(text, k, i)
    BY <1>2, <2>1 DEF Within
  <2> HIDE DEF i
  <2>3. Stays(text, D, i)
    BY <1>1, <2>1, <2>2, StaysWithin DEF n, name
  <2>4. o[i] = o[i - 1] + 1 /\ w[o[i - 1] + 1] = text[i]
    BY <2>1, <2>3, StaysAt DEF n
  <2> QED
    BY <2>1, <2>3, <2>4 DEF i
<1>5. \A i \in 0 .. n : o[i] \in Nat /\ o[i] <= o[n]
  <2>1. n \in 0 .. n /\ \A i \in 0 .. n : i <= n
    BY <1>1
  <2> QED
    BY <2>1, LaidAt DEF n
<1> DEFINE Ends(q) == o[k + q - 1] = o[k - 1] + q
           T == {q \in Nat : q <= m => Ends(q)}
<1>6. 0 \in T
  <2>1. k + 0 - 1 = k - 1 /\ k - 1 \in 0 .. n
    BY <1>1
  <2> QED
    BY <1>5, <2>1
<1>7. ASSUME NEW q \in T PROVE q + 1 \in T
  <2> SUFFICES ASSUME q + 1 <= m PROVE Ends(q + 1)
    OBVIOUS
  <2>1. /\ q \in Nat /\ q + 1 \in 1 .. m /\ k + (q + 1) - 1 = k + q
        /\ (k + (q + 1) - 1) - 1 = k + q - 1 /\ k - 1 \in 0 .. n /\ q <= m
    BY <1>1, <1>3
  <2>2. o[k + q - 1] = o[k - 1] + q
    <3>1. q \in T
      OBVIOUS
    <3> QED
      BY <2>1, <3>1
  <2>3. o[k + (q + 1) - 1] = o[k + q - 1] + 1
    BY <1>4, <2>1
  <2>4. o[k - 1] \in Nat
    BY <1>5, <2>1
  <2> QED
    BY <2>1, <2>2, <2>3, <2>4
<1> HIDE DEF T, Ends
<1>8. \A q \in 0 .. m : Ends(q)
  <2>1. T = Nat
    BY <1>6, <1>7, Induction DEF T
  <2> QED
    BY <1>3, <2>1 DEF T
<1>9. ASSUME NEW q \in 1 .. m
      PROVE  o[k + q - 2] = o[k - 1] + q - 1 /\ w[(o[k - 1] + 1) + q - 1] = l[q]
  <2>1. q - 1 \in 0 .. m /\ k + (q - 1) - 1 = k + q - 2 /\ (k + q - 1) - 1 = k + q - 2
        /\ k - 1 \in 0 .. n
    BY <1>1, <1>3
  <2>2. o[k + q - 2] = o[k - 1] + (q - 1) /\ o[k - 1] \in Nat
    BY <1>5, <1>8, <2>1 DEF Ends
  <2>3. w[o[k + q - 2] + 1] = text[k + q - 1]
    BY <1>4, <2>1
  <2>4. (o[k - 1] + (q - 1)) + 1 = (o[k - 1] + 1) + q - 1 /\ o[k - 1] + (q - 1) = o[k - 1] + q - 1
    BY <1>3, <2>2
  <2> QED
    BY <1>2, <2>2, <2>3, <2>4
<1>10. (o[k - 1] + 1) + m - 1 <= Len(w)
  <2>1. m \in 0 .. m /\ k + m - 1 \in 0 .. n /\ k - 1 \in 0 .. n
    BY <1>1, <1>2, <1>3
  <2>2. o[k + m - 1] = o[k - 1] + m /\ o[k + m - 1] <= o[n] /\ o[k - 1] \in Nat
    BY <1>5, <1>8, <2>1 DEF Ends
  <2>3. o[n] = Len(w)
    BY LaidAt DEF n
  <2> QED
    BY <1>3, <2>2, <2>3
<1>11. Occurs(w, l, o[k - 1] + 1)
  BY <1>3, <1>9, <1>10 DEF Occurs, m
<1> QED
  BY <1>4, <1>9, <1>11 DEF n, m, l, name

\* No literal of the text begins behind the ${ and some of the name of another.
LEMMA NotNested ==
    ASSUME NEW text, NEW e, Good(text, e), NEW name \in Variable,
           NEW i \in 1 .. Len(text), NEW j \in i + 2 .. i + Len(Literal(name)) - 1,
           j \in 1 .. Len(text), IsLiteral(text, j),
           \A r \in 1 .. j - i : text[i + r - 1] = Literal(name)[r]
    PROVE  FALSE
<1> DEFINE n == Len(text)
           l == Literal(name)
           m == Len(l)
           lj == Literal(NameAt(text, j))
           c == j + Len(lj) - 1
<1>1. /\ text \in Seq(Characters) /\ n \in Nat /\ i \in 1 .. n /\ j \in 1 .. n /\ DOMAIN text = 1 .. n
      /\ NameAt(text, j) \in Variable /\ text[j] = Dollar
  BY DEF Good, IsLiteral
<1>2. /\ m \in Nat /\ m >= 4 /\ l[1] = Dollar /\ l[2] = Open
      /\ \A q \in 3 .. m - 1 : l[q] \notin {Open, Close, Newline}
  BY LiteralOnce, LiteralChars
<1>3. /\ c \in j + 3 .. n /\ \A q \in 1 .. Len(lj) : text[j + q - 1] = lj[q]
  BY <1>1, Spelled
<1>4. /\ Len(lj) \in Nat /\ Len(lj) >= 4 /\ lj[Len(lj)] = Close
      /\ \A q \in 1 .. Len(lj) - 1 : lj[q] # Newline
  <2> DEFINE h == Len(lj)
  <2>1. h \in Nat /\ h >= 4 /\ lj[1] = Dollar /\ lj[2] = Open /\ lj[h] = Close
        /\ \A q \in 3 .. h - 1 : lj[q] # Newline
    BY <1>1, LiteralOnce, LiteralChars
  <2>2. Dollar # Newline /\ Open # Newline
    BY InvocationAssumption
  <2> HIDE DEF h, lj
  <2>3. ASSUME NEW q \in 1 .. h - 1 PROVE lj[q] # Newline
    <3>1. q = 1 \/ q = 2 \/ q \in 3 .. h - 1
      BY <2>1
    <3> QED
      BY <2>1, <2>2, <3>1
  <2> QED
    BY <2>1, <2>3 DEF h
<1> HIDE DEF lj
<1>5. /\ j \in i + 2 .. i + m - 1 /\ \A r \in 1 .. j - i : text[i + r - 1] = l[r]
  OBVIOUS
<1> HIDE DEF n, l, m
<1>6. text[i] = Dollar /\ text[i + 1] = Open
  <2>1. 1 \in 1 .. j - i /\ 2 \in 1 .. j - i /\ i + 1 - 1 = i /\ i + 2 - 1 = i + 1
    BY <1>1, <1>5
  <2>2. text[i + 1 - 1] = l[1] /\ text[i + 2 - 1] = l[2]
    BY <1>5, <2>1
  <2> QED
    BY <1>2, <2>1, <2>2
<1>7. ASSUME NEW k \in i + 2 .. j - 1 PROVE text[k] \notin {Open, Close, Newline}
  <2>1. k - i + 1 \in 1 .. j - i /\ k - i + 1 \in 3 .. m - 1 /\ i + (k - i + 1) - 1 = k
    BY <1>1, <1>2, <1>5
  <2>2. text[i + (k - i + 1) - 1] = l[k - i + 1]
    BY <1>5, <2>1
  <2> QED
    BY <1>2, <2>1, <2>2
<1>8. ASSUME NEW k \in j .. c - 1 PROVE text[k] # Newline
  <2>1. /\ k - j + 1 \in 1 .. Len(lj) - 1 /\ k - j + 1 \in 1 .. Len(lj)
        /\ j + (k - j + 1) - 1 = k
    BY <1>1, <1>4
  <2> QED
    BY <1>3, <1>4, <2>1
<1>9. text[c] = Close
  <2>1. Len(lj) \in 1 .. Len(lj)
    BY <1>4
  <2> QED
    BY <1>3, <1>4, <2>1
<1>10. c \in Closings(text, i)
  <2>1. c \in i + 3 .. n
    BY <1>1, <1>3, <1>5
  <2>2. \A k \in i + 2 .. c - 1 : k \in i + 2 .. j - 1 \/ k \in j .. c - 1
    BY <1>1, <1>5, <2>1
  <2>3. \A k \in i + 2 .. c - 1 : text[k] # Newline
    BY <1>7, <1>8, <2>2
  <2> HIDE DEF c
  <2> QED
    BY <1>9, <2>1, <2>3 DEF Closings, n
<1>11. IsLiteral(text, i)
  <2>1. i < n
    BY <1>1, <1>5
  <2> QED
    BY <1>6, <1>10, <2>1 DEF IsLiteral, n
<1> DEFINE b == Min(Closings(text, i))
<1>12. b \in i + 3 .. n /\ text[b] = Close
  <2>1. Closings(text, i) \in SUBSET Nat
    BY <1>1 DEF Closings
  <2>2. b \in Closings(text, i)
    BY <1>10, <2>1, Minimum
  <2> QED
    BY <2>2 DEF Closings, n
<1> HIDE DEF b, c
<1>13. j <= b
  <2> SUFFICES ASSUME b < j PROVE FALSE
    BY <1>1, <1>12
  <2>1. b \in i + 2 .. j - 1
    BY <1>1, <1>12
  <2> QED
    BY <1>7, <1>12, <2>1
<1>14. Within(text, i, j)
  <2>1. i < j
    BY <1>1, <1>5
  <2> QED
    BY <1>11, <1>13, <2>1 DEF Within, b
<1>15. ~IsLiteral(text, j)
  <2>1. i \in 1 .. Len(text) /\ j \in Nat
    BY <1>1 DEF n
  <2> QED
    BY <1>14, <2>1, WithinChars
<1> QED
  BY <1>15

\* The other way round: w holds the literal of a name only where the text does.
LEMMA StandsInText ==
    ASSUME NEW text, NEW D, NEW e, NEW o, NEW w, Laid(text, D, e, o, w),
           NEW name \in Variable, NEW p \in 1 .. Len(w), Occurs(w, Literal(name), p)
    PROVE  \E k \in 1 .. Len(text) :
               /\ IsLiteral(text, k) /\ NameAt(text, k) = name /\ name \notin D
               /\ p = o[k - 1] + 1
<1> DEFINE n == Len(text)
           l == Literal(name)
           m == Len(l)
<1>1. /\ Good(text, e) /\ text \in Seq(Characters) /\ n \in Nat /\ DOMAIN text = 1 .. n
  BY DEF Laid, Good
<1>2. /\ m \in Nat /\ m >= 4 /\ l[1] = Dollar /\ l[2] = Open /\ DOMAIN l = 1 .. m
  <2>1. l \in Seq(Char)
    BY LiteralChars
  <2> QED
    BY <2>1, LiteralOnce, LiteralChars
<1>3. p \in Nat /\ p + m - 1 <= Len(w) /\ \A q \in 1 .. m : w[p + q - 1] = l[q]
  <2>1. Len(w) \in Nat
    BY LaidAt
  <2> HIDE DEF l
  <2>2. Occurs(w, l, p)
    BY DEF l
  <2>3. p \in Nat
    BY <2>1
  <2> QED
    BY <1>2, <2>2, <2>3 DEF Occurs
<1>4. PICK i \in 1 .. n : \E d \in 1 .. Len(Part(text, D, e, i)) : p = o[i - 1] + d
  <2> DEFINE ss == Parts(text, D, e)
  <2>1. Len(ss) = n /\ \A i \in 1 .. n : ss[i] = Part(text, D, e, i)
    BY <1>1, PartsType
  <2>2. Layout(o, ss, w) /\ Len(w) \in Nat
    BY LaidAt DEF Laid
  <2> HIDE DEF ss
  <2>3. \E i \in 1 .. Len(ss) : \E d \in 1 .. Len(ss[i]) : p = o[i - 1] + d
    BY <2>2, Placed
  <2> QED
    BY <2>1, <2>3
<1>5. PICK d \in 1 .. Len(Part(text, D, e, i)) : p = o[i - 1] + d
  BY <1>4
<1>6. w[p] = Dollar /\ w[p + 1] = Open /\ p + 1 <= Len(w)
  <2>1. 1 \in 1 .. m /\ 2 \in 1 .. m /\ p + 1 - 1 = p /\ p + 2 - 1 = p + 1
    BY <1>2, <1>3
  <2>2. w[p + 1 - 1] = l[1] /\ w[p + 2 - 1] = l[2]
    BY <1>3, <2>1
  <2>3. p + 1 <= Len(w)
    BY <1>2, <1>3, LaidAt
  <2> HIDE DEF l, m
  <2> QED
    BY <1>2, <2>1, <2>2, <2>3
<1>7. /\ o[i - 1] \in Nat
      /\ o[i] = o[i - 1] + Len(Part(text, D, e, i))
      /\ \A c \in 1 .. Len(Part(text, D, e, i)) : w[o[i - 1] + c] = Part(text, D, e, i)[c]
  <2>1. i - 1 \in 0 .. n
    BY <1>1
  <2> QED
    BY <2>1, LaidAt
\* The value put in for a literal at j.
<1>8. ASSUME NEW j \in 1 .. n, Starts(text, D, j)
      PROVE  LET v == Part(text, D, e, j)
             IN  /\ Len(v) \in Nat \ {0} /\ v[1] # Open /\ v[Len(v)] # Dollar
                 /\ \A c \in 1 .. Len(v) - 1 : ~(v[c] = Dollar /\ v[c + 1] = Open)
  <2> DEFINE v == Part(text, D, e, j)
  <2>1. v = e[NameAt(text, j)]
    BY <1>8 DEF Part
  <2>2. v \in Seq(Char) /\ Inert(v)
    BY <1>1, <1>8, <2>1 DEF Good, Starts
  <2> HIDE DEF v
  <2>3. /\ Len(v) \in Nat \ {0} /\ v[1] # Open /\ v[Len(v)] # Dollar
        /\ \A c \in 1 .. Len(v) - 1 : ~(v[c] = Dollar /\ v[c + 1] = Open)
    BY <2>2, InertValue
  <2> QED
    BY <2>3 DEF v
<1> HIDE DEF n, l, m
<1>9. Stays(text, D, i)
  <2>1. ASSUME Starts(text, D, i) PROVE FALSE
    <3> DEFINE v == Part(text, D, e, i)
    <3>1. /\ Len(v) \in Nat \ {0} /\ v[Len(v)] # Dollar
          /\ \A c \in 1 .. Len(v) - 1 : ~(v[c] = Dollar /\ v[c + 1] = Open)
      BY <1>8, <2>1
    <3>2. /\ d \in 1 .. Len(v) /\ o[i - 1] \in Nat
          /\ \A c \in 1 .. Len(v) : w[o[i - 1] + c] = v[c]
      BY <1>7
    <3> HIDE DEF v
    <3>3. v[d] = Dollar
      BY <1>5, <1>6, <3>2
    <3>4. d \in 1 .. Len(v) - 1
      BY <3>1, <3>2, <3>3
    <3>5. d + 1 \in 1 .. Len(v) /\ o[i - 1] + (d + 1) = p + 1
      <4>1. Len(v) \in Nat /\ d \in Nat /\ d >= 1 /\ d <= Len(v) - 1
        BY <3>1, <3>4
      <4>2. p = o[i - 1] + d /\ o[i - 1] \in Nat
        BY <1>5, <3>2
      <4> QED
        BY <4>1, <4>2
    <3>6. v[d + 1] = Open
      BY <1>6, <3>2, <3>5
    <3> QED
      BY <3>1, <3>3, <3>4, <3>6
  <2>2. ASSUME ~Starts(text, D, i), Inside(text, D, i) PROVE FALSE
    <3>1. Part(text, D, e, i) = <<>>
      BY <2>2 DEF Part
    <3>2. d \in 1 .. 0
      BY <3>1
    <3> QED
      BY <3>2
  <2> QED
    BY <2>1, <2>2 DEF Stays
<1>10. d = 1 /\ p = o[i - 1] + 1 /\ o[i] = p /\ text[i] = Dollar
  <2>1. /\ Len(Part(text, D, e, i)) = 1 /\ o[i] = o[i - 1] + 1 /\ w[o[i - 1] + 1] = text[i]
    BY <1>9, StaysAt DEF n
  <2>2. d = 1
    BY <2>1
  <2> QED
    BY <1>5, <1>6, <2>1, <2>2
<1> DEFINE Run(q) == /\ i + q - 1 <= n /\ o[i + q - 1] = p + q - 1
                     /\ \A r \in 1 .. q : Stays(text, D, i + r - 1) /\ text[i + r - 1] = l[r]
           T == {q \in Nat : q + 1 <= m => Run(q + 1)}
<1>11. 0 \in T
  <2>1. /\ i + (0 + 1) - 1 = i /\ p + (0 + 1) - 1 = p /\ i <= n
        /\ \A r \in 1 .. 0 + 1 : r = 1 /\ i + r - 1 = i
    BY <1>1, <1>3
  <2> QED
    BY <1>2, <1>9, <1>10, <2>1
<1>12. ASSUME NEW b \in T PROVE b + 1 \in T
  <2> DEFINE q == b + 1
             j == i + q
  <2> SUFFICES ASSUME q + 1 <= m PROVE Run(q + 1)
    OBVIOUS
  <2>1. /\ b \in Nat /\ q \in Nat \ {0} /\ q + 1 \in 1 .. m /\ i + (q + 1) - 1 = j
        /\ j - 1 = i + q - 1 /\ p + (q + 1) - 1 = p + q /\ j - i = q /\ b + 1 <= m /\ q <= m - 1
    BY <1>1, <1>2, <1>3
  <2>2. Run(q)
    BY <2>1
  <2> HIDE DEF T
  <2>3. w[p + q] = l[q + 1] /\ p + q <= Len(w)
    BY <1>2, <1>3, <2>1, LaidAt
  <2> HIDE DEF q
  <2>4. j \in 1 .. n /\ j - 1 \in 1 .. n /\ o[j - 1] = p + q - 1
    <3>1. i + q - 1 # n
      <4>1. o[n] = Len(w) /\ Len(w) \in Nat
        BY LaidAt DEF n
      <4> QED
        BY <1>3, <2>1, <2>2, <2>3, <4>1
    <3> QED
      <4>1. i \in Nat \ {0} /\ q \in Nat \ {0} /\ n \in Nat /\ i + q - 1 <= n
        <5>1. i \in Nat \ {0} /\ n \in Nat
          BY <1>1
        <5>2. q \in Nat \ {0}
          BY <2>1
        <5>3. i + q - 1 <= n
          BY <2>2
        <5> QED
          BY <5>1, <5>2, <5>3
      <4>2. j \in 1 .. n /\ j - 1 \in 1 .. n
        BY <3>1, <4>1
      <4>3. o[j - 1] = p + q - 1
        BY <2>1, <2>2
      <4> QED
        BY <4>2, <4>3
  <2>5. Stays(text, D, j - 1)
    <3>1. q \in 1 .. q
      BY <2>1
    <3> QED
      BY <2>1, <2>2, <3>1
  <2>6. ASSUME NEW k \in 1 .. j - 1, Within(text, k, j), NameAt(text, k) \in D PROVE FALSE
    <3>1. IsLiteral(text, k) /\ j <= Min(Closings(text, k)) /\ k \in 1 .. n
      BY <1>1, <2>4, <2>6 DEF Within
    <3>2. CASE k = j - 1
      BY <2>5, <2>6, <3>1, <3>2 DEF Stays, Starts
    <3>3. CASE k < j - 1
      <4>1. Min(Closings(text, k)) \in k + 3 .. n
        <5>1. NameAt(text, k) \in Variable
          BY <1>1, <3>1 DEF Good
        <5> QED
          BY <1>1, <3>1, <5>1, Spelled DEF n
      <4>2. Within(text, k, j - 1)
        BY <1>1, <2>4, <3>1, <3>3, <4>1 DEF Within
      <4>3. k \in 1 .. (j - 1) - 1
        BY <1>1, <2>4, <3>3
      <4> QED
        BY <2>5, <2>6, <4>2, <4>3 DEF Stays, Inside
    <3> QED
      BY <1>1, <2>4, <3>2, <3>3
  <2>7. ASSUME Starts(text, D, j) PROVE FALSE
    <3>1. CASE q = 1
      <4> DEFINE v == Part(text, D, e, j)
      <4>1. Len(v) \in Nat \ {0} /\ v[1] # Open
        BY <1>8, <2>4, <2>7
      <4>2. \A c \in 1 .. Len(v) : w[o[j - 1] + c] = v[c]
        BY <2>4, LaidAt DEF n
      <4> HIDE DEF v
      <4>3. 1 \in 1 .. Len(v) /\ o[j - 1] + 1 = p + q
        <5>1. p \in Nat /\ q \in Nat /\ o[j - 1] = p + q - 1 /\ Len(v) \in Nat \ {0}
          BY <1>3, <2>1, <2>4, <4>1
        <5> HIDE DEF j
        <5> QED
          BY <5>1
      <4>4. v[1] = l[q + 1]
        BY <2>3, <4>2, <4>3
      <4> QED
        BY <1>2, <3>1, <4>1, <4>4
    <3>2. CASE q # 1
      <4>1. j \in i + 2 .. i + m - 1
        <5>1. i \in Nat /\ m \in Nat /\ q \in Nat /\ q >= 2 /\ q <= m - 1
          BY <1>1, <1>2, <2>1, <3>2
        <5> QED
          BY <5>1
      <4>2. IsLiteral(text, j)
        BY <2>7 DEF Starts
      <4>3. \A r \in 1 .. j - i : text[i + r - 1] = l[r]
        BY <2>1, <2>2
      <4> HIDE DEF j
      <4> QED
        BY <1>1, <2>4, <4>1, <4>2, <4>3, NotNested DEF n, l, m
    <3> QED
      BY <3>1, <3>2
  <2>8. Stays(text, D, j)
    BY <2>6, <2>7 DEF Stays, Inside
  <2>9. o[j] = o[j - 1] + 1 /\ w[o[j - 1] + 1] = text[j]
    BY <2>4, <2>8, StaysAt DEF n
  <2>10. o[j] = p + q /\ text[j] = l[q + 1]
    <3>1. o[j - 1] + 1 = p + q
      BY <1>3, <2>1, <2>4
    <3> QED
      BY <2>3, <2>9, <3>1
  <2>11. ASSUME NEW r \in 1 .. q + 1
         PROVE  Stays(text, D, i + r - 1) /\ text[i + r - 1] = l[r]
    <3>1. CASE r \in 1 .. q
      BY <2>2, <3>1
    <3>2. CASE r = q + 1
      BY <2>1, <2>8, <2>10, <3>2
    <3> QED
      BY <2>1, <3>1, <3>2
  <2> QED
    BY <2>1, <2>4, <2>10, <2>11
<1> HIDE DEF T
<1>13. Run(m)
  <2>1. T = Nat
    BY <1>11, <1>12, Induction DEF T
  <2>2. m - 1 \in T /\ (m - 1) + 1 = m
    BY <1>2, <2>1
  <2>3. \A q \in T : q + 1 <= m => Run(q + 1)
    BY DEF T
  <2>4. m <= m
    BY <1>2
  <2> HIDE DEF Run
  <2>5. Run((m - 1) + 1)
    BY <2>2, <2>3, <2>4
  <2> QED
    BY <2>2, <2>5
<1>14. IsLiteral(text, i) /\ NameAt(text, i) = name
  BY <1>1, <1>13, Recognized DEF n, l, m
<1>15. name \notin D
  BY <1>9, <1>14 DEF Stays, Starts
<1> QED
  BY <1>10, <1>14, <1>15 DEF n

\* The members that Replace flattens.
Covered(s, l, i) == \E k \in 1 .. i - 1 : Occurs(s, l, k) /\ i < k + Len(l)
Mark(s, l, value, i) ==
    IF Occurs(s, l, i) THEN value ELSE IF Covered(s, l, i) THEN <<>> ELSE <<s[i]>>
Marks(s, l, value) == [i \in DOMAIN s |-> Mark(s, l, value, i)]

\* Replace in the words of Marks.
LEMMA ReplaceIs ==
    ASSUME NEW S, NEW s \in Seq(S), NEW l, NEW value \in Seq(S)
    PROVE  /\ Replace(s, l, value) = FlattenSeq(Marks(s, l, value))
           /\ Marks(s, l, value) \in Seq(Seq(S)) /\ Len(Marks(s, l, value)) = Len(s)
           /\ \A i \in 1 .. Len(s) : Marks(s, l, value)[i] = Mark(s, l, value, i)
<1> DEFINE n == Len(s)
           V == Seq(S)
           r == [i \in 1 .. n |-> Mark(s, l, value, i)]
<1>1. n \in Nat /\ DOMAIN s = 1 .. n
  OBVIOUS
<1>2. Marks(s, l, value) = r
  BY <1>1 DEF Marks
<1>3. \A i \in 1 .. n : <<s[i]>> \in V
  OBVIOUS
<1>4. <<>> \in V /\ value \in V
  OBVIOUS
<1>5. Replace(s, l, value) = FlattenSeq(Marks(s, l, value))
  BY DEF Replace, Marks, Mark, Covered
<1> HIDE DEF n, V
<1>6. \A i \in 1 .. n : Mark(s, l, value, i) \in V
  BY <1>3, <1>4 DEF Mark
<1>7. r \in [1 .. n -> V]
  BY <1>6
<1>8. r \in Seq(V) /\ Len(r) = n
  <2> HIDE DEF r
  <2> QED
    BY <1>1, <1>7
<1> QED
  BY <1>2, <1>5, <1>8 DEF n, V

\* A replacement gives a string.
LEMMA ReplaceType ==
    ASSUME NEW S, NEW s \in Seq(S), NEW l, NEW value \in Seq(S)
    PROVE  Replace(s, l, value) \in Seq(S)
<1> DEFINE r == Marks(s, l, value)
<1>1. Replace(s, l, value) = FlattenSeq(r) /\ r \in Seq(Seq(S))
  BY ReplaceIs
<1> HIDE DEF r
<1> QED
  BY <1>1, FlattenType

\* With a further name its literals are replaced where they stand in the text.
LEMMA PutReplace ==
    ASSUME NEW text, NEW e, Good(text, e), NEW D, NEW name \in Variable, e[name] \in Seq(Char),
           NEW E, E = D \cup {name}
    PROVE  Replace(Put(text, D, e), Literal(name), e[name]) = Put(text, E, e)
<1> DEFINE n == Len(text)
           l == Literal(name)
           m == Len(l)
           v == e[name]
           w == Put(text, D, e)
           ss == Parts(text, D, e)
           tt == Parts(text, E, e)
           rr == Marks(w, l, v)
<1>1. text \in Seq(Characters) /\ n \in Nat /\ DOMAIN text = 1 .. n
  BY DEF Good
<1>2. /\ ss \in Seq(Seq(Characters)) /\ Len(ss) = n
      /\ \A i \in 1 .. n : ss[i] = Part(text, D, e, i)
  BY PartsType
<1>3. /\ tt \in Seq(Seq(Characters)) /\ Len(tt) = n
      /\ \A i \in 1 .. n : tt[i] = Part(text, E, e, i)
  BY PartsType
<1>4. PICK o : Layout(o, ss, w)
  BY <1>2, Lays DEF Put
<1>5. Laid(text, D, e, o, w)
  BY <1>4 DEF Laid
<1>6. /\ w \in Seq(Characters) /\ Len(w) \in Nat
      /\ \A i \in 0 .. n : o[i] \in Nat
      /\ \A i, j \in 0 .. n : i <= j => o[i] <= o[j]
      /\ o[n] = Len(w)
  <2> HIDE DEF w
  <2> QED
    BY <1>5, LaidAt
<1>7. m \in Nat /\ m >= 4 /\ l[1] = Dollar /\ 1 \in DOMAIN l
  <2>1. l \in Seq(Char)
    BY LiteralChars
  <2> QED
    BY <2>1, LiteralOnce, LiteralChars
<1>8. /\ rr \in Seq(Seq(Characters)) /\ Len(rr) = Len(w)
      /\ \A p \in 1 .. Len(w) : rr[p] = Mark(w, l, v, p)
      /\ Replace(w, l, v) = FlattenSeq(rr)
  <2>1. v \in Seq(Characters)
    BY DEF Characters
  <2> HIDE DEF w, l, v
  <2> QED
    BY <1>6, <2>1, ReplaceIs
<1> HIDE DEF n, l, m, v, w, ss, tt, rr
\* The position i belongs to a literal that is to be replaced now.
<1> DEFINE Of(k, i) == /\ IsLiteral(text, k) /\ NameAt(text, k) = name /\ name \notin D
                       /\ i = k \/ Within(text, k, i)
<1>9. ASSUME NEW i \in 1 .. n, NEW d \in 1 .. Len(ss[i]),
             Occurs(w, l, o[i - 1] + d) \/ Covered(w, l, o[i - 1] + d)
      PROVE  \E k \in 1 .. n : Of(k, i)
  <2> DEFINE p == o[i - 1] + d
  <2>1. o[i - 1] \in Nat /\ d \in Nat \ {0} /\ p \in Nat \ {0}
    <3>1. i - 1 \in 0 .. n /\ ss[i] \in Seq(Characters)
      BY <1>1, <1>2
    <3>2. o[i - 1] \in Nat
      BY <1>6, <3>1
    <3> QED
      BY <3>1, <3>2
  <2> HIDE DEF p
  <2>2. PICK b \in 1 .. p : Occurs(w, l, b) /\ p < b + m
    <3>1. CASE Occurs(w, l, p)
      BY <1>7, <2>1, <3>1
    <3>2. CASE Covered(w, l, p)
      <4>1. PICK b \in 1 .. p - 1 : Occurs(w, l, b) /\ p < b + Len(l)
        BY <3>2 DEF Covered
      <4>2. b \in 1 .. p
        BY <2>1
      <4> QED
        BY <4>1, <4>2 DEF m
    <3> QED
      BY <1>9, <3>1, <3>2 DEF p
  <2>3. b \in 1 .. Len(w)
    <3>1. b + m - 1 <= Len(w)
      BY <2>2 DEF Occurs, m
    <3> QED
      BY <1>6, <1>7, <2>1, <3>1
  <2>4. PICK k \in 1 .. n :
            IsLiteral(text, k) /\ NameAt(text, k) = name /\ name \notin D /\ b = o[k - 1] + 1
    BY <1>5, <2>2, <2>3, StandsInText DEF n, l
  <2> DEFINE q == p - b + 1
             j == k + q - 1
  <2>5. q \in 1 .. m /\ q \in Nat /\ b \in Nat /\ p = b + q - 1
    BY <1>7, <2>1, <2>2
  <2>6. j \in 1 .. n /\ Stays(text, D, j) /\ o[k + q - 2] = o[k - 1] + q - 1
    <3> HIDE DEF q
    <3> QED
      BY <1>5, <2>4, <2>5, StandsInPut DEF n, l, m
  <2>7. j - 1 = k + q - 2 /\ k \in Nat /\ k - 1 \in 0 .. n
    BY <1>1, <2>5
  <2> HIDE DEF q, j
  <2>8. Len(ss[j]) = 1
    BY <1>2, <1>5, <2>6, StaysAt DEF n
  <2>9. o[i - 1] + d = o[j - 1] + 1
    <3>1. o[k - 1] \in Nat
      BY <1>6, <2>7
    <3>2. p = (o[k - 1] + 1) + q - 1
      BY <2>4, <2>5
    <3>3. o[j - 1] = o[k - 1] + q - 1
      BY <2>6, <2>7
    <3> QED
      BY <2>5, <3>1, <3>2, <3>3 DEF p
  <2>10. i = j
    <3>1. 1 \in 1 .. Len(ss[j]) /\ i \in 1 .. Len(ss) /\ j \in 1 .. Len(ss)
      BY <1>2, <2>6, <2>8
    <3> QED
      BY <1>4, <2>9, <3>1, PlacedOnce
  <2>11. i = k \/ Within(text, k, i)
    <3>1. Min(Closings(text, k)) = k + m - 1
      <4>1. NameAt(text, k) \in Variable
        BY <2>4
      <4> QED
        BY <1>1, <2>4, <4>1, Spelled DEF n, l, m
    <3>2. i = k \/ (k < i /\ i <= k + m - 1)
      BY <1>7, <2>5, <2>7, <2>10 DEF j
    <3> QED
      BY <2>4, <3>1, <3>2 DEF Within
  <2> QED
    BY <2>4, <2>11
<1>10. ASSUME NEW i \in 1 .. n, NEW k \in 1 .. n, Of(k, i)
       PROVE  Len(ss[i]) = 1 /\ rr[o[i - 1] + 1] = tt[i]
  <2> DEFINE p == o[i - 1] + 1
             b == o[k - 1] + 1
  <2>1. IsLiteral(text, k) /\ NameAt(text, k) = name /\ name \notin D
    BY <1>10
  <2>2. Stays(text, D, i)
    BY <1>10, StaysWithin DEF n
  <2>3. Len(ss[i]) = 1 /\ o[i] = p /\ w[p] = text[i] /\ o[i - 1] \in Nat
    BY <1>2, <1>5, <2>2, StaysAt DEF n
  <2>4. p \in 1 .. Len(w)
    <3>1. i \in 0 .. n /\ n \in 0 .. n /\ i <= n
      BY <1>1
    <3>2. o[i] <= o[n]
      BY <1>6, <3>1
    <3> QED
      BY <1>6, <2>3, <3>2
  <2>5. rr[p] = Mark(w, l, v, p)
    BY <1>8, <2>4
  <2>6. /\ Occurs(w, l, b)
        /\ \A q \in 1 .. m : o[k + q - 2] = o[k - 1] + q - 1
    BY <1>5, <2>1, StandsInPut DEF n, l, m
  <2>7. CASE i = k
    <3>1. Mark(w, l, v, p) = v
      BY <2>6, <2>7 DEF Mark
    <3>2. Starts(text, E, i)
      BY <2>1, <2>7 DEF Starts
    <3>3. Part(text, E, e, i) = v
      BY <2>1, <2>7, <3>2 DEF Part, v
    <3>4. rr[p] = tt[i]
      BY <1>3, <2>5, <3>1, <3>3
    <3> QED
      BY <2>3, <3>4
  <2>8. CASE i # k
    <3>1. Within(text, k, i)
      BY <1>10, <2>8
    <3>2. text[i] # Dollar /\ ~IsLiteral(text, i) /\ i - k + 1 \in 2 .. m
      <4>1. i \in Nat
        BY <1>1
      <4> QED
        BY <2>1, <3>1, <4>1, WithinChars DEF n, l, m
    <3>3. k \in 1 .. i - 1
      BY <1>1, <3>1 DEF Within
    <3>4. Part(text, E, e, i) = <<>>
      <4>1. Inside(text, E, i)
        BY <2>1, <3>1, <3>3 DEF Inside
      <4> QED
        BY <3>2, <4>1 DEF Part, Starts
    <3>5. ~Occurs(w, l, p)
      <4> SUFFICES ASSUME Occurs(w, l, p) PROVE FALSE
        OBVIOUS
      <4>1. w[p + 1 - 1] = l[1] /\ p + 1 - 1 = p
        BY <1>7, <2>4 DEF Occurs
      <4> QED
        BY <1>7, <2>3, <3>2, <4>1
    <3>6. Covered(w, l, p)
      <4> DEFINE q == i - k + 1
      <4>1. q \in 2 .. m /\ q \in 1 .. m /\ k + q - 2 = i - 1 /\ k - 1 \in 0 .. n
        BY <1>1, <1>7, <3>2
      <4> HIDE DEF q
      <4>2. o[i - 1] = o[k - 1] + q - 1
        BY <2>6, <4>1
      <4>3. o[k - 1] \in Nat
        BY <1>6, <4>1
      <4>4. b \in 1 .. p - 1 /\ p < b + m
        BY <1>7, <4>1, <4>2, <4>3
      <4> HIDE DEF p, b
      <4> QED
        BY <2>6, <4>4 DEF Covered, m
    <3>7. Mark(w, l, v, p) = <<>>
      BY <3>5, <3>6 DEF Mark
    <3>8. rr[p] = tt[i]
      BY <1>3, <2>5, <3>4, <3>7
    <3> QED
      BY <2>3, <3>8
  <2> QED
    BY <2>7, <2>8
<1>11. ASSUME NEW i \in 1 .. n, ~\E k \in 1 .. n : Of(k, i)
       PROVE  tt[i] = ss[i] /\ \A d \in 1 .. Len(ss[i]) : rr[o[i - 1] + d] = <<ss[i][d]>>
  <2>1. Starts(text, E, i) <=> Starts(text, D, i)
    BY <1>11 DEF Starts
  <2>2. Inside(text, E, i) <=> Inside(text, D, i)
    <3>1. ASSUME NEW k \in 1 .. i - 1, Within(text, k, i), NameAt(text, k) \in E
          PROVE  NameAt(text, k) \in D
      <4>1. k \in 1 .. n
        BY <1>1
      <4>2. IsLiteral(text, k)
        BY <3>1 DEF Within
      <4> QED
        BY <1>11, <3>1, <4>1, <4>2
    <3>2. D \subseteq E
      OBVIOUS
    <3> QED
      BY <3>1, <3>2 DEF Inside
  <2>3. Part(text, E, e, i) = Part(text, D, e, i)
    BY <2>1, <2>2 DEF Part
  <2>4. ASSUME NEW d \in 1 .. Len(ss[i]) PROVE rr[o[i - 1] + d] = <<ss[i][d]>>
    <3> DEFINE p == o[i - 1] + d
    <3>1. ~Occurs(w, l, p) /\ ~Covered(w, l, p)
      BY <1>9, <1>11
    <3>2. p \in 1 .. Len(w) /\ w[p] = ss[i][d]
      <4>1. /\ o[i] = o[i - 1] + Len(ss[i]) /\ w[o[i - 1] + d] = ss[i][d]
            /\ Len(ss[i]) \in Nat /\ o[i - 1] \in Nat
        BY <1>2, <1>4, LayoutAt
      <4>2. i \in 0 .. n /\ n \in 0 .. n /\ i <= n
        BY <1>1
      <4>3. o[i] <= Len(w)
        BY <1>6, <4>2
      <4> QED
        BY <1>6, <4>1, <4>3
    <3>3. rr[p] = Mark(w, l, v, p)
      BY <1>8, <3>2
    <3> HIDE DEF p
    <3>4. rr[p] = <<ss[i][d]>>
      BY <3>1, <3>2, <3>3 DEF Mark
    <3> QED
      BY <3>4 DEF p
  <2> QED
    BY <1>2, <1>3, <2>3, <2>4
<1> HIDE DEF Of
<1>12. Regroups(ss, tt, rr, o)
  BY <1>2, <1>10, <1>11 DEF Regroups
<1>13. FlattenSeq(rr) = FlattenSeq(tt)
  <2>1. /\ ss \in Seq(Seq(Characters)) /\ tt \in Seq(Seq(Characters)) /\ Len(tt) = Len(ss)
        /\ rr \in Seq(Seq(Characters)) /\ Len(rr) = Len(w)
    BY <1>2, <1>3, <1>8
  <2> QED
    BY <1>4, <1>12, <2>1, Regroup
<1> QED
  BY <1>8, <1>13 DEF Put, tt, w, l, v

-----------------------------------------------------------------------------
(* ApplyEnvars, over the prefixes of the text *)

\* What one position of the text does to the string.
Step(acc, i, text, env) ==
    IF ~IsLiteral(text, i) THEN acc
    ELSE IF acc = Nil \/ Lookup(NameAt(text, i), env) = Nil THEN Nil
    ELSE Replace(acc, Literal(NameAt(text, i)), Lookup(NameAt(text, i), env))

\* The strings over S: the names in service.json, or its whole text.
Strung(S) == Char \subseteq S /\ S \subseteq Characters
Optional(S) == Seq(S) \cup {Nil}
Environment(env) == env \in [Variable -> OptionalString]

\* None of the strings is Nil.
LEMMA StrungNil ==
    ASSUME NEW S, Strung(S)
    PROVE  Nil \notin Seq(S) /\ Seq(Char) \subseteq Seq(S) /\ Seq(S) \subseteq Seq(Characters)
<1>1. Seq(S) \subseteq Seq(Characters) /\ Seq(Char) \subseteq Seq(S)
  BY DEF Strung
<1> QED
  BY <1>1, InvocationAssumption DEF Characters

LEMMA LookupType ==
    ASSUME NEW env, Environment(env), NEW name
    PROVE  /\ Lookup(name, env) \in OptionalString
           /\ Lookup(name, env) # Nil => name \in Variable /\ Lookup(name, env) = env[name]
           /\ Lookup(name, env) = Nil <=> (name \in Variable => env[name] = Nil)
BY DEF Lookup, Environment, OptionalString

LEMMA StepType ==
    ASSUME NEW S, Strung(S), NEW env, Environment(env), NEW acc \in Optional(S), NEW i, NEW text
    PROVE  Step(acc, i, text, env) \in Optional(S)
<1> DEFINE name == NameAt(text, i)
           l == Literal(name)
           v == Lookup(name, env)
<1>1. v \in Seq(Char) \cup {Nil}
  BY LookupType DEF OptionalString
<1>2. Step(acc, i, text, env) =
          IF ~IsLiteral(text, i) THEN acc ELSE IF acc = Nil \/ v = Nil THEN Nil ELSE Replace(acc, l, v)
  BY DEF Step
<1> HIDE DEF l, v
<1>3. ASSUME acc # Nil, v # Nil PROVE Replace(acc, l, v) \in Seq(S)
  <2>1. acc \in Seq(S) /\ v \in Seq(S)
    BY <1>1, <1>3, StrungNil DEF Optional
  <2> QED
    BY <2>1, ReplaceType
<1> QED
  BY <1>2, <1>3 DEF Optional

\* A position at which the file fails.
FailsAt(text, i, env) == IsLiteral(text, i) /\ Lookup(NameAt(text, i), env) = Nil

\* A replacement never fails: only a variable that is not defined does.
LEMMA StepNil ==
    ASSUME NEW S, Strung(S), NEW env, Environment(env), NEW acc \in Optional(S), NEW i, NEW text
    PROVE  Step(acc, i, text, env) = Nil <=> acc = Nil \/ FailsAt(text, i, env)
<1> DEFINE name == NameAt(text, i)
           l == Literal(name)
           v == Lookup(name, env)
<1>1. v \in Seq(Char) \cup {Nil}
  BY LookupType DEF OptionalString
<1>2. Step(acc, i, text, env) =
          IF ~IsLiteral(text, i) THEN acc ELSE IF acc = Nil \/ v = Nil THEN Nil ELSE Replace(acc, l, v)
  BY DEF Step
<1>3. FailsAt(text, i, env) <=> IsLiteral(text, i) /\ v = Nil
  BY DEF FailsAt
<1> HIDE DEF l, v
<1>4. ASSUME acc # Nil, v # Nil PROVE Replace(acc, l, v) # Nil
  <2>1. acc \in Seq(S) /\ v \in Seq(S)
    BY <1>1, <1>4, StrungNil DEF Optional
  <2>2. Replace(acc, l, v) \in Seq(S)
    BY <2>1, ReplaceType
  <2> QED
    BY <2>2, StrungNil
<1> QED
  BY <1>2, <1>3, <1>4

\* h gives what the first i positions of the text make of s.
Applies(h, text, s, env, S) ==
    /\ h \in [0 .. Len(text) -> Optional(S)]
    /\ h[0] = s
    /\ \A i \in 1 .. Len(text) : h[i] = Step(h[i - 1], i, text, env)

LEMMA Maximum ==
    ASSUME NEW n \in Nat, NEW x \in SUBSET (1 .. n), x # {}
    PROVE  Max(x) \in x /\ \A y \in x : y <= Max(x)
<1> DEFINE T == {n - y : y \in x}
<1>1. T \in SUBSET Nat /\ T # {}
  <2>1. \A y \in x : y \in 1 .. n
    OBVIOUS
  <2>2. \A y \in 1 .. n : n - y \in Nat
    OBVIOUS
  <2>3. \A y \in x : n - y \in Nat
    BY <2>1, <2>2
  <2> QED
    BY <2>3
<1>2. PICK m \in T : \A y \in T : m <= y
  <2> HIDE DEF T
  <2> QED
    BY <1>1, Least
<1>3. PICK z \in x : m = n - z
  OBVIOUS
<1>4. \A y \in x : z >= y
  <2> SUFFICES ASSUME NEW y \in x PROVE z >= y
    OBVIOUS
  <2>1. m <= n - y
    BY <1>2
  <2>2. y \in 1 .. n /\ z \in 1 .. n
    OBVIOUS
  <2> HIDE DEF T
  <2> QED
    BY <1>3, <2>1, <2>2
<1>5. \A y \in x : Max(x) >= y /\ Max(x) \in x
  BY <1>4 DEF Max
<1> QED
  BY <1>5

\* The fold is a function on the sets of positions, of which the initial segments
\* give what ApplyEnvars does.
LEMMA FoldSteps ==
    ASSUME NEW S, Strung(S), NEW text, DOMAIN text = 1 .. Len(text), Len(text) \in Nat,
           NEW s \in Optional(S), NEW env, Environment(env)
    PROVE  \E h : Applies(h, text, s, env, S) /\ ApplyEnvars(text, s, env) = h[Len(text)]
<1> DEFINE n == Len(text)
           D == SUBSET (1 .. n)
           W == Optional(S)
           V == [D -> W]
           Rest(x) == x \ {Max(x)}
           at == [i \in 1 .. n |-> i]
           step(acc, i) == Step(acc, at[i], text, env)
           Once(f) == [x \in D |-> IF x = {} THEN s ELSE step(f[Rest(x)], Max(x))]
           f == CHOOSE f : f = Once(f)
<1>1. n \in Nat /\ DOMAIN text = 1 .. n
  OBVIOUS
<1>2. ApplyEnvars(text, s, env) = f[1 .. n]
  BY <1>1 DEF ApplyEnvars, FoldLeftDomain, FoldLeft, MapThenFoldSet, Step
<1>3. \A acc \in W : \A i : step(acc, i) \in W
  BY StepType
<1>4. \A x \in D : x # {} => /\ Max(x) \in x /\ (\A y \in x : y <= Max(x))
                              /\ Rest(x) \in D
  BY <1>1, Maximum
<1> HIDE DEF n, W, step, Rest
<1>5. \A g \in V : \A x \in D : g[x] \in W
  OBVIOUS
<1>6. \A g \in V : Once(g) \in V
  <2> SUFFICES ASSUME NEW g \in V PROVE Once(g) \in V
    OBVIOUS
  <2>1. s \in W
    BY DEF W
  <2>2. \A x \in D : x # {} => step(g[Rest(x)], Max(x)) \in W
    BY <1>3, <1>4, <1>5
  <2> HIDE DEF D
  <2> QED
    BY <2>1, <2>2
<1>7. \A g : \A x \in D : Once(g)[x] = IF x = {} THEN s ELSE step(g[Rest(x)], Max(x))
  OBVIOUS
<1>8. [x \in D |-> s] \in V
  BY DEF W
<1> HIDE DEF V, Once
<1> DEFINE b == [x \in D |-> s]
           G == [k \in Nat |-> [g \in V |-> Once(g)]]
<1>9. PICK H : Iterates(H, b, G, V)
  <2>1. \A k \in Nat : \A g \in V : G[k][g] \in V
    BY <1>6
  <2> HIDE DEF G, b
  <2> QED
    BY <1>8, <2>1, Recursion DEF b
<1>10. /\ \A k \in Nat : H[k] \in V
       /\ H[0] = b
       /\ \A k \in Nat : H[k + 1] = Once(H[k])
  BY <1>9 DEF Iterates
<1> DEFINE Stable(k) == \A x \in D : (\A y \in x : y <= k) => H[k + 1][x] = H[k][x]
           T == {k \in Nat : Stable(k)}
<1>11. 0 \in T
  <2> SUFFICES ASSUME NEW x \in D, \A y \in x : y <= 0 PROVE H[0 + 1][x] = H[0][x]
    OBVIOUS
  <2>1. x = {}
    OBVIOUS
  <2>2. H[0 + 1] = Once(H[0]) /\ H[0][x] = s
    BY <1>10
  <2> QED
    BY <1>7, <2>1, <2>2
<1>12. ASSUME NEW k \in T PROVE k + 1 \in T
  <2> SUFFICES ASSUME NEW x \in D, \A y \in x : y <= k + 1
               PROVE  H[(k + 1) + 1][x] = H[k + 1][x]
    OBVIOUS
  <2>1. k \in Nat /\ k + 1 \in Nat
    OBVIOUS
  <2>2. H[(k + 1) + 1] = Once(H[k + 1]) /\ H[k + 1] = Once(H[k])
    BY <1>10, <2>1
  <2>3. CASE x = {}
    <3>1. Once(H[k + 1])[x] = s /\ Once(H[k])[x] = s
      BY <1>7, <2>3
    <3> QED
      BY <2>2, <3>1
  <2>4. CASE x # {}
    <3>1. Rest(x) \in D /\ \A y \in Rest(x) : y <= k
      <4>1. Rest(x) \in D /\ Max(x) \in x /\ \A y \in x : y <= Max(x)
        BY <1>4, <2>4
      <4>2. \A y \in Rest(x) : y \in x /\ y # Max(x)
        BY DEF Rest
      <4>3. \A y \in x : y \in Nat
        <5>1. n \in Nat /\ x \subseteq 1 .. n
          BY <1>1
        <5> QED
          BY <5>1
      <4>4. ASSUME NEW y \in Rest(x) PROVE y <= k
        <5>1. y \in Nat /\ Max(x) \in Nat /\ y <= Max(x) /\ y # Max(x) /\ Max(x) <= k + 1
          BY <4>1, <4>2, <4>3
        <5> QED
          BY <2>1, <5>1
      <4> QED
        BY <4>1, <4>4
    <3>2. H[k + 1][Rest(x)] = H[k][Rest(x)]
      BY <3>1
    <3>3. /\ Once(H[k + 1])[x] = step(H[k + 1][Rest(x)], Max(x))
          /\ Once(H[k])[x] = step(H[k][Rest(x)], Max(x))
      BY <1>7, <2>4
    <3> QED
      BY <2>2, <3>2, <3>3
  <2> QED
    BY <2>3, <2>4
<1>13. Stable(n)
  <2> HIDE DEF Stable, T
  <2>1. T = Nat
    BY <1>11, <1>12, Induction DEF T
  <2> QED
    BY <1>1, <2>1 DEF T
<1>14. f = Once(f)
  <2>1. H[n + 1] = H[n]
    <3>1. \A x \in D : H[n + 1][x] = H[n][x]
      BY <1>1, <1>13
    <3>2. H[n + 1] = [x \in D |-> H[n + 1][x]] /\ H[n] = [x \in D |-> H[n][x]]
      <4>1. H[n + 1] \in V /\ H[n] \in V
        BY <1>1, <1>10
      <4> HIDE DEF D
      <4>2. \A g \in V : g = [x \in D |-> g[x]]
        BY DEF V
      <4> QED
        BY <4>1, <4>2
    <3> HIDE DEF D
    <3> QED
      BY <3>1, <3>2
  <2>2. H[n] = Once(H[n])
    BY <1>1, <1>10, <2>1
  <2> HIDE DEF G, b
  <2> QED
    BY <2>2
<1> HIDE DEF f
<1> DEFINE h == [i \in 0 .. n |-> f[1 .. i]]
<1>15. h[0] = s
  <2>1. 1 .. 0 = {} /\ {} \in D /\ 0 \in 0 .. n
    BY <1>1
  <2>2. f[{}] = s
    BY <1>7, <1>14, <2>1
  <2> QED
    BY <2>1, <2>2
<1>16. ASSUME NEW i \in 1 .. n PROVE h[i] = step(h[i - 1], i)
  <2> DEFINE x == 1 .. i
  <2>1. /\ i \in 0 .. n /\ i - 1 \in 0 .. n /\ x \in D /\ i \in x /\ x # {}
        /\ \A y \in x : y \in Nat /\ y <= i /\ (y # i => y \in 1 .. i - 1)
        /\ \A y \in 1 .. i - 1 : y \in x /\ y # i
    <3>1. n \in Nat
      BY <1>1
    <3> QED
      BY <3>1
  <2>2. h[i] = f[x] /\ h[i - 1] = f[1 .. i - 1]
    BY <2>1
  <2>3. Max(x) = i
    <3>1. Max(x) \in x /\ i <= Max(x)
      BY <1>4, <2>1
    <3>2. Max(x) \in Nat /\ Max(x) <= i
      BY <2>1, <3>1
    <3> QED
      BY <3>1, <3>2
  <2>4. Rest(x) = 1 .. i - 1
    <3> HIDE DEF x
    <3> QED
      BY <2>1, <2>3 DEF Rest
  <2>5. f[x] = step(f[Rest(x)], Max(x))
    BY <1>7, <1>14, <2>1
  <2> HIDE DEF x, h
  <2> QED
    BY <2>2, <2>3, <2>4, <2>5
<1>17. h[n] = f[1 .. n]
  BY <1>1
<1> HIDE DEF h
<1>18. \A i \in 0 .. n : h[i] \in W
  <2> DEFINE U == {i \in Nat : i <= n => h[i] \in W}
  <2>1. 0 \in U
    BY <1>15 DEF W
  <2>2. ASSUME NEW i \in U PROVE i + 1 \in U
    <3>1. CASE i + 1 <= n
      <4>1. i + 1 \in 1 .. n /\ (i + 1) - 1 = i /\ h[i] \in W
        BY <1>1, <3>1
      <4>2. h[i + 1] = step(h[i], i + 1)
        BY <1>16, <4>1
      <4>3. h[i + 1] \in W
        BY <1>3, <4>1, <4>2
      <4> QED
        BY <4>3
    <3> QED
      BY <3>1
  <2> HIDE DEF U
  <2>3. U = Nat
    BY <2>1, <2>2, Induction DEF U
  <2>4. \A i \in 0 .. n : i \in U
    BY <2>3
  <2> QED
    BY <2>4 DEF U
<1>19. h = [i \in 0 .. n |-> h[i]]
  BY DEF h
<1>20. Applies(h, text, s, env, S)
  <2>1. h \in [0 .. n -> W]
    BY <1>18, <1>19
  <2> QED
    BY <1>15, <1>16, <2>1 DEF Applies, n, W, step
<1> QED
  BY <1>2, <1>17, <1>20 DEF n


\* What is read from a file is a string, or nothing where a variable is not defined.
LEMMA ApplyType ==
    ASSUME NEW S, Strung(S), NEW text \in Seq(Characters), NEW s \in Seq(S),
           NEW env, Environment(env)
    PROVE  ApplyEnvars(text, s, env) \in Optional(S)
<1>1. /\ s \in Optional(S) /\ Len(text) \in 0 .. Len(text) /\ Len(text) \in Nat
      /\ DOMAIN text = 1 .. Len(text)
  BY DEF Optional
<1>2. PICK h : Applies(h, text, s, env, S) /\ ApplyEnvars(text, s, env) = h[Len(text)]
  BY <1>1, FoldSteps
<1> QED
  BY <1>1, <1>2 DEF Applies

\* Nothing is read exactly if a literal of the text as it was read is not defined.
LEMMA FailsIfUndefined ==
    ASSUME NEW S, Strung(S), NEW text \in Seq(Characters), NEW s \in Seq(S),
           NEW env, Environment(env)
    PROVE  ApplyEnvars(text, s, env) = Nil <=> \E i \in DOMAIN text : FailsAt(text, i, env)
<1> DEFINE n == Len(text)
<1>1. n \in Nat /\ DOMAIN text = 1 .. n /\ s \in Optional(S) /\ s # Nil
  BY StrungNil DEF Optional
<1>2. PICK h : Applies(h, text, s, env, S) /\ ApplyEnvars(text, s, env) = h[n]
  BY <1>1, FoldSteps
<1>3. /\ h[0] = s /\ \A i \in 0 .. n : h[i] \in Optional(S)
      /\ \A i \in 1 .. n : h[i] = Step(h[i - 1], i, text, env)
  BY <1>2 DEF Applies
<1>4. \A i \in 1 .. n : h[i] = Nil <=> h[i - 1] = Nil \/ FailsAt(text, i, env)
  <2> SUFFICES ASSUME NEW i \in 1 .. n
               PROVE  h[i] = Nil <=> h[i - 1] = Nil \/ FailsAt(text, i, env)
    OBVIOUS
  <2>1. i - 1 \in 0 .. n
    BY <1>1
  <2>2. h[i - 1] \in Optional(S) /\ h[i] = Step(h[i - 1], i, text, env)
    BY <1>3, <2>1
  <2> QED
    BY <2>2, StepNil
<1> HIDE DEF n
<1> DEFINE Holds(i) == h[i] = Nil <=> \E j \in 1 .. i : FailsAt(text, j, env)
           T == {i \in Nat : i <= n => Holds(i)}
<1>5. 0 \in T
  BY <1>1, <1>3
<1>6. ASSUME NEW i \in T PROVE i + 1 \in T
  <2> SUFFICES ASSUME i + 1 <= n PROVE Holds(i + 1)
    OBVIOUS
  <2>1. i \in Nat /\ i + 1 \in 1 .. n /\ i <= n /\ (i + 1) - 1 = i
    BY <1>1
  <2>2. Holds(i) /\ (h[i + 1] = Nil <=> h[i] = Nil \/ FailsAt(text, i + 1, env))
    BY <1>4, <2>1
  <2>3. \A j : j \in 1 .. i + 1 <=> j \in 1 .. i \/ j = i + 1
    BY <2>1
  <2> QED
    BY <2>2, <2>3
<1>7. Holds(n)
  <2> HIDE DEF Holds, T
  <2>1. T = Nat
    BY <1>5, <1>6, Induction DEF T
  <2> QED
    BY <1>1, <2>1 DEF T
<1> QED
  BY <1>1, <1>2, <1>7

\* With inert values the replacements, one position of the text after the other, come to
\* one substitution.
LEMMA Substitution ==
    ASSUME NEW text \in Seq(Characters), NEW env, Environment(env),
           \A v \in Variable : env[v] # Nil => Inert(env[v]),
           \A i \in DOMAIN text : ~FailsAt(text, i, env)
    PROVE  ApplyEnvars(text, text, env) = AtOnce(text, env)
<1> DEFINE n == Len(text)
           Seen(i) == {NameAt(text, j) : j \in {k \in 1 .. i : IsLiteral(text, k)}}
<1>1. n \in Nat /\ DOMAIN text = 1 .. n /\ text \in Optional(Characters)
  BY DEF Optional
<1>2. Strung(Characters)
  BY DEF Strung, Characters
<1>3. PICK h : Applies(h, text, text, env, Characters) /\ ApplyEnvars(text, text, env) = h[n]
  BY <1>1, <1>2, FoldSteps
<1>4. h[0] = text /\ \A i \in 1 .. n : h[i] = Step(h[i - 1], i, text, env)
  BY <1>3 DEF Applies
<1>5. ASSUME NEW i \in 1 .. n, IsLiteral(text, i)
      PROVE  LET name == NameAt(text, i)
             IN  /\ name \in Variable /\ Lookup(name, env) = env[name] /\ env[name] # Nil
                 /\ env[name] \in Seq(Char) /\ Inert(env[name])
  <2> DEFINE name == NameAt(text, i)
  <2>1. Lookup(name, env) # Nil
    BY <1>1, <1>5 DEF FailsAt
  <2> HIDE DEF name
  <2>2. /\ name \in Variable /\ Lookup(name, env) = env[name]
        /\ Lookup(name, env) \in Seq(Char) \cup {Nil}
    BY <2>1, LookupType DEF OptionalString
  <2>3. Inert(env[name])
    BY <2>1, <2>2
  <2> QED
    BY <2>1, <2>2, <2>3 DEF name
<1>6. Good(text, env)
  BY <1>1, <1>5 DEF Good
<1> HIDE DEF n
<1> DEFINE Holds(i) == h[i] = Put(text, Seen(i), env)
           T == {i \in Nat : i <= n => Holds(i)}
<1>7. 0 \in T
  <2>1. Seen(0) = {}
    OBVIOUS
  <2>2. Put(text, {}, env) = text
    <3> DEFINE p == Parts(text, {}, env)
    <3>1. /\ p \in Seq(Seq(Characters)) /\ Len(p) = Len(text)
          /\ \A i \in 1 .. Len(text) : p[i] = Part(text, {}, env, i)
      BY <1>6, PartsType
    <3>2. \A i : Part(text, {}, env, i) = <<text[i]>>
      BY DEF Part, Starts, Inside
    <3> HIDE DEF p
    <3>3. FlattenSeq(p) = text
      BY <3>1, <3>2, FlattenSingles
    <3> QED
      BY <3>3 DEF Put, p
  <2> QED
    BY <1>4, <2>1, <2>2
<1>8. ASSUME NEW i \in T PROVE i + 1 \in T
  <2> SUFFICES ASSUME i + 1 <= n PROVE Holds(i + 1)
    OBVIOUS
  <2>1. i \in Nat /\ i + 1 \in 1 .. n /\ i <= n /\ (i + 1) - 1 = i
    BY <1>1
  <2>2. h[i] = Put(text, Seen(i), env) /\ h[i + 1] = Step(h[i], i + 1, text, env)
    BY <1>4, <2>1
  <2>3. \A j : j \in 1 .. i + 1 <=> j \in 1 .. i \/ j = i + 1
    BY <2>1
  <2>4. CASE ~IsLiteral(text, i + 1)
    <3>1. Seen(i + 1) = Seen(i)
      BY <2>3, <2>4
    <3> QED
      BY <2>2, <2>4, <3>1 DEF Step
  <2>5. CASE IsLiteral(text, i + 1)
    <3> DEFINE name == NameAt(text, i + 1)
               D == Seen(i)
               E == D \cup {name}
    <3>1. Seen(i + 1) = E
      BY <2>3, <2>5
    <3>2. /\ name \in Variable /\ Lookup(name, env) = env[name] /\ env[name] # Nil
          /\ env[name] \in Seq(Char)
      BY <1>5, <2>1, <2>5
    <3>3. h[i] # Nil
      <4>1. Put(text, D, env) \in Seq(Characters)
        <5> HIDE DEF D
        <5>1. Parts(text, D, env) \in Seq(Seq(Characters))
          BY <1>6, PartsType
        <5> QED
          BY <5>1, FlattenType DEF Put
      <4> QED
        BY <1>2, <2>2, <4>1, StrungNil
    <3>4. h[i + 1] = Replace(h[i], Literal(name), env[name])
      BY <2>2, <2>5, <3>2, <3>3 DEF Step
    <3>5. Replace(Put(text, D, env), Literal(name), env[name]) = Put(text, E, env)
      <4>1. E = D \cup {name}
        OBVIOUS
      <4> HIDE DEF D, E, name
      <4> QED
        BY <1>6, <3>2, <4>1, PutReplace
    <3> QED
      BY <2>2, <3>1, <3>4, <3>5
  <2> QED
    BY <2>4, <2>5
<1>9. Holds(n)
  <2> HIDE DEF Holds, T
  <2>1. T = Nat
    BY <1>7, <1>8, Induction DEF T
  <2> QED
    BY <1>1, <2>1 DEF T
<1>10. Put(text, Seen(n), env) = AtOnce(text, env)
  <2>1. \A i \in 1 .. n : Starts(text, Seen(n), i) <=> IsLiteral(text, i)
    BY DEF Starts
  <2>2. ASSUME NEW i \in 1 .. n
        PROVE  Inside(text, Seen(n), i) <=> \E k \in 1 .. i - 1 : Within(text, k, i)
    <3>1. \A k \in 1 .. i - 1 : k \in 1 .. n /\ (Within(text, k, i) => IsLiteral(text, k))
      BY <1>1 DEF Within
    <3> QED
      BY <3>1 DEF Inside
  <2>3. \A i \in 1 .. n :
            Part(text, Seen(n), env, i) =
                IF IsLiteral(text, i) THEN env[NameAt(text, i)]
                ELSE IF \E k \in 1 .. i - 1 : Within(text, k, i) THEN <<>> ELSE <<text[i]>>
    <3> HIDE DEF Seen
    <3> QED
      BY <2>1, <2>2 DEF Part
  <2> HIDE DEF Seen
  <2>4. Parts(text, Seen(n), env) =
            [i \in DOMAIN text |->
                IF IsLiteral(text, i) THEN env[NameAt(text, i)]
                ELSE IF \E k \in 1 .. i - 1 : Within(text, k, i) THEN <<>> ELSE <<text[i]>>]
    BY <1>1, <2>3 DEF Parts
  <2> QED
    BY <2>4 DEF Put, AtOnce
<1> QED
  BY <1>3, <1>9, <1>10

-----------------------------------------------------------------------------
(* The types, and what is put into service.json *)

\* What Init says of the inputs, which no step changes.
Inputs ==
    /\ files.service \in ServiceJsons \cup {Nil}
    /\ environ \in Environments

\* service.json is there wherever its definition is read.
TInv ==
    /\ Inputs
    /\ InvocationTypeOK
    /\ pc \in {"task-definition.json", "merge"} => files.service # Nil

\* The names of service.json with the variables put in.
LEMMA DefinitionType ==
    ASSUME Inputs, files.service # Nil
    PROVE  /\ FileText \in Seq(Characters)
           /\ Environment(environ)
           /\ ServiceDefinition.cluster \in OptionalString
           /\ ServiceDefinition.service \in OptionalString
<1>1. files.service \in ServiceJsons
  BY DEF Inputs
<1>2. files.service.cluster \in OptionalString /\ files.service.service \in OptionalString
  BY <1>1, InvocationAssumption
<1>3. Environment(environ)
  BY InvocationAssumption DEF Inputs, Environment
<1>4. /\ OrEmpty(files.service.cluster) \in Seq(Characters)
      /\ OrEmpty(files.service.service) \in Seq(Characters)
      /\ <<Newline>> \in Seq(Characters)
  BY <1>2 DEF OrEmpty, OptionalString, Characters
<1>5. FileText \in Seq(Characters)
  <2> DEFINE c == OrEmpty(files.service.cluster)
             d == OrEmpty(files.service.service)
             b == <<Newline>>
  <2>1. c \in Seq(Characters) /\ b \in Seq(Characters) /\ d \in Seq(Characters)
    BY <1>4
  <2>2. FileText = c \o b \o d
    BY DEF FileText
  <2> HIDE DEF b, c, d
  <2> QED
    BY <2>1, <2>2
<1>6. ASSUME NEW s \in OptionalString PROVE Field(s) \in OptionalString
  <2>1. CASE s = Nil
    BY <2>1 DEF Field, OptionalString
  <2>2. CASE s # Nil
    <3>1. s \in Seq(Char) /\ Strung(Char)
      BY <2>2 DEF OptionalString, Strung, Characters
    <3>2. ApplyEnvars(FileText, s, environ) \in Optional(Char)
      BY <1>3, <1>5, <3>1, ApplyType
    <3> QED
      BY <2>2, <3>2 DEF Field, Applied, Optional, OptionalString
  <2> QED
    BY <2>1, <2>2
<1> QED
  BY <1>2, <1>3, <1>5, <1>6 DEF ServiceDefinition

\* The field of an object that is not a nil pointer.
LEMMA DefinedIsString ==
    ASSUME NEW s \in OptionalString, s # Nil
    PROVE  IsString(s)
BY DEF OptionalString, IsString

LEMMA NilIsNoString == Nil \notin Seq(Char)
<1>1. Strung(Char)
  BY DEF Strung, Characters
<1> QED
  BY <1>1, StrungNil

LEMMA EmptyIsString == IsString(<<>>)
<1>1. <<>> \in Seq(Char) /\ Nil \notin Seq(Char)
  BY NilIsNoString
<1> QED
  BY <1>1 DEF IsString

LEMMA TInit == Init => TInv
<1> SUFFICES ASSUME Init PROVE TInv
  OBVIOUS
<1>1. Inputs
  BY DEF Init, Inputs
<1>2. pc = "args" /\ envars = FromFlags /\ confirmed = {} /\ asked = {}
  BY DEF Init
<1>3. \A k \in Strings : IsString(cmd.flags[k])
  <2>1. cmd.flags \in [Strings -> Seq(Char)]
    BY InvocationAssumption DEF Init
  <2> QED
    BY <2>1, NilIsNoString DEF IsString
<1>4. IsString(<<>>)
  BY EmptyIsString
<1>5. /\ \A k \in Strings : IsString(envars[k])
      /\ envars.taskDefinitionInput = FALSE
      /\ envars.serviceDefinitionInput = {}
  BY <1>2, <1>3, <1>4 DEF FromFlags, Strings
<1> QED
  BY <1>1, <1>2, <1>5 DEF TInv, InvocationTypeOK, Pc

\* The steps that leave the Envars and the answers alone.
LEMMA TQuiet ==
    ASSUME TInv, UNCHANGED <<inputs, envars, confirmed, asked>>, pc' \in Pc,
           pc' \in {"task-definition.json", "merge"} => files.service # Nil
    PROVE  TInv'
BY DEF TInv, Inputs, InvocationTypeOK, inputs

LEMMA TLoad ==
    ASSUME IInv, TInv, LoadTaskDefinition
    PROVE  TInv'
<1>1. /\ UNCHANGED <<inputs, confirmed, asked>> /\ pc' \in Pc /\ files.service # Nil
      /\ DOMAIN envars = Fields
  BY DEF LoadTaskDefinition, Goto, Pc, TInv, IInv, Loaded
<1>2. CASE UNCHANGED envars
  BY <1>1, <1>2, TQuiet
<1>3. CASE envars' = [envars EXCEPT !.taskDefinitionInput = TRUE]
  <2>1. /\ \A k \in Strings : envars'[k] = envars[k]
        /\ envars'.taskDefinitionInput = TRUE
        /\ envars'.serviceDefinitionInput = envars.serviceDefinitionInput
    BY <1>1, <1>3 DEF Fields, Strings
  <2> QED
    BY <1>1, <2>1 DEF TInv, Inputs, InvocationTypeOK, inputs
<1> QED
  BY <1>2, <1>3 DEF LoadTaskDefinition

LEMMA TMerge ==
    ASSUME IInv, TInv, MergeEnvars
    PROVE  TInv'
<1>1. /\ UNCHANGED <<inputs, confirmed, asked>> /\ pc' \in {"panic", "ensure"}
      /\ files.service # Nil /\ DOMAIN envars = Fields
  BY DEF MergeEnvars, Goto, TInv, IInv, Loaded
<1>2. pc' \in Pc
  BY <1>1 DEF Pc
<1>3. CASE UNCHANGED envars
  BY <1>1, <1>2, <1>3, TQuiet
<1>4. ASSUME NEW file, file = ServiceDefinition, Nil \notin {file.cluster, file.service},
             envars' = [envars EXCEPT !.cluster = Merged(@, file.cluster),
                                      !.service = Merged(@, file.service),
                                      !.serviceDefinitionInput = {file}]
      PROVE  TInv'
  <2>1. IsString(file.cluster) /\ IsString(file.service)
    BY <1>1, <1>4, DefinitionType, DefinedIsString DEF TInv
  <2>2. /\ envars'.cluster = Merged(envars.cluster, file.cluster)
        /\ envars'.service = Merged(envars.service, file.service)
        /\ envars'.region = envars.region
        /\ envars'.taskDefinitionArn = envars.taskDefinitionArn
        /\ envars'.taskDefinitionInput = envars.taskDefinitionInput
        /\ envars'.serviceDefinitionInput = {file}
    BY <1>1, <1>4 DEF Fields, Strings
  <2>3. \A k \in Strings : IsString(envars[k])
    BY DEF TInv, InvocationTypeOK
  <2>4. \A k \in Strings : IsString(envars'[k])
    BY <2>1, <2>2, <2>3 DEF Merged, Strings
  <2> QED
    BY <1>1, <1>2, <2>1, <2>2, <2>4 DEF TInv, Inputs, InvocationTypeOK, inputs
<1> QED
  BY <1>3, <1>4 DEF MergeEnvars

LEMMA TConfirm ==
    ASSUME TInv, ConfirmStackChange
    PROVE  TInv'
<1>1. PICK name, value :
          /\ name \in Strings \cup {"yes"}
          /\ IsString(value)
          /\ \/ UNCHANGED confirmed
             \/ confirmed' = confirmed \cup {[name |-> name, value |-> value]}
  <2>1. IsString(<<>>) /\ \A k \in Strings : IsString(envars[k])
    BY EmptyIsString DEF TInv, InvocationTypeOK
  <2> QED
    BY <2>1 DEF ConfirmStackChange, Confirm, Strings
<1>2. UNCHANGED <<inputs, envars, asked>> /\ pc' \in {"cluster", "service", "yes", "act", "err"}
  BY DEF ConfirmStackChange, Confirm, Goto, AfterCluster
<1>3. \A c \in confirmed' : c.name \in Strings \cup {"yes"} /\ IsString(c.value)
  BY <1>1 DEF TInv, InvocationTypeOK
<1> QED
  BY <1>2, <1>3 DEF TInv, Inputs, InvocationTypeOK, inputs, Pc

LEMMA TAct ==
    ASSUME IInv, TInv, Act
    PROVE  TInv'
<1>1. UNCHANGED <<inputs, envars, confirmed>> /\ pc' = "done" /\ asked' = Calls
  BY DEF Act, Goto
<1>2. cmd.name \in {"up", "rollout", "run"}
  BY DEF IInv, Act, Command
<1>3. IsString(<<>>) /\ IsString(envars.cluster) /\ IsString(envars.service)
  BY EmptyIsString DEF TInv, InvocationTypeOK, Strings
<1>4. \A a \in Calls : IsString(a.cluster) /\ IsString(a.service)
  <2>1. CASE cmd.name = "rollout"
    BY <1>3, <2>1 DEF Calls, Call
  <2>2. CASE cmd.name = "run"
    BY <1>3, <2>2 DEF Calls, Call
  <2>3. CASE cmd.name = "up"
    <3>1. \A d \in envars.serviceDefinitionInput : IsString(d.cluster) /\ IsString(d.service)
      BY DEF TInv, InvocationTypeOK
    <3>2. Calls = {Call("DescribeServices", envars.cluster, envars.service)}
                  \cup {Call("CreateService", d.cluster, d.service) : d \in envars.serviceDefinitionInput}
      BY <2>3 DEF Calls
    <3> QED
      BY <1>3, <3>1, <3>2 DEF Call
  <2> QED
    BY <1>2, <2>1, <2>2, <2>3
<1> QED
  BY <1>1, <1>4 DEF TInv, Inputs, InvocationTypeOK, inputs, Pc

LEMMA TAudit ==
    ASSUME TInv, Audit
    PROVE  TInv'
<1>1. UNCHANGED <<inputs, envars, confirmed>> /\ pc' \in {"done", "err"}
  BY DEF Audit, Goto
<1>2. CASE UNCHANGED asked
  BY <1>1, <1>2, TQuiet DEF Pc
<1>3. CASE AuditArguments
           /\ asked' = {Call("DescribeServices", AuditTarget.cluster, AuditTarget.service)}
  <2>1. IsString(AuditTarget.cluster) /\ IsString(AuditTarget.service)
    <3>1. CASE cmd.args = 1
      <4>1. files.service # Nil /\ Nil \notin {ServiceDefinition.cluster, ServiceDefinition.service}
        BY <1>3, <3>1 DEF AuditArguments, ServiceJsonFails, AuditTarget
      <4> QED
        BY <3>1, <4>1, DefinitionType, DefinedIsString DEF TInv, AuditTarget
    <3>2. CASE cmd.args # 1
      BY <3>2 DEF AuditTarget, TInv, InvocationTypeOK, Strings
    <3> QED
      BY <3>1, <3>2
  <2>2. \A a \in asked' : IsString(a.cluster) /\ IsString(a.service)
    BY <1>3, <2>1 DEF Call
  <2> QED
    BY <1>1, <2>2 DEF TInv, Inputs, InvocationTypeOK, inputs, Pc
<1> QED
  BY <1>2, <1>3 DEF Audit

LEMMA TNext == IInv /\ TInv /\ [Next]_vars => TInv'
<1> SUFFICES ASSUME IInv, TInv, [Next]_vars PROVE TInv'
  OBVIOUS
<1>1. CASE RequireArgs \/ EnsureEnvars
  <2>1. UNCHANGED <<inputs, envars, confirmed, asked>>
    BY <1>1 DEF RequireArgs, EnsureEnvars
  <2>2. pc' \in {"service.json", "err", "act", "region"}
    BY <1>1 DEF RequireArgs, EnsureEnvars, Goto
  <2> QED
    BY <2>1, <2>2, TQuiet DEF Pc
<1>2. CASE LoadServiceDefinition
  <2>1. UNCHANGED <<inputs, envars, confirmed, asked>>
    BY <1>2 DEF LoadServiceDefinition
  <2>2. pc' = "err" \/ (pc' = "task-definition.json" /\ files.service # Nil)
    BY <1>2 DEF LoadServiceDefinition, Goto, ServiceJsonFails
  <2> QED
    BY <2>1, <2>2, TQuiet DEF Pc
<1>3. CASE UNCHANGED vars
  BY <1>3 DEF vars, TInv, Inputs, InvocationTypeOK
<1> QED
  BY <1>1, <1>2, <1>3, TLoad, TMerge, TConfirm, TAct, TAudit DEF Next

LEMMA AlwaysTyped == Spec => []TInv
<1>1. []IInv /\ TInv /\ [][Next]_vars => []TInv
  BY TNext, PTL
<1> QED
  BY <1>1, TInit, AlwaysInv, PTL DEF Spec

\* Every variable stays in its range: what the flags, the files, the environment and
\* the user leave in the Envars, the answers and the calls are strings, never a nil
\* pointer (env.go:125-141, command.go:58, audit.go:50).
THEOREM InvocationTyped == Spec => []InvocationTypeOK
<1>1. TInv => InvocationTypeOK
  BY DEF TInv
<1> QED
  BY <1>1, AlwaysTyped, PTL

\* Whatever the text of service.json, it is let through exactly if all of its variables
\* are defined, and the replacements one after another are one substitution as long as
\* no value can be a part of a literal (env.go:131-138).
THEOREM SubstitutionAtOnce == Spec => []SubstitutesAtOnce
<1>1. TInv => SubstitutesAtOnce
  <2> SUFFICES ASSUME TInv, files.service # Nil
               PROVE  /\ Applied(FileText) = Nil <=> SomeUndefined
                      /\ InertEnvironment /\ ~SomeUndefined =>
                            Applied(FileText) = AtOnce(FileText, environ)
    BY DEF SubstitutesAtOnce
  <2>1. FileText \in Seq(Characters) /\ Environment(environ) /\ Strung(Characters)
    BY DefinitionType DEF TInv, Strung, Characters
  <2>2. SomeUndefined <=> \E i \in DOMAIN FileText : FailsAt(FileText, i, environ)
    BY <2>1, LookupType DEF SomeUndefined, FailsAt
  <2>3. Applied(FileText) = Nil <=> SomeUndefined
    BY <2>1, <2>2, FailsIfUndefined DEF Applied
  <2>4. ASSUME InertEnvironment, ~SomeUndefined
        PROVE  Applied(FileText) = AtOnce(FileText, environ)
    BY <2>1, <2>2, <2>4, Substitution DEF Applied, InertEnvironment
  <2> QED
    BY <2>3, <2>4
<1> QED
  BY <1>1, AlwaysTyped, PTL
=============================================================================
