----------------------------- MODULE Invocation -----------------------------
(***************************************************************************)
(* From the command line to the first call to AWS: `cage up`, `rollout`,   *)
(* `run` and `audit` (cli/cage/commands), their flags (cageapp/flags.go),  *)
(* service.json and task-definition.json with the environment variables    *)
(* in them (env/env.go), the waits (env/timeout.go) and the questions the  *)
(* user has to answer (cli/cage/prompt).                                   *)
(*                                                                         *)
(* A string is a sequence of characters, <<>> the empty one.               *)
(***************************************************************************)
EXTENDS Integers, SequencesExt

CONSTANTS
    Char,            \* characters
    Dollar,          \* the characters $, { and }
    Open,
    Close,
    Newline,         \* what stands between the two keys of service.json
    Variable,        \* the names of environment variables
    Nil,             \* a nil pointer, an undefined variable, no file
    Flags,           \* the values of --region, --cluster, --service, --taskDefinitionArn
    Waits,           \* the values of the flags for waiting times, 0 if there is no such flag
    ServiceJsons,    \* the contents of service.json
    Environments     \* what the variables are set to

Command == {"up", "rollout", "run", "audit"}
Strings == {"region", "cluster", "service", "taskDefinitionArn"}
OptionalString == Seq(Char) \cup {Nil}

\* The names are those a shell can set: not empty, and without $, { and }.
ASSUME InvocationAssumption ==
    /\ {Dollar, Open, Close} \subseteq Char
    /\ Dollar # Open /\ Open # Close /\ Close # Dollar
    /\ Newline \notin Char
    /\ Nil \notin Seq(Char \cup {Newline})
    /\ Variable \subseteq Seq(Char \ {Dollar, Open, Close}) \ {<<>>}
    /\ Flags \subseteq [Strings -> Seq(Char)]
    /\ Waits \subseteq Int
    /\ \A j \in ServiceJsons : {j.cluster, j.service} \subseteq OptionalString
    /\ Environments \subseteq [Variable -> OptionalString]

VARIABLES
    pc,         \* the next step of the command's Action
    cmd,        \* the command, --ci, the number of its arguments, and its flags
    files,      \* the directory: service.json and whether task-definition.json can be read
    environ,    \* the environment
    envars,     \* input.Envars, or the fields of AuditCmdInput
    confirmed,  \* what the user has confirmed
    asked       \* the services that the calls to AWS name

vars == <<pc, cmd, files, environ, envars, confirmed, asked>>
inputs == <<cmd, files, environ>>

Pc == {"args", "service.json", "task-definition.json", "merge", "ensure", "region", "cluster",
       "service", "yes", "act", "done", "err", "panic"}

-----------------------------------------------------------------------------
(* env/env.go: variables in the files *)

\* The literal l stands at position i of s.
Occurs(s, l, i) == i + Len(l) - 1 <= Len(s) /\ \A q \in DOMAIN l : s[i + q - 1] = l[q]

\* strings.Replace: every occurrence of l, which does not overlap itself, by value.
Replace(s, l, value) ==
    FlattenSeq([i \in DOMAIN s |->
        IF Occurs(s, l, i) THEN value
        ELSE IF \E k \in 1 .. i - 1 : Occurs(s, l, k) /\ i < k + Len(l) THEN <<>>
        ELSE <<s[i]>>])

\* The regular expression \${(.+?)}: a ${, at least one character, and the first }
\* after that in the same line.  Matches that overlap need not be left out: the name
\* of the outer one holds a $, and the file fails on it.
Closings(text, i) ==
    {j \in i + 3 .. Len(text) : text[j] = Close /\ \A k \in i + 2 .. j - 1 : text[k] # Newline}
IsLiteral(text, i) ==
    i < Len(text) /\ text[i] = Dollar /\ text[i + 1] = Open /\ Closings(text, i) # {}
NameAt(text, i) == SubSeq(text, i + 2, Min(Closings(text, i)) - 1)
Literal(name) == <<Dollar, Open>> \o name \o <<Close>>

\* Mutant of Lookup: an undefined variable is the empty string.
LookupEmpty(name, env) == IF name \in Variable /\ env[name] # Nil THEN env[name] ELSE <<>>
\* os.LookupEnv
Lookup(name, env) == IF name \in Variable THEN env[name] ELSE Nil

\* ReadFileAndApplyEnvars for the string s of a file with this text: the literals of
\* the text as it was read are replaced one after the other, also in what the values
\* for earlier ones brought in, and again for a literal that is there twice.  Nil if
\* one of them is not defined.
ApplyEnvars(text, s, env) ==
    FoldLeftDomain(
        LAMBDA acc, i :
            IF ~IsLiteral(text, i) THEN acc
            ELSE IF acc = Nil \/ Lookup(NameAt(text, i), env) = Nil THEN Nil
            ELSE Replace(acc, Literal(NameAt(text, i)), Lookup(NameAt(text, i), env)),
        s, text)

\* A key that is not there.
OrEmpty(s) == IF s = Nil THEN <<>> ELSE s
FileText == OrEmpty(files.service.cluster) \o <<Newline>> \o OrEmpty(files.service.service)
Applied(s) == ApplyEnvars(FileText, s, environ)

\* json.Unmarshal of the text: a key that is not there leaves a nil pointer.
Field(s) == IF s = Nil THEN Nil ELSE Applied(s)
ServiceDefinition ==
    [cluster |-> Field(files.service.cluster), service |-> Field(files.service.service)]

\* Stat, ReadFile, a variable that is not defined, or Unmarshal fails.
ServiceJsonFails == files.service = Nil \/ Applied(FileText) = Nil

-----------------------------------------------------------------------------
(* cageapp/flags.go, env/timeout.go *)

\* The flags a command has: without one neither the command line nor the variable
\* behind the flag sets the field.
FlagsOf(c) ==
    CASE c \in {"up", "rollout"} -> {"region", "cluster", "service", "taskDefinitionArn"}
      [] c = "run" -> {"region", "cluster"}
      [] c = "audit" -> {"region", "cluster", "service"}

\* GetTaskRunningWait and the others.
Wait(seconds, default) == IF seconds > 0 THEN seconds ELSE default

CanaryTaskIdleWait == Wait(cmd.wait, 15)
OtherWaits == Wait(cmd.wait, 900)

-----------------------------------------------------------------------------

\* The Envars the flags leave: nothing has been read from the directory.  The
\* service definition is a set of at most one, which is empty for the nil pointer.
FromFlags ==
    LET Flag(n) == IF n \in FlagsOf(cmd.name) THEN cmd.flags[n] ELSE <<>>
    IN  [region |-> Flag("region"), cluster |-> Flag("cluster"), service |-> Flag("service"),
         taskDefinitionArn |-> Flag("taskDefinitionArn"), taskDefinitionInput |-> FALSE,
         serviceDefinitionInput |-> {}]

Init ==
    /\ pc = "args"
    /\ cmd \in [name : Command, ci : BOOLEAN, args : {0, 1, 3, 101}, wait : Waits, flags : Flags]
    /\ files \in [service : ServiceJsons \cup {Nil}, taskDefinition : BOOLEAN]
    /\ environ \in Environments
    /\ envars = FromFlags
    /\ confirmed = {}
    /\ asked = {}

Goto(next) == pc' = next

\* The arguments a command takes; the first is the directory.
Arguments(c) == CASE c = "audit" -> 0 .. 1 [] c = "run" -> 3 .. 100 [] OTHER -> 1 .. 1

-----------------------------------------------------------------------------
(* commands/command.go: setupCage, for up, rollout and run *)

RequireArgs ==
    /\ pc = "args"
    /\ cmd.name # "audit"
    /\ Goto(IF cmd.args \in Arguments(cmd.name) THEN "service.json" ELSE "err")
    /\ UNCHANGED <<inputs, envars, confirmed, asked>>

LoadServiceDefinition ==
    /\ pc = "service.json"
    /\ Goto(IF ServiceJsonFails THEN "err" ELSE "task-definition.json")
    /\ UNCHANGED <<inputs, envars, confirmed, asked>>

\* task-definition.json is not even opened with --taskDefinitionArn.
LoadTaskDefinition ==
    /\ pc = "task-definition.json"
    /\ \/ envars.taskDefinitionArn # <<>> /\ Goto("merge") /\ UNCHANGED envars
       \/ /\ envars.taskDefinitionArn = <<>>
          /\ files.taskDefinition
          /\ envars' = [envars EXCEPT !.taskDefinitionInput = TRUE]
          /\ Goto("merge")
       \/ /\ envars.taskDefinitionArn = <<>>
          /\ ~files.taskDefinition
          /\ Goto("err")
          /\ UNCHANGED envars
    /\ UNCHANGED <<inputs, confirmed, asked>>

\* MergeEnvars: the file comes before the flag, unless it holds an empty string.
Merged(dest, src) == IF src # <<>> THEN src ELSE dest

\* A service.json without cluster or serviceName is a nil pointer.
MergeEnvars ==
    /\ pc = "merge"
    /\ LET file == ServiceDefinition
       IN \/ /\ Nil \in {file.cluster, file.service}
             /\ Goto("panic")
             /\ UNCHANGED envars
          \/ /\ Nil \notin {file.cluster, file.service}
             /\ envars' = [envars EXCEPT !.cluster = Merged(@, file.cluster),
                                         !.service = Merged(@, file.service),
                                         !.serviceDefinitionInput = {file}]
             /\ Goto("ensure")
    /\ UNCHANGED <<inputs, confirmed, asked>>

\* Mutant of Ensured: the cluster may come from the AWS configuration.
EnsuredButCluster ==
    /\ <<>> \notin {envars.region, envars.service}
    /\ envars.taskDefinitionArn # <<>> \/ envars.taskDefinitionInput
\* EnsureEnvars
Ensured ==
    /\ <<>> \notin {envars.region, envars.cluster, envars.service}
    /\ envars.taskDefinitionArn # <<>> \/ envars.taskDefinitionInput

\* EnsureEnvars, and the questions unless --ci.
EnsureEnvars ==
    /\ pc = "ensure"
    /\ Goto(IF ~Ensured THEN "err" ELSE IF cmd.ci THEN "act" ELSE "region")
    /\ UNCHANGED <<inputs, envars, confirmed, asked>>

-----------------------------------------------------------------------------
(* prompt/prompt.go *)

\* Confirm: the user types the value; any other line, and the end of the input, is
\* an error that ends the command.
Confirm(name, value, next) ==
    /\ pc = name
    /\ \/ confirmed' = confirmed \cup {[name |-> name, value |-> value]} /\ Goto(next)
       \/ Goto("err") /\ UNCHANGED confirmed
    /\ UNCHANGED <<inputs, envars, asked>>

\* Mutant of AfterCluster: no question for the service.
AfterClusterYes == "yes"
\* A run asks no question about the service.
AfterCluster == IF cmd.name = "run" THEN "yes" ELSE "service"

ConfirmStackChange ==
    \/ Confirm("region", envars.region, "cluster")
    \/ Confirm("cluster", envars.cluster, AfterCluster)
    \/ Confirm("service", envars.service, "yes")
    \/ Confirm("yes", <<>>, "act")

-----------------------------------------------------------------------------
(* The calls the commands make *)

Call(api, cluster, service) == [api |-> api, cluster |-> cluster, service |-> service]

\* Up looks for the service of the Envars and creates the one of service.json.
Calls ==
    CASE cmd.name = "rollout" -> {Call("UpdateService", envars.cluster, envars.service)}
      [] cmd.name = "run" -> {Call("RunTask", envars.cluster, <<>>)}
      [] cmd.name = "up" ->
             {Call("DescribeServices", envars.cluster, envars.service)}
             \cup {Call("CreateService", d.cluster, d.service) : d \in envars.serviceDefinitionInput}

Act ==
    /\ pc = "act"
    /\ asked' = Calls
    /\ Goto("done")
    /\ UNCHANGED <<inputs, envars, confirmed>>

\* Mutant of AuditTarget: the flags come before service.json.
AuditTargetOfFlags ==
    IF cmd.args = 1 /\ <<>> \in {envars.cluster, envars.service} THEN ServiceDefinition
    ELSE [cluster |-> envars.cluster, service |-> envars.service]
\* commands/audit.go: a directory overrides both flags, with empty strings too.
AuditTarget ==
    IF cmd.args = 1 THEN ServiceDefinition
    ELSE [cluster |-> envars.cluster, service |-> envars.service]

\* Mutant of AuditArguments: service.json may leave out its names.
AuditArgumentsUnchecked ==
    /\ cmd.args \in Arguments("audit")
    /\ envars.region # <<>>
    /\ cmd.args = 1 => ~ServiceJsonFails
    /\ cmd.args = 0 => <<>> \notin {AuditTarget.cluster, AuditTarget.service}
\* The checks of audit's Action before it has a command to run.
AuditArguments ==
    /\ cmd.args \in Arguments("audit")
    /\ envars.region # <<>>
    /\ cmd.args = 1 =>
           ~ServiceJsonFails /\ Nil \notin {AuditTarget.cluster, AuditTarget.service}
    /\ cmd.args = 0 => <<>> \notin {AuditTarget.cluster, AuditTarget.service}

\* The whole Action of audit, which asks no questions.
Audit ==
    /\ pc = "args"
    /\ cmd.name = "audit"
    /\ \/ /\ AuditArguments
          /\ asked' = {Call("DescribeServices", AuditTarget.cluster, AuditTarget.service)}
          /\ Goto("done")
       \/ ~AuditArguments /\ Goto("err") /\ UNCHANGED asked
    /\ UNCHANGED <<inputs, envars, confirmed>>

Next ==
    \/ RequireArgs
    \/ LoadServiceDefinition
    \/ LoadTaskDefinition
    \/ MergeEnvars
    \/ EnsureEnvars
    \/ ConfirmStackChange
    \/ Act
    \/ Audit

Spec == Init /\ [][Next]_vars

-----------------------------------------------------------------------------
(* Properties *)

IsString(s) == s # Nil /\ s \in Seq(Char)

\* Every variable stays in its range.
InvocationTypeOK ==
    /\ pc \in Pc
    /\ \A n \in Strings : IsString(envars[n])
    /\ envars.taskDefinitionInput \in BOOLEAN
    /\ \A d \in envars.serviceDefinitionInput : IsString(d.cluster) /\ IsString(d.service)
    /\ \A c \in confirmed : c.name \in Strings \cup {"yes"} /\ IsString(c.value)
    /\ \A a \in asked : IsString(a.cluster) /\ IsString(a.service)

Confirmed(name, value) == [name |-> name, value |-> value] \in confirmed

\* What a command changes without --ci is what the user typed: region, cluster and,
\* for up and rollout, service.  An up confirms the Envars and creates the service
\* of service.json, which differ where the file holds an empty string, and only
\* there (up.go:35, prompt.go:44, command.go:58).
ConfirmedIsChanged ==
    asked # {} /\ ~cmd.ci /\ cmd.name # "audit" =>
        /\ Confirmed("region", envars.region) /\ Confirmed("yes", <<>>)
        /\ \A a \in asked :
              /\ \/ Confirmed("cluster", a.cluster)
                 \/ a.api = "CreateService" /\ a.cluster = <<>>
              /\ \/ Confirmed("service", a.service)
                 \/ a.api = "CreateService" /\ a.service = <<>>
                 \/ a.api = "RunTask"

\* AWS is asked for nothing before everything the command needs is there: names that
\* are not empty, a task definition by one of its two ways (a run dereferences the
\* one of the file), the service definition that --updateService and up read, and
\* waiting times that are not over before they begin (env.go:47, run.go:38).
CompleteBeforeAsking ==
    asked # {} /\ cmd.name # "audit" =>
        /\ <<>> \notin {envars.region, envars.cluster, envars.service}
        /\ envars.taskDefinitionArn = <<>> <=> envars.taskDefinitionInput
        /\ cmd.name = "run" => envars.taskDefinitionInput
        /\ envars.serviceDefinitionInput # {}
        /\ CanaryTaskIdleWait > 0 /\ OtherWaits > 0

\* Every command that is given a directory works on the service that its
\* service.json names, whatever the flags say, so that what is audited is what is
\* rolled out (command.go:58, audit.go:50).
DirectoryDecides ==
    asked # {} /\ cmd.args # 0 =>
        \A a \in asked :
            /\ ServiceDefinition.cluster # <<>> => a.cluster = ServiceDefinition.cluster
            /\ ServiceDefinition.service # <<>> /\ a.api # "RunTask" =>
                   a.service = ServiceDefinition.service

\* A literal in service.json whose variable is not defined.
SomeUndefined ==
    \E i \in DOMAIN FileText :
        /\ IsLiteral(FileText, i)
        /\ NameAt(FileText, i) \in Variable => environ[NameAt(FileText, i)] = Nil

\* A value that is no part of a literal, wherever it is put: there is no ${ in it, nor
\* is there one of its characters and a $ before it or a { behind it.
Inert(value) ==
    LET around == <<Dollar>> \o value \o <<Open>>
    IN  \A i \in 1 .. Len(around) - 1 : ~(around[i] = Dollar /\ around[i + 1] = Open)
InertEnvironment == \A v \in Variable : environ[v] # Nil => Inert(environ[v])

\* Position i of the text is behind the $ of the literal at k, up to its }.
Within(text, k, i) == IsLiteral(text, k) /\ k < i /\ i <= Min(Closings(text, k))

\* Every literal of the text, where it stands in the text, by the value.
AtOnce(text, env) ==
    FlattenSeq([i \in DOMAIN text |->
        IF IsLiteral(text, i) THEN env[NameAt(text, i)]
        ELSE IF \E k \in 1 .. i - 1 : Within(text, k, i) THEN <<>>
        ELSE <<text[i]>>])

\* A file is let through exactly if every variable in it is defined, whatever the
\* values bring in; and as long as no value can be a part of a literal, the replacements
\* one after another are a substitution of every literal of the file at once.  With
\* other values the result depends on the order of the literals in the file: ${W} in
\* the value of V, and a literal that only comes to be when a value, such as $ or the
\* empty string, is put beside the text around it (env.go:131-138).
SubstitutesAtOnce ==
    files.service # Nil =>
        /\ Applied(FileText) = Nil <=> SomeUndefined
        /\ InertEnvironment /\ ~SomeUndefined => Applied(FileText) = AtOnce(FileText, environ)

\* flags.go:21, of --cluster: "if not specified, load from service.json"; so a
\* cluster that was specified would be the one that is used.
FlagsComeFirst ==
    asked # {} /\ "cluster" \in FlagsOf(cmd.name) /\ cmd.flags["cluster"] # <<>> =>
        \A a \in asked : a.cluster = cmd.flags["cluster"]
=============================================================================
