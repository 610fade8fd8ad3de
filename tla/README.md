# Verification of canarycage

canarycage (`cage`) rolls a new task definition out to an Amazon ECS service. Before it updates the
service it starts *canaries*: ECS tasks outside the service, one for each of the service's load
balancers, which have to prove healthy. It also runs one-off tasks, audits the images of a service and
upgrades its own binary. These modules model those commands as the Go code in `src/` carries them out,
check them with TLC and prove their central properties with TLAPS.

## The system

| Part | Code | State | Operations | What is hard |
|---|---|---|---|---|
| canary task | `task/` | ARN, target, loop counters | `Start`, `Wait`, `Stop` | lost replies, polling loops with deadlines, stale replies, order of cleanup |
| task set | `taskset/` | the canaries | `Exec`, `Cleanup` | one goroutine per canary, one failing beside others that go on |
| executor | `rollout/executor.go` | `serviceUpdated`, the error | `RollOut` | update in the middle of a sequence that can fail anywhere, deferred cleanup, swallowed panic |
| cage | `rollout.go`, `task_definition.go`, `up.go`, `run.go` | none | `RollOut`, `Up`, `Run` | state checked by one call and used by a later one |
| upgrade | `cli/cage/upgrade` | files beside the binary | `Upgrade` | a crash between two renames |
| audit | `cli/cage/audit` | scan results, aggregates | `doScan`, `Add`, `Summary`, `Print` | a goroutine that writes the results a cancelled caller returns; merging of findings |
| env, commands, prompt | `env/`, `cli/cage/commands`, `cageapp`, `prompt` | `Envars`, the answers | loading, merging, asking, acting | precedence of flags, files and variables; what was confirmed against what is done |
| logger, wiring, mocks | `logger/`, `cage.go`, `key/`, ... | none | printing, construction | nothing |

The parts interact by direct calls in one process: `cage.RollOut` checks the service and makes the
task definition, the executor builds a task set from the load balancers of the service (or of
`service.json` under `--updateService`), `Exec` starts the canaries one after the other and waits for
all of them in parallel, `UpdateService` follows only if all passed, and a deferred `Cleanup` stops all
canaries in parallel. The commands prepare all of that from flags, the directory and the environment, and
ask the user first. Several of them may work on one service at once. Everything else is AWS: the ECS service and
its deployment, the canaries' tasks, and the target groups. Nothing is persisted; a rollout that dies is not resumed.

What makes each part correct:

- a canary passes `Wait` only with all of its evidence; `Wait` ends; `Stop` leaves nothing without saying so,
  and takes the canary out of its target group before it stops the task;
- the service is updated only when every canary has passed, whatever fails before, between or after;
- a rollout that returns nil has finished the job and left no canary; one that leaves something says so;
- however many rollouts and ups overlap, the service runs only what was tested or what it was created with;
- `Run` reports the exit code of the container and nothing else; `Up` never touches an existing service;
- what a command changes is what the user confirmed, and nothing is asked of AWS before the input is complete;
- `Upgrade` never loses the only working binary, and installs only what the checksum covers;
- `audit` returns what was scanned, or an error; totals count each CVE once, and a report hides no CVE that matters.

## Modules

| Module | Models |
|---|---|
| `CanaryTask` | the canaries: `Start`, `Wait` (simpleTask and albTask) and `Stop`, with ECS and the target group as far as one canary sees them |
| `Rollout` | `cage.RollOut`, the executor and the task set over `CanaryTask`, and the service |
| `CanaryRelease` | what a canary release promises, in five variables; `Rollout` implements it |
| `MC_Rollout` | symmetry and bounds for TLC |
| `RolloutClaims` | what the repository says of a rollout and the code does not do |
| `ServiceCommands` | any number of `cage rollout` and `cage up` on one service, at the level of the calls that touch it; `Rollout` implements it |
| `Upgrade` | `cage upgrade`: the latest release, the download and the swap of the binary |
| `RunTask` | `cage run`: the calls of `doRun` beside the life of the task |
| `AuditScan` | `cage audit` up to its output: the scanning goroutine and `doScan` |
| `AuditReport` | the report of an audit: CVEs, summaries, totals, and what is printed |
| `Invocation` | `up`, `rollout`, `run` and `audit` from the command line to their first call |
| `MC_ServiceCommands`, `MC_Upgrade`, `MC_AuditReport`, `MC_Invocation` | symmetry, releases, replies, flags and files for TLC |
| `CanaryTaskProofs`, `RolloutProofs`, `ServiceCommandsProofs`, `RunTaskProofs`, `UpgradeProofs`, `AuditScanProofs`, `AuditReportProofs`, `InvocationProofs` | the proofs |

### How the state and the actions correspond to the code

A canary has two program counters, `pc` for the goroutine that runs `Start` and `Wait`, `spc` for the
one that runs `Stop`, so that a `Stop` beside a `Wait` could be expressed (it never happens, which is what
`NoLateRegistration` rests on). `taskArn` and `target` are the canaries whose fields are not nil;
`containers`, `rest`, `notHealthyCount` and `recentState` are the locals of the polling loops, with `rest` in
seconds. `ecs` and `tg` are AWS's view: the task's `LastStatus` and its target's membership. `seen` and
`failed` are history: what AWS has reported for a canary, and which of its calls returned an error.

An action is one AWS call with the local code up to the next one; its disjuncts are the replies the
code tells apart: success, an error with or without the call having been applied, and a panic where the
code indexes or dereferences a reply that may be empty. A panic in `Start` unwinds the main goroutine into
the deferred function, which recovers it; a panic in `Wait` is in a goroutine of its own and kills the
process. An SDK waiter is one action: it succeeds in the awaited state only and may give up in any state.
Reads that only find the canary's address, and the read of the deregistration delay, are part of the
action of the call they prepare. `RollOut` gives the executor `context.Background()`, so the `ctx.Done()`
branches are dead code and not modelled.

In `Rollout` the variable `phase` is the main goroutine's program counter, `input` the flag and the load balancers of
`service.json` (`given` tells a missing key from an empty list), `canaries` the task set, `lastErr` and
`serviceUpdated` the executor's. `service` is AWS's: status, task definition, load balancers and
deployment. The world acts at any time: tasks come up and die, targets drain, somebody deregisters a
target, the deployment ends or is rolled back by the circuit breaker, the service is deleted, and the
process is killed. `registered` holds the task definition the rollout has registered, which `CommandSpec` needs.

`ServiceCommands` has the calls of `cage.RollOut` and of `cage.Up` that touch the service, one after the other for
each command, and lets the commands interleave. The canaries of a rollout are one step, `CanariesProve`: AWS has
seen all of them healthy. A task definition is known by the command that registered it; `--taskDefinitionArn` may name the
one of another command. `log` and `readAt` are history: who wrote the service, and when a rollout read it. ECS
accepts an update of an active service and the creation of one that is inactive; a second deployment replaces a
first one that is under way, and a rollback goes back to what was there before both. `Rollout` implements this module with a
single rollout and no up: its canaries are healthy there when `Wait` has passed each of them.

In `Upgrade` a version is its rank in semver's order, `files` what is at the target path, at its `.new` and
`.old` and in the temporary file, and `pc` the next call that may fail. The process may be killed before any
of them; `failedAt` remembers the step. The next upgrade is launched from whatever binary the last one left.
A file that a rename has moved stays moved: losing power with data not yet written is not modelled.

In `RunTask` the waiters are as above, and the task runs, loses its containers one by one, goes down and
stops by itself. Between a container's exit and the task's stop the exit codes of the others are open.

`AuditScan` has a program counter for each goroutine. `named` holds the named results of `doScan`, which the scanning
goroutine's closure assigns. Nothing but the channel orders its accesses and those of the main goroutine, so after a
cancellation there is a data race: a slice and an error are two words each (a slice's capacity is not read), every word
is assigned and read in a step of its own, in any order, and a slice that is read half written may be empty or panic.
`returned` is what `Run` gets. The images are scanned in any order, which nothing
observes. `main.go` passes a context that is never cancelled: only a caller that uses the package cancels.

`AuditReport` has two actions, `Add` and `PrintReport`; everything else is operators over what was added. Names and
severities are the data, since the totals depend on nothing else, and the output is the set of rows, CVEs and
numbers in it.

In `Invocation` a step is a function of the command's `Action`: `RequireArgs`, the two loads, `MergeEnvars`,
`EnsureEnvars`, each question and the calls. A string is a sequence of characters, three of which are `$`,
`{` and `}`, so that the regular expression and `strings.Replace` are what they are: a value may form a literal with the
text beside it. The names of variables are those a shell can set, without these three. The JSON file is its two
keys, each of which may be missing, with a line break between them that no literal spans. `envars` is `input.Envars`;
flags that a command does not have leave their fields empty. The variables behind flags are part of `Flags`: the CLI
library reads them before the command starts.

## Runs

| Run | Bounds | Shows |
|---|---|---|
| `canary_task` | one albTask beside one simpleTask, two containers with health checks, 40 s and 20 s of waiting, limit 5 | `TaskTypeOK`, `WaitNilMeansHealthy`, `LeftTargetIsExplained`, `DrainBeforeStop` |
| `rollout` | two load balancers (zero to two canaries with one, or the simpleTask), one container, one round per loop, limit 1 | `TypeOK`, `CanaryGate`, `NilMeansDone`, `LeftoverIsReported`, `NoLateRegistration`, `ReleaseSpec`, `CommandSpec` |
| `rollout_live` | one load balancer or none, two containers, 40 s and 20 s of waiting, limit 5 | `Terminates`, `EveryCanaryIsStopped` |
| `service_commands` | two rollouts and two ups, any two of them at work; one load balancer or none | `ServiceTypeOK`, `RunsOnlyApproved`, `InstalledAsTested`, `NilMeansInstalled` |
| `upgrade` | up to two releases among a version that is none and two others, pre-releases or not, with and without checksums; installed binaries of five versions; any number of upgrades | `BinarySurvives`, `OnlySwapEndangers`, `NilMeansUpgraded`, `NeverDowngrades` |
| `run_task` | the container of the command and a sidecar | `ResultIsTheExitCode`, `SuccessIsReported`, `NothingLeftRunning`, `RunReturns` |
| `audit_scan` | two images, in ECR or not | `FinishedScanIsReturned`, `OnlyScansAreReported`, `CancelledCommandEnds`, `GoroutineEnds` |
| `audit_report` | two containers, up to two findings of two names or none, every order | `ContainersAreExact`, `TotalCoversLines`, `FirstFindingCounts`, `PrintedIsComplete` |
| `invocation` | the four commands, each flag empty or set; `service.json` missing, without a key, empty, with literals once, twice and in both orders, one without a name, or a `{w}` that becomes a literal behind a `$`; variables plain, empty, undefined, holding a literal or a `$` | `InvocationTypeOK`, `ConfirmedIsChanged`, `CompleteBeforeAsking`, `DirectoryDecides`, `SubstitutesAtOnce` |

40 seconds are two full rounds and a shorter one, which is where the arithmetic of the loops matters; 20
the same for the idle loop, and 10 (in `rollout`) a single shortened round. The detail of the loops is
checked with the numbers of the code in `canary_task` and `rollout_live`; `rollout` needs only that a loop can
pass, fail and time out. Two canaries are enough for what one may do while another fails; the proofs cover any
number. `Focus` in `MC_Rollout` leaves out what AWS does after the process has ended and, under
`--updateService`, the services with none or two load balancers, which then do not determine the canaries.

Two commands are what it takes for one to write between another's read and write; `Focus` in `MC_ServiceCommands`
lets any two of the four start and leaves out the states after a kill, in which the killed command does nothing any more. Two
variables are what it takes for one to stand in the value of another, and a value `$` before `{w}`, with `${w}` in the
same file, for a literal to come from a value and the text beside it.

`RunTypeOK`, `ScanTypeOK`, `ReportTypeOK` and `UpgradeTypeOK` state the ranges of variables that are plain enough without
a run of their own; the first and the last are proved, as `RunTypeCorrect` and in `UpgradeTypes`.

Two releases are what it takes for a list out of order and for one release to follow another during an upgrade;
the five installed versions lie below, among and above them. Two findings in one image and one in another are
what it takes for a CVE to be repeated within an image and across images. The runs that allow the system to
stop (`CHECK_DEADLOCK FALSE`) are those of commands that end; an upgrade that has failed in the swap has left no
binary that could be launched again.

Fairness: a goroutine that can go on does (the Go scheduler), and a timer fires. Nothing is assumed of AWS
except one thing: `DescribeTargetHealth` does not say `initial` for ever. The code does not bound those
rounds (`alb_task.go:209`), so without this assumption a rollout need not end. In the model such a round is
a stuttering step, and weak fairness of the poll excludes it. `RunTask` assumes that its calls return, the waiters
by their deadlines, and nothing of the task. `AuditScan` assumes that both goroutines go on, and nothing of the
calls to AWS: a scan may hang.

### Disagreements between the repository and the code

These are runs that TLC finds violated; `RolloutClaims`, `AuditScan` and `Invocation` quote the sentence.

| Run | What happens |
|---|---|
| `nilMeansUpdated` | a panic in `Start` is swallowed and the rollout "has completed successfully" with the service untouched |
| `allClearIsTrue` | the goroutine overwrites the error of a cancellation before it is read: a cancelled audit returns neither results nor an error, and prints "No CVEs found" |
| `flagsComeFirst` | `--cluster` is documented as coming before `service.json`; `MergeEnvars` lets the file overwrite it |

Others have no run of their own; the passing properties state what holds instead:

| Code | What happens | What holds |
|---|---|---|
| `task/alb_task.go:259` | README.md:86 has the canary deregistered whatever its health; a failed `DeregisterTargets` is only logged, and the rollout succeeds with the target still there | `LeftTargetIsExplained` |
| `rollout/executor.go:71` | README.md:92 updates the service with `service.json`; without `loadBalancers` in it, the canary is tested outside the load balancers that the service keeps | `InstalledAsTested` |
| `rollout/executor.go:84` | executor.go:93 reports "successfully rolled out" of a stable service; after a rollback by the circuit breaker (README.md:168) it is stable too | `NilMeansDone` |
| `cli/cage/audit/command.go:59` | command_test.go:138 expects `context.Canceled`; when the scan ends before the select looks, both of its cases are ready and it may take the results; after a cancellation the results may also be read half written, an empty list or a panic with a nil error | `FinishedScanIsReturned`, `OnlyScansAreReported` |
| `cli/cage/audit/printer.go:43` | README.md:108 has a table with the status of each container; without a CVE there is none, and an image that could not be scanned is not mentioned | `PrintedIsComplete` |
| `rollout/executor.go:78` | rollout.go:23 reports whether the service was changed; an update whose reply is lost is reported as "not changed" | `LeftoverIsReported`, `NilMeansDone` |
| `rollout/executor.go:41` | the deferred `Cleanup` stops the canaries; a panic in a `Wait` goroutine (taskset.go:53) ends the process without it | `EveryCanaryIsStopped` (unless the process dies) |
| `cli/cage/audit/aggregator.go:30` | aggregator_test.go:214 has the highest severity of all findings; a CVE with two severities counts with the first, which may be the lower | `FirstFindingCounts`, `TotalCoversLines` |
| `env/env.go:135` | literals are replaced one after another, also in values put in before and where a value (a `$`, a `{`, the empty string) forms a literal with the text beside it, so that the result depends on their order in the file | `SubstitutesAtOnce` |
| `cli/cage/commands/command.go:59` | a `service.json` without `cluster` or `serviceName` is a panic here, and an error in `audit` | `InvocationTypeOK` |

## Proofs

`CanaryTaskProofs` proves, for any set of canaries and containers and any waiting times and limit:

- `TaskTypeCorrect`: `TaskSpec => []TaskTypeOK`;
- `WaitIsSound`: `TaskSpec => []WaitNilMeansHealthy`;
- `LeftTargetExplained`: `TaskSpec => []LeftTargetIsExplained`;
- `DrainsBeforeStop`: `TaskSpec => DrainBeforeStop`.

`RolloutProofs` proves, for any number of load balancers:

- `TypeCorrect`: `Spec => []TypeOK`;
- `GateHolds`: `Spec => []CanaryGate`;
- `NilIsDone`: `Spec => []NilMeansDone`;
- `LeftoverIsSaid`: `Spec => []LeftoverIsReported`;
- `RolloutLeavesNoTarget`: `Spec => []LeftTargetIsExplained`;
- `NeverLate`: `Spec => NoLateRegistration`;
- `ImplementsRelease`: `Spec => ReleaseSpec`, the rollout implements `CanaryRelease`;
- `ImplementsCommands`: `Spec => CommandSpec`, the rollout implements `ServiceCommands`.

`TaskTypeOK` alone is not inductive: the count stays within its limit only because a round starts below it, and
`WaitNilMeansHealthy` needs the evidence of every earlier stage. `Gathered` states both: at each stage of `Wait`
which evidence is there, that the container loop is left only with no container to wait for, and that the state
kept between two rounds of the target loop is never `healthy`, so that a reply without the target cannot pass a
canary. There is one lemma per action for types and one for `Gathered`; `GatheredFrame` says that a step of one
canary leaves the evidence of the others alone.

`Drained` is the strengthening behind the two properties of the target: only a canary that has kept its target
registers it, so that its `Stop` starts with the deregistration; no `Wait` goes on beside a `Stop`; and `Stop` comes past
the deregistration only with the target gone or a failed call. The second of these is a fact about the caller: the
canaries on their own have it because they call `Stop` after `Wait` (`Ended`), those of a rollout because `Exec`
waits for all of its goroutines (`Ordered`). So `LeftTargetIsExplained` is proved of both specifications, from the same
lemmas about the actions.

For the gate, `Gated` relates the main goroutine to the canaries: the service is the old one up to the update, the
update is tried only with every canary through, and that is so whenever the service is new. It holds on
because no step of `Wait` starts from `ok` (`OkStays`) and the set of canaries does not change after `StartCanaryTasks`.

`Honest` is the strengthening of `NilMeansDone`: from the update on the service is the updated one or was rolled back,
and after the waiter a missing error says that this has happened or that a panic was swallowed. `Tracked` is that of
`LeftoverIsReported`: a task that the rollout knows of is in ECS, one that it does not know of comes from a `RunTask`
without a reply, a `Stop` ends well only with its task stopped, and `Cleanup` has ended every `Stop` and heard of
every failed one when `RollOut` returns.

`Ordered` says which phase the canaries are in: only members of the set are started, and no goroutine of `Wait` is left
outside of the phase `wait`, unless the process has died. With `Tracked`, which has no `Stop` before `Cleanup`, it gives
`NeverLate`: what registers a target is a step of `Wait`, and no `Stop` has begun then. `Served` relates the service to what
the executor knows of it: `serviceUpdated` is set only after the update has been applied, and an update that was applied
without its being known comes with an error.

The two refinements are proved step by step under all of these invariants (`RInv`), through the refinement mappings of the
`INSTANCE ... WITH` that TLC checks: each action of the rollout is an action of the abstract specification or leaves
its variables alone. For `CanaryRelease`, a `Wait` that passes approves its canary, an applied update of the service
is the switch, which needs every canary approved (`Gated`), and `RollOut` returns with the outcome that the service and the
canaries left demand (`Honest`, `Tracked`). For `ServiceCommands`, the last `Wait` to pass is `CanariesProve` and the others
are stutters, and the death of the process, by a signal or by the panic of a goroutine, is the command's `Killed`.

`ServiceCommandsProofs` proves, for any number of rollouts and ups and any load balancers:

- `ServiceTypeCorrect`: `Spec => []ServiceTypeOK`;
- `OnlyApprovedRuns`: `Spec => []RunsOnlyApproved`;
- `InstalledIsTested`: `Spec => []InstalledAsTested`;
- `NilIsInstalled`: `Spec => []NilMeansInstalled`.

Its invariant adds three parts. `Order` says what a command has at each of its calls: a task definition from its registration
on, healthy canaries at its update, and no write before it. `Reading` says that what the canaries of a rollout stand in is
what the service has as long as the log has not grown since; `Honest` that a command without an error has written. Most
steps do not write the service and are handled together (`QuietMoveInv`); an update and a creation are
two cases of one lemma (`InstallsInv`).

`RunTaskProofs` proves, for any set of containers:

- `RunTypeCorrect`: `Spec => []RunTypeOK`;
- `ResultIsRight`: `Spec => []ResultIsTheExitCode`;
- `SuccessIsSaid`: `Spec => []SuccessIsReported`;
- `NothingIsLeft`: `Spec => []NothingLeftRunning`.

They are inductive together, with `Seen`: there is no task before `RunTask`, and the last `DescribeTasks` comes after a
waiter that has seen the task stopped, unless a call failed.

`UpgradeProofs` proves, for any versions, release lists and sequence of upgrades:

- `SomeBinarySurvives`: `Spec => []BinarySurvives`;
- `OnlyTheSwapEndangers`: `Spec => []OnlySwapEndangers`;
- `NilUpgradeIsDone`: `Spec => []NilMeansUpgraded`;
- `UpgradesOnly`: `Spec => []NeverDowngrades`.

Beside the types (`UpgradeTypes`), `SwapInv` says which files are there at each step of the swap. A failure or a kill
leaves the files as they were, so the invariant is stated over `At`, the step an upgrade is at or ended at
(`StoppingKeeps`); that a launch finds the files of a step before the swap follows from `Runnable`.

`AuditScanProofs` proves, for any set of images:

- `ScanIsReturned`: `Spec => []FinishedScanIsReturned`;
- `OnlyScansReported`: `Spec => []OnlyScansAreReported`.

`Ordered` is the order that the channel gives as long as the context is live: a value in it means that all words were
assigned, and the main goroutine goes on only after one. After a cancellation there is no order, and `ErrorStays` is what
remains: unless the scan has succeeded, both goroutines assign errors that are not nil, so that the type of `err`,
once either of them has assigned it, is never nil again, whichever of the writes is the last and whichever is read.

`AuditReportProofs` proves, for any containers, replies and order of adding:

- `ContainersExact`: `Spec => []ContainersAreExact`;
- `FirstFindingIsKept`: `Spec => []FirstFindingCounts`;
- `TotalCovers`: `Spec => []TotalCoversLines`;
- `PrintedComplete`: `Spec => []PrintedIsComplete`.

The first is inductive once it is known that both maps have the same names. For the second, `Add` brings many findings at
once, of which the first of each name has to be found: every set of positions has a least element (`Least`). The other two
follow from the second, from `Summarised`, what is known of the lines, and from `Closed`, that nothing is added after
printing; they compare cardinalities of sets of names. `Partition` says that the names are the disjoint union of those of each
severity and of those without one, which is by how much the total may exceed the counts beside it.

`InvocationProofs` proves, for any flags, files and environments:

- `ChangedIsConfirmed`: `Spec => []ConfirmedIsChanged`;
- `CompleteWhenAsking`: `Spec => []CompleteBeforeAsking`;
- `DirectoryWins`: `Spec => []DirectoryDecides`;
- `SubstitutionAtOnce`: `Spec => []SubstitutesAtOnce`;
- `InvocationTyped`: `Spec => []InvocationTypeOK`.

`Loaded`, `Agrees` and `Answered` say what `Envars` holds after each step, that after the merge it differs from
`service.json` only where that has an empty string, and which answers the later questions rest on. What the replacement
of variables yields plays no part in them, nor in `DirectoryWins`, for which it is enough that every reading of the
unchanged files and environment gives the same (`SameDirectory`, `Directed`).

The last two theorems are about what the replacements yield, for a `service.json` of any length. `Replace` flattens a
sequence of strings and `ApplyEnvars` is a fold over the text, so both need induction. The library's induction theorems take an
operator as a parameter, which the provers cannot instantiate; here induction is about sets and functions instead.
`Least` finds the least element of a set of numbers by the well-foundedness of inclusion among finite sets, `Induction` is
about a set that contains 0 and is closed under successor, and `Recursion` gives the function that its value at 0 and a
function for each step define. With them `FlattenPrefixes` and `FlattenIs` say what `FlattenSeq` yields, and `FoldSteps`
what `ApplyEnvars` does. A `Layout` says where in a flattened string each of its parts stands, and `Regroup` that
flattening is the same when some of the parts are first put together.

`Put(text, D, e)` substitutes for the literals of a set `D` of names at once. The main step, `PutReplace`, is that replacing
the literal of a further name in it is `Put` for `D` and that name. It needs that the literal occurs in the string exactly
where it stands in the text: `StandsInPut` has one direction, and `StandsInText` the other, in which an inert value matters.
An occurrence begins with `${`; an inert value is not empty, holds no `${`, does not end with `$` and does not begin with
`{` (`InertValue`), so that both characters come from the text and stand side by side in it, and the text from there on to the
first `}` is kept as it is (`NotNested`, `StaysWithin`). `Substitution` is then an induction over the text: after its
first positions the string is the one with the names of the literals among them put in, or `Nil` once one of them was
undefined. That nothing else lets a file fail needs no inert values (`FailsIfUndefined`). The types rest on `ApplyType`, and
on the definition of `service.json` being read only where the file is there (`TInv`).

The assumptions are those on the constants (`TaskAssumption`, `RolloutAssumption`, `ServiceAssumption`,
`RunAssumption`, `UpgradeAssumption`, `ReportAssumption`, `InvocationAssumption`): waits and the highest version are
natural numbers, the limit is positive, the simpleTask is not a load balancer's, no command is both a rollout and an
up or one of the two task definitions that no command registers, the container asked for is a name, release lists are
lists of releases, the replies of a scan have an error and lists of findings, flags are strings, values are strings or
not there, `$`, `{` and `}` are three characters and the names of variables hold none of them, and the absence of a
file is not a file.

Only model-checked are the five liveness properties (`Terminates`, `EveryCanaryIsStopped`, `RunReturns`,
`CancelledCommandEnds`, `GoroutineEnds`), which are beyond the prover. Every invariant, action property and refinement
of a passing run is proved as well.

## Not modelled, and what is next

`PROJECT.json` lists every component with its status. In order:

1. the part of liveness that is within reach of the prover: a rank that every step of a canary lowers except a poll that
   finds its target `initial`; and what the replacements come to when a value holds a literal or forms one, where
   `PutReplace` fails and the result depends on the order of the literals in the file;
2. two upgrades of one binary at once. They share the names `.new` and `.old`, and on Linux `os.Executable` yields
   the path the running binary has been moved to by then, so that one may work on `cage.old` while the other works on
   `cage`; the model takes the path of the launch, which is right as long as there is one upgrade;
3. the parsing of image names in `audit` (`ecs.go`).

Left out for good: the parsing of the command line by the CLI library, logging and layout, dependency injection,
generated mocks and the fakes of the tests.
