------------------------------ MODULE RunTask ------------------------------
(***************************************************************************)
(* `cage run` (run.go): one task is started with a command for one of its  *)
(* containers, is waited for until it runs, then until it stops, and the   *)
(* exit code of that container is the result.  The task lives its own life *)
(* on ECS: it may be over before it was ever seen running.                 *)
(***************************************************************************)
CONSTANTS
    Names,      \* what containers are called
    Container   \* the container of the command, input.Container

ASSUME RunAssumption == Container \in Names

VARIABLES
    pc,          \* the next call of doRun, or how it ended
    definition,  \* the containers of task-definition.json
    status,      \* ECS: the LastStatus of the task, "none" while there is no task
    exitCode,    \* ECS: how each container has exited, "nil" while it has not
    failed       \* history: the calls that failed or gave up

vars == <<pc, definition, status, exitCode, failed>>

Calls == {"RegisterTaskDefinition", "RunTask", "RunningWaiter", "DescribeTasks", "StoppedWaiter"}
Ended == {"result", "err", "panicked"}
Status == {"none", "PENDING", "RUNNING", "DEPROVISIONING", "STOPPED"}
ExitCode == {"nil", "zero", "nonzero"}

Init ==
    /\ pc = "RegisterTaskDefinition"
    /\ definition \in SUBSET Names
    /\ status = "none"
    /\ exitCode = [c \in Names |-> "nil"]
    /\ failed = {}

-----------------------------------------------------------------------------
(* doRun *)

\* A call fails and doRun returns its error.
CallFails(call) ==
    /\ pc' = "err"
    /\ failed' = failed \cup {call}

\* The container is checked before anything is created.
CreateNextTaskDefinition ==
    /\ pc = "RegisterTaskDefinition"
    /\ \/ Container \in definition /\ pc' = "RunTask" /\ UNCHANGED failed
       \/ Container \notin definition /\ pc' = "err" /\ UNCHANGED failed
       \/ Container \in definition /\ CallFails("RegisterTaskDefinition")
    /\ UNCHANGED <<definition, status, exitCode>>

\* RunTask starts the task, maybe without an answer, or answers without a task,
\* which o.Tasks[0] does not survive.
StartTask ==
    /\ pc = "RunTask"
    /\ \/ status' = "PENDING" /\ pc' = "RunningWaiter" /\ UNCHANGED failed
       \/ status' \in {"none", "PENDING"} /\ CallFails("RunTask")
       \/ status' = "none" /\ pc' = "panicked" /\ UNCHANGED failed
    /\ UNCHANGED <<definition, exitCode>>

\* Mutant of WaitForRunning: a failed wait is an error at once.
WaitForRunningOnly ==
    /\ pc = "RunningWaiter"
    /\ \/ status = "RUNNING" /\ pc' = "StoppedWaiter" /\ UNCHANGED failed
       \/ status = "STOPPED" /\ pc' = "err" /\ UNCHANGED failed
       \/ CallFails("RunningWaiter")
    /\ UNCHANGED <<definition, status, exitCode>>

\* Mutant of WaitForRunning: what has been seen running is looked at once.
WaitForRunningThenLook ==
    /\ pc = "RunningWaiter"
    /\ \/ status \in {"RUNNING", "STOPPED"} /\ pc' = "DescribeTasks" /\ UNCHANGED failed
       \/ pc' = "DescribeTasks" /\ failed' = failed \cup {"RunningWaiter"}
    /\ UNCHANGED <<definition, status, exitCode>>

\* TasksRunningWaiter: the task was seen running, or it has stopped, or the
\* waiter gives up.  After either failure the task is looked at once more.
WaitForRunning ==
    /\ pc = "RunningWaiter"
    /\ \/ status = "RUNNING" /\ pc' = "StoppedWaiter" /\ UNCHANGED failed
       \/ status = "STOPPED" /\ pc' = "DescribeTasks" /\ UNCHANGED failed
       \/ pc' = "DescribeTasks" /\ failed' = failed \cup {"RunningWaiter"}
    /\ UNCHANGED <<definition, status, exitCode>>

\* Mutant of CheckTaskStopped: the exit code of any container.
CheckTaskStoppedAny(c) ==
    pc' = IF \E d \in definition : exitCode[d] = "zero" THEN "result" ELSE "err"

\* checkTaskStopped: the exit code of the container, 0 or an error.
CheckTaskStopped(c) ==
    pc' = IF c \in definition /\ exitCode[c] = "zero" THEN "result" ELSE "err"

\* After a failed wait: no answer, an answer without the task, a task that has
\* not stopped, or one that has.
DescribeAfterFailedWait ==
    /\ pc = "DescribeTasks"
    /\ \/ CallFails("DescribeTasks")
       \/ status # "STOPPED" /\ pc' = "err" /\ UNCHANGED failed
       \/ status = "STOPPED" /\ CheckTaskStopped(Container) /\ UNCHANGED failed
    /\ UNCHANGED <<definition, status, exitCode>>

\* Mutant of WaitForStopped: the waiter has no deadline.
WaitForStoppedForEver ==
    /\ pc = "StoppedWaiter"
    /\ status = "STOPPED" /\ CheckTaskStopped(Container)
    /\ UNCHANGED <<definition, status, exitCode, failed>>

\* TasksStoppedWaiter: the task has stopped, or the waiter gives up.
WaitForStopped ==
    /\ pc = "StoppedWaiter"
    /\ \/ status = "STOPPED" /\ CheckTaskStopped(Container) /\ UNCHANGED failed
       \/ CallFails("StoppedWaiter")
    /\ UNCHANGED <<definition, status, exitCode>>

DoRun == CreateNextTaskDefinition \/ StartTask \/ WaitForRunning
         \/ DescribeAfterFailedWait \/ WaitForStopped

-----------------------------------------------------------------------------
(* ECS *)

\* The task comes up.
TaskRuns ==
    /\ status = "PENDING"
    /\ status' = "RUNNING"
    /\ UNCHANGED <<pc, definition, exitCode, failed>>

\* A container of the running task exits.
ContainerExits(c) ==
    /\ status = "RUNNING"
    /\ c \in definition
    /\ exitCode[c] = "nil"
    /\ \E code \in {"zero", "nonzero"} : exitCode' = [exitCode EXCEPT ![c] = code]
    /\ UNCHANGED <<pc, definition, status, failed>>

\* The task never comes up.
TaskFailsToStart ==
    /\ status = "PENDING"
    /\ status' = "STOPPED"
    /\ UNCHANGED <<pc, definition, exitCode, failed>>

\* The task goes down once a container has exited, or because it is told to.
TaskGoesDown ==
    /\ status = "RUNNING"
    /\ status' = "DEPROVISIONING"
    /\ UNCHANGED <<pc, definition, exitCode, failed>>

\* The task has stopped, and with it every container that was still running.
TaskStops ==
    /\ status = "DEPROVISIONING"
    /\ status' = "STOPPED"
    /\ exitCode' \in {codes \in [Names -> ExitCode] :
          \A c \in Names : (c \notin definition \/ exitCode[c] # "nil") => codes[c] = exitCode[c]}
    /\ UNCHANGED <<pc, definition, failed>>

Next == DoRun \/ TaskRuns \/ TaskFailsToStart \/ (\E c \in Names : ContainerExits(c))
        \/ TaskGoesDown \/ TaskStops

Spec == Init /\ [][Next]_vars

\* Every call returns, the waiters by their deadlines.
FairSpec == Spec /\ WF_vars(DoRun)

-----------------------------------------------------------------------------
(* Properties *)

\* Types of the run and of the task.
RunTypeOK ==
    /\ pc \in Calls \cup Ended
    /\ definition \subseteq Names
    /\ status \in Status
    /\ exitCode \in [Names -> ExitCode]
    /\ failed \subseteq Calls

\* A result is the exit code 0 of the container that was asked for, in a task
\* that has stopped: no other container's, and none that was still running.
ResultIsTheExitCode ==
    pc = "result" => status = "STOPPED" /\ exitCode[Container] = "zero"

\* A command that has succeeded is reported as failed only if a call failed or
\* a waiter gave up: being over before it was seen running is no reason.
SuccessIsReported ==
    pc = "err" /\ exitCode[Container] = "zero" => failed # {}

\* A run without any failing call has not left its task behind: when it ends,
\* the task has stopped, or there is none.
NothingLeftRunning ==
    pc \in Ended /\ failed = {} => status \in {"none", "STOPPED"}

\* A run returns, whatever becomes of the task.
RunReturns == <>(pc \in Ended)
=============================================================================
