--------------------------- MODULE RunTaskProofs ---------------------------
(***************************************************************************)
(* The properties of a run for any set of containers.  They hang together: *)
(* what is reported without a failed call is right only because the task   *)
(* has stopped by then, or was never started.                              *)
(***************************************************************************)
EXTENDS RunTask, TLAPS

\* What each step of doRun may rely on: no task before RunTask, a task that has
\* stopped after a wait that saw it so, and no exit code of a container that the
\* task does not have.
Seen ==
    /\ pc \in {"RegisterTaskDefinition", "RunTask"} => status = "none"
    /\ pc = "DescribeTasks" /\ failed = {} => status = "STOPPED"
    /\ Container \notin definition => exitCode[Container] = "nil"

IInv ==
    /\ RunTypeOK
    /\ Seen
    /\ ResultIsTheExitCode
    /\ SuccessIsReported
    /\ NothingLeftRunning

LEMMA InitInv == Init => IInv
BY RunAssumption DEF Init, IInv, RunTypeOK, Seen, ResultIsTheExitCode, SuccessIsReported,
   NothingLeftRunning, Calls, Ended, Status, ExitCode

\* The steps of doRun change neither the definition nor an exit code.
LEMMA DoRunInv ==
    ASSUME IInv, DoRun
    PROVE  IInv'
<1> USE DEF IInv, RunTypeOK, Seen, ResultIsTheExitCode, SuccessIsReported, NothingLeftRunning,
            Calls, Ended, Status, CallFails
<1>1. CASE CreateNextTaskDefinition
  BY <1>1 DEF CreateNextTaskDefinition
<1>2. CASE StartTask
  BY <1>2 DEF StartTask
<1>3. CASE WaitForRunning
  BY <1>3 DEF WaitForRunning
<1>4. CASE DescribeAfterFailedWait
  BY <1>4 DEF DescribeAfterFailedWait, CheckTaskStopped
<1>5. CASE WaitForStopped
  BY <1>5 DEF WaitForStopped, CheckTaskStopped
<1> QED
  BY <1>1, <1>2, <1>3, <1>4, <1>5 DEF DoRun

\* What the task does by itself it does only while it is on its way, when no run
\* has ended without a failed call.
LEMMA TaskInv ==
    ASSUME IInv,
           TaskRuns \/ TaskFailsToStart \/ (\E c \in Names : ContainerExits(c))
               \/ TaskGoesDown \/ TaskStops
    PROVE  IInv'
<1> USE DEF IInv, RunTypeOK, Seen, ResultIsTheExitCode, SuccessIsReported, NothingLeftRunning,
            Calls, Ended, Status
<1>1. CASE TaskRuns
  BY <1>1 DEF TaskRuns
<1>2. CASE TaskFailsToStart
  BY <1>2 DEF TaskFailsToStart
<1>3. CASE \E c \in Names : ContainerExits(c)
  <2>1. PICK c \in definition : ContainerExits(c)
    BY <1>3 DEF ContainerExits
  <2>2. exitCode' \in [Names -> ExitCode] /\ \A d \in Names \ {c} : exitCode'[d] = exitCode[d]
    BY <2>1 DEF ContainerExits, ExitCode
  <2> QED
    BY <2>1, <2>2, RunAssumption DEF ContainerExits
<1>4. CASE TaskGoesDown
  BY <1>4 DEF TaskGoesDown
<1>5. CASE TaskStops
  <2>1. exitCode' \in [Names -> ExitCode]
        /\ \A c \in Names : c \notin definition \/ exitCode[c] # "nil" => exitCode'[c] = exitCode[c]
    BY <1>5 DEF TaskStops
  <2> QED
    BY <1>5, <2>1, RunAssumption DEF TaskStops
<1> QED
  BY <1>1, <1>2, <1>3, <1>4, <1>5

LEMMA NextInv == IInv /\ [Next]_vars => IInv'
<1> SUFFICES ASSUME IInv, [Next]_vars PROVE IInv'
  OBVIOUS
<1>1. CASE Next
  BY <1>1, DoRunInv, TaskInv DEF Next
<1>2. CASE UNCHANGED vars
  BY <1>2 DEF vars, IInv, RunTypeOK, Seen, ResultIsTheExitCode, SuccessIsReported,
              NothingLeftRunning
<1> QED
  BY <1>1, <1>2

LEMMA AlwaysInv == Spec => []IInv
BY InitInv, NextInv, PTL DEF Spec

\* The variables of a run and of its task stay in their ranges (run.go:37-101).
THEOREM RunTypeCorrect == Spec => []RunTypeOK
<1>1. IInv => RunTypeOK
  BY DEF IInv
<1> QED
  BY <1>1, AlwaysInv, PTL

\* The result of a run is the exit code 0 of the container that was asked for, in a
\* task that has stopped, however many containers it has (run.go:103-119).
THEOREM ResultIsRight == Spec => []ResultIsTheExitCode
<1>1. IInv => ResultIsTheExitCode
  BY DEF IInv
<1> QED
  BY <1>1, AlwaysInv, PTL

\* A command that has succeeded is reported as failed only after a failed call: also
\* one that was over before it was seen running (run.go:68-90).
THEOREM SuccessIsSaid == Spec => []SuccessIsReported
<1>1. IInv => SuccessIsReported
  BY DEF IInv
<1> QED
  BY <1>1, AlwaysInv, PTL

\* Without a failed call a run has not left its task behind (run.go:59-101).
THEOREM NothingIsLeft == Spec => []NothingLeftRunning
<1>1. IInv => NothingLeftRunning
  BY DEF IInv
<1> QED
  BY <1>1, AlwaysInv, PTL
=============================================================================
