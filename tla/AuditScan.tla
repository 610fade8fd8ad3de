----------------------------- MODULE AuditScan -----------------------------
(***************************************************************************)
(* `cage audit` up to its report (cli/cage/audit: command.go, scanner.go,  *)
(* ecs.go, ecr.go).  doScan starts a goroutine that scans the images of a  *)
(* service and assigns doScan's own named results; the main goroutine      *)
(* waits for it or for the cancellation of the context, and then returns   *)
(* those results.  After a cancellation both goroutines use them, and      *)
(* nothing orders the accesses, which is a data race: a slice and an error *)
(* are more than one word each, and every interleaving of the accesses to  *)
(* the words, in any order, is a step here.                                *)
(***************************************************************************)

CONSTANT Image   \* the containers of the service's task definition

VARIABLES
    ecr,        \* the images in an ECR registry
    json,       \* the --json flag
    ctx,        \* the context
    scanPc,     \* the scanning goroutine
    found,      \* its findingsList: what is known of each image
    scanned,    \* what Scan has returned
    waiter,     \* the channel, with a buffer of one
    mainPc,     \* the main goroutine
    named,      \* the named results of doScan, shared by both goroutines
    scanLeft,   \* the words that the scanning goroutine has still to assign
    mainLeft,   \* the words that the main goroutine has still to assign or to read
    returned,   \* what doScan returns
    output      \* what Run prints or returns

scanVars == <<ecr, json, scanPc, scanLeft, found, scanned>>
mainVars == <<mainPc, mainLeft, returned, output>>
vars == <<ecr, json, ctx, scanPc, found, scanned, waiter, mainPc, named, scanLeft, mainLeft,
          returned, output>>

\* The words of a slice, and those of an error.
Slice == {"array", "length"}
Interface == {"type", "value"}
Word == Slice \cup Interface

\* results is nil or the findingsList; err is nil, the error of the scan or ctx.Err().
\* A word tells which of them it belongs to.
Results == {"nil", "list"}
Err == {"nil", "failed", "canceled"}
Pair(results, err) == [w \in Word |-> IF w \in Slice THEN results ELSE err]
Memory == [Word -> Results \cup Err]
Finding == {"unknown", "non-ECR", "failed", "scan not found", "clean", "CVEs"}

Init ==
    /\ ecr \in SUBSET Image
    /\ json \in BOOLEAN
    /\ ctx = "live"
    /\ scanPc = "images"
    /\ found = [i \in Image |-> "unknown"]
    /\ scanned = Pair("nil", "nil")
    /\ waiter = "empty"
    /\ mainPc = "select"
    /\ named = Pair("nil", "nil")
    /\ scanLeft = Word
    /\ mainLeft = Word
    /\ returned = Pair("nil", "nil")
    /\ output = "none"

-----------------------------------------------------------------------------
(* The scanning goroutine *)

ScanReturns(results, err) ==
    /\ scanned' = Pair(results, err)
    /\ scanPc' = "assign"

\* GetServiceImageInfos: an error, no service, no task definition or none of
\* its containers end the scan.
GetServiceImageInfos ==
    /\ scanPc = "images"
    /\ \/ ScanReturns("nil", "failed")
       \/ scanPc' = "scan" /\ UNCHANGED scanned
    /\ UNCHANGED <<ecr, json, ctx, found, waiter, named, scanLeft, mainVars>>

\* The image's manifest, and in a list of manifests the one of the architecture.
GetActualImageIdentifier == {"failed", "image"}

\* An image that was never scanned is told apart from other errors.
GetImageScanFindings == {"failed", "scan not found", "clean", "CVEs"}

\* scanImage keeps an error with its image, and the scan goes on.
ScanImage(i) ==
    /\ scanPc = "scan"
    /\ found[i] = "unknown"
    /\ \E id \in GetActualImageIdentifier, f \in GetImageScanFindings :
          found' = [found EXCEPT ![i] = IF i \notin ecr THEN "non-ECR"
                                        ELSE IF id = "failed" THEN "failed"
                                        ELSE f]
    /\ UNCHANGED <<ecr, json, ctx, scanPc, scanned, waiter, named, scanLeft, mainVars>>

ScanEnds ==
    /\ scanPc = "scan"
    /\ \A i \in Image : found[i] # "unknown"
    /\ ScanReturns("list", "nil")
    /\ UNCHANGED <<ecr, json, ctx, found, waiter, named, scanLeft, mainVars>>

\* Mutant of Assigned: results is declared anew and hides doScan's.
AssignedHidden(w) == IF w \in Slice THEN named[w] ELSE scanned[w]
Assigned(w) == scanned[w]

\* results, err = scanner.Scan(...)
AssignResults ==
    /\ scanPc = "assign"
    /\ \E w \in scanLeft :
          /\ named' = [named EXCEPT ![w] = Assigned(w)]
          /\ scanLeft' = scanLeft \ {w}
    /\ scanPc' = IF scanLeft' = {} THEN "send" ELSE "assign"
    /\ UNCHANGED <<ecr, json, ctx, found, scanned, waiter, mainVars>>

\* Mutant of Send: the channel has no buffer.
SendUnbuffered ==
    /\ scanPc = "send"
    /\ mainPc = "select"
    /\ waiter' = "full"
    /\ scanPc' = "close"
    /\ UNCHANGED <<ecr, json, ctx, found, scanned, named, scanLeft, mainVars>>

\* The buffer takes the one value that is ever sent, whether anyone waits or not.
Send ==
    /\ scanPc = "send"
    /\ waiter' = "full"
    /\ scanPc' = "close"
    /\ UNCHANGED <<ecr, json, ctx, found, scanned, named, scanLeft, mainVars>>

Close ==
    /\ scanPc = "close"
    /\ waiter' = "closed"
    /\ scanPc' = "ended"
    /\ UNCHANGED <<ecr, json, ctx, found, scanned, named, scanLeft, mainVars>>

-----------------------------------------------------------------------------
(* doScan and Run.  The ticks of the spinner change nothing. *)

\* case <-waiter: the results are returned as they are.
ScanIsDone ==
    /\ mainPc = "select"
    /\ waiter # "empty"
    /\ mainPc' = "read"
    /\ UNCHANGED <<scanVars, ctx, waiter, named, mainLeft, returned, output>>

\* Mutant of ContextIsDone: a bare return, as in the other case.
ContextIsDoneBare ==
    /\ mainPc = "select"
    /\ ctx # "live"
    /\ mainPc' = "read"
    /\ UNCHANGED <<scanVars, ctx, waiter, named, mainLeft, returned, output>>
\* Mutant of ContextIsDone: noticed only when the scan is over.
ContextIsDoneLate ==
    /\ mainPc = "select"
    /\ ctx # "live" /\ scanPc = "ended"
    /\ mainPc' = "assign"
    /\ UNCHANGED <<scanVars, ctx, waiter, named, mainLeft, returned, output>>
\* case <-ctx.Done(): return nil, ctx.Err() assigns the named results first.
ContextIsDone ==
    /\ mainPc = "select"
    /\ ctx # "live"
    /\ mainPc' = "assign"
    /\ UNCHANGED <<scanVars, ctx, waiter, named, mainLeft, returned, output>>

AssignCtxErr ==
    /\ mainPc = "assign"
    /\ \E w \in mainLeft :
          /\ named' = [named EXCEPT ![w] = Pair("nil", "canceled")[w]]
          /\ \/ mainLeft # {w} /\ mainLeft' = mainLeft \ {w} /\ UNCHANGED mainPc
             \/ mainLeft = {w} /\ mainLeft' = Word /\ mainPc' = "read"
    /\ UNCHANGED <<scanVars, ctx, waiter, returned, output>>

\* After the deferred PrintErrf the named results are read and handed to the caller.
ReadResults ==
    /\ mainPc = "read"
    /\ \E w \in mainLeft :
          /\ returned' = [returned EXCEPT ![w] = named[w]]
          /\ mainLeft' = mainLeft \ {w}
    /\ mainPc' = IF mainLeft' = {} THEN "report" ELSE "read"
    /\ UNCHANGED <<scanVars, ctx, waiter, named, output>>

\* An error is nil if its type is; a slice is walked along its length, and one with
\* a length and no array panics.
NoError == returned["type"] = "nil"
Torn == returned["length"] = "list" /\ returned["array"] = "nil"
HasCves ==
    /\ returned["length"] = "list" /\ returned["array"] = "list"
    /\ \E i \in Image : found[i] = "CVEs"

\* Run: an error is returned.  Print without a CVE in the results says so and
\* leaves the table out.
Report ==
    /\ mainPc = "report"
    /\ mainPc' = "ended"
    /\ \/ ~NoError /\ output' = "error"
       \/ NoError /\ Torn /\ output' = "panic"
       \/ NoError /\ ~Torn /\ json /\ output' = "json"
       \/ NoError /\ ~Torn /\ ~json /\ HasCves /\ output' = "table"
       \/ NoError /\ ~Torn /\ ~json /\ ~HasCves /\ output' = "No CVEs found"
    /\ UNCHANGED <<scanVars, ctx, waiter, named, mainLeft, returned>>

-----------------------------------------------------------------------------

\* The caller cancels the context.
Cancel ==
    /\ ctx = "live"
    /\ ctx' = "cancelled"
    /\ UNCHANGED <<scanVars, waiter, named, mainVars>>

ScanCalls == GetServiceImageInfos \/ ScanEnds \/ \E i \in Image : ScanImage(i)
ScanReports == AssignResults \/ Send \/ Close
Main == ScanIsDone \/ ContextIsDone \/ AssignCtxErr \/ ReadResults \/ Report

Next == ScanCalls \/ ScanReports \/ Main \/ Cancel

Spec == Init /\ [][Next]_vars

\* Goroutines go on; the calls to AWS may take for ever.
FairSpec == Spec /\ WF_vars(Main) /\ WF_vars(ScanReports)

-----------------------------------------------------------------------------
(* Properties *)

\* Types of the two goroutines and of what they share.
ScanTypeOK ==
    /\ ecr \subseteq Image
    /\ json \in BOOLEAN
    /\ ctx \in {"live", "cancelled"}
    /\ scanPc \in {"images", "scan", "assign", "send", "close", "ended"}
    /\ found \in [Image -> Finding]
    /\ scanned \in Memory
    /\ waiter \in {"empty", "full", "closed"}
    /\ mainPc \in {"select", "assign", "read", "report", "ended"}
    /\ named \in Memory
    /\ scanLeft \subseteq Word /\ mainLeft \subseteq Word
    /\ returned \in Memory
    /\ output \in {"none", "error", "panic", "json", "table", "No CVEs found"}

\* Without a cancellation doScan returns exactly what Scan has returned, and
\* not before it has: the channel orders the assignments before the reads.
FinishedScanIsReturned ==
    mainPc \in {"report", "ended"} /\ ctx = "live" =>
        returned = scanned /\ waiter # "empty"

\* However the two goroutines race, a command whose scan has failed or is not over
\* ends with an error: neither a report nor a torn slice can come from it, because
\* no word of an error that was assigned is ever assigned nil (command.go:59).
OnlyScansAreReported ==
    output \notin {"none", "error"} => scanned = Pair("list", "nil")

\* A cancelled command ends even if the scan does not.
CancelledCommandEnds == (ctx # "live") ~> (mainPc = "ended")

\* The goroutine ends once its scan has returned, even if nobody waits any more.
GoroutineEnds == (scanPc = "assign") ~> (scanPc = "ended")

-----------------------------------------------------------------------------
(* Said by the repository, and not so *)

\* printer.go:44: "No CVEs found".
AllClearIsTrue ==
    output = "No CVEs found" => \A i \in Image : found[i] # "CVEs"
=============================================================================
