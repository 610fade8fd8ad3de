-------------------------- MODULE AuditScanProofs --------------------------
(***************************************************************************)
(* What doScan returns, for any set of images.  As long as the context is  *)
(* live the channel orders the two goroutines: nothing is read before it   *)
(* was assigned.  After a cancellation nothing orders them; but what they  *)
(* race to write is an error in both, unless the scan has succeeded.       *)
(***************************************************************************)
EXTENDS AuditScan, TLAPS

\* What the two goroutines share and return keeps its type.
Shared ==
    /\ scanned \in Memory
    /\ named \in Memory
    /\ returned \in Memory
    /\ scanLeft \subseteq Word
    /\ mainLeft \subseteq Word

\* How far each of the goroutines is, and the words it has left.
Progress ==
    /\ scanPc \in {"images", "scan"} => scanLeft = Word
    /\ scanPc \in {"send", "close", "ended"} => scanLeft = {}
    /\ waiter # "empty" => scanPc \in {"close", "ended"}
    /\ mainPc = "select" => mainLeft = Word
    /\ mainPc \in {"report", "ended"} => mainLeft = {}
    /\ mainPc # "ended" => output = "none"

\* Without a cancellation the main goroutine goes on only after the channel tells
\* that the words were assigned.
Ordered ==
    ctx = "live" =>
        /\ mainPc # "assign"
        /\ mainPc \in {"read", "report", "ended"} => waiter # "empty"
        /\ \A w \in Word \ scanLeft : named[w] = scanned[w]
        /\ mainPc \in {"read", "report", "ended"} =>
               \A w \in Word \ mainLeft : returned[w] = scanned[w]

\* Before Scan returns there is nothing to assign; then it has failed or succeeded.
Outcome ==
    /\ scanPc \in {"images", "scan"} => scanned = Pair("nil", "nil")
    /\ scanPc \notin {"images", "scan"} => scanned \in {Pair("nil", "failed"), Pair("list", "nil")}

\* Without a scan that has succeeded, err is not nil once a goroutine has assigned
\* it, and neither is what was read.
ErrorStays ==
    scanned # Pair("list", "nil") =>
        /\ scanPc \notin {"images", "scan"} /\ "type" \notin scanLeft => named["type"] # "nil"
        /\ mainPc = "assign" /\ "type" \notin mainLeft => named["type"] # "nil"
        /\ mainPc \in {"read", "report", "ended"} =>
            /\ named["type"] # "nil"
            /\ "type" \notin mainLeft => returned["type"] # "nil"
        /\ output \in {"none", "error"}

ScanInv == Shared /\ Progress /\ Ordered /\ Outcome /\ ErrorStays

\* A pair of results is a memory.
LEMMA PairType ==
    ASSUME NEW r \in Results, NEW e \in Err
    PROVE  /\ Pair(r, e) \in Memory
           /\ \A w \in Word : Pair(r, e)[w] = IF w \in Slice THEN r ELSE e
           /\ Pair(r, e)["type"] = e
           /\ Pair(r, e)["array"] = r
BY DEF Pair, Memory, Word, Slice, Interface

\* Each step keeps the types.
LEMMA SharedTypes ==
    Shared /\ [Next]_vars => Shared'
<1> SUFFICES ASSUME Shared, [Next]_vars
             PROVE  Shared'
  OBVIOUS
<1> USE DEF Shared
<1>0. /\ Pair("nil", "failed") \in Memory
      /\ Pair("list", "nil") \in Memory
      /\ Pair("nil", "canceled") \in Memory
  BY PairType DEF Results, Err
<1>1. CASE GetServiceImageInfos \/ ScanEnds
  BY <1>0, <1>1 DEF GetServiceImageInfos, ScanEnds, ScanReturns, mainVars
<1>2. ASSUME NEW i \in Image, ScanImage(i)
      PROVE  Shared'
  BY <1>2 DEF ScanImage, mainVars
<1>3. CASE AssignResults
  BY <1>3 DEF AssignResults, Assigned, Memory, mainVars
<1>4. CASE Send \/ Close
  BY <1>4 DEF Send, Close, mainVars
<1>5. CASE ScanIsDone \/ ContextIsDone \/ Report \/ Cancel
  BY <1>5 DEF ScanIsDone, ContextIsDone, Report, Cancel, scanVars, mainVars
<1>6. CASE AssignCtxErr
  BY <1>0, <1>6 DEF AssignCtxErr, Memory, scanVars
<1>7. CASE ReadResults
  BY <1>7 DEF ReadResults, Memory, scanVars
<1>8. CASE UNCHANGED vars
  BY <1>8 DEF vars
<1> QED
  BY <1>1, <1>2, <1>3, <1>4, <1>5, <1>6, <1>7, <1>8 DEF Next, ScanCalls, ScanReports, Main

\* Each step keeps the words left in step with the goroutines.
LEMMA ProgressIsKept ==
    Shared /\ Progress /\ [Next]_vars => Progress'
<1> SUFFICES ASSUME Shared, Progress, [Next]_vars
             PROVE  Progress'
  OBVIOUS
<1> USE DEF Progress
<1>1. CASE GetServiceImageInfos \/ ScanEnds
  BY <1>1 DEF GetServiceImageInfos, ScanEnds, ScanReturns, mainVars
<1>2. ASSUME NEW i \in Image, ScanImage(i)
      PROVE  Progress'
  BY <1>2 DEF ScanImage, mainVars
<1>3. CASE AssignResults
  BY <1>3 DEF AssignResults, mainVars
<1>4. CASE Send \/ Close
  BY <1>4 DEF Send, Close, mainVars
<1>5. CASE ScanIsDone \/ ContextIsDone \/ Report \/ Cancel
  BY <1>5 DEF ScanIsDone, ContextIsDone, Report, Cancel, scanVars, mainVars
<1>6. CASE AssignCtxErr
  BY <1>6 DEF AssignCtxErr, scanVars
<1>7. CASE ReadResults
  BY <1>7 DEF ReadResults, scanVars
<1>8. CASE UNCHANGED vars
  BY <1>8 DEF vars
<1> QED
  BY <1>1, <1>2, <1>3, <1>4, <1>5, <1>6, <1>7, <1>8 DEF Next, ScanCalls, ScanReports, Main

\* No step breaks the order.
LEMMA OrderIsKept ==
    Shared /\ Progress /\ Ordered /\ [Next]_vars => Ordered'
<1> SUFFICES ASSUME Shared, Progress, Ordered, [Next]_vars
             PROVE  Ordered'
  OBVIOUS
<1> USE DEF Ordered
<1>1. CASE GetServiceImageInfos \/ ScanEnds
  BY <1>1 DEF GetServiceImageInfos, ScanEnds, ScanReturns, mainVars, Progress
<1>2. ASSUME NEW i \in Image, ScanImage(i)
      PROVE  Ordered'
  BY <1>2 DEF ScanImage, mainVars
<1>3. CASE AssignResults
  BY <1>3 DEF AssignResults, Assigned, mainVars, Progress, Shared, Memory
<1>4. CASE Send \/ Close
  BY <1>4 DEF Send, Close, mainVars
<1>5. CASE ScanIsDone \/ ContextIsDone \/ Report \/ Cancel
  BY <1>5 DEF ScanIsDone, ContextIsDone, Report, Cancel, scanVars, mainVars, Progress
<1>6. CASE AssignCtxErr
  BY <1>6 DEF AssignCtxErr, scanVars
<1>7. CASE ReadResults
  BY <1>7 DEF ReadResults, scanVars, Progress, Shared, Memory
<1>8. CASE UNCHANGED vars
  BY <1>8 DEF vars
<1> QED
  BY <1>1, <1>2, <1>3, <1>4, <1>5, <1>6, <1>7, <1>8 DEF Next, ScanCalls, ScanReports, Main

\* Scan returns once.
LEMMA OutcomeIsKept ==
    Outcome /\ [Next]_vars => Outcome'
<1> SUFFICES ASSUME Outcome, [Next]_vars
             PROVE  Outcome'
  OBVIOUS
<1> USE DEF Outcome
<1>1. CASE GetServiceImageInfos \/ ScanEnds
  BY <1>1 DEF GetServiceImageInfos, ScanEnds, ScanReturns
<1>2. ASSUME NEW i \in Image, ScanImage(i)
      PROVE  Outcome'
  BY <1>2 DEF ScanImage
<1>3. CASE AssignResults \/ Send \/ Close
  BY <1>3 DEF AssignResults, Send, Close
<1>4. CASE Main \/ Cancel
  BY <1>4 DEF Main, ScanIsDone, ContextIsDone, AssignCtxErr, ReadResults, Report, Cancel, scanVars
<1>5. CASE UNCHANGED vars
  BY <1>5 DEF vars
<1> QED
  BY <1>1, <1>2, <1>3, <1>4, <1>5 DEF Next, ScanCalls, ScanReports

\* No step takes an error back.
LEMMA ErrorStaysNext ==
    ScanInv /\ [Next]_vars => ErrorStays'
<1> SUFFICES ASSUME Shared, Progress, Outcome, ErrorStays, [Next]_vars
             PROVE  ErrorStays'
  BY DEF ScanInv
<1> USE DEF ErrorStays
<1>0. /\ Pair("nil", "nil") # Pair("list", "nil")
      /\ Pair("nil", "failed") # Pair("list", "nil")
      /\ Pair("nil", "failed")["type"] = "failed"
      /\ Pair("nil", "canceled")["type"] = "canceled"
      /\ "type" \in Word
  BY PairType DEF Results, Err, Word, Interface
<1>1. CASE GetServiceImageInfos \/ ScanEnds
  BY <1>0, <1>1 DEF GetServiceImageInfos, ScanEnds, ScanReturns, mainVars, Progress, Outcome
<1>2. ASSUME NEW i \in Image, ScanImage(i)
      PROVE  ErrorStays'
  BY <1>2 DEF ScanImage, mainVars
<1>3. CASE AssignResults
  BY <1>0, <1>3 DEF AssignResults, Assigned, mainVars, Progress, Shared, Memory, Outcome
<1>4. CASE Send \/ Close
  BY <1>4 DEF Send, Close, mainVars
<1>5. CASE ScanIsDone \/ ContextIsDone \/ Cancel
  BY <1>0, <1>5 DEF ScanIsDone, ContextIsDone, Cancel, scanVars, mainVars, Progress
<1>6. CASE Report
  BY <1>0, <1>6 DEF Report, scanVars, Progress, NoError
<1>7. CASE AssignCtxErr
  BY <1>0, <1>7 DEF AssignCtxErr, scanVars, Shared, Memory
<1>8. CASE ReadResults
  BY <1>0, <1>8 DEF ReadResults, scanVars, Shared, Memory
<1>9. CASE UNCHANGED vars
  BY <1>9 DEF vars
<1> QED
  BY <1>1, <1>2, <1>3, <1>4, <1>5, <1>6, <1>7, <1>8, <1>9
     DEF Next, ScanCalls, ScanReports, Main

\* The invariant holds in every state.
LEMMA ScanInvariant == Spec => []ScanInv
<1>1. Init => ScanInv
  BY PairType DEF Init, ScanInv, Shared, Progress, Ordered, Outcome, ErrorStays, Results, Err
<1>2. ScanInv /\ [Next]_vars => ScanInv'
  BY SharedTypes, ProgressIsKept, OrderIsKept, OutcomeIsKept, ErrorStaysNext DEF ScanInv
<1> QED
  BY <1>1, <1>2, PTL DEF Spec

-----------------------------------------------------------------------------

\* Without a cancellation doScan returns what Scan returned, after it has.
THEOREM ScanIsReturned == Spec => []FinishedScanIsReturned
<1>1. ScanInv => FinishedScanIsReturned
  <2> SUFFICES ASSUME ScanInv, mainPc \in {"report", "ended"}, ctx = "live"
               PROVE  returned = scanned /\ waiter # "empty"
    BY DEF FinishedScanIsReturned
  <2>1. waiter # "empty" /\ \A w \in Word : returned[w] = scanned[w]
    BY DEF ScanInv, Ordered, Progress
  <2>2. returned \in Memory /\ scanned \in Memory
    BY DEF ScanInv, Shared
  <2> QED
    BY <2>1, <2>2 DEF Memory
<1> QED
  BY <1>1, ScanInvariant, PTL

\* Whatever the race, only a scan that has succeeded ends in anything but an error.
THEOREM OnlyScansReported == Spec => []OnlyScansAreReported
<1>1. ScanInv => OnlyScansAreReported
  BY DEF ScanInv, ErrorStays, OnlyScansAreReported
<1> QED
  BY <1>1, ScanInvariant, PTL

=============================================================================
