------------------------- MODULE AuditReportProofs -------------------------
(***************************************************************************)
(* What the aggregater makes of the findings - the containers of each CVE, *)
(* its severity, the totals - and what is printed, for any containers and  *)
(* any replies of the scans.                                               *)
(***************************************************************************)
EXTENDS AuditReport, FiniteSetTheorems, TLAPS

\* ContainersAreExact is inductive once it is known that only containers are
\* added and that the two maps have the same names.
IInv ==
    /\ added \in Seq(Container)
    /\ DOMAIN cveToContainers = DOMAIN cves
    /\ ContainersAreExact

LEMMA InitInv == Init => IInv
<1> SUFFICES ASSUME Init PROVE IInv
  OBVIOUS
<1>1. added = <<>> /\ DOMAIN cves = {} /\ DOMAIN cveToContainers = {}
  BY DEF Init
<1>2. added \in Seq(Container) /\ DOMAIN added = {}
  BY <1>1
<1> QED
  BY <1>1, <1>2 DEF IInv, ContainersAreExact

\* What a scan yielded does not change.
LEMMA SameNames ==
    ASSUME reply' = reply
    PROVE  \A d : Names(d)' = Names(d)
BY DEF Names, Cves

\* The containers added are the earlier ones and the new one.
LEMMA AddedInv ==
    ASSUME IInv, NEW c \in Container, Add(c)
    PROVE  /\ added' \in Seq(Container)
           /\ {added'[i] : i \in DOMAIN added'} = {added[i] : i \in DOMAIN added} \cup {c}
           /\ \A d : IsAdded(d)' <=> IsAdded(d) \/ d = c
<1>1. added \in Seq(Container) /\ added' = Append(added, c)
  BY DEF IInv, Add
<1>2. /\ added' \in Seq(Container) /\ Len(added) \in Nat
      /\ DOMAIN added = 1 .. Len(added) /\ DOMAIN added' = 1 .. Len(added) + 1
      /\ added'[Len(added) + 1] = c /\ \A i \in 1 .. Len(added) : added'[i] = added[i]
  BY <1>1
<1>3. DOMAIN added' = DOMAIN added \cup {Len(added) + 1}
  BY <1>2
<1>4. {added'[i] : i \in DOMAIN added'} = {added[i] : i \in DOMAIN added} \cup {c}
  BY <1>2, <1>3
<1>5. \A d : IsAdded(d)' <=> IsAdded(d) \/ d = c
  BY <1>2, <1>3 DEF IsAdded
<1> QED
  BY <1>2, <1>4, <1>5

LEMMA AddInv ==
    ASSUME IInv, NEW c \in Container, Add(c)
    PROVE  IInv'
<1>1. \A d : Names(d)' = Names(d)
  BY SameNames DEF Add
<1>2. /\ DOMAIN cves' = DOMAIN cves \cup Names(c)
      /\ DOMAIN cveToContainers' = DOMAIN cves'
  BY DEF Add, AddSeverities, AddContainers
<1>3. (DOMAIN cves = UNION {Names(added[i]) : i \in DOMAIN added})'
  <2>1. DOMAIN cves = UNION {Names(d) : d \in {added[i] : i \in DOMAIN added}}
    BY DEF IInv, ContainersAreExact
  <2>2. DOMAIN cves' = UNION {Names(d) : d \in {added'[i] : i \in DOMAIN added'}}
    <3> DEFINE A == {added[i] : i \in DOMAIN added}
    <3>1. {added'[i] : i \in DOMAIN added'} = A \cup {c}
      BY AddedInv
    <3> HIDE DEF A
    <3>2. UNION {Names(d) : d \in A \cup {c}} = (UNION {Names(d) : d \in A}) \cup Names(c)
      OBVIOUS
    <3>3. DOMAIN cves = UNION {Names(d) : d \in A}
      BY <2>1 DEF A
    <3> QED
      BY <1>2, <3>1, <3>2, <3>3
  <2>3. UNION {Names(d) : d \in {added'[i] : i \in DOMAIN added'}}
          = UNION {Names(added'[i]) : i \in DOMAIN added'}
    OBVIOUS
  <2>4. (UNION {Names(added[i]) : i \in DOMAIN added})' = UNION {Names(added'[i]) : i \in DOMAIN added'}
    BY <1>1, SameNames DEF Add, Names, Cves
  <2> QED
    BY <2>2, <2>3, <2>4
<1>4. ASSUME NEW n \in DOMAIN cves'
      PROVE  cveToContainers'[n] = {d \in Container : IsAdded(d)' /\ n \in Names(d)}
  <2>1. cveToContainers'[n] = FoundIn(n) \cup (IF n \in Names(c) THEN {c} ELSE {})
    BY <1>2 DEF Add, AddContainers
  <2>2. FoundIn(n) = {d \in Container : IsAdded(d) /\ n \in Names(d)}
    <3>1. CASE n \in DOMAIN cves
      BY <3>1 DEF FoundIn, IInv, ContainersAreExact
    <3>2. CASE n \notin DOMAIN cves
      <4>1. \A d : IsAdded(d) => n \notin Names(d)
        BY <3>2 DEF IInv, ContainersAreExact, IsAdded
      <4> QED
        BY <3>2, <4>1 DEF FoundIn, IInv
    <3> QED
      BY <3>1, <3>2
  <2> QED
    BY <2>1, <2>2, AddedInv
<1>5. ContainersAreExact'
  BY <1>1, <1>3, <1>4 DEF ContainersAreExact
<1> QED
  BY <1>2, <1>5, AddedInv DEF IInv

LEMMA NextInv == IInv /\ [Next]_vars => IInv'
<1> SUFFICES ASSUME IInv, [Next]_vars PROVE IInv'
  OBVIOUS
<1>1. CASE \E c \in Container : Add(c)
  BY <1>1, AddInv
<1>2. CASE UNCHANGED <<reply, added, cves, cveToContainers, summaries>>
  <2>1. \A d : Names(d)' = Names(d)
    BY <1>2, SameNames
  <2>2. \A d : IsAdded(d)' <=> IsAdded(d)
    BY <1>2 DEF IsAdded
  <2>3. (UNION {Names(added[i]) : i \in DOMAIN added})' = UNION {Names(added[i]) : i \in DOMAIN added}
    BY <1>2, <2>1 DEF Names, Cves
  <2>4. ContainersAreExact'
    BY <1>2, <2>1, <2>2, <2>3 DEF IInv, ContainersAreExact
  <2> QED
    BY <1>2, <2>4 DEF IInv
<1> QED
  BY <1>1, <1>2 DEF Next, PrintReport, vars

LEMMA AlwaysInv == Spec => []IInv
BY InitInv, NextInv, PTL DEF Spec

\* Every CVE is reported with exactly the containers that have it, whatever the
\* scans yield and in whatever order they are added (aggregator.go:25-36).
THEOREM ContainersExact == Spec => []ContainersAreExact
<1>1. IInv => ContainersAreExact
  BY DEF IInv
<1> QED
  BY <1>1, AlwaysInv, PTL

-----------------------------------------------------------------------------
(* What the aggregater keeps of a name *)

\* A set of natural numbers that is not empty has a least element: the initial
\* segments it spans are finite, and strict inclusion is well-founded on them.
LEMMA Least ==
    ASSUME NEW T \in SUBSET Nat, T # {}
    PROVE  \E m \in T : \A x \in T : m <= x
<1> DEFINE Segments == {1 .. x : x \in T}
<1>1. Segments \subseteq FiniteSubsetsOf(Nat)
  <2>1. ASSUME NEW x \in T PROVE 1 .. x \in SUBSET Nat /\ IsFiniteSet(1 .. x)
    <3>1. x \in Int /\ 1 \in Int
      OBVIOUS
    <3>2. IsFiniteSet(1 .. x)
      BY <3>1, FS_Interval
    <3> QED
      BY <3>1, <3>2
  <2> QED
    BY <2>1 DEF FiniteSubsetsOf
<1>2. \E s \in Segments : \A r \in Segments : <<r, s>> \notin StrictSubsetOrdering(Nat)
  <2>1. Segments # {}
    OBVIOUS
  <2> HIDE DEF Segments
  <2> QED
    BY <1>1, <2>1, FS_StrictSubsetOrderingWellFounded, WFMin
<1>3. PICK m \in T : \A x \in T : <<1 .. x, 1 .. m>> \notin StrictSubsetOrdering(Nat)
  BY <1>2
<1>4. ASSUME NEW x \in T, x < m PROVE FALSE
  <2>1. /\ m \in 1 .. m /\ m \notin 1 .. x /\ 1 .. x \subseteq 1 .. m
        /\ 1 .. x \in SUBSET Nat /\ 1 .. m \in SUBSET Nat
    BY <1>4
  <2> QED
    BY <1>3, <2>1 DEF StrictSubsetOrdering
<1> QED
  BY <1>3, <1>4

Replied == reply \in [Container -> Reply]

\* The CVEs of an image are a sequence.
LEMMA CvesType ==
    ASSUME Replied, NEW c \in Container
    PROVE  \E k \in Nat : DOMAIN Cves(c) = 1 .. k
<1>1. /\ \E k \in Nat : DOMAIN reply[c].basic = 1 .. k
      /\ \E k \in Nat : DOMAIN reply[c].enhanced = 1 .. k
  <2>1. /\ reply[c] \in Reply
        /\ reply[c].basic \in Seq(Basic) /\ reply[c].enhanced \in Seq(Enhanced)
    BY DEF Replied, Reply
  <2>2. /\ Len(reply[c].basic) \in Nat /\ DOMAIN reply[c].basic = 1 .. Len(reply[c].basic)
        /\ Len(reply[c].enhanced) \in Nat /\ DOMAIN reply[c].enhanced = 1 .. Len(reply[c].enhanced)
    BY <2>1
  <2> QED
    BY <2>2
<1>2. CASE reply[c].err # "nil"
  <2>1. DOMAIN Cves(c) = 1 .. 0
    BY <1>2 DEF Cves, CvesOf
  <2> QED
    BY <2>1
<1>3. CASE reply[c].err = "nil" /\ reply[c].basic # <<>>
  BY <1>1, <1>3 DEF Cves, CvesOf
<1>4. CASE reply[c].err = "nil" /\ reply[c].basic = <<>>
  BY <1>1, <1>4 DEF Cves, CvesOf
<1> QED
  BY <1>2, <1>3, <1>4

LEMMA CvesFinite ==
    ASSUME Replied, NEW c \in Container
    PROVE  DOMAIN Cves(c) \subseteq Nat /\ IsFiniteSet(DOMAIN Cves(c)) /\ IsFiniteSet(Names(c))
<1>1. PICK k \in Nat : DOMAIN Cves(c) = 1 .. k
  BY CvesType
<1>2. DOMAIN Cves(c) \subseteq Nat /\ IsFiniteSet(DOMAIN Cves(c))
  BY <1>1, FS_Interval
<1>3. IsFiniteSet({Cves(c)[i].name : i \in DOMAIN Cves(c)})
  <2> DEFINE T == {Cves(c)[i].name : i \in DOMAIN Cves(c)}
             f == [i \in DOMAIN Cves(c) |-> Cves(c)[i].name]
  <2>1. f \in Surjection(DOMAIN Cves(c), T)
    BY DEF Surjection
  <2> HIDE DEF T, f
  <2>2. IsFiniteSet(T)
    BY <1>2, <2>1, FS_Surjection
  <2> QED
    BY <2>2 DEF T
<1> QED
  BY <1>2, <1>3 DEF Names

\* What FirstSeverity takes is the severity of the first finding of that name.
LEMMA FirstIsThere ==
    ASSUME Replied, NEW c \in Container, NEW n \in Names(c)
    PROVE  \E k \in DOMAIN Cves(c) :
               /\ Cves(c)[k].name = n
               /\ FirstSeverity(c, n) = Cves(c)[k].severity
               /\ \A l \in 1 .. k - 1 : Cves(c)[l].name # n
<1> DEFINE There == {k \in DOMAIN Cves(c) : Cves(c)[k].name = n}
<1>1. There \in SUBSET Nat /\ There # {}
  BY CvesFinite DEF Names
<1>2. \E m \in There : \A x \in There : m <= x
  <2> HIDE DEF There
  <2> QED
    BY <1>1, Least
<1>3. \E k \in DOMAIN Cves(c) : /\ Cves(c)[k].name = n
                                /\ \A j \in DOMAIN Cves(c) : Cves(c)[j].name = n => k <= j
  BY <1>2
<1> DEFINE first == CHOOSE i \in DOMAIN Cves(c) :
                        /\ Cves(c)[i].name = n
                        /\ \A j \in DOMAIN Cves(c) : Cves(c)[j].name = n => i <= j
<1>4. /\ first \in DOMAIN Cves(c) /\ Cves(c)[first].name = n
      /\ \A j \in DOMAIN Cves(c) : Cves(c)[j].name = n => first <= j
  BY <1>3
<1>5. FirstSeverity(c, n) = Cves(c)[first].severity
  BY DEF FirstSeverity
<1> HIDE DEF first
<1>6. \A l \in 1 .. first - 1 : Cves(c)[l].name # n
  <2>1. PICK k \in Nat : DOMAIN Cves(c) = 1 .. k
    BY CvesType
  <2> QED
    BY <1>4, <2>1
<1> QED
  BY <1>4, <1>5, <1>6

\* What is known of the aggregater and of the output: it keeps the first finding of
\* each name and the summary of each container, and nothing is added after printing.
Summarised ==
    /\ DOMAIN summaries = {added[i] : i \in DOMAIN added}
    /\ \A c \in DOMAIN summaries : summaries[c] = Summary(c)
Closed ==
    /\ printed # {} => \A c \in Container : IsAdded(c)
    /\ printed \in {{}, {Text}, {Json}}

RInv ==
    /\ Replied
    /\ IsFiniteSet(DOMAIN cves)
    /\ FirstFindingCounts
    /\ Summarised
    /\ Closed

\* The finding of name n that comes first, in the order a of containers, has severity s.
FirstOf(r, a, n, s) ==
    \E i \in DOMAIN a : \E k \in DOMAIN CvesOf(r[a[i]]) :
        /\ CvesOf(r[a[i]])[k].name = n
        /\ s = CvesOf(r[a[i]])[k].severity
        /\ \A l \in 1 .. k - 1 : CvesOf(r[a[i]])[l].name # n
        /\ \A j \in 1 .. i - 1 :
               n \notin {CvesOf(r[a[j]])[m].name : m \in DOMAIN CvesOf(r[a[j]])}

LEMMA FirstFindingAdd ==
    ASSUME IInv, RInv, NEW c \in Container, Add(c)
    PROVE  FirstFindingCounts'
<1>1. \A d : Cves(d)' = Cves(d) /\ Names(d)' = Names(d)
  BY SameNames DEF Add, Cves
<1>2. /\ Len(added) \in Nat /\ DOMAIN added = 1 .. Len(added) /\ DOMAIN added' = 1 .. Len(added) + 1
      /\ added'[Len(added) + 1] = c /\ \A i \in 1 .. Len(added) : added'[i] = added[i]
  BY DEF IInv, Add
<1> SUFFICES ASSUME NEW n \in DOMAIN cves'
             PROVE  \E i \in DOMAIN added' : \E k \in DOMAIN Cves(added'[i]) :
                        /\ Cves(added'[i])[k].name = n
                        /\ cves'[n] = Cves(added'[i])[k].severity
                        /\ \A l \in 1 .. k - 1 : Cves(added'[i])[l].name # n
                        /\ \A j \in 1 .. i - 1 : n \notin Names(added'[j])
  <2>1. FirstFindingCounts' <=> \A n \in DOMAIN cves' : FirstOf(reply', added', n, cves'[n])
    BY DEF FirstFindingCounts, FirstOf, Cves, Names
  <2>2. FirstFindingCounts' <=> \A n \in DOMAIN cves' : FirstOf(reply, added', n, cves'[n])
    BY <2>1 DEF Add
  <2>3. \A n : FirstOf(reply, added', n, cves'[n]) <=>
            \E i \in DOMAIN added' : \E k \in DOMAIN Cves(added'[i]) :
                /\ Cves(added'[i])[k].name = n
                /\ cves'[n] = Cves(added'[i])[k].severity
                /\ \A l \in 1 .. k - 1 : Cves(added'[i])[l].name # n
                /\ \A j \in 1 .. i - 1 : n \notin Names(added'[j])
    BY DEF FirstOf, Cves, Names
  <2> QED
    BY <2>2, <2>3
<1>3. n \in DOMAIN cves \cup Names(c)
      /\ cves'[n] = IF n \in DOMAIN cves THEN cves[n] ELSE FirstSeverity(c, n)
  BY DEF Add, AddSeverities
<1>4. CASE n \in DOMAIN cves
  <2>1. PICK i \in DOMAIN added : \E k \in DOMAIN Cves(added[i]) :
            /\ Cves(added[i])[k].name = n
            /\ cves[n] = Cves(added[i])[k].severity
            /\ \A l \in 1 .. k - 1 : Cves(added[i])[l].name # n
            /\ \A j \in 1 .. i - 1 : n \notin Names(added[j])
    BY <1>4 DEF RInv, FirstFindingCounts
  <2>2. /\ i \in DOMAIN added' /\ added'[i] = added[i]
        /\ \A j \in 1 .. i - 1 : added'[j] = added[j]
    BY <1>2
  <2> QED
    BY <1>3, <1>4, <2>1, <2>2
<1>5. CASE n \notin DOMAIN cves
  <2>1. \A j \in 1 .. Len(added) : n \notin Names(added[j])
    BY <1>2, <1>5 DEF IInv, ContainersAreExact
  <2>2. PICK k \in DOMAIN Cves(c) : /\ Cves(c)[k].name = n
                                    /\ FirstSeverity(c, n) = Cves(c)[k].severity
                                    /\ \A l \in 1 .. k - 1 : Cves(c)[l].name # n
    BY <1>3, <1>5, FirstIsThere DEF RInv
  <2>3. Len(added) + 1 \in DOMAIN added' /\ \A j \in 1 .. (Len(added) + 1) - 1 : n \notin Names(added'[j])
    BY <1>2, <2>1
  <2> QED
    BY <1>2, <1>3, <1>5, <2>2, <2>3
<1> QED
  BY <1>4, <1>5

LEMMA InitReport == Init => RInv
<1> SUFFICES ASSUME Init PROVE RInv
  OBVIOUS
<1>1. Replied
  BY ReportAssumption DEF Init, Replied
<1>2. /\ DOMAIN cves = {} /\ DOMAIN summaries = {} /\ printed = {}
      /\ added = <<>> /\ {added[i] : i \in DOMAIN added} = {}
  BY DEF Init
<1>3. IsFiniteSet(DOMAIN cves)
  BY <1>2, FS_EmptySet
<1> QED
  BY <1>1, <1>2, <1>3 DEF RInv, FirstFindingCounts, Summarised, Closed

\* What is said of an image follows from what its scan yielded.
LEMMA SameImages ==
    ASSUME reply' = reply
    PROVE  \A d : /\ Cves(d)' = Cves(d) /\ Names(d)' = Names(d)
                  /\ Summary(d)' = Summary(d)
BY SameNames DEF Cves, Summary, CountOf

LEMMA AddReport ==
    ASSUME IInv, RInv, NEW c \in Container, Add(c)
    PROVE  RInv'
<1>1. reply' = reply /\ printed' = printed
  BY DEF Add
<1>2. Replied'
  BY <1>1 DEF RInv, Replied
<1>3. IsFiniteSet(DOMAIN cves')
  BY CvesFinite, FS_Union DEF RInv, Add, AddSeverities
<1>4. Summarised'
  <2>1. /\ summaries' = [d \in DOMAIN summaries \cup {c} |->
                            IF d = c THEN Summary(c) ELSE summaries[d]]
        /\ DOMAIN summaries = {added[i] : i \in DOMAIN added}
        /\ \A d \in DOMAIN summaries : summaries[d] = Summary(d)
    BY DEF RInv, Summarised, Add
  <2>2. DOMAIN summaries' = {added'[i] : i \in DOMAIN added'}
    BY <2>1, AddedInv
  <2>3. \A d \in DOMAIN summaries' : summaries'[d] = Summary(d)
    BY <2>1
  <2>4. \A d \in DOMAIN summaries' : summaries'[d] = Summary(d)'
    BY <1>1, <2>3, SameImages
  <2> QED
    BY <2>2, <2>4 DEF Summarised
<1>5. Closed'
  <2>1. printed = {}
    BY DEF RInv, Closed, Add
  <2> QED
    BY <1>1, <2>1 DEF Closed
<1> QED
  BY <1>2, <1>3, <1>4, <1>5, FirstFindingAdd DEF RInv

LEMMA NextReport == IInv /\ RInv /\ [Next]_vars => RInv'
<1> SUFFICES ASSUME IInv, RInv, [Next]_vars PROVE RInv'
  OBVIOUS
<1>1. CASE \E c \in Container : Add(c)
  BY <1>1, AddReport
<1>2. CASE UNCHANGED <<reply, added, cves, cveToContainers, summaries>>
           /\ (PrintReport \/ UNCHANGED printed)
  <2>1. Replied' /\ IsFiniteSet(DOMAIN cves')
    BY <1>2 DEF RInv, Replied
  <2>2. \A d : Summary(d)' = Summary(d)
    BY <1>2, SameImages
  <2>3. Summarised'
    BY <1>2, <2>2 DEF RInv, Summarised
  <2>4. FirstFindingCounts'
    <3>1. \A n \in DOMAIN cves : FirstOf(reply, added, n, cves[n])
      BY DEF RInv, FirstFindingCounts, FirstOf, Cves, Names
    <3>2. FirstFindingCounts' <=> \A n \in DOMAIN cves' : FirstOf(reply', added', n, cves'[n])
      BY DEF FirstFindingCounts, FirstOf, Cves, Names
    <3> QED
      BY <1>2, <3>1, <3>2
  <2>5. Text' = Text /\ Json' = Json
    BY <1>2 DEF Text, Json, NoCVEs, Vulns, CvesBySeverity, SeverityCounts, TotalOf
  <2>6. \A c : IsAdded(c)' <=> IsAdded(c)
    BY <1>2 DEF IsAdded
  <2>7. Closed'
    <3>1. CASE PrintReport
      BY <3>1, <2>5, <2>6 DEF PrintReport, Closed
    <3>2. CASE UNCHANGED printed
      BY <3>2, <2>5, <2>6 DEF RInv, Closed
    <3> QED
      BY <1>2, <3>1, <3>2
  <2> QED
    BY <2>1, <2>3, <2>4, <2>7 DEF RInv
<1> QED
  BY <1>1, <1>2 DEF Next, PrintReport, vars

LEMMA AlwaysReport == Spec => [](IInv /\ RInv)
<1>1. Init => IInv /\ RInv
  BY InitInv, InitReport
<1>2. IInv /\ RInv /\ [Next]_vars => (IInv /\ RInv)'
  BY NextInv, NextReport
<1> QED
  BY <1>1, <1>2, PTL DEF Spec

\* The severity reported for a CVE is that of the first of its findings, for any
\* containers, replies and order of adding (aggregator.go:25-36).
THEOREM FirstFindingIsKept == Spec => []FirstFindingCounts
<1>1. RInv => FirstFindingCounts
  BY DEF RInv
<1> QED
  BY <1>1, AlwaysReport, PTL

-----------------------------------------------------------------------------
(* The total and the lines of the table *)

\* A finding of a container that was added is kept, with its severity unless
\* another finding of that name disputes it.
LEMMA KeptSeverity ==
    ASSUME IInv, RInv, NEW c \in {added[i] : i \in DOMAIN added}, NEW i \in DOMAIN Cves(c)
    PROVE  LET n == Cves(c)[i].name
           IN  n \in DOMAIN cves /\ (Disputed(n) \/ cves[n] = Cves(c)[i].severity)
<1> DEFINE n == Cves(c)[i].name
<1>1. n \in Names(c)
  BY DEF Names
<1>2. n \in DOMAIN cves
  BY <1>1 DEF IInv, ContainersAreExact
<1>3. PICK j \in DOMAIN added : \E k \in DOMAIN Cves(added[j]) :
          Cves(added[j])[k].name = n /\ cves[n] = Cves(added[j])[k].severity
  BY <1>2 DEF RInv, FirstFindingCounts
<1>4. added[j] \in {added[m] : m \in DOMAIN added}
  OBVIOUS
<1>5. Disputed(n) \/ cves[n] = Cves(c)[i].severity
  BY <1>3, <1>4 DEF Disputed
<1> QED
  BY <1>2, <1>5

\* What is counted above zero is there.
LEMMA CountedIsThere ==
    ASSUME Replied, NEW c \in Container, NEW s, CountOf(c, s) > 0
    PROVE  \E i \in DOMAIN Cves(c) : Cves(c)[i].severity = s
<1>1. ASSUME {i \in DOMAIN Cves(c) : Cves(c)[i].severity = s} = {} PROVE FALSE
  BY <1>1, FS_EmptySet DEF CountOf
<1> QED
  BY <1>1

\* The totals are numbers, and positive where a CVE of that severity is kept.
LEMMA TotalType ==
    ASSUME RInv, NEW s
    PROVE  /\ TotalOf(s) \in Nat
           /\ TotalOf(s) > 0 <=> \E n \in DOMAIN cves : cves[n] = s
<1> DEFINE S == {n \in DOMAIN cves : cves[n] = s}
<1>1. IsFiniteSet(S)
  BY FS_Subset DEF RInv
<1>2. TotalOf(s) = Cardinality(S)
  BY DEF TotalOf
<1>3. S = {} <=> ~\E n \in DOMAIN cves : cves[n] = s
  OBVIOUS
<1> HIDE DEF S
<1>4. Cardinality(S) \in Nat /\ (Cardinality(S) = 0 <=> S = {})
  BY <1>1, FS_CardinalityType, FS_EmptySet
<1> QED
  BY <1>2, <1>3, <1>4

\* The severities that count are distinct, so that Rank finds their place.
LEMMA CountedType ==
    /\ DOMAIN Counted = 1 .. 5
    /\ \A i, j \in 1 .. 5 : Counted[i] = Counted[j] => i = j
BY DEF Counted

LEMMA RankOf ==
    /\ \A i \in 1 .. 5 : Rank(Counted[i]) = i
    /\ \A s : Rank(s) > 0 <=> \E i \in 1 .. 5 : Counted[i] = s
<1>1. ASSUME NEW s, NEW i \in 1 .. 5, Counted[i] = s PROVE Rank(s) = i
  BY <1>1, CountedType DEF Rank
<1>2. ASSUME NEW s, ~\E i \in 1 .. 5 : Counted[i] = s PROVE Rank(s) = 0
  BY <1>2, CountedType DEF Rank
<1> QED
  BY <1>1, <1>2

\* No severity with a total is above the highest one.
LEMMA HighestCovers ==
    ASSUME RInv, NEW s \in 1 .. 5, TotalOf(Counted[s]) > 0
    PROVE  Rank(HighestSeverity) >= s
<1> DEFINE T == {i \in 1 .. 5 : TotalOf(Counted[i]) > 0}
<1>1. \E i \in T : \A j \in T : j <= i
  <2>1. T \in SUBSET (1 .. 5) /\ s \in T
    OBVIOUS
  <2> HIDE DEF T
  <2>2. \A j \in T : j = 1 \/ j = 2 \/ j = 3 \/ j = 4 \/ j = 5
    BY <2>1
  <2>3. CASE 5 \in T
    BY <2>2, <2>3
  <2>4. CASE 5 \notin T /\ 4 \in T
    BY <2>2, <2>4
  <2>5. CASE 5 \notin T /\ 4 \notin T /\ 3 \in T
    BY <2>2, <2>5
  <2>6. CASE 5 \notin T /\ 4 \notin T /\ 3 \notin T
    <3>1. \A j \in T : j = 1 \/ j = 2
      BY <2>2, <2>6
    <3>2. CASE 2 \in T
      BY <3>1, <3>2
    <3>3. CASE 2 \notin T
      BY <2>1, <3>1, <3>3
    <3> QED
      BY <3>2, <3>3
  <2> QED
    BY <2>3, <2>4, <2>5, <2>6
<1>2. \E i \in DOMAIN Counted : /\ TotalOf(Counted[i]) > 0
                                /\ \A j \in DOMAIN Counted : TotalOf(Counted[j]) > 0 => j <= i
  BY <1>1, CountedType
<1> DEFINE h == CHOOSE i \in DOMAIN Counted :
                    /\ TotalOf(Counted[i]) > 0
                    /\ \A j \in DOMAIN Counted : TotalOf(Counted[j]) > 0 => j <= i
<1>3. /\ h \in DOMAIN Counted
      /\ \A j \in DOMAIN Counted : TotalOf(Counted[j]) > 0 => j <= h
  BY <1>2
<1>4. HighestSeverity = Counted[h]
  BY <1>2 DEF HighestSeverity
<1> HIDE DEF h
<1> QED
  BY <1>3, <1>4, CountedType, RankOf

LEMMA TotalsCover == IInv /\ RInv => TotalCoversLines
<1> SUFFICES ASSUME IInv, RInv, \A n \in DOMAIN cves : ~Disputed(n),
                    NEW c \in DOMAIN summaries, NEW s \in DOMAIN Counted
             PROVE  /\ summaries[c].counts[s] > 0 => Rank(HighestSeverity) >= s
                    /\ TotalOf(Counted[s]) >=
                          Cardinality({n \in Names(c) : FirstSeverity(c, n) = Counted[s]})
  BY DEF TotalCoversLines
<1>1. /\ c \in {added[i] : i \in DOMAIN added} /\ c \in Container /\ s \in 1 .. 5
      /\ summaries[c] = Summary(c) /\ Replied
  BY CountedType DEF IInv, RInv, Summarised
<1>2. \A i \in DOMAIN Cves(c) : /\ Cves(c)[i].name \in DOMAIN cves
                                /\ cves[Cves(c)[i].name] = Cves(c)[i].severity
  BY <1>1, KeptSeverity
<1>3. ASSUME summaries[c].counts[s] > 0 PROVE Rank(HighestSeverity) >= s
  <2>1. CountOf(c, Counted[s]) > 0
    <3>1. Summary(c).counts = [i \in DOMAIN Counted |-> CountOf(c, Counted[i])]
      BY DEF Summary
    <3>2. Summary(c).counts[s] = CountOf(c, Counted[s])
      BY <3>1
    <3> QED
      BY <1>1, <1>3, <3>2
  <2>2. \E n \in DOMAIN cves : cves[n] = Counted[s]
    BY <1>1, <1>2, <2>1, CountedIsThere
  <2> QED
    BY <1>1, <2>2, TotalType, HighestCovers
<1>4. TotalOf(Counted[s]) >= Cardinality({n \in Names(c) : FirstSeverity(c, n) = Counted[s]})
  <2> DEFINE Line == {n \in Names(c) : FirstSeverity(c, n) = Counted[s]}
             All == {n \in DOMAIN cves : cves[n] = Counted[s]}
  <2>1. Line \subseteq All
    BY <1>1, <1>2, FirstIsThere
  <2>2. IsFiniteSet(All)
    BY FS_Subset DEF RInv
  <2>3. TotalOf(Counted[s]) = Cardinality(All)
    BY DEF TotalOf
  <2> HIDE DEF Line, All
  <2>4. Cardinality(Line) <= Cardinality(All) /\ Cardinality(Line) \in Nat /\ Cardinality(All) \in Nat
    BY <2>1, <2>2, FS_Subset, FS_CardinalityType
  <2> QED
    BY <2>3, <2>4 DEF Line
<1> QED
  BY <1>3, <1>4

\* The total of the report is at least as severe as each of its lines and counts what
\* they count, unless a name was found with two severities (aggregator.go:46-82).
THEOREM TotalCovers == Spec => []TotalCoversLines
BY TotalsCover, AlwaysReport, PTL

-----------------------------------------------------------------------------
(* The output *)

LEMMA Disjoint ==
    ASSUME NEW S, NEW T, IsFiniteSet(S), IsFiniteSet(T), S \cap T = {}
    PROVE  IsFiniteSet(S \cup T) /\ Cardinality(S \cup T) = Cardinality(S) + Cardinality(T)
<1>1. IsFiniteSet(S \cup T) /\ Cardinality(S \cup T) = Cardinality(S) + Cardinality(T) - Cardinality(S \cap T)
  BY FS_Union
<1>2. Cardinality(S \cap T) = 0
  BY FS_EmptySet
<1>3. Cardinality(S) \in Nat /\ Cardinality(T) \in Nat
  BY FS_CardinalityType
<1> QED
  BY <1>1, <1>2, <1>3

\* The CVEs kept fall into those of each severity that counts and the rest.
LEMMA Partition ==
    ASSUME RInv
    PROVE  Cardinality(DOMAIN cves)
             = TotalOf(Counted[1]) + TotalOf(Counted[2]) + TotalOf(Counted[3])
                 + TotalOf(Counted[4]) + TotalOf(Counted[5])
             <=> \A n \in DOMAIN cves : Rank(cves[n]) > 0
<1> DEFINE C(s) == {n \in DOMAIN cves : cves[n] = s}
           A1 == C(Counted[1])  A2 == C(Counted[2])  A3 == C(Counted[3])
           A4 == C(Counted[4])  A5 == C(Counted[5])
           Rest == {n \in DOMAIN cves : ~\E i \in 1 .. 5 : Counted[i] = cves[n]}
<1>1. /\ IsFiniteSet(A1) /\ IsFiniteSet(A2) /\ IsFiniteSet(A3) /\ IsFiniteSet(A4)
      /\ IsFiniteSet(A5) /\ IsFiniteSet(Rest)
  <2>1. IsFiniteSet(DOMAIN cves)
    BY DEF RInv
  <2>2. /\ A1 \subseteq DOMAIN cves /\ A2 \subseteq DOMAIN cves /\ A3 \subseteq DOMAIN cves
        /\ A4 \subseteq DOMAIN cves /\ A5 \subseteq DOMAIN cves /\ Rest \subseteq DOMAIN cves
    OBVIOUS
  <2> HIDE DEF A1, A2, A3, A4, A5, Rest
  <2> QED
    BY <2>1, <2>2, FS_Subset
<1>2. /\ A1 \cap A2 = {}
      /\ (A1 \cup A2) \cap A3 = {}
      /\ (A1 \cup A2 \cup A3) \cap A4 = {}
      /\ (A1 \cup A2 \cup A3 \cup A4) \cap A5 = {}
      /\ (A1 \cup A2 \cup A3 \cup A4 \cup A5) \cap Rest = {}
  <2>1. \A i, j \in 1 .. 5 : i # j => C(Counted[i]) \cap C(Counted[j]) = {}
    BY CountedType
  <2>2. \A i \in 1 .. 5 : C(Counted[i]) \cap Rest = {}
    OBVIOUS
  <2>3. /\ A1 \cap A2 = {} /\ A1 \cap A3 = {} /\ A1 \cap A4 = {} /\ A1 \cap A5 = {}
        /\ A2 \cap A3 = {} /\ A2 \cap A4 = {} /\ A2 \cap A5 = {}
        /\ A3 \cap A4 = {} /\ A3 \cap A5 = {} /\ A4 \cap A5 = {}
    <3> HIDE DEF C
    <3> QED
      BY <2>1
  <2>4. /\ A1 \cap Rest = {} /\ A2 \cap Rest = {} /\ A3 \cap Rest = {} /\ A4 \cap Rest = {}
        /\ A5 \cap Rest = {}
    <3> HIDE DEF C, Rest
    <3> QED
      BY <2>2
  <2> HIDE DEF A1, A2, A3, A4, A5, Rest
  <2> QED
    BY <2>3, <2>4
<1>3. DOMAIN cves = A1 \cup A2 \cup A3 \cup A4 \cup A5 \cup Rest
  <2>1. \A s : (\E i \in 1 .. 5 : Counted[i] = s)
            => s = Counted[1] \/ s = Counted[2] \/ s = Counted[3] \/ s = Counted[4] \/ s = Counted[5]
    OBVIOUS
  <2> QED
    BY <2>1
<1>4. /\ TotalOf(Counted[1]) = Cardinality(A1) /\ TotalOf(Counted[2]) = Cardinality(A2)
      /\ TotalOf(Counted[3]) = Cardinality(A3) /\ TotalOf(Counted[4]) = Cardinality(A4)
      /\ TotalOf(Counted[5]) = Cardinality(A5)
  BY DEF TotalOf
<1>5. Rest = {} <=> \A n \in DOMAIN cves : Rank(cves[n]) > 0
  <2>1. Rest = {} <=> \A n \in DOMAIN cves : \E i \in 1 .. 5 : Counted[i] = cves[n]
    OBVIOUS
  <2> QED
    BY <2>1, RankOf
<1> HIDE DEF A1, A2, A3, A4, A5, Rest
<1>6. /\ IsFiniteSet(A1 \cup A2 \cup A3)
      /\ Cardinality(A1 \cup A2 \cup A3) = Cardinality(A1) + Cardinality(A2) + Cardinality(A3)
  <2>1. IsFiniteSet(A1 \cup A2) /\ Cardinality(A1 \cup A2) = Cardinality(A1) + Cardinality(A2)
    BY <1>1, <1>2, Disjoint
  <2> QED
    BY <1>1, <1>2, <2>1, Disjoint
<1>7. /\ IsFiniteSet(A1 \cup A2 \cup A3 \cup A4 \cup A5)
      /\ Cardinality(A1 \cup A2 \cup A3 \cup A4 \cup A5)
           = Cardinality(A1) + Cardinality(A2) + Cardinality(A3) + Cardinality(A4) + Cardinality(A5)
  <2>1. /\ IsFiniteSet(A1 \cup A2 \cup A3 \cup A4)
        /\ Cardinality(A1 \cup A2 \cup A3 \cup A4) = Cardinality(A1 \cup A2 \cup A3) + Cardinality(A4)
    BY <1>1, <1>2, <1>6, Disjoint
  <2>2. /\ IsFiniteSet(A1 \cup A2 \cup A3 \cup A4 \cup A5)
        /\ Cardinality(A1 \cup A2 \cup A3 \cup A4 \cup A5)
             = Cardinality(A1 \cup A2 \cup A3 \cup A4) + Cardinality(A5)
    BY <1>1, <1>2, <2>1, Disjoint
  <2> QED
    BY <1>6, <2>1, <2>2
<1>8. Cardinality(DOMAIN cves) = Cardinality(A1) + Cardinality(A2) + Cardinality(A3)
                                   + Cardinality(A4) + Cardinality(A5) + Cardinality(Rest)
  <2>1. Cardinality((A1 \cup A2 \cup A3 \cup A4 \cup A5) \cup Rest)
          = Cardinality(A1 \cup A2 \cup A3 \cup A4 \cup A5) + Cardinality(Rest)
    BY <1>1, <1>2, <1>7, Disjoint
  <2> QED
    BY <1>3, <1>7, <2>1
<1>9. /\ Cardinality(A1) \in Nat /\ Cardinality(A2) \in Nat /\ Cardinality(A3) \in Nat
      /\ Cardinality(A4) \in Nat /\ Cardinality(A5) \in Nat /\ Cardinality(Rest) \in Nat
      /\ (Cardinality(Rest) = 0 <=> Rest = {})
  BY <1>1, FS_CardinalityType, FS_EmptySet
<1> QED
  BY <1>4, <1>5, <1>8, <1>9

\* Both outputs have the total and the counts of the aggregater, the text also when
\* there is no CVE.
LEMMA Outputs ==
    ASSUME RInv, NEW p \in printed
    PROVE  /\ p = Text \/ p = Json
           /\ p.total = Cardinality(DOMAIN cves)
           /\ p.counts = SeverityCounts
<1>1. p = Text \/ p = Json
  BY DEF RInv, Closed
<1>2. NoCVEs => SeverityCounts = {}
  <2>1. SUFFICES ASSUME NoCVEs, NEW j \in DOMAIN Counted, TotalOf(Counted[j]) > 0 PROVE FALSE
    BY DEF SeverityCounts
  <2> QED
    BY <2>1, TotalType DEF NoCVEs
<1>3. NoCVEs => Cardinality(DOMAIN cves) = 0
  BY FS_EmptySet DEF NoCVEs
<1>4. Json.total = Cardinality(DOMAIN cves) /\ Json.counts = SeverityCounts
  BY DEF Json
<1>5. Text.total = Cardinality(DOMAIN cves) /\ Text.counts = SeverityCounts
  <2>1. /\ Text.total = IF NoCVEs THEN 0 ELSE Cardinality(DOMAIN cves)
        /\ Text.counts = IF NoCVEs THEN {} ELSE SeverityCounts
    BY DEF Text
  <2> QED
    BY <1>2, <1>3, <2>1
<1> QED
  BY <1>1, <1>4, <1>5

LEMMA CountsAreTotals ==
    ASSUME RInv, NEW p \in printed, NEW i \in 1 .. 5
    PROVE  CountBeside(p, Counted[i]) = TotalOf(Counted[i])
<1>1. p.counts = {[severity |-> Counted[j], count |-> TotalOf(Counted[j])] :
                      j \in {j \in 1 .. 5 : TotalOf(Counted[j]) > 0}}
  BY Outputs, CountedType DEF SeverityCounts
<1>2. CASE TotalOf(Counted[i]) > 0
  <2> DEFINE k == [severity |-> Counted[i], count |-> TotalOf(Counted[i])]
  <2>1. k \in p.counts /\ k.severity = Counted[i] /\ k.count = TotalOf(Counted[i])
    BY <1>1, <1>2
  <2>2. \A l \in p.counts : l.severity = Counted[i] => l.count = TotalOf(Counted[i])
    BY <1>1, CountedType
  <2> HIDE DEF k
  <2> QED
    BY <2>1, <2>2 DEF CountBeside
<1>3. CASE ~(TotalOf(Counted[i]) > 0)
  <2>1. ~\E l \in p.counts : l.severity = Counted[i]
    BY <1>1, <1>3, CountedType
  <2>2. TotalOf(Counted[i]) = 0
    BY <1>3, TotalType
  <2> QED
    BY <2>1, <2>2 DEF CountBeside
<1> QED
  BY <1>2, <1>3

\* A table is the text of a report with CVEs: every container has its line.
LEMMA TableIsComplete ==
    ASSUME IInv, RInv, NEW p \in printed
    PROVE  /\ DOMAIN p.rows # {} => p.total > 0 /\ DOMAIN p.rows = Container
           /\ \A c \in DOMAIN p.rows : reply[c].err # "nil" <=> p.rows[c].status \in {"N/A", "ERROR"}
<1>1. CASE p.rows = summaries /\ ~NoCVEs
  <2>1. DOMAIN summaries = Container
    BY DEF RInv, Closed, Summarised, IInv, IsAdded
  <2>2. p.total > 0
    <3>1. Cardinality(DOMAIN cves) \in Nat /\ Cardinality(DOMAIN cves) # 0
      BY <1>1, FS_CardinalityType, FS_EmptySet DEF NoCVEs, RInv
    <3> QED
      BY <3>1, Outputs
  <2>3. ASSUME NEW c \in Container
        PROVE  reply[c].err # "nil" <=> summaries[c].status \in {"N/A", "ERROR"}
    <3>1. summaries[c] = Summary(c)
      BY <2>1 DEF RInv, Summarised
    <3>2. Summary(c).status =
              IF reply[c].err = "scan not found" THEN "N/A"
              ELSE IF reply[c].err # "nil" THEN "ERROR"
              ELSE IF CountOf(c, "CRITICAL") > 0 \/ CountOf(c, "HIGH") > 0 THEN "VULNERABLE"
              ELSE IF CountOf(c, "MEDIUM") > 0 THEN "WARNING"
              ELSE "OK"
      BY DEF Summary
    <3> QED
      BY <3>1, <3>2
  <2> QED
    BY <1>1, <2>1, <2>2, <2>3
<1>2. CASE p.rows = [c \in {} |-> {}]
  BY <1>2
<1>3. p.rows = [c \in {} |-> {}] \/ (p.rows = summaries /\ ~NoCVEs)
  <2> DEFINE nothing == [c \in {} |-> {}]
  <2>1. Json.rows = nothing
    BY DEF Json
  <2>2. Text.rows = IF NoCVEs THEN nothing ELSE summaries
    BY DEF Text
  <2>3. p = Text \/ p = Json
    BY Outputs
  <2> HIDE DEF nothing
  <2>4. p.rows = nothing \/ (p.rows = summaries /\ ~NoCVEs)
    BY <2>1, <2>2, <2>3
  <2> QED
    BY <2>4 DEF nothing
<1> QED
  BY <1>1, <1>2, <1>3

LEMMA OutputIsComplete == IInv /\ RInv => PrintedIsComplete
<1> SUFFICES ASSUME IInv, RInv, NEW p \in printed
             PROVE  /\ p.total = 0 <=> \A c \in Container : Names(c) = {}
                    /\ \A c \in Container : \A i \in DOMAIN Cves(c) :
                          Cves(c)[i].severity \in Serious =>
                              \/ \E v \in p.vulns : /\ v.name = Cves(c)[i].name
                                                   /\ v.severity = Cves(c)[i].severity
                                                   /\ c \in v.containers
                              \/ Disputed(Cves(c)[i].name)
                    /\ p.total = CountsBeside(p) <=> \A n \in DOMAIN cves : Rank(cves[n]) > 0
  BY TableIsComplete DEF PrintedIsComplete
<1>1. {added[i] : i \in DOMAIN added} = Container
  BY DEF IInv, RInv, Closed, IsAdded
<1>2. p.total = 0 <=> \A c \in Container : Names(c) = {}
  <2>1. p.total = 0 <=> DOMAIN cves = {}
    BY Outputs, FS_EmptySet DEF RInv
  <2>2. DOMAIN cves = {} <=> \A c \in {added[i] : i \in DOMAIN added} : Names(c) = {}
    BY DEF IInv, ContainersAreExact
  <2> QED
    BY <1>1, <2>1, <2>2
<1>3. ASSUME NEW c \in Container, NEW i \in DOMAIN Cves(c), Cves(c)[i].severity \in Serious,
             ~Disputed(Cves(c)[i].name)
      PROVE  \E v \in p.vulns : /\ v.name = Cves(c)[i].name
                               /\ v.severity = Cves(c)[i].severity
                               /\ c \in v.containers
  <2> DEFINE n == Cves(c)[i].name
             s == Cves(c)[i].severity
             v == [name |-> n, severity |-> cves[n], containers |-> cveToContainers[n]]
  <2>2. n \in Names(c) /\ IsAdded(c)
    BY <1>1 DEF Names, IsAdded
  <2>3. n \in DOMAIN cves /\ cves[n] = s
    BY <1>1, <1>3, <2>2, KeptSeverity
  <2>4. c \in cveToContainers[n]
    BY <2>2, <2>3 DEF IInv, ContainersAreExact
  <2>5. v \in Vulns /\ v.name = n /\ v.severity = s /\ c \in v.containers
    BY <2>3, <2>4 DEF Vulns
  <2>6. v \in p.vulns
    <3>1. CASE p = Json
      BY <2>5, <3>1 DEF Json
    <3>2. CASE p = Text
      <4>1. ~NoCVEs
        BY <2>3 DEF NoCVEs
      <4>2. Text.vulns = UNION {CvesBySeverity(t) : t \in {"CRITICAL", "HIGH", "MEDIUM"}}
        BY <4>1 DEF Text
      <4>3. v \in CvesBySeverity(s) /\ s \in {"CRITICAL", "HIGH", "MEDIUM"}
        BY <1>3, <2>5 DEF CvesBySeverity, Serious
      <4> HIDE DEF v
      <4> QED
        BY <3>2, <4>2, <4>3
    <3> QED
      BY <3>1, <3>2, Outputs
  <2> HIDE DEF v
  <2> QED
    BY <2>5, <2>6
<1>4. p.total = CountsBeside(p) <=> \A n \in DOMAIN cves : Rank(cves[n]) > 0
  <2>1. /\ Counted[1] = "INFORMATIONAL" /\ Counted[2] = "LOW" /\ Counted[3] = "MEDIUM"
        /\ Counted[4] = "HIGH" /\ Counted[5] = "CRITICAL"
    BY DEF Counted
  <2>2. CountsBeside(p) = CountBeside(p, Counted[1]) + CountBeside(p, Counted[2])
            + CountBeside(p, Counted[3]) + CountBeside(p, Counted[4]) + CountBeside(p, Counted[5])
    BY <2>1 DEF CountsBeside
  <2>3. CountsBeside(p) = TotalOf(Counted[1]) + TotalOf(Counted[2]) + TotalOf(Counted[3])
            + TotalOf(Counted[4]) + TotalOf(Counted[5])
    BY <2>2, CountsAreTotals
  <2> QED
    BY <2>3, Outputs, Partition
<1> QED
  BY <1>2, <1>3, <1>4

\* What is printed hides no CVE that matters: for any containers and replies, output
\* without a CVE means that no scan found one; every finding that makes a container
\* VULNERABLE or WARNING is listed under its name with its severity and the container,
\* unless findings of that name differ in severity; and a table tells which images
\* could not be scanned (printer.go:43, 53, 68-70, 77).
THEOREM PrintedComplete == Spec => []PrintedIsComplete
BY OutputIsComplete, AlwaysReport, PTL
=============================================================================
