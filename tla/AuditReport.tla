---------------------------- MODULE AuditReport ----------------------------
(***************************************************************************)
(* The report of `cage audit` (cli/cage/audit: scanner.go from the findings *)
(* of ECR on, types.go, aggregator.go, printer.go).  The scan results are  *)
(* added one by one to the aggregater, which keeps each CVE once, by its   *)
(* name, together with the containers it was found in; the totals and the  *)
(* lists that are printed are made from that.                              *)
(*                                                                         *)
(* Of a finding its name and severity are modelled; packages, links and    *)
(* descriptions are only carried along.                                    *)
(***************************************************************************)
EXTENDS Integers, Sequences, FiniteSets

CONSTANTS
    Container,   \* the containers, each with one image
    Replies      \* what a scan may yield, see Reply

VARIABLES
    reply,            \* what the scan of each container has yielded
    added,            \* the containers that were added, in their order
    cves,             \* aggregater.cves: the severity kept for each name
    cveToContainers,  \* aggregater.cveToContainers
    summaries,        \* aggregater.summaries of the containers added
    printed           \* what was printed: nothing yet, or one output

vars == <<reply, added, cves, cveToContainers, summaries, printed>>

\* Severities that are counted, in ascending order; any other is not.
Counted == <<"INFORMATIONAL", "LOW", "MEDIUM", "HIGH", "CRITICAL">>
Rank(s) == IF \E i \in DOMAIN Counted : Counted[i] = s
           THEN CHOOSE i \in DOMAIN Counted : Counted[i] = s
           ELSE 0
Severity == {Counted[i] : i \in DOMAIN Counted} \cup {"UNDEFINED", "UNTRIAGED"}

\* A finding of the basic scan, and one of the enhanced scan, whose severity may
\* be missing or be that of the vendor.
Basic == [name : STRING, severity : Severity]
Enhanced == [name : STRING, severity : Severity \cup {"nil"}, vendor : Severity \cup {"nil"}]
Reply == [err : {"nil", "failed", "scan not found", "non-ECR"}, basic : Seq(Basic), enhanced : Seq(Enhanced)]

ASSUME ReportAssumption == Replies \subseteq Reply

-----------------------------------------------------------------------------
(* scanner.go: the CVEs of one image *)

NameOf(f) == IF f.name = "nil" THEN "unknown" ELSE f.name

FindingToCVE(f) == [name |-> NameOf(f), severity |-> f.severity]

\* A severity that is missing or UNDEFINED is replaced by the vendor's.
EnhancedFindingToCVE(f) ==
    [name |-> NameOf(f),
     severity |-> IF f.severity \in {"nil", "UNDEFINED"}
                  THEN IF f.vendor # "nil" THEN f.vendor ELSE "UNDEFINED"
                  ELSE f.severity]

\* The enhanced findings count only if there are no basic ones; a scan that
\* failed has no CVEs.
CvesOf(r) ==
    IF r.err # "nil" THEN <<>>
    ELSE IF r.basic # <<>> THEN [i \in DOMAIN r.basic |-> FindingToCVE(r.basic[i])]
    ELSE [i \in DOMAIN r.enhanced |-> EnhancedFindingToCVE(r.enhanced[i])]
Cves(c) == CvesOf(reply[c])

Names(c) == {Cves(c)[i].name : i \in DOMAIN Cves(c)}

-----------------------------------------------------------------------------
(* types.go: ScanResult.Summary *)

CountOf(c, s) == Cardinality({i \in DOMAIN Cves(c) : Cves(c)[i].severity = s})

Summary(c) ==
    [counts |-> [i \in DOMAIN Counted |-> CountOf(c, Counted[i])],
     status |-> IF reply[c].err = "scan not found" THEN "N/A"
                ELSE IF reply[c].err # "nil" THEN "ERROR"
                ELSE IF CountOf(c, "CRITICAL") > 0 \/ CountOf(c, "HIGH") > 0 THEN "VULNERABLE"
                ELSE IF CountOf(c, "MEDIUM") > 0 THEN "WARNING"
                ELSE "OK"]

-----------------------------------------------------------------------------
(* aggregator.go *)

Init ==
    /\ reply \in [Container -> Replies]
    /\ added = <<>>
    /\ cves = [n \in {} |-> "UNDEFINED"]
    /\ cveToContainers = [n \in {} |-> {}]
    /\ summaries = [c \in {} |-> {}]
    /\ printed = {}

IsAdded(c) == \E i \in DOMAIN added : added[i] = c

\* The first of the image's CVEs with this name.
FirstSeverity(c, n) ==
    LET first == CHOOSE i \in DOMAIN Cves(c) :
                     /\ Cves(c)[i].name = n
                     /\ \A j \in DOMAIN Cves(c) : Cves(c)[j].name = n => i <= j
    IN  Cves(c)[first].severity

\* Mutant of AddSeverities: a later finding replaces the earlier one.
AddSeveritiesLast(c) ==
    [n \in DOMAIN cves \cup Names(c) |-> IF n \in Names(c) THEN FirstSeverity(c, n) ELSE cves[n]]

\* A CVE that is already there keeps what it was first seen with.
AddSeverities(c) ==
    [n \in DOMAIN cves \cup Names(c) |-> IF n \in DOMAIN cves THEN cves[n] ELSE FirstSeverity(c, n)]

\* The containers in which a CVE was found so far.
FoundIn(n) == IF n \in DOMAIN cveToContainers THEN cveToContainers[n] ELSE {}

\* Mutant of AddContainers: the container is noted only with a new CVE.
AddContainersOnce(c) ==
    [n \in DOMAIN cves \cup Names(c) |-> IF n \in DOMAIN cves THEN FoundIn(n) ELSE {c}]

AddContainers(c) ==
    [n \in DOMAIN cves \cup Names(c) |-> FoundIn(n) \cup (IF n \in Names(c) THEN {c} ELSE {})]

\* aggregater.Add
Add(c) ==
    /\ ~IsAdded(c)
    /\ added' = Append(added, c)
    /\ summaries' = [d \in DOMAIN summaries \cup {c} |->
                        IF d = c THEN Summary(c) ELSE summaries[d]]
    /\ cves' = AddSeverities(c)
    /\ cveToContainers' = AddContainers(c)
    /\ UNCHANGED <<reply, printed>>

\* SummarizeTotal: the counts and the highest severity counted.
TotalOf(s) == Cardinality({n \in DOMAIN cves : cves[n] = s})

\* Mutant of HighestSeverity: tested from the lowest severity upwards.
LowestSeverity ==
    IF \E i \in DOMAIN Counted : TotalOf(Counted[i]) > 0
    THEN Counted[CHOOSE i \in DOMAIN Counted :
                     TotalOf(Counted[i]) > 0 /\ \A j \in DOMAIN Counted : TotalOf(Counted[j]) > 0 => i <= j]
    ELSE "UNDEFINED"

HighestSeverity ==
    IF \E i \in DOMAIN Counted : TotalOf(Counted[i]) > 0
    THEN Counted[CHOOSE i \in DOMAIN Counted :
                     TotalOf(Counted[i]) > 0 /\ \A j \in DOMAIN Counted : TotalOf(Counted[j]) > 0 => j <= i]
    ELSE "UNDEFINED"

-----------------------------------------------------------------------------
(* Result, and printer.go *)

\* Result, in the order of the names, and the filters of types.go.
Vulns == {[name |-> n, severity |-> cves[n], containers |-> cveToContainers[n]] :
             n \in DOMAIN cves}
CvesBySeverity(s) == {v \in Vulns : v.severity = s}

\* SeverityCounts, without the lines that Print leaves out.
SeverityCounts == {[severity |-> Counted[i], count |-> TotalOf(Counted[i])] :
                      i \in {j \in DOMAIN Counted : TotalOf(Counted[j]) > 0}}

\* Mutant of NoCVEs: the counts are tested, which miss some severities.
NoCVEsCounted == SeverityCounts = {}
NoCVEs == DOMAIN cves = {}

\* Print: the table and the lists of the three highest severities, or one line
\* that says "No CVEs found".  PrintJSON has every CVE and no table.
Text ==
    [rows |-> IF NoCVEs THEN [c \in {} |-> {}] ELSE summaries,
     vulns |-> IF NoCVEs THEN {}
               ELSE UNION {CvesBySeverity(s) : s \in {"CRITICAL", "HIGH", "MEDIUM"}},
     total |-> IF NoCVEs THEN 0 ELSE Cardinality(DOMAIN cves),
     counts |-> IF NoCVEs THEN {} ELSE SeverityCounts]
Json == [rows |-> [c \in {} |-> {}], vulns |-> Vulns, total |-> Cardinality(DOMAIN cves),
         counts |-> SeverityCounts]

PrintReport ==
    /\ printed = {}
    /\ \A c \in Container : IsAdded(c)
    /\ printed' = {Text} \/ printed' = {Json}
    /\ UNCHANGED <<reply, added, cves, cveToContainers, summaries>>

Next == PrintReport \/ \E c \in Container : Add(c)

Spec == Init /\ [][Next]_vars

-----------------------------------------------------------------------------
(* Properties *)

\* Types of the aggregater.
ReportTypeOK ==
    /\ \A c \in Container : reply[c] \in Replies
    /\ \A i \in DOMAIN added : added[i] \in Container
    /\ \A n \in DOMAIN cves : cves[n] \in Severity
    /\ DOMAIN cveToContainers = DOMAIN cves
    /\ \A n \in DOMAIN cveToContainers : cveToContainers[n] \in SUBSET Container \ {{}}
    /\ DOMAIN summaries = {added[i] : i \in DOMAIN added}
    /\ printed \in SUBSET {Text, Json}

\* Each CVE is reported with exactly the containers that have it, in whatever
\* order the containers were added.
ContainersAreExact ==
    /\ DOMAIN cves = UNION {Names(added[i]) : i \in DOMAIN added}
    /\ \A n \in DOMAIN cves :
          cveToContainers[n] = {c \in Container : IsAdded(c) /\ n \in Names(c)}

\* Two findings of one name in the containers added that differ in severity.
Disputed(n) ==
    \E c, d \in {added[i] : i \in DOMAIN added} :
        \E i \in DOMAIN Cves(c), j \in DOMAIN Cves(d) :
            /\ Cves(c)[i].name = n /\ Cves(d)[j].name = n
            /\ Cves(c)[i].severity # Cves(d)[j].severity

\* The total is at least as severe as every line of the table, and counts what
\* the lines count, unless one name was found with two severities.
TotalCoversLines ==
    (\A n \in DOMAIN cves : ~Disputed(n)) =>
        \A c \in DOMAIN summaries, s \in DOMAIN Counted :
            /\ summaries[c].counts[s] > 0 => Rank(HighestSeverity) >= s
            /\ TotalOf(Counted[s]) >=
                  Cardinality({n \in Names(c) : FirstSeverity(c, n) = Counted[s]})

\* The counts beside the total in an output, a missing line being zero.
CountBeside(p, s) ==
    IF \E k \in p.counts : k.severity = s THEN (CHOOSE k \in p.counts : k.severity = s).count ELSE 0
CountsBeside(p) ==
    CountBeside(p, "INFORMATIONAL") + CountBeside(p, "LOW") + CountBeside(p, "MEDIUM")
        + CountBeside(p, "HIGH") + CountBeside(p, "CRITICAL")

Serious == {"CRITICAL", "HIGH", "MEDIUM"}

\* What is printed hides no CVE that matters: output without one means that no
\* scan found any; every finding that makes a container VULNERABLE or WARNING is
\* there under its name, with that severity and that container, unless findings of
\* this very name differ in severity; a table has a line for each container, and
\* tells the images that could not be scanned, but there is none without a CVE; and
\* only what has no severity that counts makes the total larger than the counts
\* beside it (printer.go:43, 53, 68-70, 77).
PrintedIsComplete ==
    \A p \in printed :
        /\ p.total = 0 <=> \A c \in Container : Names(c) = {}
        /\ \A c \in Container : \A i \in DOMAIN Cves(c) :
              Cves(c)[i].severity \in Serious =>
                  \/ \E v \in p.vulns : /\ v.name = Cves(c)[i].name
                                       /\ v.severity = Cves(c)[i].severity
                                       /\ c \in v.containers
                  \/ Disputed(Cves(c)[i].name)
        /\ DOMAIN p.rows # {} => p.total > 0 /\ DOMAIN p.rows = Container
        /\ \A c \in DOMAIN p.rows : reply[c].err # "nil" <=> p.rows[c].status \in {"N/A", "ERROR"}
        /\ p.total = CountsBeside(p) <=>
              \A n \in DOMAIN cves : Rank(cves[n]) > 0

\* A CVE is reported with the severity of the first of all its findings, container
\* by container in the order in which they were added, and no later one, of the same
\* image or of another, changes or repeats it.
FirstFindingCounts ==
    \A n \in DOMAIN cves : \E i \in DOMAIN added : \E k \in DOMAIN Cves(added[i]) :
        /\ Cves(added[i])[k].name = n
        /\ cves[n] = Cves(added[i])[k].severity
        /\ \A l \in 1 .. k - 1 : Cves(added[i])[l].name # n
        /\ \A j \in 1 .. i - 1 : n \notin Names(added[j])
=============================================================================
