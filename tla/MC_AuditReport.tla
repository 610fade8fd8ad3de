--------------------------- MODULE MC_AuditReport ---------------------------
(* Up to two findings for each image, basic or enhanced, under two names or none. *)
EXTENDS AuditReport

MCNames == {"CVE-1", "CVE-2", "nil"}
MCBasic == [name : MCNames, severity : {"CRITICAL", "MEDIUM", "UNDEFINED"}]
MCEnhanced ==
    {f \in [name : {"CVE-1", "nil"}, severity : {"LOW", "UNDEFINED", "nil"}, vendor : {"HIGH", "nil"}] :
        f.severity = "LOW" => f.vendor = "nil"}

UpTo(n, S) == UNION {[1 .. k -> S] : k \in 0 .. n}

MCReplies ==
    [err : {"nil"}, basic : UpTo(2, MCBasic), enhanced : {<<>>}]
    \cup [err : {"nil"}, basic : UpTo(1, MCBasic), enhanced : UpTo(1, MCEnhanced)]
    \cup [err : {"failed", "scan not found", "non-ECR"}, basic : {<<>>}, enhanced : {<<>>}]
=============================================================================
