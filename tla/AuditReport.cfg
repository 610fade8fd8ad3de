\* Every pair of replies for two containers, added in either order and printed in both ways.
SPECIFICATION Spec
CONSTANTS
    Container = {"app", "proxy"}
    Replies <- MCReplies
INVARIANTS
    ContainersAreExact
    TotalCoversLines
    FirstFindingCounts
    PrintedIsComplete
CHECK_DEADLOCK FALSE
