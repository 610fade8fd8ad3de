\* The four commands with flags and files that agree or disagree; expected to be violated.
SPECIFICATION Spec
CONSTANTS
    Char = {"$", "{", "}", "a", "b", "c", "r", "t", "v", "w"}
    Dollar = "$"
    Open = "{"
    Close = "}"
    Newline = Newline
    Variable <- MCVariable
    Nil = Nil
    Flags <- MCFlags
    Waits = {0, 20}
    ServiceJsons <- MCServiceJsons
    Environments <- MCEnvironments
INVARIANT FlagsComeFirst
CHECK_DEADLOCK FALSE
