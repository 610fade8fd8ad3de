\* The four commands with flags, files and environments that agree, disagree or are
\* not complete, and a user who confirms or does not.
SPECIFICATION Spec
CONSTANTS
    Char = {"$", "{", "}", "a", "b", "c", "r", "t", "v", "w"}
    Dollar = "$"
    Open = "{"
    Close = "}"
    Newline = Newline
    Variable <- MCVariable
    Nil = Nil
    Flags <- MCFlags
    Waits = {0, 20}
    ServiceJsons <- MCServiceJsons
    Environments <- MCEnvironments
INVARIANTS
    InvocationTypeOK
    ConfirmedIsChanged
    CompleteBeforeAsking
    DirectoryDecides
    SubstitutesAtOnce
CHECK_DEADLOCK FALSE
