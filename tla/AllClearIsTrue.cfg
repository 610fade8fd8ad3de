\* A claim that does not hold.
SPECIFICATION Spec
CONSTANTS
    Image = {"app", "proxy"}
INVARIANTS
    AllClearIsTrue
CHECK_DEADLOCK FALSE
