CONSTANTS
    Callers = {ann, bob}
    Accounts = {"account"}
    MaxPoints = 1
    MaxSetBacks = 1
    MaxNow = 1
    MaxCalls = 4
SPECIFICATION Spec
SYMMETRY CallerSymmetry
INVARIANTS
    TypeOK
    OverdraftBound
    EntriesAccounted
    LatestIsNewest
CHECK_DEADLOCK FALSE
