CONSTANTS
    MaxCalls = 2
    PerSeconds = 2
    Callers = {t1, t2}
    MaxNow = 4
SPECIFICATION Spec
SYMMETRY CallerSymmetry
INVARIANTS
    TypeOK
    UpstreamBound
    SlotsAccounted
    GatesRead
PROPERTIES
    ImplementsWindow
