CONSTANTS
    Calls = {"first", "second"}
SPECIFICATION Spec
INVARIANTS
    TypeOK
    ReadersSeeWhole
PROPERTIES
    NoTempLeft
    ImplementsStore
CHECK_DEADLOCK FALSE
