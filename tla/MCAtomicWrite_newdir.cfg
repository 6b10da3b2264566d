CONSTANTS
    Calls = {"first", "second"}
SPECIFICATION Spec
INVARIANTS
    AcknowledgedSurvives
CHECK_DEADLOCK FALSE
