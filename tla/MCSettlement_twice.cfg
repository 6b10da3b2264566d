CONSTANTS
    ReserveFloor = 1
    MaxPayout = 2
    MaxDailyPayout = 2
    ApprovalThreshold = 1
    Clerks = {ann}
    Obligations = {"small", "large"}
    Amount <- MCAmount
    StartBalance = 3
    ReportsPaidToday = TRUE
    KeepsHandle = TRUE
    ClockMayStepBack = FALSE
    MaxNow = 1
    MaxBalance = 3
    MaxGrants = 2
    MaxFaults = 0
SPECIFICATION Spec
INVARIANTS
    NotSettledTwice
