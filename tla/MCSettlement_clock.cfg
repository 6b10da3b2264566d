CONSTANTS
    ReserveFloor = 1
    MaxPayout = 2
    MaxDailyPayout = 2
    ApprovalThreshold = 1
    Clerks = {ann, bob}
    Obligations = {"small"}
    Amount <- MCAmount
    StartBalance = 3
    ReportsPaidToday = TRUE
    KeepsHandle = FALSE
    ClockMayStepBack = TRUE
    MaxNow = 2
    MaxBalance = 3
    MaxGrants = 3
    MaxFaults = 1
SPECIFICATION Spec
SYMMETRY ClerkSymmetry
PROPERTIES
    OutForGood
