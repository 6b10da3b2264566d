CONSTANTS
    ReserveFloor = 1
    MaxPayout = 2
    MaxDailyPayout = 2
    ApprovalThreshold = 1
    Clerks = {ann, bob}
    Obligations = {"small", "large"}
    Amount <- MCAmount
    StartBalance = 3
    ReportsPaidToday = TRUE
    KeepsHandle = FALSE
    ClockMayStepBack = FALSE
    MaxNow = 1
    MaxBalance = 3
    MaxGrants = 2
    MaxFaults = 1
SPECIFICATION Spec
SYMMETRY ClerkSymmetry
INVARIANTS
    TypeOK
    BooksTruthful
    PaidIsBooked
    OutstandingAccurate
    PaymentsAccounted
    FloorBound
    DailyBound
