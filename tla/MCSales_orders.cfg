CONSTANTS
    SupplierShare = 10
    KamAcquisition = 5
    Reserve = 5
    FreeRewards = 2
    BaseMargin = 25
    RateGrain = 100
    CostGrain = 1
    Dims <- MCDims
    Projects <- MCProjects
    Capacity <- MCCapacity
    Catalogue <- MCCatalogue
    PocJobsPerMonth = 1000
    LeasedJobsPerMonth = 5000
    QuietMonthFactor = 70
    DedicatedMonthlyCost = 20
    TrialCeiling = 5
    BuyFloor = 50
    Terms <- MCTerms
    Volumes <- MCVolumes
    Instants <- MCInstants
    MaxLeases = 2
    Sessions = {s1, s2}
    MaxCopies = 2
    MaxDoubts = 1
SPECIFICATION Spec
SYMMETRY SessionSymmetry
INVARIANTS
    TypeOK
    OfferAddsUp
    RoutedSizedOrHuman
    ChargesAccounted
    LeaseHandover
PROPERTIES
    PackagesAddUp
CHECK_DEADLOCK FALSE
