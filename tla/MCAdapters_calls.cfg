CONSTANTS
    Dims <- MCDims
    Capabilities <- MCCapabilities
    Providers <- MCProviders
    ProviderId <- MCProviderId
    Lane <- MCLane
    Advertised <- MCAdvertised
    ShipsEnabled <- MCShipsEnabled
    Switched <- MCSwitched
    Jobs <- MCJobs
    Capability <- MCCapability
    Requirements <- MCRequirements
    Cost <- MCCost
    Unpriceable <- MCUnpriceable
    Founding <- MCFounding
    Drivers = {d1, d2}
    Kind <- MCKind
    Built <- MCBuilt
    Accepts <- MCAccepts
    IdleJobs <- MCIdleJobs
    MaxWorkers <- MCMaxWorkers
SPECIFICATION Spec
INVARIANTS
    TypeOK
    HandleFindsItsProvider
    WorkAccounted
    ShutdownDrains
PROPERTIES
    ShutGateHolds
