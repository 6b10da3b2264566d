CONSTANTS
    Dims <- MCDims
    Capabilities <- MCCapabilities
    Providers <- MCProviders
    ProviderId <- MCProviderId
    Lane <- MCLane
    Advertised <- MCAdvertised
    ShipsEnabled <- MCShipsEnabled
    Switched <- MCSwitched
    Jobs <- MCJobs
    Capability <- MCCapability
    Requirements <- MCRequirements
    Cost <- MCCost
    PriorityOf <- MCPriorityOf
    Unpriceable <- MCUnpriceable
    MaxSubmits = 3
    MaxLimit = 2
SPECIFICATION LiveSpec
INVARIANTS
    TypeOK
    ExactlyOnce
    NoOvertaking
    LaneBarrier
    RoutingDeterministic
PROPERTIES
    IdleYieldsToRoutable
    LostOnlyInRaisedDrain
    ServableServed
