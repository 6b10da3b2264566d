CONSTANTS
    Dims <- MCDims
    Capabilities <- MCCapabilities
    Providers <- MCProviders
    ProviderId <- MCProviderId
    Lane <- MCLane
    Advertised <- MCAdvertised
    ShipsEnabled <- MCShipsEnabled
    Switched <- MCSwitched
    Jobs <- MCJobs
    Capability <- MCCapability
    Requirements <- MCRequirements
    Cost <- MCCost
    PriorityOf <- MCPriorityOf
    Unpriceable <- MCUnpriceable
    MaxSubmits = 2
    MaxLimit = 1
SPECIFICATION LiveSpec
PROPERTIES
    NeverStalled
