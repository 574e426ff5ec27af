\* Three requests: 11000 arbitrary calls, and those of the cycles of a site of four loads.
SPECIFICATION MCSpec
CONSTANTS
    Loads <- MCLoads
    Phases <- MCPhases
    Requests <- MCRequests
    Decisions <- MCDecisions
    None = None
    SiteLoads <- MCSiteLoads
    Power <- MCPower
    Metered <- MCMetered
    ImportLimit <- MCLimit
    Meters <- MCMeters
    Stagger <- MCStagger
INVARIANTS
    TypeOK
    HardLimitRespected
    ControlledLimitRespected
    PhaseLimitRespected
    BinaryCapRespected
    StartsStaggered
    NoPriorityInversion
    GrantsOfTheCycle
PROPERTIES
    ImplementsSolarPool
CHECK_DEADLOCK FALSE
