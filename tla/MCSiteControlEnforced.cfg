\* An Off override against an owner who switches the load on again.
SPECIFICATION FairSpec
CONSTANTS
    Loads <- SoleLoad
    Power <- SolePower
    Metered = {1}
    HardLimit <- MCHardLimit
    BaseLevels <- SoleLevels
    Overridden = {1}
    Adjusted = {1}
    Handled = {1}
    None = None
PROPERTY
    OffIsEnforced
