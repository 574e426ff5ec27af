\* A boost on a load without automatic control.
SPECIFICATION Spec
CONSTANTS
    Loads <- SoleLoad
    Power <- SolePower
    Metered = {1}
    HardLimit <- MCHardLimit
    BaseLevels = {0}
    Overridden = {1}
    Adjusted = {}
    Handled = {}
    None = None
PROPERTY
    BoostEnds
