\* Who commands what: one load has a user and a form, both have an owner at the switch.
SPECIFICATION Spec
CONSTANTS
    Loads <- MCLoads
    Power <- MCPower
    Metered <- MCMetered
    HardLimit <- MCHardLimit
    BaseLevels <- MCBaseLevels
    Overridden = {1}
    Adjusted = {1}
    Handled = {1, 2}
    None = None
INVARIANTS
    TypeOK
    StartsWithinHardLimit
    QuietWithoutInputs
    CommandsFollowOverrides
    AutomaticAuthority
