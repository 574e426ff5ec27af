SPECIFICATION Spec
CONSTANTS
    Clients = {c1, c2}
    TaskIds = {t1, t2}
    MaxInputs = 3
    MaxCallbacks = 2
    None = None
INVARIANTS
    TypeOK
PROPERTIES
    NoDebouncedReplanAfterStop
    ClientsServed
    StopCompletes
    ScheduledInputSeen
