SPECIFICATION FairSpec
CONSTANTS
    a = a
    Loads <- OneLoad
    Reports <- OneReport
    MaxRevision = 2
    MaxCalls = 2
    None = None
INVARIANT
    NeverOverwritesSilently
