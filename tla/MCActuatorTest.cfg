SPECIFICATION Spec
CONSTANT None = None
INVARIANTS
    TypeOK
    RecordMatchesTask
    StopPendingUntilFailure
PROPERTIES
    TestEnds
    RecordOutlivesOutput
    EndsConfirmed
