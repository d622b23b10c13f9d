SPECIFICATION Spec
CONSTANTS
    Snapshots = {1, 2, 3, 4}
    TypeOf <- MCTypeOf
CONSTRAINT FirstAreSound
INVARIANTS
    TypeOK
    RestartListsAll
PROPERTIES
    HealthyIsKept
