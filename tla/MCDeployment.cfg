SPECIFICATION Spec
CONSTANTS
    r1 = r1
    task = task
    m1 = m1
    m2 = m2
    Request <- MCRequest
    Loop = task
    Migrator <- MCMigrator
    Create <- MCCreate
    Drop <- MCDrop
    Parents <- MCParents
    Kind <- MCKind
    Cycle <- MCCycle
    Route <- MCRoute
    Guarded <- MCGuarded
    PoolSize = 1
INVARIANTS TypeOK FailureChangesNothing SchemaWhole DisposedUnused
PROPERTIES WorkEnds MigrationEnds StopEnds LoopGoesOn
