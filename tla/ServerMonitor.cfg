SPECIFICATION Spec
CONSTANTS
    a = a
    b = b
    Hosts <- MCHosts
    Retries = 2
    MaxCycles = 3
INVARIANTS
    SnapshotOfOneCycle
    PlayersHaveStatus
    StoredAgainOnlyAfterFailures
PROPERTIES
    CyclesGoOn
CHECK_DEADLOCK FALSE
