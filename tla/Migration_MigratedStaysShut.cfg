CONSTANTS
    Agents = {a1}
    MaxMigrations = 1
    MaxFaults = 2
    MaxLost = 0
SPECIFICATION Spec
CHECK_DEADLOCK FALSE
INVARIANT MigratedStaysShut
