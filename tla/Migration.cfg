\* One migration of a model with one agent, one failure of any worker or handler
\* and two calls to the target whose answer is lost.
CONSTANTS
    Agents = {a1}
    MaxMigrations = 1
    MaxFaults = 1
    MaxLost = 2
SPECIFICATION Spec
INVARIANT MigrationTypeOK CommitAgreed AgentsFollow SoleOwner ImportClaimed
PROPERTY MigrationEnds
CHECK_DEADLOCK FALSE
