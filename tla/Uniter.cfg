CONSTANTS
    NumActions = 1
    MaxChanges = 2
    MaxCrashes = 1
    MaxFails = 1
    ShouldRetryHooks = TRUE
SPECIFICATION Spec
INVARIANT UniterTypeOK HookOrder CharmDirShut ChangesDelivered ActionsEndOnce
PROPERTY DyingUnitEnds
CHECK_DEADLOCK FALSE
