CONSTANTS
    LeaseKeys = {k1}
    TypedKeys = {k1}
    Leadership = {k1}
    Holders = {h1, h2}
    Entities = {}
    Durations = {1, 3}
    SecondTicks = 1
    DaySeconds = 4
    MaxSeconds = 2
    Managers = {m1}
    Requests = {r1, r2}
    Waiters = {}
    MaxRetries = 2
    MaxSleep = 9
    MaxChecks = 0
SPECIFICATION LmSpec
INVARIANTS LmTypeOK ClaimKept
SYMMETRY Symmetry
