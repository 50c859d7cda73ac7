CONSTANTS
    LeaseKeys = {k1, k2}
    TypedKeys = {k1}
    Leadership = {k1}
    Holders = {h1}
    Entities = {}
    Durations = {1}
    SecondTicks = 1
    DaySeconds = 4
    MaxSeconds = 2
    Managers = {m1}
    Requests = {r1}
    Waiters = {}
    MaxRetries = 2
    MaxSleep = 9
    MaxChecks = 0
SPECIFICATION LmSpec
INVARIANT ClaimGuaranteed
