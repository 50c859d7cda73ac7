CONSTANTS
    LeaseKeys = {k1}
    TypedKeys = {k1}
    Leadership = {k1}
    Holders = {h1}
    Entities = {e1}
    Durations = {3}
    SecondTicks = 1
    DaySeconds = 4
    MaxSeconds = 4
    Managers = {m1}
    Requests = {r1}
    Waiters = {x1}
    MaxRetries = 2
    MaxSleep = 1
    MaxChecks = 1
SPECIFICATION FairLmSpec
INVARIANTS TimerArmed PromptRelease ReleasedMeansGone
PROPERTY EveryRequestAnswered
