CONSTANTS
    LeaseKeys = {k1, k2, k3}
    TypedKeys = {k1, k2}
    Leadership = {k1}
    Holders = {h1, h2}
    Entities = {e1}
    Durations = {2, 4}
    SecondTicks = 3
    DaySeconds = 4
    MaxSeconds = 5
SPECIFICATION StoreSpec
INVARIANTS StoreTypeOK PromiseKept ExportCoversHolders
PROPERTY PinnedKeepsHolder
