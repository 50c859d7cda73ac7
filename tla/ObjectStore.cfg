SPECIFICATION Spec
CONSTANTS
  Controllers = {c1, c2}
  Primary = c1
  Paths = {p1}
  Hashes = {h1}
  None = None
  MaxAttempts = 2
  MaxFaults = 1
  MaxRequests = 1
INVARIANTS ObjectStoreTypeOK EarlyRowsKept
PROPERTIES DrainListsOwnWrites DrainSettles
CHECK_DEADLOCK FALSE
