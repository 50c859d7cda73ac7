SPECIFICATION Spec
CONSTANTS
  Tickets = {p1, o1}
  Occupiers = {o1}
  Waiters = {w1, w2}
  None = None
INVARIANT FortressTypeOK
PROPERTIES ImplementsAccess LockdownEnds UnclaimedWorkerEnds
