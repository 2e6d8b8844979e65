SPECIFICATION FairSpec
CONSTANTS
  Waiter = {w1, w2, w3}
  Io = Io
  None = None
INVARIANTS WakeupKept
PROPERTIES LoneWaiterReturns SameWaitersReturn
