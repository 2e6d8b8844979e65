SPECIFICATION FairSpec
CONSTANTS
  Con = {c1, c2, c3}
  RefInUse = TRUE
  Throws = TRUE
  NoCon = NoCon
CHECK_DEADLOCK FALSE
INVARIANTS SingleConnection IndInv
PROPERTIES ImplementsLink Reconnects DeafEnds OpenIsAnnounced DestructorEnds
