SPECIFICATION Spec
CONSTANTS
  Con = {c1, c2, c3}
  RefInUse = FALSE
  Throws = FALSE
  NoCon = NoCon
SYMMETRY Symmetry
CHECK_DEADLOCK FALSE
INVARIANT OneOpen
