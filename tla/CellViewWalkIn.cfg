CONSTANTS
  zero = zero
  inn = inn
  out = out
  Players = {p1, p2}
  Things = {npc}
  Cells = {zero, inn, out}
  Zero = zero
  Neighbours <- MCNeighbours
  None = None
  Nobody = Nobody
SPECIFICATION PlaySpec
INVARIANT OwnedInViewIsKnown
CHECK_DEADLOCK FALSE
