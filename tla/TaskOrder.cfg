\* Three tasks and a gap that can be halved once; drags on lists that may be old.
SPECIFICATION Spec
CONSTANTS
  Tasks = {t1, t2, t3}
  Requests = {r1, r2}
  Fresh = FALSE
  MaxMoves = 3
  GAP = 2
  None = None
  Exhausted = Exhausted
SYMMETRY Symmetric
CHECK_DEADLOCK FALSE
INVARIANTS MoveSettles
PROPERTIES GoneStaysGone LandsWhereDropped ListKept
