\* Three requests on one thought, its capture posted twice.
SPECIFICATION Spec
CONSTANTS
  Thoughts = {k1}
  Requests = {r1, r2, r3}
  MaxRows = 5
  MaxPosts = 2
  MaxEdits = 2
  None = None
SYMMETRY Symmetric
CHECK_DEADLOCK FALSE
INVARIANTS OnePlace NothingLost LatestText
PROPERTIES ThoughtKept
