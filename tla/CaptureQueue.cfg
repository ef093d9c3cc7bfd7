\* Two lines and two mishaps (one where edits of the queue overlap); rows leave the sandbox while their lines are
\* still being sent.
SPECIFICATION FairSpec
CONSTANTS
  Lines = {l1, l2}
  MaxMishaps <- TwoOrOne
  None = None
CHECK_DEADLOCK FALSE
INVARIANTS OldestFirst Kept GoneForGood
PROPERTIES PromiseKept Drained
