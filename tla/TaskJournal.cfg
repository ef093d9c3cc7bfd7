\* One task; two requests overlap, or wait for each other.
SPECIFICATION Spec
CONSTANTS
  Tasks = {t1}
  Requests = {r1, r2}
  PatchBodies <- MCBodies
  MaxJournal = 4
  Idle = Idle
SYMMETRY Symmetric
CHECK_DEADLOCK FALSE
INVARIANTS FocusExplained StatusExplained
PROPERTIES JournalTellsLife
