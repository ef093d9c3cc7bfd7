\* Two writes begun on either list, which start with two rows; three resyncs.
SPECIFICATION Spec
CONSTANTS
  MaxWrites = 2
  MaxNoteWrites = 2
  Null = Null
  None = None
  Asked = Asked
  Boards <- MCBoards
  Hours = {1, 2}
  IdOf <- MCIdOf
  BenchAlarm <- MCBench
  MaxSyncs = 3
  MaxMoment = 2
INVARIANTS CurrentRight InStep NotesKept AlarmsRepaired
CHECK_DEADLOCK FALSE
