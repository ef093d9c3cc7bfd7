\* Two tasks of two projects over three days of two units each.
SPECIFICATION HistorySpec
CONSTANTS
  t1 = t1
  t2 = t2
  p1 = p1
  p2 = p2
  Tasks = {t1, t2}
  Projects = {p1, p2}
  HomeOf <- MCHomeOf
  Day = 2
  Offsets <- MCOffsets
  WindowDays = {1, 2}
  StaleLimit = 1
  MaxClock = 4
  MaxJournal <- MCJournal
INVARIANTS TimeAccounted AnswerTrue
CHECK_DEADLOCK FALSE
