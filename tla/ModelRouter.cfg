\* Three models and two parses; outcomes recorded one at a time, or not.
SPECIFICATION RouterSpec
CONSTANTS
  m1 = m1
  m2 = m2
  Models = {m1, m2, m3}
  Env = Env
  None = None
  Reqs = {r1, r2}
  Pasts <- MCPasts
  Stored <- MCStored
  Sent <- MCSent
  COOLDOWN_FAILURES = 2
  COOLDOWN = 1
  DISABLE_FAILURES = 3
  DISABLE_WINDOW = 1
  MULTI_COUNT = 2
  DailyLimit = 3
  MaxEvents = 1
SYMMETRY Symmetric
CHECK_DEADLOCK FALSE
INVARIANTS AnswerKept OffEarned EachCounts
