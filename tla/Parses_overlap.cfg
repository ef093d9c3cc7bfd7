\* An edit between the prompt of a parse and its row.
SPECIFICATION ParsesSpec
CONSTANTS
  Dates = {"Fri", "Fri2", "10:00", "5.09", "25.09"}
  PatternOf <- MCPatternOf
  NamedBy <- MCNamedBy
  Limit = 3
  MinTitle = 2
  Ahead = 2
  Levels = {1}
  Wordings = {w1}
  Default = Default
  Parses = {q1, q2}
  Edits = {e1}
  q1 = q1
  q2 = q2
  Asks <- MCAsks
  Inputs <- MCInputs
  Replied <- MCReplied
INVARIANT OneExperiment
CHECK_DEADLOCK FALSE
