\* A line, a task and a note; two answers; two requests that may overlap.
SPECIFICATION Spec
CONSTANTS
  Docs = {line, task, note}
  line = line
  task = task
  note = note
  TypeOf <- MCTypeOf
  Parses = {p1, p2}
  p1 = p1
  p2 = p2
  Mixes <- MCMixes
  Bodies <- MCBodies
  Saves = {s1, s2}
  MaxRequests = 4
  Own = Own
  Same = Same
  Null = Null
INVARIANTS FirstWords AsLeft CountedRight
PROPERTIES LabelFrozen
SYMMETRY Symmetric
CHECK_DEADLOCK FALSE
