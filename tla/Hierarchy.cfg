\* Two requests on two scopes, two projects, two categories and a task.
SPECIFICATION Spec
CONSTANTS
  Scopes = {s1, s2}
  Projects = {p1, p2}
  Categories = {c1, c2}
  Tasks = {t1}
  Names = {n1, n2}
  Requests = {r1, r2}
  None = None
SYMMETRY Symmetric
INVARIANTS TreeWhole ChecksHold
PROPERTIES WorkStays
