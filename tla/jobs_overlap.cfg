\* Two rows, three POST requests that may overlap in any way.
CONSTANTS
  j1 = j1
  j2 = j2
  p1 = p1
  p2 = p2
  p3 = p3
  Job = {j1, j2}
  Post = {p1, p2, p3}
  NoPost = NoPost
  MaxCrashes = 0
SYMMETRY Alike
SPECIFICATION Spec
INVARIANTS
  OnlyRacersOverlap
  AcceptedOnce
CHECK_DEADLOCK FALSE
