\* Two requests that overlap: the single-flight test and the start of the task
\* are separated by an await.
CONSTANTS
  j1 = j1
  p1 = p1
  p2 = p2
  Job = {j1}
  Post = {p1, p2}
  NoPost = NoPost
  MaxCrashes = 0
SPECIFICATION Spec
INVARIANT SingleFlight
CHECK_DEADLOCK FALSE
