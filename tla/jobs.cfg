\* Two rows, two POST requests that may overlap, one crash; liveness and
\* the refinement of JobLifecycle too.
CONSTANTS
  j1 = j1
  j2 = j2
  p1 = p1
  p2 = p2
  Job = {j1, j2}
  Post = {p1, p2}
  NoPost = NoPost
  MaxCrashes = 1
SPECIFICATION FairSpec
INVARIANTS
  TypeOK
  DownloadableIsStored
  OwnedOrAbandoned
  AcceptedIsTaken
  RowLockIsBrief
  ArtifactOfOneRun
PROPERTIES
  Resolved
  SlotFreed
  KeepsLifecycle
CHECK_DEADLOCK FALSE
