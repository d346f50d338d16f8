\* Three uploads admitted at once.  The flow stops when all are purged.
CONSTANTS
  s1 = s1
  s2 = s2
  s3 = s3
  Session = {s1, s2, s3}
  Nobody = Nobody
SPECIFICATION FairSpec
INVARIANTS
  TypeOK
  DoneIsWhole
  UploadsDeleted
  LockIsWorked
PROPERTIES
  EveryTaskEnds
  EveryEntryGoes
CHECK_DEADLOCK FALSE
