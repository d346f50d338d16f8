\* One conversion task that may be stopped, two demo requests, both loops.
CONSTANTS
  t1 = t1
  d1 = d1
  d2 = d2
  JobCall = {t1}
  DemoCall = {d1, d2}
  NoCall = NoCall
  Exits <- SomeExits
SPECIFICATION FairSpec
INVARIANTS
  TypeOK
  WorkerSpared
  HonestResult
  DemoExclusive
PROPERTIES
  ShutdownKills
  KeepsContract
  RunReturns
  DemoAnswered
CHECK_DEADLOCK FALSE
