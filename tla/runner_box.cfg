\* A demo and a conversion task, neither of which looks at the other.
CONSTANTS
  t1 = t1
  d1 = d1
  JobCall = {t1}
  DemoCall = {d1}
  NoCall = NoCall
  Exits <- SomeExits
SPECIFICATION Spec
INVARIANT BoxSingleFlight
CHECK_DEADLOCK FALSE
