\* Two subscriptions of ours and one of an unknown customer, their events in any order but one delivery at a time.
CONSTANTS
  s1 = s1
  s2 = s2
  s3 = s3
  e1 = e1
  e2 = e2
  i1 = i1
  h1 = h1
  Sub = {s1, s2, s3}
  Known = {s1, s2}
  SubEvent = {e1, e2}
  InvoiceEvent = {i1}
  Handler = {h1}
  Nothing = Nothing
  Serial = TRUE
  MaxFaults = 1
SPECIFICATION FairSpec
INVARIANTS
  MirrorConverges
  TierConverges
PROPERTY EventuallyRecorded
