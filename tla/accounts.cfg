\* Two deliveries at once, a key of metadata, two checkouts, a fault.
CONSTANTS
  d1 = d1
  d2 = d2
  k1 = k1
  r1 = r1
  r2 = r2
  c1 = c1
  c2 = c2
  Delivery = {d1, d2}
  Key = {k1}
  OrgId = OrgId
  MaxFaults = 1
  MaxResends = 1
  MaxProbes = 1
  Request = {r1, r2}
  Customer = {c1, c2}
  NoOne = NoOne
SPECIFICATION FairSpec
INVARIANTS
  TypeOK
  OldKeysKept
  NoFlash
  SaleIsKnown
PROPERTIES
  EventuallyOpen
  KeepsPromise
CHECK_DEADLOCK FALSE
