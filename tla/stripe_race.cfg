CONSTANTS
  s1 = s1
  e1 = e1
  e2 = e2
  h1 = h1
  h2 = h2
  Sub = {s1}
  Known = {s1}
  SubEvent = {e1, e2}
  InvoiceEvent = {}
  Handler = {h1, h2}
  Serial = FALSE
  MaxFaults = 0
  Nothing = Nothing
SPECIFICATION Spec
INVARIANT TierConverges
CHECK_DEADLOCK FALSE
