\* Two subscriptions of the organisation, three plan events and an invoice, two
\* deliveries at once.  Deadlock is checked: no two transactions wait for
\* each other.
CONSTANTS
  s1 = s1
  s2 = s2
  e1 = e1
  e2 = e2
  e3 = e3
  i1 = i1
  h1 = h1
  h2 = h2
  Sub = {s1, s2}
  Known = {s1, s2}
  SubEvent = {e1, e2, e3}
  InvoiceEvent = {i1}
  Handler = {h1, h2}
  Nothing = Nothing
  Serial = FALSE
  MaxFaults = 1
SPECIFICATION Spec
SYMMETRY Symmetric
INVARIANTS
  TypeOK
  NoStandstill
PROPERTY KeepsLedger
