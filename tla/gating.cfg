\* Three rows, two subscriptions, two tiers with small caps, and a midnight.
CONSTANTS
  j1 = j1
  j2 = j2
  j3 = j3
  s1 = s1
  s2 = s2
  Job = {j1, j2, j3}
  Sub = {s1, s2}
  Tier = {"free", "solo"}
  Free = "free"
  Cap <- SmallCaps
  NoLimit = NoLimit
  FreeEpisodes = 1
  Asks <- Wishes
  MaxNow = 1
  MonthOf <- TwoMonths
SPECIFICATION Spec
SYMMETRY Symmetric
INVARIANTS
  TypeOK
  SoftCap
  PreviewHeld
CHECK_DEADLOCK FALSE
