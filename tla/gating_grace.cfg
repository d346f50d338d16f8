\* One subscription, bought and cancelled before its period ends, then a POST.
CONSTANTS
  j1 = j1
  s1 = s1
  Job = {j1}
  Sub = {s1}
  Tier = {"free", "solo", "enterprise"}
  Free = "free"
  Cap <- SmallCaps
  NoLimit = NoLimit
  FreeEpisodes = 1
  Asks <- Wishes
  MaxNow = 2
  MonthOf <- TwoMonths
SPECIFICATION Spec
PROPERTY GraceKept
CHECK_DEADLOCK FALSE
