CONSTANTS
  c1 = c1  c2 = c2  s1 = s1  s2 = s2
  Proc = {c1, c2, s1, s2}
  AnySource = AnySource
  Caller = Caller
  Plans <- CrossedPlans
  Arrivals <- FreeArrivals
SPECIFICATION FairSpec
PROPERTIES EveryCommandAnswered
CHECK_DEADLOCK FALSE
