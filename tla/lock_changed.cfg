CONSTANTS
  p1 = p1  p2 = p2  p3 = p3  m1 = m1  m2 = m2
  Proc = {p1, p2}
  NoProc = NoProc
  Arrivals <- OrderedArrivals
  Mutex = {m1, m2}
  Plans <- ChangedPlans
SPECIFICATION FairSpec
PROPERTIES EveryCommandAnswered
CHECK_DEADLOCK FALSE
