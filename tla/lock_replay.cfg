CONSTANTS
  p1 = p1  p2 = p2  p3 = p3  m1 = m1  m2 = m2
  Proc = {p1, p2, p3}
  Mutex = {m1, m2}
  NoProc = NoProc
  Plans <- ReplayPlans
  Arrivals <- OrderedArrivals
SPECIFICATION FairSpec
INVARIANTS TypeOK MutualExclusion TimingFollows NoOrphan DelayInfoUsedUp
PROPERTIES Termination ImplementsLock
