CONSTANTS
  c1 = c1  c2 = c2  s1 = s1  s2 = s2
  Proc = {c1, c2, s1, s2}
  AnySource = AnySource
  Caller = Caller
  Plans <- RepeatPlans
  Arrivals <- OrderedArrivals
SPECIFICATION FairSpec
INVARIANTS TypeOK NoCommandForgotten LaunchInPairs DataBeforeSync BenchIsExecution NoOrphan
PROPERTIES LaunchesFollowOrder Termination
