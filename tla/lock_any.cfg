CONSTANTS
  p1 = p1  p2 = p2  p3 = p3  m1 = m1  m2 = m2
  Proc = {p1, p2, p3}
  NoProc = NoProc
  Arrivals <- OrderedArrivals
  Mutex = {m1}
  Plans <- AnyPlans
SPECIFICATION Spec
INVARIANTS NoCommandForgotten BenchIsExecution
PROPERTIES GrantsFollowOrder
\* A process may end without unlocking, so others may wait for ever.
CHECK_DEADLOCK FALSE
