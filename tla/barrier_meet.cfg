CONSTANTS
  p1 = p1  p2 = p2  p3 = p3  u1 = u1  u2 = u2
  Proc = {p1, p2, p3}
  Uid = {u1, u2}
  Plans <- MeetingPlans
  Gaps = {1, 4}
  Flits = 2
  Latencies = {1, 3}
  Networks <- Uniform
SPECIFICATION FairSpec
INVARIANTS TypeOK BarrierHolds NoCommandForgotten
PROPERTIES ReleaseIsTimely Termination
