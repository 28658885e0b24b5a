CONSTANTS
  p1 = p1  p2 = p2  p3 = p3  u1 = u1  u2 = u2
  Proc = {p1, p2}
  Uid = {u1}
  Plans <- TwoRounds
  Gaps = {1, 9}
  Flits = 2
  Latencies = {1}
  Networks <- Uniform
SPECIFICATION FairSpec
PROPERTIES BarrierTime
