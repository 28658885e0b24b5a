CONSTANTS
  dieA = dieA  dieB = dieB
  Die <- Dies
  RxFollows = FALSE
  PhyPresent = TRUE
  ExitRequests = {}
  AskIn = {}
  MaxAsks = 0
  MaxFaults = 0
  MaxEvents = 0
  Beats = 3
SPECIFICATION FairSpec
PROPERTY BringUp
