CONSTANTS
  dieA = dieA  dieB = dieB
  Die <- Dies
  RxFollows = TRUE
  PhyPresent = TRUE
  ExitRequests = {"linkReset", "disabled"}
  AskIn = {"active"}
  MaxAsks = 1
  MaxFaults = 1
  MaxEvents = 1
  Beats = 3
SPECIFICATION FairSpec
INVARIANTS TypeOK LeftOnce
PROPERTIES ReceiverFirst MainbandStopped Settles LeaveTogether
