CONSTANTS
  dieA = dieA  dieB = dieB
  Die <- Dies
  OfferedRate <- DieRates
  LockWait = 2
  Capacity = 1
  MaxLosses = 1
SPECIFICATION FairSpec
INVARIANTS TypeOK InStep TrainedTogether RatesAgree
PROPERTIES Ends Trains
