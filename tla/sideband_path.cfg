CONSTANTS
  Packet <- Packets
  None = None
  Beats = 2
  MaxCredit = 2
  CreditRange = 8
  CompleteDepth = 1
  Plans <- Sending
SPECIFICATION FairSpec
INVARIANTS TypeOK Ledger LossIsGain InOrder
PROPERTIES Delivered
