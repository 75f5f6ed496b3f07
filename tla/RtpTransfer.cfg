SPECIFICATION FairSpec
CONSTANTS
  N = 3
  BufferSize = 3
  RetransmitLimit = 2
  SackModes = {TRUE, FALSE}
  MaxDups = 1
  MayExpire = TRUE
INVARIANTS
  InOrder
  SenderBelief
  DoneMeansDelivered
  NoOverrun
PROPERTIES
  TransferEnds
  NeverTruncated
CHECK_DEADLOCK FALSE
