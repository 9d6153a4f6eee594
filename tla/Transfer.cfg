SPECIFICATION FairTransfer
CONSTANTS
  Sizes <- FourTensors
  BucketSize = 2
  MaxRanks = 2
  Rounds = 2
  OtherTrainers = {t1}
INVARIANTS TransferTypeOK AnnouncedIntact
PROPERTIES ImplementsDelivery EndsUnlessLost
CHECK_DEADLOCK FALSE
