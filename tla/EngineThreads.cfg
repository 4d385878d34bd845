SPECIFICATION FairSpec

CONSTANTS
  sender = sender  receiver = receiver  rich = rich  usdFees = usdFees  eurFees = eurFees
  NoCommand = NoCommand
  Moved = Moved
  Producers = {p1}
  Readers = {"publisher", "main"}
  MaxInt <- MCMaxInt
  Registered <- MCRegistered
  FeeAccount <- MCFeeAccount
  Commands <- MCCommands
  Capacity = 2
  RingCapacity = 2
  PublishBatch = 2
  BatchSize = 2
  WalBatch = 2
  MaxDedup = 1
  EvictCount = 1
  Plans <- MCPlans
  MaxSequence = 2

INVARIANTS TypeOK EventsInOrder LogRebuildsLedger NoMoneyCreated ExecutedOnce StoppedIsDurable

PROPERTIES CommandsInOrder CommandsGetTaken StopCompletes

CHECK_DEADLOCK FALSE
