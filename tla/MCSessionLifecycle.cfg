SPECIFICATION FairGuardedSpec
CONSTANTS
  s1 = s1
  s2 = s2
  s3 = s3
  s4 = s4
  cb1 = cb1
  NoCallback = NoCallback
  Sessions = {s1, s2, s3, s4}
  Callbacks = {cb1}
  MaxSessions = 1
  MaxQueueSize = 2
  CapacityPolicy = "QUEUE"
INVARIANTS
  TypeOK
  SlotAccounting
  NoIdleSlotWhileWaiting
  QueuePositionsExact
  DeadlinesArmed
PROPERTIES
  EndedStaysEnded
  WaitersServed
  ImplementsPool
CHECK_DEADLOCK FALSE
