SPECIFICATION PoolFairSpec
CONSTANTS
  MinWorkers = 1
  MaxWorkers = 3
  ScaleUpQueueDepth = 1
  ScaleDownQueueDepth = 1
  ScaleUpBusyPct = 80
  ScaleDownBusyPct = 30
  CooldownUp = 2
  CooldownDown = 2
  InitialConcurrency = 1
  Window = 2
  MaxEnqueued = 2
  RedisFails = TRUE
INVARIANTS PoolInv
PROPERTIES ShutdownEnds QueueIsServed DeepQueueScalesUp
CHECK_DEADLOCK FALSE
