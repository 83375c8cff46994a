SPECIFICATION WaitingSpec
CONSTANTS
  EventThreads = {t1, t2, t3}
  Timed = {t3}
  MaxStarts = 2
  Sleepers = {s1, s2, s3}
  TimedSleepers = {s3}
  MaxWakeAlls = 2
  Nobody = Nobody
  Apis = {a1, a2}
  Modules = {m1}
  MaxWorkers = 2
  CreateFails = TRUE
  SlowStart = TRUE
  SlowStop = TRUE
  NULL = NULL
  ApiThreads = {a1, a2}
  WorkerThreads = {w1}
  N = 2
  MaxObjects = 2
  NoThread = NoThread
INVARIANTS
  NoSleeperWhileUp
  SetNotSwallowed
  OneShotFiresOnce
  NothingUsedAfterItsEnd
  QuietWhenStopped
  NewModuleWakes
  HeldChannelsLive
  ChannelsAccountedFor
PROPERTIES
  NobodyWaitsForEver
  WakeAllReachesAll
  CallersAndModulesServed
  CallsReturn
