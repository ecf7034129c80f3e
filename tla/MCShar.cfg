\* Each part of SHAR on small instances of its own.
CONSTANTS
  Updaters = {u1, u2, u3}
  Deleters = {d1}
  Consumers <- MCConsumers
  Goroutines = {"w1", "w2"}
  Startups <- MCStartups
  Buckets <- MCBuckets
  Patches = {2}
  Histories <- MCHistories
  LockCases <- MCLocks
  UserTaskCases <- MCUserTasks
  MaxTries = 2
  Stores <- MCStores
  TaskSpecs = {"t"}
SPECIFICATION SharSpec
INVARIANTS
  PartsTypeOK
  
  LeavesOnce
  
  FiresOnSchedule
  
  
  
  AckedIsDealtWith
  UpdatesKept
  JoinsHaveAnOpening
  
  JoinKeepsOutputs
  ClearedAfterArchive
  ActiveExact
  SpansExact
  RecordsOutliveProcesses
  HandlesAreGood
PROPERTIES
  ImplementsAtomicUpdate
  CompensationCompletes
  
  
  CallReturns
  ShutdownDrains
  JoinsComplete
  EventuallyRemoved
  UpgradesForward
