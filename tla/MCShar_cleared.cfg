CONSTANTS
  Updaters = {u1, u2, u3}
  Deleters = {d1}
  Consumers <- MCConsumers
  Goroutines = {"w1", "w2"}
  Startups <- MCStartups
  Buckets <- MCBuckets
  Patches = {2}
  Histories <- MCHistories
  LockCases <- MCLocks
  UserTaskCases <- MCUserTasks
  MaxTries = 2
  Stores <- MCStores
  TaskSpecs = {"t"}
SPECIFICATION SharSpec
INVARIANT AlwaysCleared
