CONSTANTS
  MaxHandles = 6
  MaxThreads = 2
  Priorities = {48}
  Calls = {"SleepThread", "WaitSynchronizationN", "WaitSynchronization1", "ReleaseMutex", "ReleaseSemaphore", "SignalEvent"}
  WaitLists <- TwoThreadLists
  Addresses = {}
  Values = {0}
  StartThreads = 2
  StartObjects <- SyncObjects
SPECIFICATION StartSpec
INVARIANTS OwnRegisters MutualExclusion WaitListsPollable
