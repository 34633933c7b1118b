CONSTANTS
  MaxHandles = 6
  MaxThreads = 3
  Priorities = {48, 49}
  Calls = {"SleepThread", "ExitThread", "CloseHandle", "SetThreadPriority", "ArbitrateAddress", "Store"}
  WaitLists <- NoLists
  Addresses = {0, 4}
  Values = {0, 1}
  StartThreads = 3
  StartObjects <- OneArbiter
SPECIFICATION StartSpec
INVARIANT OnlyRunningRuns
PROPERTY ResumedInOrder
