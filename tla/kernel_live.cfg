CONSTANTS
  MaxHandles = 6
  MaxThreads = 2
  Priorities = {48}
  Calls = {"SleepThread", "ExitThread", "WaitSynchronization1", "ReleaseMutex", "SignalEvent", "ClearEvent", "RegisterInterrupt", "TriggerCmdReqQueue"}
  WaitLists <- NoLists
  Addresses = {}
  Values = {0}
  StartThreads = 2
  StartObjects <- EventObjects
SPECIFICATION FairStartSpec
PROPERTIES EveryRunnableThreadRuns SignalWakes
