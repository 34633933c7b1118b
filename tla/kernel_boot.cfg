CONSTANTS
  MaxHandles = 5
  MaxThreads = 3
  Priorities = {48, 49}
  Calls = {"SleepThread", "CreateThread", "ExitThread", "CloseHandle", "DuplicateHandle", "SetThreadPriority", "CreateMutex", "CreateSemaphore", "CreateEvent", "CreateAddressArbiter", "RegisterInterrupt", "TriggerCmdReqQueue"}
  WaitLists <- NoLists
  Addresses = {}
  Values = {0}
  StartThreads = 1
  StartObjects <- NoObjects
SPECIFICATION Spec
INVARIANTS IInv OwnBuffer
PROPERTY ThreadLifecycle
