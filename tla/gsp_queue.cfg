SPECIFICATION Spec
CONSTANTS
  Queues = 2
  Slots = 3
  Enough = 2
  Byte = 7
  Header = 1
  Word = 1
  MaxRegistrations = 2
  MaxCommands = 1
  ClientCommands = {"dma"}
INVARIANTS
  RoomForCompletions
  NoLostWakeUp
PROPERTY
  ImplementsIrqQueues
