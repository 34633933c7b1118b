SPECIFICATION Spec
CONSTANTS
    Entries = {e1, e2}
    BreakLists = {"instr", "access"}
    BreakAddrs = {1}
    Addrs = {1, 2}
    MaxAccesses = 1
INVARIANTS
    StallIsKnown
PROPERTIES
    ImplementsDebugSession
    BreakIsAnswered
CHECK_DEADLOCK FALSE
