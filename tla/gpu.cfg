SPECIFICATION Spec
CONSTANTS
    STACK_MAX = 2
    Dozens = 13
    Other <- MCOther
    HalfWidth = 2
    HalfHeight = 2
    OffsetX = 3
    OffsetY = 1
    Scenes <- MCScenes
    Bursts <- MCBursts
    MaxRestarts = 1
    Earlier <- MCEarlier
INVARIANTS
    ShadersRunAsWritten
    TrianglesAsSubmitted
    SharedEdgesDrawnOnce
    UniformsArrive
CHECK_DEADLOCK FALSE
