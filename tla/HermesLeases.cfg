CONSTANTS
    Frames = 3
    IovaPages = 3
    DmaSlots = 2
    Bars = {0}
    Sizes = {1, 2}
    GenerationMax = 3
SPECIFICATION Spec
INVARIANTS FailedReleaseRetryable
CHECK_DEADLOCK FALSE
