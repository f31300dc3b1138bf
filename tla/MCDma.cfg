CONSTANTS
    Frames = {f1, f2, f3, f4, f5}
    Root = root
    Index = {0, 1}
    Levels = 3
    Slots = 4
    GenerationMax = 2
    Sticky = TRUE
    Empty = empty
    Aperture <- MCAperture
    Reserved <- MCReserved
    Mappings = 3
    Batches = 2
    PageSlots = 4
    MaxBatchPages = 2
    Requests <- MCRequests
    SlptFrames = {f1, f2, f3, f4}
    SlptPages = {p1, p2}
SPECIFICATION MCSpec
INVARIANTS AddressesAreHeld TablesAgree TransportIsExact FramesHeld 
CHECK_DEADLOCK FALSE
