\* Three processes on a pipe of two bytes
CONSTANTS
    p1 = p1
    p2 = p2
    p3 = p3
    Procs = {p1, p2, p3}
    Capacity = 2
    Requests <- ChunkAndRest
    SeqMod = 3
    InitialEnds <- CreatorHasBoth
SPECIFICATION Spec
INVARIANTS StreamIntact SleepersJustified DescriptorsCounted FreedExactlyOnce
PROPERTIES RefinesChannel
CHECK_DEADLOCK FALSE
