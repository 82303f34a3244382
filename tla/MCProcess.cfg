\* Descriptor tables, pipes and the loading of programs: safety.
SPECIFICATION MCSpec
CONSTANTS
    b1 = b1
    b2 = b2
    NoBlk = NoBlk
    Writer = {w1, w2}
    Reader = {r1}
    PIPE_RING_CAP = 2
    CursorMod = 4
    MaxLen = 3
    Distinct = 4
    t1 = t1
    t2 = t2
    t3 = t3
    Untaken = Untaken
    Departed = Departed
SYMMETRY Symmetry

    
    
PROPERTIES
    ChangesKept
    IsByteStream
CHECK_DEADLOCK FALSE
