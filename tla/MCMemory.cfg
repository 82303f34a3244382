\* The services that hand out memory, side by side.
SPECIFICATION MCSpec
CONSTANTS
    HEAP_START = 1
    HEAP_MAX = 17
    BLOCK_HDR_SIZE = 2
    SPLIT_MIN = 2
    Align = 2
    SizeMax = 22
    Task = {t1, t2}
    File = {p1, p2}
    Frame = {f1, f2, f3}
    Id = {i1, i2}
    NoFrame = NoFrame
    Nobody = Nobody
    Departed = Departed
    FrameRefMax = 4
SYMMETRY Symmetry
VIEW View
INVARIANTS
    HeapSound
    BuddySound
    MallocSound
    CacheSound
    SurfacesSound
CHECK_DEADLOCK FALSE
