CONSTANTS
    t1 = t1
    t2 = t2
    f1 = f1
    f2 = f2
    f3 = f3
    NoFrame = NoFrame
    Task = {t1, t2}
    Frame = {f1, f2, f3}
    RefMax = 4
    NPages = 2
    Managed = {0}
    Calls = {"brk", "munmap", "mprotect-ro", "fixed", "fork", "execve", "kill"}
SPECIFICATION Spec
SYMMETRY Symmetry
VIEW View
INVARIANTS
    
    WritableIsSole
PROPERTIES
    MemoryIsPrivate
CHECK_DEADLOCK FALSE
