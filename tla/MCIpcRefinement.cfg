CONSTANTS
    NSlots = 3
    MaxPid = 3
    Msg = {m1}
    Syscalls = {"sendrec", "recv"}
    Deaths = {"logout"}
SPECIFICATION FairSpec
INVARIANTS
    IpcInv
PROPERTIES
    ImplementsRendezvous
CHECK_DEADLOCK FALSE
