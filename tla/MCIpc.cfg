CONSTANTS
    NSlots = 3
    MaxPid = 3
    Msg = {m1}
    Syscalls = {"send", "sendrec", "recv", "nbrecv"}
    Deaths = {"terminate", "sigreturn"}
SPECIFICATION Spec
INVARIANTS
    NoMissedRendezvous
    CopyMatchesFilter
    EsrchMeansDead
PROPERTIES
    QueueOrder
CHECK_DEADLOCK FALSE
