CONSTANTS
    MAX_TASKS = 4
    BootTasks = 1
    MaxPid = 5
    Signals = {2}
    ExitCodes = {0}
    Calls = {"fork", "exit", "wait4", "wnohang", "fault", "sigreturn", "exec", "execve", "login", "return"}
SPECIFICATION Spec
INVARIANTS
    RunInv
    RingSound
    NeverStranded
    ReapTrue
PROPERTIES
    NoResurrection
