CONSTANTS
    MAX_TASKS = 3
    BootTasks = 1
    MaxPid = 4
    Signals = {9}
    ExitCodes = {0}
    Calls = {"exec", "login", "fork", "exit", "wait4", "kill"}
SPECIFICATION FairSpec
PROPERTIES
    KillEnds
    Progress
