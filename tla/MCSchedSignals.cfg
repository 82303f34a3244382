CONSTANTS
    MAX_TASKS = 3
    BootTasks = 1
    MaxPid = 4
    Signals = {2, 9}
    ExitCodes = {0}
    Calls = {"exec", "kill", "ctrl-c", "handle", "ignore", "shell", "login", "block", "exit"}
SPECIFICATION Spec
INVARIANTS
    KillNotLost
    KillHonoured
