------------------------------- MODULE Sched -------------------------------
(***************************************************************************)
(* Tasks, the round-robin scheduler, signals and wait4 of the Makar kernel *)
(* (task.c, signal.c, SYS_EXIT / SYS_WAIT4 / SYS_KILL in syscall.c, and    *)
(* the kernel shell's shell_exec_elf).                                     *)
(*                                                                         *)
(* There is one CPU.  Code runs as current_task with interrupts enabled,   *)
(* so the timer may enter schedule() between any two actions; a section    *)
(* between irq_save_disable and irq_restore is one action, except          *)
(* schedule() itself, whose walk of the circular list is one action per    *)
(* iteration (nothing else can happen while it lasts).                     *)
(*                                                                         *)
(* The model gives every slot a row of s_handlers.  The code has           *)
(* SIG_TABLE_MAX_TASKS rows, fewer than MAX_TASKS, and no bounds check: it *)
(* is like the model as long as task_pool_count stays within them.         *)
(*                                                                         *)
(* No code sets sig_mask to anything but 0, so the mask is left out.  The  *)
(* calls that task_terminate makes to the keyboard, vtty, IPC and surface  *)
(* code do not touch this state, save that ipc_task_cleanup may wake       *)
(* blocked tasks: ipc_wake may happen at any point.                        *)
(***************************************************************************)
EXTENDS Integers, FiniteSets, FiniteSetsExt

CONSTANTS
    MAX_TASKS,              \* size of task_pool
    BootTasks,              \* kernel tasks that kernel_main creates
    MaxPid,                 \* bound: the last pid next_pid hands out
    Signals,                \* the signal numbers in use
    ExitCodes,              \* the statuses programs pass to SYS_EXIT
    Calls                   \* what programs do, a subset of CallKinds

CallKinds == {"fork", "execve", "exit", "fault", "sigreturn", "wait4", "wnohang",
              "kill", "ctrl-c", "ignore", "handle", "block", "exec", "login", "shell", "return"}

SIGINT == 2
SIGKILL == 9
SIGSEGV == 11
SIGSTOP == 19
sig_default_terminates == {1, 2, 3, 4, 5, 6, 8, 9, 10, 11, 12, 13, 14, 15}

ASSUME SchedAssumption ==
    /\ MAX_TASKS \in Nat
    /\ BootTasks \in Nat /\ 1 <= BootTasks /\ BootTasks < MAX_TASKS
    /\ MaxPid \in Nat /\ BootTasks < MaxPid
    /\ Signals \subseteq 1..31
    /\ "ctrl-c" \in Calls \/ "shell" \in Calls => SIGINT \in Signals
    /\ ExitCodes \subseteq 0..127
    /\ Calls \subseteq CallKinds

Slot == 0..MAX_TASKS - 1
Idle == 0                   \* task_pool[0]
Pid == 1..MaxPid
NoPid == 0
AnyChild == -1
NoStatus == -1
Status == 0..255

Live == {"READY", "RUNNING", "BLOCKED"}
Ended == {"ZOMBIE", "DEAD"}

SIG_DFL == "dfl"
SIG_IGN == "ign"
SIG_USER == "user"          \* a ring-3 function pointer

VARIABLES
    state, pid, parent_pid, exit_status,
    user,               \* page_dir is not the kernel's: a ring-3 task
    unkillable,
    exec_params,        \* exec_params is not NULL
    next,               \* the circular run list
    task_pool_count,
    next_pid,
    current_task,
    in_schedule,        \* with the walk's cursor at, its i, and hit: it broke off at a READY task
    sig_pending,
    s_handlers,
    pc,                 \* where the task's code is
    want_pid,           \* argument of SYS_WAIT4
    child,              \* the task_t pointer shell_exec_elf holds
    due,                \* history: pid of the child shell_exec_elf started
    got,                \* history: pid and status of the last child collected
    obituary,           \* history: the status each pid ended with
    condemned           \* history: pids SIGKILL was posted to

slotVars == <<pid, parent_pid, user, unkillable, next, task_pool_count, next_pid>>
lifeVars == <<state, exit_status, obituary>>
sigVars == <<sig_pending, s_handlers, condemned>>
progVars == <<exec_params, pc, want_pid, child, due, got>>
vars == <<slotVars, lifeVars, sigVars, progVars, current_task, in_schedule>>

Used == 0..task_pool_count - 1

PCs == {"kernel", "entry", "user", "wait4", "wnohang", "handing", "execwait", "execdone"}

TypeOK ==
    /\ state \in [Slot -> Live \cup Ended]
    /\ pid \in [Slot -> Pid \cup {NoPid}]
    /\ parent_pid \in [Slot -> Pid \cup {NoPid}]
    /\ exit_status \in [Slot -> Status]
    /\ user \in [Slot -> BOOLEAN]
    /\ unkillable \in [Slot -> BOOLEAN]
    /\ exec_params \in [Slot -> BOOLEAN]
    /\ next \in [Slot -> Slot]
    /\ task_pool_count \in 1..MAX_TASKS
    /\ next_pid \in 2..MaxPid + 1
    /\ current_task \in Used
    /\ in_schedule \in [on : BOOLEAN, hit : BOOLEAN, at : Slot, i : 0..MAX_TASKS]
    /\ sig_pending \in [Slot -> SUBSET Signals]
    /\ s_handlers \in [Slot -> [Signals -> {SIG_DFL, SIG_IGN, SIG_USER}]]
    /\ pc \in [Slot -> PCs]
    /\ want_pid \in [Slot -> Pid \cup {AnyChild}]
    /\ child \in [Slot -> Slot]
    /\ due \in [Slot -> Pid \cup {NoPid}]
    /\ got \in [Slot -> [pid : Pid \cup {NoPid}, status : Status]]
    /\ obituary \in [Pid -> Status \cup {NoStatus}]
    /\ condemned \subseteq Pid

(***************************************************************************)
(* The state after kernel_main has created the boot tasks: each was linked *)
(* right after the idle task, so the list runs from the newest back.       *)
(***************************************************************************)
NobodyGot == [pid |-> NoPid, status |-> 0]
NotWalking == [on |-> FALSE, hit |-> FALSE, at |-> Idle, i |-> 0]
AllDefault == [g \in Signals |-> SIG_DFL]

Init ==
    /\ state = [s \in Slot |-> IF s = Idle THEN "RUNNING"
                               ELSE IF s <= BootTasks THEN "READY" ELSE "DEAD"]
    /\ pid = [s \in Slot |-> IF s <= BootTasks THEN s + 1 ELSE NoPid]
    /\ parent_pid = [s \in Slot |-> IF s \in 1..BootTasks THEN 1 ELSE NoPid]
    /\ exit_status = [s \in Slot |-> 0]
    /\ user = [s \in Slot |-> FALSE]
    /\ unkillable = [s \in Slot |-> s = Idle]
    /\ exec_params = [s \in Slot |-> FALSE]
    /\ next = [s \in Slot |-> IF s = Idle THEN BootTasks
                              ELSE IF s <= BootTasks THEN s - 1 ELSE s]
    /\ task_pool_count = BootTasks + 1
    /\ next_pid = BootTasks + 2
    /\ current_task = Idle
    /\ in_schedule = NotWalking
    /\ sig_pending = [s \in Slot |-> {}]
    /\ s_handlers = [s \in Slot |-> AllDefault]
    /\ pc = [s \in Slot |-> "kernel"]
    /\ want_pid = [s \in Slot |-> AnyChild]
    /\ child = [s \in Slot |-> s]
    /\ due = [s \in Slot |-> NoPid]
    /\ got = [s \in Slot |-> NobodyGot]
    /\ obituary = [p \in Pid |-> NoStatus]
    /\ condemned = {}

-----------------------------------------------------------------------------
(* Signals *)

Runs(s) ==
    /\ ~in_schedule.on
    /\ s = current_task
    /\ state[s] = "RUNNING"

\* The pending signals that a ring-3 handler of the task will receive.
Caught(c) == {g \in sig_pending[c] \ {SIGKILL} : s_handlers[c][g] = SIG_USER}

\* A program acts.  Every return to ring 3 passes signal_check_user, so the
\* handlers of pending signals come first.
InRing3(c) == Runs(c) /\ pc[c] = "user" /\ Caught(c) = {}

IsTaskByPid(s, p) == s \in Used /\ pid[s] = p /\ state[s] # "DEAD"

sig_send(t, sig) ==
    /\ sig_pending' = IF state[t] = "DEAD" THEN sig_pending
                      ELSE [sig_pending EXCEPT ![t] = @ \cup {sig}]
    /\ condemned' = IF sig = SIGKILL /\ state[t] # "DEAD" /\ ~unkillable[t]
                    THEN condemned \cup {pid[t]} ELSE condemned
    /\ UNCHANGED <<slotVars, lifeVars, s_handlers, progVars, current_task, in_schedule>>

\* sig_send_pid; a pid that no task has changes nothing.
SYS_KILL(c, t, sig) ==
    /\ "kill" \in Calls
    /\ InRing3(c)
    /\ IsTaskByPid(t, pid[t])
    /\ sig_send(t, sig)

\* The keyboard interrupt on Ctrl+C; kb_focused may be any task.
keyboard_ctrl_c(t) ==
    /\ "ctrl-c" \in Calls
    /\ ~in_schedule.on
    /\ t \in Used
    /\ sig_send(t, SIGINT)

SYS_SIGNAL(c, sig, h) ==
    /\ InRing3(c)
    /\ sig \notin {SIGKILL, SIGSTOP}
    /\ s_handlers' = [s_handlers EXCEPT ![c][sig] = h]
    /\ UNCHANGED <<slotVars, lifeVars, sig_pending, condemned, progVars,
                   current_task, in_schedule>>

\* A shell protects itself: shell_enter_tty, shell_enter_root_tty.
shell_enter(c) ==
    /\ "shell" \in Calls
    /\ Runs(c) /\ pc[c] = "kernel" /\ c # Idle
    /\ s_handlers' = [s_handlers EXCEPT ![c][SIGINT] = SIG_IGN]
    /\ unkillable' = [unkillable EXCEPT ![c] = TRUE]
    /\ UNCHANGED <<pid, parent_pid, user, next, task_pool_count, next_pid, lifeVars,
                   sig_pending, condemned, progVars, current_task, in_schedule>>

\* Faulty variant: every pending bit is cleared, not just the delivered one.
ClearsAllPending(c) ==
    /\ Runs(c) /\ pc[c] = "user"
    /\ Caught(c) # {}
    /\ sig_pending' = [sig_pending EXCEPT ![c] = {}]
    /\ UNCHANGED <<slotVars, lifeVars, s_handlers, condemned, progVars,
                   current_task, in_schedule>>

\* Delivery of the first pending signal that has a handler, on the way back
\* to ring 3.
signal_check_user(c) ==
    /\ Runs(c) /\ pc[c] = "user"
    /\ Caught(c) # {}
    /\ sig_pending' = [sig_pending EXCEPT ![c] = @ \ {Min(Caught(c))}]
    /\ UNCHANGED <<slotVars, lifeVars, s_handlers, condemned, progVars,
                   current_task, in_schedule>>

-----------------------------------------------------------------------------
(* The end of a task *)

\* The state a dying task is left in: ZOMBIE when task_by_pid finds its parent
\* and the parent has a page directory of its own.
Remains(t) ==
    IF \E p \in Slot : IsTaskByPid(p, parent_pid[t]) /\ user[p]
    THEN "ZOMBIE" ELSE "DEAD"

task_terminate(t, status) ==
    /\ state' = [state EXCEPT ![t] = Remains(t)]
    /\ exit_status' = [exit_status EXCEPT ![t] = status]
    /\ obituary' = [obituary EXCEPT ![pid[t]] = status]

\* Faulty variant: SIGKILL forgotten.
SparesOnKill(t, sig) ==
    /\ ~unkillable[t] /\ sig # SIGKILL
    /\ s_handlers[t][sig] = SIG_DFL /\ sig \in sig_default_terminates

Ends(t, sig) ==
    /\ ~unkillable[t]
    /\ \/ sig = SIGKILL
       \/ s_handlers[t][sig] = SIG_DFL /\ sig \in sig_default_terminates
Held(t, sig) == sig # SIGKILL /\ s_handlers[t][sig] = SIG_USER

\* The loop over the pending signals stops at the first one that ends the task
\* or has a handler in the program; the ones before it are dropped.
sig_deliver(t) ==
    LET stops == {g \in sig_pending[t] : Ends(t, g) \/ Held(t, g)}
        first == Min(stops)
    IN  IF stops = {}
        THEN /\ sig_pending' = [sig_pending EXCEPT ![t] = {}]
             /\ UNCHANGED lifeVars
        ELSE IF Ends(t, first)
        THEN /\ sig_pending' = [sig_pending EXCEPT ![t] = {g \in @ : g > first}]
             /\ task_terminate(t, 128 + first)
        ELSE /\ sig_pending' = [sig_pending EXCEPT ![t] = {g \in @ : g >= first}]
             /\ UNCHANGED lifeVars

\* Faulty variant: the status is not stored.
ExitForgetsStatus(c, status) ==
    /\ state' = [state EXCEPT ![c] = Remains(c)]
    /\ obituary' = [obituary EXCEPT ![pid[c]] = status]
    /\ UNCHANGED <<slotVars, exit_status, sigVars, progVars, current_task, in_schedule>>

\* task_exit with exit_status already set.  The zombie children are reaped
\* first; the task stays current_task until schedule() leaves it.
task_exit(c, status) ==
    LET reaped == {s \in Used : state[s] = "ZOMBIE" /\ parent_pid[s] = pid[c]} IN
    /\ state' = [s \in Slot |-> IF s = c THEN Remains(c)
                                ELSE IF s \in reaped THEN "DEAD" ELSE state[s]]
    /\ exit_status' = [exit_status EXCEPT ![c] = status]
    /\ obituary' = [obituary EXCEPT ![pid[c]] = status]
    /\ UNCHANGED <<slotVars, sigVars, progVars, current_task, in_schedule>>

SYS_EXIT(c, status) ==
    /\ "exit" \in Calls
    /\ InRing3(c)
    /\ task_exit(c, status)

\* A ring-3 fault of a killable task; for an unkillable one the kernel panics.
kill_userspace_fault(c) ==
    /\ "fault" \in Calls
    /\ InRing3(c) /\ ~unkillable[c]
    /\ task_exit(c, SIGSEGV)

\* The entry function of a kernel task returns into task_exit.
kernel_task_returns(c) ==
    /\ "return" \in Calls
    /\ Runs(c) /\ pc[c] = "kernel" /\ c # Idle
    /\ task_exit(c, exit_status[c])

\* SYS_SIGRETURN without a valid signal frame.
SYS_SIGRETURN_kill(c) ==
    /\ "sigreturn" \in Calls
    /\ InRing3(c)
    /\ state' = [state EXCEPT ![c] = "DEAD"]
    /\ obituary' = [obituary EXCEPT ![pid[c]] = exit_status[c]]
    /\ UNCHANGED <<slotVars, exit_status, sigVars, progVars, current_task, in_schedule>>

-----------------------------------------------------------------------------
(* Waiting *)

\* A program blocks in an IPC call, and a partner (or the end of one) wakes it.
ipc_block(c) ==
    /\ "block" \in Calls
    /\ InRing3(c)
    /\ state' = [state EXCEPT ![c] = "BLOCKED"]
    /\ UNCHANGED <<slotVars, exit_status, obituary, sigVars, progVars,
                   current_task, in_schedule>>
ipc_wake(t) ==
    /\ state[t] = "BLOCKED"
    /\ state' = [state EXCEPT ![t] = "READY"]
    /\ UNCHANGED <<slotVars, exit_status, obituary, sigVars, progVars,
                   current_task, in_schedule>>

\* options is "wait4" or, with WNOHANG, "wnohang".
SYS_WAIT4(c, p, options) ==
    /\ options \in Calls
    /\ InRing3(c)
    /\ pc' = [pc EXCEPT ![c] = options]
    /\ want_pid' = [want_pid EXCEPT ![c] = p]
    /\ UNCHANGED <<slotVars, lifeVars, sigVars, exec_params, child, due, got,
                   current_task, in_schedule>>

InWait4(c) == Runs(c) /\ pc[c] \in {"wait4", "wnohang"}
Children(c) == {s \in Used : parent_pid[s] = pid[c] /\ state[s] # "DEAD"}
Reapable(c) == {s \in Children(c) : state[s] = "ZOMBIE" /\ want_pid[c] \in {AnyChild, pid[s]}}

\* One pass over the pool.  A child can only go from live to ZOMBIE meanwhile,
\* so the pass is as good as a single look: it reaps the lowest matching slot.
SYS_WAIT4_reap(c) ==
    LET z == Min(Reapable(c)) IN
    /\ InWait4(c)
    /\ Reapable(c) # {}
    /\ got' = [got EXCEPT ![c] = [pid |-> pid[z], status |-> exit_status[z]]]
    /\ state' = [state EXCEPT ![z] = "DEAD"]
    /\ pc' = [pc EXCEPT ![c] = "user"]
    /\ want_pid' = [want_pid EXCEPT ![c] = AnyChild]
    /\ UNCHANGED <<slotVars, exit_status, obituary, sigVars, exec_params,
                   child, due, current_task, in_schedule>>

\* -ECHILD without children, and 0 under WNOHANG; otherwise task_yield and the
\* next pass.
SYS_WAIT4_return(c) ==
    /\ InWait4(c)
    /\ Reapable(c) = {}
    /\ Children(c) = {} \/ pc[c] = "wnohang"
    /\ pc' = [pc EXCEPT ![c] = "user"]
    /\ want_pid' = [want_pid EXCEPT ![c] = AnyChild]
    /\ UNCHANGED <<slotVars, lifeVars, sigVars, exec_params, child, due, got,
                   current_task, in_schedule>>

-----------------------------------------------------------------------------
(* New tasks *)

\* Faulty variant: a ZOMBIE slot counts as free.
TakesZombies(t) ==
    LET free == {s \in Used \ {Idle} : state[s] \in Ended} IN
    IF free # {} THEN t = Min(free)
    ELSE task_pool_count < MAX_TASKS /\ t = task_pool_count

\* The slot a new task gets: the first DEAD one after the idle task's, else the
\* next unused one.
IsNewSlot(t) ==
    LET dead == {s \in Used \ {Idle} : state[s] = "DEAD"} IN
    IF dead # {} THEN t = Min(dead)
    ELSE task_pool_count < MAX_TASKS /\ t = task_pool_count

\* Faulty variant: the reclaimed slot is not unlinked first.
NotUnlinked(t) == next

\* A reclaimed slot leaves the run list, and the new task follows current_task.
Unlinked(t) == [s \in Slot |-> IF next[s] = t THEN next[t] ELSE next[s]]
LinkedAfter(c, t) == [Unlinked(t) EXCEPT ![t] = Unlinked(t)[c], ![c] = t]

sig_task_init(t) ==
    /\ sig_pending' = [sig_pending EXCEPT ![t] = {}]
    /\ s_handlers' = [s_handlers EXCEPT ![t] = AllDefault]

\* What task_create and task_fork have in common.
NewTask(c, t, ring3) ==
    /\ next_pid <= MaxPid
    /\ IsNewSlot(t)
    /\ state' = [state EXCEPT ![t] = "READY"]
    /\ pid' = [pid EXCEPT ![t] = next_pid]
    /\ next_pid' = next_pid + 1
    /\ parent_pid' = [parent_pid EXCEPT ![t] = pid[c]]
    /\ exit_status' = [exit_status EXCEPT ![t] = 0]
    /\ user' = [user EXCEPT ![t] = ring3]
    /\ unkillable' = [unkillable EXCEPT ![t] = FALSE]
    /\ exec_params' = [exec_params EXCEPT ![t] = FALSE]
    /\ next' = LinkedAfter(c, t)
    /\ task_pool_count' = IF t = task_pool_count THEN task_pool_count + 1 ELSE task_pool_count
    /\ sig_task_init(t)
    /\ want_pid' = [want_pid EXCEPT ![t] = AnyChild]
    /\ got' = [got EXCEPT ![t] = NobodyGot]
    /\ UNCHANGED <<obituary, condemned, current_task, in_schedule>>

task_fork(c, t) ==
    /\ "fork" \in Calls
    /\ InRing3(c)
    /\ NewTask(c, t, TRUE)
    /\ pc' = [pc EXCEPT ![t] = "user"]
    /\ child' = [child EXCEPT ![t] = t]
    /\ due' = [due EXCEPT ![t] = NoPid]

\* shell_exec_elf: create the task that will run the program ...
shell_exec_elf(c, t) ==
    /\ "exec" \in Calls
    /\ Runs(c) /\ pc[c] = "kernel" /\ c # Idle
    /\ NewTask(c, t, FALSE)
    /\ pc' = [pc EXCEPT ![t] = "entry", ![c] = "handing"]
    /\ child' = [child EXCEPT ![t] = t, ![c] = t]
    /\ due' = [due EXCEPT ![t] = NoPid, ![c] = next_pid]

\* ... hand it the parameters (and protect it if it is the login session) ...
shell_exec_hand(c, login) ==
    /\ Runs(c) /\ pc[c] = "handing"
    /\ exec_params' = [exec_params EXCEPT ![child[c]] = TRUE]
    /\ unkillable' = [unkillable EXCEPT ![child[c]] = @ \/ login]
    /\ pc' = [pc EXCEPT ![c] = "execwait"]
    /\ UNCHANGED <<pid, parent_pid, user, next, task_pool_count, next_pid, lifeVars,
                   sigVars, want_pid, child, due, got, current_task, in_schedule>>

\* ... yield until its state is DEAD ...
shell_exec_wait(c) ==
    /\ Runs(c) /\ pc[c] = "execwait"
    /\ state[child[c]] = "DEAD"
    /\ pc' = [pc EXCEPT ![c] = "execdone"]
    /\ UNCHANGED <<slotVars, lifeVars, sigVars, exec_params, want_pid, child, due, got,
                   current_task, in_schedule>>

\* ... and read its status.
shell_exec_status(c) ==
    /\ Runs(c) /\ pc[c] = "execdone"
    /\ got' = [got EXCEPT ![c] = [pid |-> due[c], status |-> exit_status[child[c]]]]
    /\ pc' = [pc EXCEPT ![c] = "kernel"]
    /\ child' = [child EXCEPT ![c] = c]
    /\ due' = [due EXCEPT ![c] = NoPid]
    /\ UNCHANGED <<slotVars, lifeVars, sigVars, exec_params, want_pid,
                   current_task, in_schedule>>

\* exec_task_entry: without parameters the task ends at once; a program that
\* elf_exec cannot load ends it too.
exec_task_entry_fails(c) ==
    /\ Runs(c) /\ pc[c] = "entry"
    /\ task_exit(c, exit_status[c])
exec_task_entry(c) ==
    /\ Runs(c) /\ pc[c] = "entry"
    /\ exec_params[c]
    /\ user' = [user EXCEPT ![c] = TRUE]
    /\ pc' = [pc EXCEPT ![c] = "user"]
    /\ UNCHANGED <<pid, parent_pid, unkillable, next, task_pool_count, next_pid, lifeVars,
                   sigVars, exec_params, want_pid, child, due, got, current_task, in_schedule>>

\* SYS_EXECVE calls sig_task_init before elf_exec, whether or not that succeeds.
SYS_EXECVE(c) ==
    /\ "execve" \in Calls
    /\ InRing3(c)
    /\ sig_task_init(c)
    /\ UNCHANGED <<slotVars, lifeVars, condemned, progVars, current_task, in_schedule>>

-----------------------------------------------------------------------------
(* schedule(): entered from the timer interrupt or from task_yield, at any  *)
(* point where interrupts are on.                                           *)

\* Faulty variant: the walk always starts behind the idle task.
StartsAtHead ==
    /\ ~in_schedule.on
    /\ task_pool_count >= 2
    /\ in_schedule' = [on |-> TRUE, hit |-> FALSE, at |-> next[Idle], i |-> 0]
    /\ IF state[current_task] = "RUNNING"
       THEN sig_deliver(current_task)
       ELSE UNCHANGED <<sig_pending, lifeVars>>
    /\ UNCHANGED <<slotVars, s_handlers, condemned, progVars, current_task>>

schedule_enter ==
    /\ ~in_schedule.on
    /\ task_pool_count >= 2
    /\ in_schedule' = [on |-> TRUE, hit |-> FALSE, at |-> next[current_task], i |-> 0]
    /\ IF state[current_task] = "RUNNING"
       THEN sig_deliver(current_task)
       ELSE UNCHANGED <<sig_pending, lifeVars>>
    /\ UNCHANGED <<slotVars, s_handlers, condemned, progVars, current_task>>

\* Faulty variant: signals are delivered to the outgoing task only.
ResumesUndelivered ==
    LET t == in_schedule.at IN
    /\ in_schedule.on /\ ~in_schedule.hit
    /\ in_schedule.i < task_pool_count
    /\ in_schedule' =
          IF state[t] = "READY" THEN [in_schedule EXCEPT !.hit = TRUE]
          ELSE [in_schedule EXCEPT !.at = next[t], !.i = @ + 1]
    /\ UNCHANGED <<slotVars, lifeVars, sigVars, progVars, current_task>>

\* One iteration of the walk.  A task that is READY after its signals ends it.
schedule_visit ==
    LET t == in_schedule.at IN
    /\ in_schedule.on /\ ~in_schedule.hit
    /\ in_schedule.i < task_pool_count
    /\ IF state[t] = "READY" THEN sig_deliver(t) ELSE UNCHANGED <<sig_pending, lifeVars>>
    /\ in_schedule' =
          IF state'[t] = "READY" THEN [in_schedule EXCEPT !.hit = TRUE]
          ELSE [in_schedule EXCEPT !.at = next[t], !.i = @ + 1]
    /\ UNCHANGED <<slotVars, s_handlers, condemned, progVars, current_task>>

WalkOver == in_schedule.on /\ (in_schedule.hit \/ in_schedule.i = task_pool_count)

\* Faulty variant: the outgoing task stays RUNNING.
LeavesRunning ==
    LET t == in_schedule.at IN
    /\ WalkOver
    /\ in_schedule' = NotWalking
    /\ IF t = current_task \/ state[t] # "READY"
       THEN UNCHANGED <<state, current_task>>
       ELSE /\ current_task' = t
            /\ state' = [state EXCEPT ![t] = "RUNNING"]
    /\ UNCHANGED <<slotVars, exit_status, obituary, sigVars, progVars>>

schedule_switch ==
    LET t == in_schedule.at IN
    /\ WalkOver
    /\ in_schedule' = NotWalking
    /\ IF t = current_task \/ state[t] # "READY"
       THEN UNCHANGED <<state, current_task>>
       ELSE /\ current_task' = t
            /\ state' = [s \in Slot |->
                            IF s = t THEN "RUNNING"
                            ELSE IF s = current_task /\ state[s] = "RUNNING" THEN "READY"
                            ELSE state[s]]
    /\ UNCHANGED <<slotVars, exit_status, obituary, sigVars, progVars>>

Schedule == schedule_enter \/ schedule_visit \/ schedule_switch

SignalStep ==
    \/ \E c, t \in Slot, g \in Signals : SYS_KILL(c, t, g)
    \/ \E t \in Slot : keyboard_ctrl_c(t)
    \/ \E c \in Slot, g \in Signals :
          \/ "ignore" \in Calls /\ SYS_SIGNAL(c, g, SIG_IGN)
          \/ "handle" \in Calls /\ SYS_SIGNAL(c, g, SIG_USER)
          \/ {"ignore", "handle"} \cap Calls # {} /\ SYS_SIGNAL(c, g, SIG_DFL)
    \/ \E c \in Slot : shell_enter(c) \/ signal_check_user(c)

EndStep ==
    \E c \in Slot : \/ \E st \in ExitCodes : SYS_EXIT(c, st)
                    \/ kill_userspace_fault(c)
                    \/ kernel_task_returns(c)
                    \/ SYS_SIGRETURN_kill(c)
                    \/ exec_task_entry_fails(c)

WaitStep ==
    \E c \in Slot : \/ ipc_block(c)
                    \/ ipc_wake(c)
                    \/ \E p \in {AnyChild} \cup 1..next_pid - 1, o \in {"wait4", "wnohang"} :
                          SYS_WAIT4(c, p, o)
                    \/ SYS_WAIT4_reap(c)
                    \/ SYS_WAIT4_return(c)

BirthStep ==
    \E c \in Slot : \/ \E t \in Slot : task_fork(c, t) \/ shell_exec_elf(c, t)
                    \/ \E login \in BOOLEAN : (login => "login" \in Calls) /\ shell_exec_hand(c, login)
                    \/ shell_exec_wait(c)
                    \/ shell_exec_status(c)
                    \/ exec_task_entry(c)
                    \/ SYS_EXECVE(c)

Next == Schedule \/ SignalStep \/ EndStep \/ WaitStep \/ BirthStep

Spec == Init /\ [][Next]_vars

-----------------------------------------------------------------------------
(* Properties *)

\* f goes once round the list nxt, from the idle task back to it, through
\* the n slots of U.
IsRound(f, n, nxt, U) ==
    /\ f[0] = Idle /\ f[n] = Idle
    /\ \A k \in 0..n - 1 : nxt[f[k]] = f[k + 1]
    /\ \A j, k \in 0..n - 1 : f[j] = f[k] => j = k
    /\ \A s \in U : \E k \in 0..n - 1 : f[k] = s

\* The run list stays one cycle through every slot in use, whatever is
\* reclaimed and relinked: schedule() reaches every task, and the search for
\* the predecessor of a reclaimed slot in task_create and task_fork ends.
RingSound ==
    \E f \in [0..task_pool_count -> Used] : IsRound(f, task_pool_count, next, Used)

\* At most one task is RUNNING, and it is current_task, through every switch,
\* death, wakeup and reuse of a slot.
OneRunning == \A s \in Used : state[s] = "RUNNING" => s = current_task

\* The idle task can always run: no signal, exit or wait takes it away ("the
\* kernel has no fallback runnable when idle is gone").
IdleRunnable == state[Idle] \in {"READY", "RUNNING"}

\* A schedule() that leaves an ended task has found another to switch to once
\* its walk is over.
NeverStranded == WalkOver /\ state[current_task] \in Ended => state[in_schedule.at] = "READY"

\* What SYS_WAIT4 returned is the pid of a task that did end, with the status
\* it ended with, even if the slot has had other occupants since.
ReapTrue ==
    \A s \in Used : user[s] /\ got[s].pid # NoPid => obituary[got[s].pid] = got[s].status

\* A ring-3 signal handler is never found in the row of a task that has no
\* ring-3 program: task creation clears what the slot's last occupant installed.
HandlersOwn ==
    \A s \in Used : (\E g \in Signals : s_handlers[s][g] = SIG_USER) => user[s]

\* A SIGKILL posted to a killable task stays pending until the task has ended.
KillNotLost ==
    \A s \in Used :
        state[s] \in Live /\ pid[s] \in condemned /\ ~unkillable[s]
            => SIGKILL \in sig_pending[s]

\* When the walk of schedule() breaks off at a task, a SIGKILL is pending for it
\* only behind a signal that its program catches: a terminating signal is
\* otherwise "honoured before we resume it".
KillHonoured ==
    in_schedule.on /\ in_schedule.hit /\ SIGKILL \in sig_pending[in_schedule.at]
        => \E g \in Caught(in_schedule.at) : g < SIGKILL

\* A task that has ended never runs again: its slot comes back to life only
\* for a task with a new pid, and only from DEAD.
NoResurrection ==
    [][\A s \in Used : state[s] \in Ended /\ state'[s] \in Live
          => state[s] = "DEAD" /\ pid'[s] = next_pid]_vars

(***************************************************************************)
(* Fairness.  The timer keeps entering schedule(), which runs to its end.  *)
(* A slice is at least one tick long, so a task that loops in the kernel   *)
(* (wait4, shell_exec_elf) or is about to receive a signal gets to its     *)
(* next step if it is scheduled again and again: strong fairness.          *)
(***************************************************************************)
KernelLoop(c) ==
    \/ SYS_WAIT4_reap(c) \/ SYS_WAIT4_return(c)
    \/ shell_exec_wait(c) \/ signal_check_user(c)

FairSpec == Spec /\ WF_vars(Schedule) /\ \A c \in Slot : SF_vars(KernelLoop(c))

\* Round robin: a READY task is eventually run (or ended by a signal).
NoStarvation == \A s \in Slot : state[s] = "READY" ~> state[s] # "READY"

\* SIGKILL ends every killable task it is posted to.
KillEnds ==
    \A p \in Pid : (\E s \in Used : pid[s] = p /\ state[s] \in Live /\ ~unkillable[s]
                                    /\ p \in condemned)
        ~> (\A s \in Used : pid[s] = p => state[s] \in Ended \/ unkillable[s])

\* A parent in wait4 collects a child that has ended.
Wait4Returns ==
    \A s \in Slot : (/\ state[s] \in Live /\ pc[s] = "wait4"
                     /\ \E z \in Used : /\ state[z] = "ZOMBIE" /\ parent_pid[z] = pid[s]
                                        /\ want_pid[s] \in {AnyChild, pid[z]})
        ~> (pc[s] # "wait4" \/ state[s] \in Ended)

\* Every task that has something to do gets to do it: both of them.
Progress == NoStarvation /\ Wait4Returns

-----------------------------------------------------------------------------
(* The inductive invariant behind the proofs *)

\* Pids are handed out once.
PidsFresh ==
    /\ \A s \in Used : pid[s] \in 1..next_pid - 1
    /\ \A s, t \in Used : pid[s] = pid[t] => s = t
    /\ condemned \subseteq 1..next_pid - 1

\* What keeps the idle task alive: its mark, and that it runs no program.
IdleProtected == IdleRunnable /\ unkillable[Idle] /\ pc[Idle] = "kernel"

\* Only a task with a page directory of its own runs a program.
ProgramsOwn == \A s \in Used : pc[s] \in {"user", "wait4", "wnohang"} => user[s]

\* The run list does not leave the slots in use, and so the walk does not.
WalkInPool == in_schedule.at \in Used /\ \A s \in Used : next[s] \in Used

\* TypeOK and what each of OneRunning, IdleRunnable and HandlersOwn needs
\* besides itself.
SchedInv ==
    /\ TypeOK /\ OneRunning /\ PidsFresh /\ IdleProtected /\ ProgramsOwn /\ HandlersOwn
    /\ WalkInPool

\* The walk is between the task it started behind and the idle task, which ends
\* it; and the task it broke off at can run.
WalkSound ==
    in_schedule.on =>
        /\ in_schedule.hit => state[in_schedule.at] = "READY"
        /\ ~in_schedule.hit /\ current_task # Idle =>
              \E f \in [0..task_pool_count -> Used], k \in 1..task_pool_count - 1 :
                  /\ IsRound(f, task_pool_count, next, Used)
                  /\ f[k] = current_task /\ k + 1 + in_schedule.i <= task_pool_count
                  /\ f[k + 1 + in_schedule.i] = in_schedule.at

\* Until a zombie is collected its status is the one it ended with, and what was
\* collected is about a task that is gone.
WaitSound ==
    /\ \A s \in Used : user[s] => pc[s] \in {"user", "wait4", "wnohang"}
    /\ \A s \in Used : pc[s] = "entry" => got[s].pid = NoPid
    /\ \A s \in Used : state[s] = "ZOMBIE" => obituary[pid[s]] = exit_status[s]
    /\ \A s \in Used : user[s] /\ got[s].pid # NoPid =>
          /\ got[s].pid < next_pid /\ obituary[got[s].pid] = got[s].status
          /\ \A t \in Used : pid[t] = got[s].pid => state[t] = "DEAD"

\* The inductive invariant.
RunInv == SchedInv /\ RingSound /\ WalkSound /\ WaitSound

============================================================================
