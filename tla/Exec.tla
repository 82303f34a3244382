-------------------------------- MODULE Exec --------------------------------
(***************************************************************************)
(* Loading a program (SYS_EXECVE in syscall.c, elf_exec in elf.c).  A      *)
(* caller takes the execve lock, stages its arguments in the one scratch,  *)
(* reads the file into the one staging buffer, builds an address space,    *)
(* packs the arguments onto the new stack, gives the lock back and changes *)
(* over.  Tasks that start in the kernel (exec_task_entry,                 *)
(* statusbar_entry) enter elf_exec without the lock.  Any step can fail,   *)
(* be preempted, or be the last one of a task that is killed.              *)
(***************************************************************************)
EXTENDS Naturals, FiniteSets, FiniteSetsExt

CONSTANTS
    Task,
    Entering,           \* tasks that start in elf_exec, without an image or the lock
    NFrames,            \* free frames at the start
    Kills,              \* bound: how many tasks are killed
    Untaken, Departed

VARIABLES
    at,                 \* per task: where it is
    s_execve_owner,
    s_argv,             \* whose arguments are in the scratch
    s_elf_buf,          \* whose file is in the staging buffer
    pd,                 \* per task: its address space
    new,                \* per task: the one it is building, or the old one it must free
    window,             \* tasks whose user_brk and mmap_next are those of the new program
    frames,             \* free frames
    killed,             \* history: how many were killed
    lost                \* history: frames that are in no address space and not free

vars == <<at, s_execve_owner, s_argv, s_elf_buf, pd, new, window, frames, killed, lost>>

\* An address space: whose file its image and its interpreter came from, whose
\* arguments it starts with, and its frames.
None == [image |-> Untaken, interp |-> Untaken, argv |-> Untaken, size |-> 0]
Old == [None EXCEPT !.size = 1]     \* the program the task ran before

Points == {"user", "stage", "read", "map", "interp", "mapinterp", "stack", "pack",
           "commit", "changed", "ended"}

Init ==
    /\ at = [t \in Task |-> IF t \in Entering THEN "read" ELSE "user"]
    /\ s_execve_owner = Untaken /\ s_argv = Untaken /\ s_elf_buf = Untaken
    /\ pd = [t \in Task |-> IF t \in Entering THEN None ELSE Old]
    /\ new = [t \in Task |-> None]
    /\ window = {}
    /\ frames = NFrames /\ killed = 0 /\ lost = 0

Goto(t, p) == at' = [at EXCEPT ![t] = p]
Locked(t) == s_execve_owner = t

-----------------------------------------------------------------------------
(* SYS_EXECVE *)

\* A call waits here, yielding, while another has the lock.
execve_lock(t) ==
    /\ at[t] = "user" /\ s_execve_owner = Untaken
    /\ s_execve_owner' = t
    /\ Goto(t, "stage")
    /\ UNCHANGED <<s_argv, s_elf_buf, pd, new, window, frames, killed, lost>>

StageArguments(t) ==
    /\ at[t] = "stage"
    /\ s_argv' = t
    /\ Goto(t, "read")
    /\ UNCHANGED <<s_execve_owner, s_elf_buf, pd, new, window, frames, killed, lost>>

execve_unlock(t) == s_execve_owner' = IF Locked(t) THEN Untaken ELSE s_execve_owner

-----------------------------------------------------------------------------
(* elf_exec *)


\* A failure gives the new address space back; SYS_EXECVE then gives back the lock
\* and returns, and a task that started here ends.
Fail(t) ==
    /\ frames' = frames + new[t].size
    /\ new' = [new EXCEPT ![t] = None]
    /\ execve_unlock(t)
    /\ Goto(t, IF Locked(t) THEN "user" ELSE "ended")
    /\ UNCHANGED <<s_argv, s_elf_buf, pd, window, killed, lost>>

\* The file is unreadable, or its headers are refused.
ReadFails(t) == at[t] \in {"read", "interp"} /\ Fail(t)

\* The file is in the buffer and its headers are accepted; make an address space.
ReadFile(t) ==
    /\ at[t] = "read" /\ frames > 0
    /\ s_elf_buf' = t
    /\ frames' = frames - 1
    /\ new' = [new EXCEPT ![t].size = 1]
    /\ Goto(t, "map")
    /\ UNCHANGED <<s_execve_owner, s_argv, pd, window, killed, lost>>

\* Out of frames, for the directory, a segment or the stack.
OutOfFrames(t) ==
    /\ at[t] \in {"read", "map", "mapinterp", "stack"} /\ frames = 0
    /\ Fail(t)

\* A page and the table it needs, which vmm_map_page allocates and cannot report: if
\* the page was the last frame it is mapped nowhere, and the load goes on without it.
vmm_map_page(t, mapped) ==
    IF frames > 1
    THEN /\ frames' = frames - 2
         /\ new' = [new EXCEPT ![t] = [mapped EXCEPT !.size = @ + 2]]
         /\ UNCHANGED lost
    ELSE /\ frames' = 0
         /\ lost' = lost + 1
         /\ UNCHANGED new

\* The segments are copied out of the buffer; then the break and the mmap window are
\* set for the new program, which may name an interpreter.
map_load_segments(t) ==
    /\ at[t] = "map" /\ frames > 0
    /\ vmm_map_page(t, [new[t] EXCEPT !.image = s_elf_buf])
    /\ window' = window \cup {t}
    /\ \E p \in {"interp", "stack"} : Goto(t, p)
    /\ UNCHANGED <<s_execve_owner, s_argv, s_elf_buf, pd, killed>>

ReadInterp(t) ==
    /\ at[t] = "interp"
    /\ s_elf_buf' = t
    /\ Goto(t, "mapinterp")
    /\ UNCHANGED <<s_execve_owner, s_argv, pd, new, window, frames, killed, lost>>

MapInterp(t) ==
    /\ at[t] = "mapinterp" /\ frames > 0
    /\ vmm_map_page(t, [new[t] EXCEPT !.interp = s_elf_buf])
    /\ Goto(t, "stack")
    /\ UNCHANGED <<s_execve_owner, s_argv, s_elf_buf, pd, window, killed>>

MapStack(t) ==
    /\ at[t] = "stack" /\ frames > 0
    /\ vmm_map_page(t, new[t])
    /\ Goto(t, "pack")
    /\ UNCHANGED <<s_execve_owner, s_argv, s_elf_buf, pd, window, killed>>

\* The arguments go onto the new stack, from the scratch or, for a task that started
\* here, from its own; then the lock is free.
PackArguments(t) ==
    /\ at[t] = "pack"
    /\ new' = [new EXCEPT ![t].argv = IF Locked(t) THEN s_argv ELSE t]
    /\ execve_unlock(t)
    /\ Goto(t, "commit")
    /\ UNCHANGED <<s_argv, s_elf_buf, pd, window, frames, killed, lost>>

Commit(t) ==
    /\ at[t] = "commit"
    /\ pd' = [pd EXCEPT ![t] = new[t]]
    /\ new' = [new EXCEPT ![t] = [None EXCEPT !.size = pd[t].size]]
    /\ window' = window \ {t}
    /\ Goto(t, "changed")
    /\ UNCHANGED <<s_execve_owner, s_argv, s_elf_buf, frames, killed, lost>>

FreeOld(t) ==
    /\ at[t] = "changed"
    /\ frames' = frames + new[t].size
    /\ new' = [new EXCEPT ![t] = None]
    /\ Goto(t, "user")
    /\ UNCHANGED <<s_execve_owner, s_argv, s_elf_buf, pd, window, killed, lost>>

\* A signal ends the task where it is; its address space is freed with its slot, what
\* it was building, or had left but not freed, is not.
Kill(t) ==
    /\ at[t] # "ended" /\ killed < Kills
    /\ Goto(t, "ended")
    /\ killed' = killed + 1
    /\ frames' = frames + pd[t].size
    /\ lost' = lost + new[t].size
    /\ pd' = [pd EXCEPT ![t] = None]
    /\ new' = [new EXCEPT ![t] = None]
    /\ s_execve_owner' = IF s_execve_owner = t THEN Departed ELSE s_execve_owner
    /\ UNCHANGED <<s_argv, s_elf_buf, window>>

Step(t) ==
    \/ StageArguments(t)
    \/ ReadFile(t) \/ ReadFails(t) \/ OutOfFrames(t)
    \/ map_load_segments(t) \/ ReadInterp(t) \/ MapInterp(t) \/ MapStack(t)
    \/ PackArguments(t) \/ Commit(t) \/ FreeOld(t)

Next == \E t \in Task : execve_lock(t) \/ Step(t) \/ Kill(t)

Spec == Init /\ [][Next]_vars
\* A task in elf_exec gets the processor again and again.
Fairness == \A t \in Task : WF_vars(Step(t))

-----------------------------------------------------------------------------
(* Properties *)

Whose == Task \cup {Untaken}
Space == [image: Whose, interp: Whose, argv: Whose, size: Nat]

TypeOK ==
    /\ at \in [Task -> Points]
    /\ s_execve_owner \in Task \cup {Untaken, Departed}
    /\ s_argv \in Whose /\ s_elf_buf \in Whose
    /\ pd \in [Task -> Space] /\ new \in [Task -> Space]
    /\ window \subseteq Task
    /\ frames \in Nat /\ killed \in 0..Kills /\ lost \in Nat

\* A program that starts has the arguments its task gave to SYS_EXECVE, whoever else is
\* loading one, and if no task comes into elf_exec without the lock it is also the
\* program the task asked for: the lock covers the scratch and the staging buffer
\* until their last use.
OwnProgram ==
    \A t \in Task :
        /\ pd[t].argv \in {Untaken, t}
        /\ Entering = {} => {pd[t].image, pd[t].interp} \subseteq {Untaken, t}

\* Where a caller of SYS_EXECVE has the lock.
Loading == {"stage", "read", "map", "interp", "mapinterp", "stack", "pack"}

\* What the lock protects, for one task: the holder is inside, its arguments are in the
\* scratch from their staging on and its file is in the buffer while it is copied out.
Protected(t) ==
    /\ at[t] = "stage" => Locked(t)
    /\ Locked(t) => at[t] \in Loading /\ (at[t] # "stage" => s_argv = t)
    /\ new[t].argv \in {Untaken, t}
    /\ Entering = {} =>
        /\ at[t] \in Loading => Locked(t)
        /\ at[t] \in {"map", "mapinterp"} => s_elf_buf = t
        /\ {new[t].image, new[t].interp} \subseteq {Untaken, t}

\* The inductive invariant behind OwnProgram.
ExecInv == TypeOK /\ OwnProgram /\ \A t \in Task : Protected(t)

\* Every way out of elf_exec gives back what it took: the frames are free, in an
\* address space, or in one being built; but for a task killed in the middle, and for
\* a page whose table could not be had.
FramesConserved ==
    NFrames + Cardinality(Task \ Entering) =
        frames + lost + MapThenSumSet(LAMBDA t : pd[t].size + new[t].size, Task)

\* Whoever holds the execve lock gives it back, on success, on every failure, and to
\* nobody but itself; a killed holder does not (then it is Departed's for good).
LockComesBack == \A t \in Task : Locked(t) ~> ~Locked(t)

=============================================================================
