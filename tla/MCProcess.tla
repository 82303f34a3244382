----------------------------- MODULE MCProcess ------------------------------
(***************************************************************************)
(* What a process is made of besides its memory, side by side: descriptor  *)
(* tables, the ring of a pipe, the loading of a program and its arguments. *)
(* Each behaviour moves one part, chosen at the start.  The tables are     *)
(* there three times, with pipes, with files, and with few of both.        *)
(***************************************************************************)
EXTENDS Pipe, TLC

CONSTANTS b1, b2, NoBlk, t1, t2, t3, Untaken, Departed

VARIABLES
    part,
    state, fds, op, pend, unlinked, cli, fs_owner, heap, disk, version, flaws,
    at, s_execve_owner, s_argv, s_elf_buf, pd, new, window, frames, killed, lost,
    args

tableVars == <<state, fds, op, pend, unlinked, cli, fs_owner, heap, disk, version, flaws>>
execVars == <<at, s_execve_owner, s_argv, s_elf_buf, pd, new, window, frames, killed, lost>>
allVars == <<part, tableVars, vars, execVars, args>>

P == INSTANCE Files WITH
        MAX_TASKS <- 3, TASK_MAX_FDS <- 2, Blk <- {b1}, MaxVersion <- 1,
        Calls <- {"pipe", "fork", "exit", "read", "write", "close"}
F == INSTANCE Files WITH
        MAX_TASKS <- 3, TASK_MAX_FDS <- 1, Blk <- {b1, b2}, MaxVersion <- 1,
        Calls <- {"open", "fork", "exit", "write", "close"}
M == INSTANCE Files WITH
        MAX_TASKS <- 2, TASK_MAX_FDS <- 2, Blk <- {b1, b2}, MaxVersion <- 1,
        Calls <- {"pipe", "open", "fork", "close", "dup", "dup2"}
\* Three calls of execve, and two; one beside a task that starts in the kernel.
X == INSTANCE Exec WITH Task <- {t1, t2, t3}, Entering <- {}, NFrames <- 7, Kills <- 1
Z == INSTANCE Exec WITH Task <- {t1, t2}, Entering <- {}, NFrames <- 7, Kills <- 1
Y == INSTANCE Exec WITH Task <- {t1, t2}, Entering <- {t2}, NFrames <- 7, Kills <- 1
A == INSTANCE ExecArgs WITH
        PAGE_SIZE <- 16, WORD <- 2, TableWords <- 1, RandomBytes <- 1, ELF_MAX_ARGC <- 4,
        ELF_ARG_MAX <- 8

\* The parts that do not move stay as they start.
Rest(tables, exec) ==
    /\ CASE tables = "pipes" -> P!Init [] tables = "files" -> F!Init
         [] tables = "mixed" -> M!Init
    /\ CASE exec = "boot" -> Y!Init [] exec = "two" -> Z!Init [] OTHER -> X!Init
    /\ Init
    /\ IF part = "args" THEN A!Init ELSE args = <<>>

MCInit ==
    /\ part \in {"pipes", "files", "mixed", "ring", "exec", "boot", "args"}
    /\ Rest(IF part \in {"pipes", "files", "mixed"} THEN part ELSE "pipes", part)

MCNext ==
    /\ UNCHANGED <<part, args>>
    /\ \/ part = "pipes" /\ P!Next /\ UNCHANGED <<vars, execVars>>
       \/ part = "files" /\ F!Next /\ UNCHANGED <<vars, execVars>>
       \/ part = "mixed" /\ M!Next /\ UNCHANGED <<vars, execVars>>
       \/ part = "ring" /\ Next /\ UNCHANGED <<tableVars, execVars>>
       \/ part = "exec" /\ X!Next /\ UNCHANGED <<tableVars, vars>>
       \/ part = "boot" /\ Y!Next /\ UNCHANGED <<tableVars, vars>>

MCSpec == MCInit /\ [][MCNext]_allVars

Symmetry == Permutations({b1, b2}) \cup Permutations(Writer) \cup Permutations({t1, t2, t3})

\* For what must eventually happen.
LiveInit == part \in {"pipes", "two"} /\ Rest("pipes", "two")
LiveNext ==
    /\ UNCHANGED <<part, args>>
    /\ \/ part = "pipes" /\ P!Next /\ UNCHANGED <<vars, execVars>>
       \/ part = "two" /\ Z!Next /\ UNCHANGED <<tableVars, vars>>
LiveSpec ==
    /\ LiveInit /\ [][LiveNext]_allVars
    /\ part = "pipes" => P!Fairness
    /\ part = "two" => Z!Fairness

-----------------------------------------------------------------------------
(* Properties: those of the modules, where they are explained *)

\* The tables that fd.c keeps, in whichever size the part has them.
Tables(p, f, m) ==
    (part = "pipes" => p) /\ (part = "files" => f) /\ (part = "mixed" => m)

\* Buffers and rings of fd.c are owned, and freed when the last owner lets go.
BlocksOwned == Tables(P!BlocksOwned, F!BlocksOwned, M!BlocksOwned)
\* The counts of a ring are the descriptors that name its ends.
RefcountsExact == Tables(P!RefcountsExact, F!RefcountsExact, M!RefcountsExact)
\* fd_flush_one writes what the task itself had changed.
WritesOwn == Tables(P!WritesOwn, F!WritesOwn, M!WritesOwn)
\* A changed buffer of fd.c is written back before it is given up.
FlushesFirst == Tables(P!FlushesFirst, F!FlushesFirst, M!FlushesFirst)
\* task_fork loses its way only when fd_table_destroy has yielded.
HungOnFlush == Tables(P!HungOnFlush, F!HungOnFlush, M!HungOnFlush)
\* Changes reach the file, and only by the task that made them: the two step properties above.
ChangesKept == [][WritesOwn /\ FlushesFirst]_allVars
\* A reader of a pipe is told when the last write end is closed.
EofReturns == part = "pipes" => P!EofReturns

\* elf_exec loads the arguments of its caller, and its program if all take the lock: with
\* the inductive invariant of the proof.
OwnProgram == (part = "exec" => X!ExecInv) /\ (part = "boot" => Y!ExecInv)
\* elf_exec loses no frame on any way out.
FramesConserved ==
    (part = "boot" => Y!FramesConserved) /\ (part = "exec" => X!FramesConserved)
\* SYS_EXECVE gives its lock back.
LockComesBack == part = "two" => Z!LockComesBack
\* The first stack page holds the arguments and tables that elf_exec puts there.
ArgsPacked == part = "args" => A!ArgsPacked

=============================================================================
