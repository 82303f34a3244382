---------------------------- MODULE AddressSpace ----------------------------
(***************************************************************************)
(* Private address spaces: page directories with copy-on-write and demand  *)
(* paging (vmm.c, the fault handlers of debug.c), brk, mmap, munmap and    *)
(* mprotect, fork, execve (elf.c) and the end of a task.                   *)
(*                                                                         *)
(* Page tables are taken to be there; a fork or an execve may fail for     *)
(* lack of one at any point.  The content of a page is abstracted to where *)
(* it comes from.  A program's heap and mmap windows are one window.       *)
(*                                                                         *)
(* A fault handler (interrupt gate) is one action.  A system call runs     *)
(* with interrupts on and is split where it can be ended by a signal with  *)
(* references in its local variables (new_pd).                             *)
(***************************************************************************)
EXTENDS Frames

CONSTANTS
    Task,           \* slots of task_pool that take part
    NPages,         \* pages of an address space
    Managed,        \* bound: the pages that programs unmap and protect
    Calls           \* what programs do, a subset of CallKinds

CallKinds == {"brk", "munmap", "mprotect-ro", "mprotect-rw", "fixed", "fork", "execve", "kill"}

ASSUME AddressSpaceAssumption ==
    /\ NPages \in Nat \ {0} /\ Managed \subseteq 0..NPages - 1
    /\ IsFiniteSet(Task) /\ "absent" \notin Task /\ Calls \subseteq CallKinds
    /\ RefMax >= 2 * Cardinality(Task)      \* 255 and MAX_TASKS = 32

Page == 0..NPages - 1
StackPage == NPages - 1     \* what elf_exec maps: image and stack as one page

\* Zeros or an image, put there by the kernel, or the last writer.
Fresh == "fresh"
Content == {Fresh} \cup Task

Pte == [frame : Frame \cup {NoFrame}, w : BOOLEAN, cow : BOOLEAN]
NoPte == [frame |-> NoFrame, w |-> FALSE, cow |-> FALSE]
Writable(f) == [frame |-> f, w |-> TRUE, cow |-> FALSE]
EmptyPd == [v \in Page |-> NoPte]

VARIABLES
    refcount,       \* mem_map[].refcount
    content,        \* what a frame holds
    life,           \* "unused" slot, "live", or "dead" until the slot is reused
    page_dir,       \* user part of the page directory
    mmap_next,      \* pages below it are demand-zero
    call,           \* where a task is inside a system call
    cloned,         \* pages that vmm_clone_pd_cow has done
    new_pd,         \* directory under construction, or being taken down
    cut             \* history: a task was ended inside fork or execve

vars == <<refcount, content, life, page_dir, mmap_next, call, cloned, new_pd, cut>>

Init ==
    /\ refcount = [f \in Frame |-> 0] /\ content = [f \in Frame |-> Fresh]
    /\ life = [t \in Task |-> "unused"]
    /\ page_dir = [t \in Task |-> EmptyPd] /\ mmap_next = [t \in Task |-> 0]
    /\ call = [t \in Task |-> "user"] /\ cloned = [t \in Task |-> 0] /\ new_pd = [t \in Task |-> EmptyPd]
    /\ cut = FALSE

At(t, where) == life[t] = "live" /\ call[t] = where
User(t) == At(t, "user")
Goes(t, where) == call' = [call EXCEPT ![t] = where]

\* vmm_free_pd.
References(pd) == [f \in Frame |-> Cardinality({v \in Page : pd[v].frame = f})]
PdFreed(rc, pd) == DroppedAll(rc, References(pd))

-----------------------------------------------------------------------------
(* Programs and their page faults *)

SetPte(t, v, pte) == page_dir' = [page_dir EXCEPT ![t][v] = pte]

\* SYS_BRK and SYS_MMAP2 of an anonymous range only reserve.
SYS_BRK(t) ==
    /\ "brk" \in Calls
    /\ User(t) /\ mmap_next[t] < StackPage
    /\ mmap_next' = [mmap_next EXCEPT ![t] = @ + 1]
    /\ UNCHANGED <<refcount, content, life, page_dir, call, new_pd, cloned, cut>>

\* The program writes where its page table lets it.
store(t, v) ==
    /\ User(t) /\ page_dir[t][v].w
    /\ content' = [content EXCEPT ![page_dir[t][v].frame] = t]
    /\ UNCHANGED <<refcount, life, page_dir, mmap_next, call, new_pd, cloned, cut>>

try_handle_anon_fault(t, v, f) ==
    /\ User(t)
    /\ page_dir[t][v] = NoPte /\ v < mmap_next[t]
    /\ f \in Free(refcount)
    /\ refcount' = Taken(refcount, f)
    /\ content' = [content EXCEPT ![f] = Fresh]
    /\ SetPte(t, v, Writable(f))
    /\ UNCHANGED <<life, mmap_next, call, new_pd, cloned, cut>>

\* Faulty variant: a frame shared by two is taken for private.
SoleOff(rc, f) == rc[f] <= 2
Sole(rc, f) == rc[f] <= 1

\* try_handle_cow_fault: the only holder gets the page back,
cow_promote(t, v) ==
    LET frame == page_dir[t][v].frame IN
    /\ User(t) /\ page_dir[t][v].cow
    /\ Sole(refcount, frame)
    /\ SetPte(t, v, Writable(frame))
    /\ UNCHANGED <<refcount, content, life, mmap_next, call, new_pd, cloned, cut>>

\* ... any other holder a copy.
cow_copy(t, v, f) ==
    LET frame == page_dir[t][v].frame IN
    /\ User(t) /\ page_dir[t][v].cow
    /\ ~Sole(refcount, frame)
    /\ f \in Free(refcount)
    /\ content' = [content EXCEPT ![f] = content[frame]]
    /\ refcount' = Dropped(Taken(refcount, f), frame)
    /\ SetPte(t, v, Writable(f))
    /\ UNCHANGED <<life, mmap_next, call, new_pd, cloned, cut>>

\* A fault that no handler resolves (here: for lack of a frame) ends the task.
kill_userspace_fault(t) ==
    /\ User(t) /\ Free(refcount) = {}
    /\ \E v \in Page : \/ page_dir[t][v] = NoPte /\ v < mmap_next[t]
                       \/ page_dir[t][v].cow /\ ~Sole(refcount, page_dir[t][v].frame)
    /\ life' = [life EXCEPT ![t] = "dead"]
    /\ UNCHANGED <<refcount, content, page_dir, mmap_next, call, new_pd, cloned, cut>>

\* vmm_protect_page keeps the frame and nothing else of the entry: the mark for
\* copy-on-write goes.
Protected(pte, write) == [frame |-> pte.frame, w |-> write, cow |-> FALSE]

SYS_MPROTECT(t, v, write) ==
    /\ (IF write THEN "mprotect-rw" ELSE "mprotect-ro") \in Calls
    /\ User(t) /\ v \in Managed /\ page_dir[t][v] # NoPte
    /\ SetPte(t, v, Protected(page_dir[t][v], write))
    /\ UNCHANGED <<refcount, content, life, mmap_next, call, new_pd, cloned, cut>>

\* Faulty variant: the frame of the entry is not given back.
EntryForgotten(rc, f) == rc
EntryReleased(rc, f) == Dropped(rc, f)

\* vmm_unmap_and_free; only its owner looks at the entry in between.
SYS_MUNMAP(t, v) ==
    /\ "munmap" \in Calls
    /\ User(t) /\ v \in Managed /\ page_dir[t][v] # NoPte
    /\ SetPte(t, v, NoPte)
    /\ refcount' = EntryReleased(refcount, page_dir[t][v].frame)
    /\ UNCHANGED <<content, life, mmap_next, call, new_pd, cloned, cut>>

\* SYS_MMAP2 with MAP_FIXED and MAP_ANONYMOUS: a zeroed frame in the place of
\* what was there, inside the window (as the dynamic linker does) or over the
\* program's image.  Without PROT_WRITE it is this and SYS_MPROTECT.
SYS_MMAP2_fixed(t, v, f) ==
    /\ "fixed" \in Calls
    /\ User(t) /\ v \in 0..mmap_next[t] - 1 \cup {StackPage}
    /\ f \in Free(refcount)
    /\ content' = [content EXCEPT ![f] = Fresh]
    /\ refcount' = EntryReleased(Taken(refcount, f), page_dir[t][v].frame)
    /\ SetPte(t, v, Writable(f))
    /\ UNCHANGED <<life, mmap_next, call, new_pd, cloned, cut>>

-----------------------------------------------------------------------------
(* fork *)

\* Both entries lose the right to write and get the mark.
Shared(pte) == IF pte = NoPte THEN NoPte ELSE [pte EXCEPT !.w = FALSE, !.cow = TRUE]

\* Faulty variant: the parent keeps its right to write.
SharedByChild(t, v) ==
    /\ new_pd' = [new_pd EXCEPT ![t][v] = Shared(page_dir[t][v])]
    /\ UNCHANGED page_dir
ShareEntry(t, v) ==
    /\ new_pd' = [new_pd EXCEPT ![t][v] = Shared(page_dir[t][v])]
    /\ SetPte(t, v, Shared(page_dir[t][v]))

\* SYS_FORK: one page of vmm_clone_pd_cow.
vmm_clone_pd_cow(t) ==
    LET v == cloned[t] IN
    /\ At(t, "fork") \/ (User(t) /\ "fork" \in Calls)
    /\ v < NPages
    /\ Goes(t, "fork")
    /\ refcount' = IF page_dir[t][v] = NoPte THEN refcount
                   ELSE Counted(refcount, page_dir[t][v].frame)
    /\ ShareEntry(t, v)
    /\ cloned' = [cloned EXCEPT ![t] = v + 1]
    /\ UNCHANGED <<content, life, mmap_next, cut>>

\* A DEAD slot before an unused one.
IsNewSlot(c) ==
    life[c] = "dead" \/ (life[c] = "unused" /\ \A d \in Task : life[d] # "dead")

Reclaimed(rc, c) == PdFreed(rc, page_dir[c])

\* The rest of task_fork, with interrupts masked.
task_fork(t, c) ==
    /\ At(t, "fork") /\ cloned[t] = NPages
    /\ IsNewSlot(c)
    /\ refcount' = Reclaimed(refcount, c)
    /\ page_dir' = [page_dir EXCEPT ![c] = new_pd[t]]
    /\ new_pd' = [new_pd EXCEPT ![t] = EmptyPd]
    /\ mmap_next' = [mmap_next EXCEPT ![c] = mmap_next[t]]
    /\ life' = [life EXCEPT ![c] = "live"]
    /\ call' = [call EXCEPT ![t] = "user", ![c] = "user"]
    /\ cloned' = [cloned EXCEPT ![t] = 0]
    /\ UNCHANGED <<content, cut>>

Unwound(rc, pd) == PdFreed(rc, pd)

\* No page table for the child, or no slot.
fork_fails(t) ==
    /\ At(t, "fork")
    /\ cloned[t] < NPages \/ \A c \in Task : ~IsNewSlot(c)
    /\ refcount' = Unwound(refcount, new_pd[t])
    /\ new_pd' = [new_pd EXCEPT ![t] = EmptyPd]
    /\ Goes(t, "user") /\ cloned' = [cloned EXCEPT ![t] = 0]
    /\ UNCHANGED <<content, life, page_dir, mmap_next, cut>>

-----------------------------------------------------------------------------
(* New programs and the end of tasks *)

\* A kernel task, about to run elf_exec for a program.
task_create(c) ==
    /\ IsNewSlot(c)
    /\ refcount' = Reclaimed(refcount, c)
    /\ page_dir' = [page_dir EXCEPT ![c] = EmptyPd]
    /\ mmap_next' = [mmap_next EXCEPT ![c] = 0]
    /\ life' = [life EXCEPT ![c] = "live"]
    /\ Goes(c, "exec-fresh")
    /\ UNCHANGED <<content, new_pd, cloned, cut>>

InExec(t) == life[t] = "live" /\ call[t] \in {"exec", "exec-fresh"}

\* elf_exec builds the new directory.  The window of the calling program is reset
\* before the last steps that can fail (interpreter, stack).
elf_exec_load(t, f) ==
    /\ At(t, "exec-fresh") \/ (User(t) /\ "execve" \in Calls)
    /\ new_pd[t] = EmptyPd
    /\ f \in Free(refcount)
    /\ refcount' = Taken(refcount, f)
    /\ content' = [content EXCEPT ![f] = Fresh]
    /\ new_pd' = [new_pd EXCEPT ![t][StackPage] = Writable(f)]
    /\ mmap_next' = [mmap_next EXCEPT ![t] = 0]
    /\ Goes(t, IF User(t) THEN "exec" ELSE call[t])
    /\ UNCHANGED <<life, page_dir, cloned, cut>>

\* A bad image, or out of memory.  The program goes on; a fresh task ends.
elf_exec_fails(t) ==
    /\ InExec(t)
    /\ refcount' = Unwound(refcount, new_pd[t])
    /\ new_pd' = [new_pd EXCEPT ![t] = EmptyPd]
    /\ life' = [life EXCEPT ![t] = IF call[t] = "exec-fresh" THEN "dead" ELSE "live"]
    /\ Goes(t, "user")
    /\ UNCHANGED <<content, page_dir, mmap_next, cloned, cut>>

elf_exec_commit(t) ==
    /\ InExec(t) /\ new_pd[t] # EmptyPd
    /\ page_dir' = [page_dir EXCEPT ![t] = new_pd[t]]
    /\ new_pd' = [new_pd EXCEPT ![t] = page_dir[t]]
    /\ Goes(t, "reap")
    /\ UNCHANGED <<refcount, content, life, mmap_next, cloned, cut>>

\* The directory that execve replaces is freed once CR3 has left it.
elf_exec_reap(t) ==
    /\ At(t, "reap")
    /\ refcount' = PdFreed(refcount, new_pd[t])
    /\ new_pd' = [new_pd EXCEPT ![t] = EmptyPd]
    /\ Goes(t, "user")
    /\ UNCHANGED <<content, life, page_dir, mmap_next, cloned, cut>>

\* task_exit by the program, or task_terminate for a signal, which may find the
\* task inside a system call: what its local variables hold is lost.  The
\* directory stays until the slot is reused.  Bound: one task is ended with such
\* references, or the lost frames would soon be all there are.
task_terminate(t) ==
    /\ life[t] = "live"
    /\ call[t] = "user" \/ ("kill" \in Calls /\ ~cut)
    /\ life' = [life EXCEPT ![t] = "dead"]
    /\ cut' = (cut \/ new_pd[t] # EmptyPd)
    /\ new_pd' = [new_pd EXCEPT ![t] = EmptyPd]
    /\ Goes(t, "user") /\ cloned' = [cloned EXCEPT ![t] = 0]
    /\ UNCHANGED <<refcount, content, page_dir, mmap_next>>

-----------------------------------------------------------------------------
ProgramStep(t) ==
    \/ SYS_BRK(t)
    \/ kill_userspace_fault(t)
    \/ \E v \in Page :
        \/ store(t, v) \/ cow_promote(t, v) \/ SYS_MUNMAP(t, v)
        \/ \E write \in BOOLEAN : SYS_MPROTECT(t, v, write)
        \/ \E f \in Frame : try_handle_anon_fault(t, v, f) \/ cow_copy(t, v, f)
                            \/ SYS_MMAP2_fixed(t, v, f)

TaskStep(t) ==
    \/ vmm_clone_pd_cow(t) \/ fork_fails(t)
    \/ \E c \in Task : task_fork(t, c)
    \/ task_create(t)
    \/ elf_exec_fails(t) \/ elf_exec_commit(t) \/ elf_exec_reap(t)
    \/ \E f \in Frame : elf_exec_load(t, f)
    \/ task_terminate(t)

Next == \E t \in Task : ProgramStep(t) \/ TaskStep(t)

Spec == Init /\ [][Next]_vars

-----------------------------------------------------------------------------
(* Properties *)

TypeOK ==
    /\ refcount \in [Frame -> 0..RefMax] /\ content \in [Frame -> Content]
    /\ life \in [Task -> {"unused", "live", "dead"}]
    /\ page_dir \in [Task -> [Page -> Pte]] /\ new_pd \in [Task -> [Page -> Pte]]
    /\ mmap_next \in [Task -> 0..NPages]
    /\ call \in [Task -> {"user", "fork", "exec", "exec-fresh", "reap"}] /\ cloned \in [Task -> Page \cup {NPages}]
    /\ cut \in BOOLEAN

\* The entries that name a frame, in the directories `pds' of live and dead tasks.
Holders(pds, f) == {h \in Task \X Page : pds[h[1]][h[2]].frame = f}

\* How many there are, counting the directories under construction.
Named(f) == Cardinality(Holders(page_dir, f)) + Cardinality(Holders(new_pd, f))

\* A frame's count is the number of page-table entries that name it: no frame is
\* freed (pmm_free_frame) while an entry of any task, a dead one included, still
\* names it, and none is lost.  Only a task ended inside fork or execve leaves
\* counts that nobody will drop.
RefcountExact ==
    \A f \in Frame :
        /\ refcount[f] >= Named(f)
        /\ cut \/ refcount[f] = Named(f)

\* A page that some task may write has no other holder: copy-on-write never leaves
\* one frame writable by one task and visible to another (vmm_clone_pd_cow,
\* try_handle_cow_fault).
WritableIsSole ==
    \A t \in Task, v \in Page :
        life[t] = "live" /\ page_dir[t][v].w
            => /\ Holders(page_dir, page_dir[t][v].frame) = {<<t, v>>}
               /\ Holders(new_pd, page_dir[t][v].frame) = {}

-----------------------------------------------------------------------------
(* Refinement of PrivateMemory *)

Seen(t) ==
    [v \in Page |-> IF life[t] # "live" \/ page_dir[t][v] = NoPte THEN "absent"
                    ELSE content[page_dir[t][v].frame]]

AbsMem == [t \in Task |-> Seen(t)]

Abs == INSTANCE PrivateMemory WITH mem <- AbsMem, Image <- {StackPage}

\* To every program its memory is private: sharing frames after a fork, promoting
\* and copying pages on faults, unwinding a failed fork and reusing the slots and
\* frames of dead tasks are invisible, and a child starts with the memory its
\* parent has when it is created.
MemoryIsPrivate == Abs!AbsSpec

-----------------------------------------------------------------------------
(* The inductive invariant behind the proofs *)

\* An entry without a frame is empty, and a directory names a frame once.
SoundPd(pd) ==
    /\ \A v \in Page : pd[v].frame = NoFrame => pd[v] = NoPte
    /\ \A u, v \in Page : pd[u].frame = pd[v].frame /\ pd[u].frame # NoFrame => u = v

PdsSound == \A t \in Task : SoundPd(page_dir[t]) /\ SoundPd(new_pd[t])

\* The directory that elf_exec has built: one page, fresh, seen by nobody else.
Loaded(t) ==
    \E f \in Frame :
        /\ new_pd[t] = [EmptyPd EXCEPT ![StackPage] = Writable(f)]
        /\ content[f] = Fresh
        /\ Holders(page_dir, f) = {} /\ Holders(new_pd, f) = {<<t, StackPage>>}

\* What new_pd holds, by where the task is.
PhaseOK(t) ==
    /\ life[t] # "live" => call[t] = "user"
    /\ call[t] = "user" => new_pd[t] = EmptyPd
    /\ call[t] # "fork" => cloned[t] = 0
    /\ call[t] = "fork" =>
        \A v \in Page :
            IF v < cloned[t] THEN new_pd[t][v] = page_dir[t][v] /\ ~page_dir[t][v].w
            ELSE new_pd[t][v] = NoPte
    /\ call[t] \in {"exec", "exec-fresh"} => new_pd[t] = EmptyPd \/ Loaded(t)

PhasesOK == \A t \in Task : PhaseOK(t)

PagingInv == TypeOK /\ PdsSound /\ PhasesOK /\ RefcountExact /\ WritableIsSole
=============================================================================
