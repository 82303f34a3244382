------------------------------- MODULE Surfaces -------------------------------
(***************************************************************************)
(* Shared pixel buffers (surface.c), of one page each, and the address     *)
(* spaces they are mapped into.  Pages of a program that show a surface    *)
(* are kept as the set of map slots and, apart from it, as page-table      *)
(* entries: the two agree only while programs leave those pages to the     *)
(* surface calls.  A surface's frames are kept alive by the table, not by  *)
(* their reference count, which stays 1 however often they are mapped.     *)
(*                                                                         *)
(* `crossed' remembers that a program forked, replaced or unmapped such a  *)
(* page by other means, or was ended by SYS_SIGRETURN, which releases      *)
(* nothing.  Every surface call is one action: its body is masked.         *)
(***************************************************************************)
EXTENDS Frames

CONSTANTS
    Task,           \* slots of task_pool
    Id,             \* entries of s_surf
    Page,           \* addresses in the mmap windows of programs
    SURFACE_MAP_SLOTS,
    Crossing,       \* what programs do besides the surface calls, of CrossKinds
    Nobody

VARIABLES
    refcount, surf, page_dir,
    life,           \* "live", "dead" until the slot is reused
    private,        \* a frame of another use: what a freed frame becomes
    crossed         \* history

vars == <<refcount, surf, page_dir, life, private, crossed>>

NoSurface == [in_use |-> FALSE, frame |-> NoFrame, creator |-> Nobody, map |-> {}]
NoPages == [v \in Page |-> NoFrame]

Init ==
    /\ refcount = [f \in Frame |-> 0]
    /\ surf = [s \in Id |-> NoSurface]
    /\ page_dir = [t \in Task |-> NoPages]
    /\ life = [t \in Task |-> "dead"]
    /\ private = {} /\ crossed = FALSE

\* surface_gc on every surface of S, and the counts after it.
Unused(s) == s.in_use /\ s.creator = Nobody /\ s.map = {}
Collected(S) == [i \in Id |-> IF Unused(S[i]) THEN NoSurface ELSE S[i]]
\* Faulty variant: the slot is cleared and the frame kept.
ReleasedNone(rc, S) == rc
Released(rc, S) ==
    DroppedAll(rc, [f \in Frame |-> Cardinality({i \in Id : Unused(S[i]) /\ S[i].frame = f})])

surface_create(t, i, f) ==
    /\ life[t] = "live" /\ ~surf[i].in_use
    /\ f \in Free(refcount)
    /\ refcount' = Taken(refcount, f)
    /\ surf' = [surf EXCEPT ![i] = [in_use |-> TRUE, frame |-> f, creator |-> t, map |-> {}]]
    /\ UNCHANGED <<page_dir, life, private, crossed>>

\* In a free slot of the surface, at an address of the window.  mmap_next never goes
\* back; here an address may come again once it is unmapped.
surface_map(t, i, v) ==
    /\ life[t] = "live" /\ surf[i].in_use
    /\ Cardinality(surf[i].map) < SURFACE_MAP_SLOTS
    /\ page_dir[t][v] = NoFrame
    /\ page_dir' = [page_dir EXCEPT ![t][v] = surf[i].frame]
    /\ surf' = [surf EXCEPT ![i].map = @ \cup {[task |-> t, base_va |-> v]}]
    /\ UNCHANGED <<refcount, life, private, crossed>>

surface_destroy(t, i) ==
    LET S == [surf EXCEPT ![i].creator = Nobody] IN
    /\ life[t] = "live" /\ surf[i].in_use /\ surf[i].creator = t
    /\ surf' = Collected(S) /\ refcount' = Released(refcount, S)
    /\ UNCHANGED <<page_dir, life, private, crossed>>

EntryCleared(pd, t, v) == [pd EXCEPT ![t][v] = NoFrame]

surface_unmap(t, i, v) ==
    LET S == [surf EXCEPT ![i].map = @ \ {[task |-> t, base_va |-> v]}] IN
    /\ life[t] = "live" /\ [task |-> t, base_va |-> v] \in surf[i].map
    /\ page_dir' = EntryCleared(page_dir, t, v)
    /\ surf' = Collected(S) /\ refcount' = Released(refcount, S)
    /\ UNCHANGED <<life, private, crossed>>

WithoutTask(t) ==
    [i \in Id |-> [in_use |-> surf[i].in_use, frame |-> surf[i].frame,
                   creator |-> IF surf[i].creator = t THEN Nobody ELSE surf[i].creator,
                   map |-> {m \in surf[i].map : m.task # t}]]

Shown(t) == {v \in Page : \E i \in Id : [task |-> t, base_va |-> v] \in surf[i].map}

\* task_terminate calls surface_release_task before the task is marked dead.
task_terminate(t) ==
    /\ life[t] = "live"
    /\ life' = [life EXCEPT ![t] = "dead"]
    /\ page_dir' = [page_dir EXCEPT ![t] = [v \in Page |-> IF v \in Shown(t) THEN NoFrame ELSE @[v]]]
    /\ surf' = Collected(WithoutTask(t)) /\ refcount' = Released(refcount, WithoutTask(t))
    /\ UNCHANGED <<private, crossed>>

\* The slot is reused and its last occupant's directory freed: vmm_free_pd.
PdFrames(t) == [f \in Frame |-> Cardinality({v \in Page : page_dir[t][v] = f})]
task_create(t) ==
    /\ life[t] = "dead"
    /\ life' = [life EXCEPT ![t] = "live"]
    /\ refcount' = DroppedAll(refcount, PdFrames(t))
    /\ page_dir' = [page_dir EXCEPT ![t] = NoPages]
    /\ UNCHANGED <<surf, private, crossed>>

\* Some other part of the kernel takes a free frame.
pmm_alloc_frame(f) ==
    /\ private = {} /\ f \in Free(refcount)
    /\ refcount' = Taken(refcount, f)
    /\ private' = private \cup {f}
    /\ UNCHANGED <<surf, page_dir, life, crossed>>
pmm_free_frame(f) ==
    /\ f \in private
    /\ refcount' = Dropped(refcount, f)
    /\ private' = private \ {f}
    /\ UNCHANGED <<surf, page_dir, life, crossed>>

-----------------------------------------------------------------------------
(* Calls that do not know of surfaces *)

SYS_MUNMAP(t, v) ==
    /\ "munmap" \in Crossing /\ life[t] = "live" /\ page_dir[t][v] # NoFrame
    /\ refcount' = Dropped(refcount, page_dir[t][v])
    /\ page_dir' = [page_dir EXCEPT ![t][v] = NoFrame]
    /\ crossed' = TRUE
    /\ UNCHANGED <<surf, life, private>>

\* pmm_inc_ref for n references to each frame: a free frame is not counted, and a full
\* count stays full.
CountedAll(rc, n) ==
    [f \in Frame |-> IF rc[f] = 0 THEN 0 ELSE IF rc[f] + n[f] > RefMax THEN RefMax ELSE rc[f] + n[f]]

\* vmm_clone_pd_cow counts the frames and gives the child the entries.
task_fork(t, c) ==
    /\ "fork" \in Crossing /\ life[t] = "live" /\ life[c] = "dead"
    /\ life' = [life EXCEPT ![c] = "live"]
    /\ refcount' = CountedAll(DroppedAll(refcount, PdFrames(c)), PdFrames(t))
    /\ page_dir' = [page_dir EXCEPT ![c] = page_dir[t]]
    /\ crossed' = (crossed \/ page_dir[t] # NoPages)
    /\ UNCHANGED <<surf, private>>

\* elf_exec frees the old directory with the surface's frames in it.
SYS_EXECVE(t) ==
    /\ "execve" \in Crossing /\ life[t] = "live"
    /\ refcount' = DroppedAll(refcount, PdFrames(t))
    /\ page_dir' = [page_dir EXCEPT ![t] = NoPages]
    /\ crossed' = (crossed \/ page_dir[t] # NoPages)
    /\ UNCHANGED <<surf, life, private>>

\* A kill by SYS_SIGRETURN skips surface_release_task.
SYS_SIGRETURN_kill(t) ==
    /\ "sigreturn" \in Crossing /\ life[t] = "live"
    /\ life' = [life EXCEPT ![t] = "dead"]
    /\ crossed' = (crossed \/ \E i \in Id : surf[i].creator = t \/ \E m \in surf[i].map : m.task = t)
    /\ UNCHANGED <<refcount, surf, page_dir, private>>

-----------------------------------------------------------------------------
Step ==
    \/ \E t \in Task :
        \/ \E i \in Id :
            \/ \E f \in Frame : surface_create(t, i, f)
            \/ surface_destroy(t, i)
            \/ \E v \in Page : surface_map(t, i, v) \/ surface_unmap(t, i, v)
        \/ task_terminate(t) \/ task_create(t)
        \/ \E v \in Page : SYS_MUNMAP(t, v)
        \/ \E c \in Task : task_fork(t, c)
        \/ SYS_EXECVE(t) \/ SYS_SIGRETURN_kill(t)
    \/ \E f \in Frame : pmm_alloc_frame(f) \/ pmm_free_frame(f)

\* Bound: nothing is explored once nothing is promised.
Next == ~crossed /\ Step

Spec == Init /\ [][Next]_vars

-----------------------------------------------------------------------------
Surface == [in_use : BOOLEAN, frame : Frame \cup {NoFrame}, creator : Task \cup {Nobody},
            map : SUBSET [task : Task, base_va : Page]]

TypeOK ==
    /\ refcount \in [Frame -> 0..RefMax] /\ private \subseteq Frame
    /\ surf \in [Id -> Surface]
    /\ page_dir \in [Task -> [Page -> Frame \cup {NoFrame}]]
    /\ life \in [Task -> {"live", "dead"}] /\ crossed \in BOOLEAN

\* What a program sees through a mapped surface is that surface, for as long as it
\* is mapped: its frame has not been freed and given to another surface or to
\* another part of the kernel (surface_gc waits for the last map slot, and clears
\* the page table before the slot).
SurfaceShown ==
    ~crossed => \A t \in Task, v \in Page : page_dir[t][v] # NoFrame =>
        /\ \E i \in Id : [task |-> t, base_va |-> v] \in surf[i].map /\ surf[i].frame = page_dir[t][v]
        /\ page_dir[t][v] \notin private
        /\ life[t] = "live"

\* A surface's frame is counted once, for the table, and belongs to it alone; frames
\* without an owner are free: none leaks when creators and clients end in any order.
SurfaceOwnsFrame ==
    ~crossed => \A f \in Frame :
        LET owners == {i \in Id : surf[i].in_use /\ surf[i].frame = f} IN
        refcount[f] = Cardinality(owners) + (IF f \in private THEN 1 ELSE 0) /\ refcount[f] <= 1

\* A surface outlives its creator only while somebody maps it, and names live tasks
\* only, so that no later occupant of a slot inherits it.
SurfaceHolders ==
    ~crossed => \A i \in Id : surf[i].in_use =>
        /\ surf[i].creator # Nobody \/ surf[i].map # {}
        /\ surf[i].creator # Nobody => life[surf[i].creator] = "live"
        /\ \A m \in surf[i].map : life[m.task] = "live"

-----------------------------------------------------------------------------
(* The inductive invariant behind the proof *)

Owned(f) == \E i \in Id : surf[i].in_use /\ surf[i].frame = f

\* A frame has one owner, a surface or another part of the kernel, and is counted once
\* for it.
OneOwner ==
    /\ \A i, j \in Id : surf[i].in_use /\ surf[j].in_use /\ surf[i].frame = surf[j].frame => i = j
    /\ \A i \in Id : surf[i].in_use => surf[i].frame \in Frame \ private
    /\ \A f \in Frame : refcount[f] = IF f \in private \/ Owned(f) THEN 1 ELSE 0

\* Every map slot is a page-table entry that shows the surface's frame.
SlotsEntered ==
    \A i \in Id :
        /\ ~surf[i].in_use => surf[i].map = {}
        /\ \A m \in surf[i].map : page_dir[m.task][m.base_va] = surf[i].frame

SurfacesInv ==
    /\ TypeOK /\ SurfaceShown /\ SurfaceHolders
    /\ ~crossed => OneOwner /\ SlotsEntered

\* Whatever programs create, map, unmap, share and leave behind when they end, the
\* frames of surfaces are owned once, shown where they are mapped and freed once.
SurfacesSound == SurfacesInv /\ SurfaceOwnsFrame
=============================================================================
