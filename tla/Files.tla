------------------------------- MODULE Files --------------------------------
(***************************************************************************)
(* Descriptor tables (fd.c and its callers in syscall.c and task.c): file  *)
(* buffers owned by one descriptor, pipe rings shared and counted, tables  *)
(* copied by fork and torn down when the slot of an ended task is reused.  *)
(* System calls can be preempted and their task ended in the middle; the   *)
(* reuse of a slot runs with interrupts off, but yields while it waits for *)
(* the file system.  One file stands for all; what travels through a ring  *)
(* is in Pipe.  A zombie (Sched) is an ended task that is not reused yet.  *)
(***************************************************************************)
EXTENDS Naturals, FiniteSets

CONSTANTS
    MAX_TASKS,
    TASK_MAX_FDS,
    Blk,                \* heap blocks for buffers and rings
    NoBlk,
    MaxVersion,         \* bound: how often the file's buffers are written
    Calls               \* the system calls the programs make

Slot == 1..MAX_TASKS
Fd == 0..TASK_MAX_FDS - 1
Nobody == 0             \* as the owner of a lock
Ghost == MAX_TASKS + 1  \* an owner that has ended

VARIABLES
    state,              \* per slot: "unused", "live", "dead"
    fds,                \* per slot: its table; kept after the task has ended
    op,                 \* per slot: the call it is in
    pend,               \* per slot: the table its fork has cloned
    unlinked,           \* slots taken off the run list for reuse
    cli,                \* who runs with interrupts off
    fs_owner,           \* s_fs_owner
    heap,               \* per block: what it is and what is in it
    disk,               \* the file
    version,            \* the last version written into a buffer
    flaws               \* history: what went wrong (see Fatal)

files == <<disk, version>>
tasks == <<state, pend, unlinked, cli>>
vars == <<state, fds, op, pend, unlinked, cli, fs_owner, heap, disk, version, flaws>>

\* A block: a buffer with a version of the file and who wrote it (history), or a ring
\* with its counts and whether anything is in it.
Block == [as : {"free", "file", "ring"}, v : 0..MaxVersion, by : 0..MAX_TASKS,
          r : Nat, w : Nat, queued : BOOLEAN]
Unowned == [as |-> "free", v |-> 0, by |-> 0, r |-> 0, w |-> 0, queued |-> FALSE]
Buffer(v, s) == [Unowned EXCEPT !.as = "file", !.v = v, !.by = s]

Entry == [kind : {"none", "tty", "file", "pipe"}, data : Blk \cup {NoBlk},
          writer : BOOLEAN, dirty : BOOLEAN]
Closed == [kind |-> "none", data |-> NoBlk, writer |-> FALSE, dirty |-> FALSE]
Tty == [Closed EXCEPT !.kind = "tty"]
NoTable == [f \in Fd |-> Closed]
fd_table_create_default == [NoTable EXCEPT ![0] = Tty]

User == [at |-> "user", fd |-> 0, old |-> 0, slot |-> 0]
IsFile(e) == e.kind = "file" /\ e.data # NoBlk
IsPipe(e) == e.kind = "pipe"

\* The calls that yield or can be preempted at a point that matters.
Points == {"user", "release", "flush", "locked", "read", "write", "reap"}
\* After one of these the code promises nothing more, and nothing more is explored.
Fatal == {"alias", "race", "halfclosed", "hung"}

Init ==
    /\ state = [s \in Slot |-> IF s = 1 THEN "live" ELSE "unused"]
    /\ fds = [s \in Slot |-> IF s = 1 THEN fd_table_create_default ELSE NoTable]
    /\ op = [s \in Slot |-> User]
    /\ pend = [s \in Slot |-> NoTable]
    /\ unlinked = {} /\ cli = Nobody /\ fs_owner = Nobody
    /\ heap = [b \in Blk |-> Unowned]
    /\ disk = 0 /\ version = 0
    /\ flaws = {}

-----------------------------------------------------------------------------
(* Helpers *)

Idle(s) == state[s] = "live" /\ op[s].at = "user" /\ cli = Nobody
Goto(s, at, f, old, t) == op' = [op EXCEPT ![s] = [at |-> at, fd |-> f, old |-> old, slot |-> t]]
Return(s) == op' = [op EXCEPT ![s] = User]

Free(tbl) == {f \in Fd : tbl[f].kind = "none"}
Lowest(S) == CHOOSE x \in S : \A y \in S : x <= y
fd_alloc(tbl) == Lowest(Free(tbl))

FreeBlk == {b \in Blk : heap[b].as = "free"}
kfree(h, b) == IF b = NoBlk THEN h ELSE [h EXCEPT ![b] = Unowned]

\* One more, or one less, descriptor of the end e is on; a count stops at zero.
Up(h, e) == IF ~IsPipe(e) THEN h
            ELSE IF e.writer THEN [h EXCEPT ![e.data].w = @ + 1]
            ELSE [h EXCEPT ![e.data].r = @ + 1]
Less(n) == IF n = 0 THEN 0 ELSE n - 1
Down(h, e) == IF e.writer THEN [h EXCEPT ![e.data].w = Less(@)]
              ELSE [h EXCEPT ![e.data].r = Less(@)]
Unnamed(h, b) == h[b].r = 0 /\ h[b].w = 0

\* The slot becomes e, a copy of another in dup and dup2: then a file's buffer is in
\* two slots.
Becomes(s, f, e, h) ==
    /\ fds' = [fds EXCEPT ![s][f] = e]
    /\ heap' = Up(h, e)
    /\ flaws' = IF IsFile(e) THEN flaws \cup {"alias"} ELSE flaws

-----------------------------------------------------------------------------
(* System calls *)

\* A writable open that creates or truncates starts empty and dirty; one of an
\* existing file loads it; a read-only open of a disk file has no buffer.
SYS_OPEN(s, mode) ==
    /\ Idle(s) /\ Free(fds[s]) # {}
    /\ \E b \in IF mode = "lazy" THEN {NoBlk} ELSE FreeBlk :
        /\ fds' = [fds EXCEPT ![s][fd_alloc(fds[s])] =
                [kind |-> "file", data |-> b,
                 writer |-> mode \in {"trunc", "load"}, dirty |-> mode = "trunc"]]
        /\ heap' = IF mode = "lazy" THEN heap
                   ELSE [heap EXCEPT ![b] = Buffer(IF mode = "trunc" THEN 0 ELSE disk, s)]
    /\ UNCHANGED <<op, tasks, fs_owner, files, flaws>>

\* Into the buffer, which may have to move to grow.
WriteFile(s, f) ==
    /\ Idle(s) /\ fds[s][f].kind = "file" /\ fds[s][f].writer
    /\ version < MaxVersion
    /\ version' = version + 1
    /\ \E b \in {fds[s][f].data} \cup FreeBlk :
        /\ heap' = [kfree(heap, fds[s][f].data) EXCEPT ![b] = Buffer(version', s)]
        /\ fds' = [fds EXCEPT ![s][f].data = b, ![s][f].dirty = TRUE]
    /\ UNCHANGED <<op, tasks, fs_owner, disk, flaws>>

SYS_PIPE(s) ==
    /\ Idle(s) /\ Cardinality(Free(fds[s])) >= 2
    /\ \E b \in FreeBlk :
        /\ heap' = [heap EXCEPT ![b] = [Unowned EXCEPT !.as = "ring", !.r = 1, !.w = 1]]
        /\ LET rfd == fd_alloc(fds[s])
               wfd == Lowest(Free(fds[s]) \ {rfd})
               end == [kind |-> "pipe", data |-> b, writer |-> FALSE, dirty |-> FALSE]
           IN fds' = [fds EXCEPT ![s][rfd] = end, ![s][wfd] = [end EXCEPT !.writer = TRUE]]
    /\ UNCHANGED <<op, tasks, fs_owner, files, flaws>>

SYS_DUP(s, old) ==
    /\ Idle(s) /\ fds[s][old].kind # "none" /\ Free(fds[s]) # {}
    /\ Becomes(s, fd_alloc(fds[s]), fds[s][old], heap)
    /\ UNCHANGED <<op, tasks, fs_owner, files>>

\* fd_close up to its first yield; then is what the slot becomes (dup2), and a
\* ring's count goes down before the test whether it was the last (fd.c:59-63).
Then(s, f, old) == IF old = f THEN Closed ELSE fds[s][old]
\* Faulty variant: a changed buffer is freed as it is.
fd_close_unflushed(s, f, old) ==
    LET e == fds[s][f] IN
    IF IsPipe(e)
    THEN /\ heap' = Down(heap, e)
         /\ Goto(s, "release", f, old, 0)
         /\ UNCHANGED <<fds, flaws>>
    ELSE /\ Becomes(s, f, Then(s, f, old), kfree(heap, e.data))
         /\ UNCHANGED op
fd_close(s, f, old) ==
    LET e == fds[s][f] IN
    IF IsPipe(e)
    THEN /\ heap' = Down(heap, e)
         /\ Goto(s, "release", f, old, 0)
         /\ UNCHANGED <<fds, flaws>>
    ELSE IF e.dirty
    THEN /\ Goto(s, "flush", f, old, s)
         /\ UNCHANGED <<fds, heap, flaws>>
    ELSE /\ Becomes(s, f, Then(s, f, old), kfree(heap, e.data))
         /\ UNCHANGED op

SYS_CLOSE(s, f) ==
    /\ Idle(s) /\ fds[s][f].kind # "none"
    /\ fd_close(s, f, f)
    /\ UNCHANGED <<tasks, fs_owner, files>>

SYS_DUP2(s, old, f) ==
    /\ Idle(s) /\ fds[s][old].kind # "none" /\ f # old
    /\ fd_close(s, f, old)
    /\ UNCHANGED <<tasks, fs_owner, files>>

\* The second half of pipe_release: free the ring if nobody is left.  Somebody else
\* between the two halves of a release of the same ring now looks at freed memory.
Releasing(b) == {s \in Slot : op[s].at = "release" /\ fds[s][op[s].fd].data = b}
pipe_release(s) ==
    /\ state[s] = "live" /\ op[s].at = "release" /\ cli = Nobody
    /\ LET f == op[s].fd
           b == fds[s][f].data
           then == Then(s, f, op[s].old)
           last == Unnamed(heap, b)
       IN /\ fds' = [fds EXCEPT ![s][f] = then]
          /\ heap' = Up(IF last THEN kfree(heap, b) ELSE heap, then)
          /\ flaws' = flaws \cup (IF IsFile(then) THEN {"alias"} ELSE {})
                            \cup (IF last /\ Releasing(b) # {s} THEN {"race"} ELSE {})
    /\ Return(s)
    /\ UNCHANGED <<tasks, fs_owner, files>>

\* A yield to wait for the lock lets others run; back from it the mask is as it was.
Mask(s) == IF op[s].slot = s THEN Nobody ELSE s

\* fd_flush_one: the buffer of a slot goes to the file system, under its lock.
vfs_fs_lock(s) ==
    /\ state[s] = "live" /\ op[s].at = "flush" /\ cli = Nobody
    /\ fs_owner = Nobody
    /\ fs_owner' = s
    /\ cli' = Mask(s)
    /\ op' = [op EXCEPT ![s].at = "locked"]
    /\ UNCHANGED <<state, pend, unlinked, fds, heap, files, flaws>>

\* The write ends, well or not; either way the buffer is freed.
fd_flush_one(s, ok) ==
    /\ state[s] = "live" /\ op[s].at = "locked" /\ cli = Mask(s)
    /\ fs_owner' = Nobody
    /\ LET f == op[s].fd
           t == op[s].slot
           b == fds[t][f].data
       IN /\ disk' = IF ok THEN heap[b].v ELSE disk
          /\ IF t = s
             THEN /\ Becomes(s, f, Then(s, f, op[s].old), kfree(heap, b))
                  /\ Return(s)
             ELSE /\ Becomes(t, f, Closed, kfree(heap, b))
                  /\ Goto(s, "reap", f + 1, 0, t)
    /\ UNCHANGED <<tasks, version>>

\* A read waits for bytes or for the last writer to go, a write for room or for the
\* last reader to go.
SYS_READ(s, f) ==
    /\ Idle(s) /\ IsPipe(fds[s][f]) /\ ~fds[s][f].writer
    /\ Goto(s, "read", f, 0, 0)
    /\ UNCHANGED <<fds, heap, tasks, fs_owner, files, flaws>>
ReadReturns(s) ==
    /\ state[s] = "live" /\ op[s].at = "read" /\ cli = Nobody
    /\ LET b == fds[s][op[s].fd].data
       IN /\ heap[b].queued \/ heap[b].w = 0
          /\ heap' = [heap EXCEPT ![b].queued = FALSE]
    /\ Return(s)
    /\ UNCHANGED <<fds, tasks, fs_owner, files, flaws>>
WritePipe(s, f) ==
    /\ Idle(s) /\ IsPipe(fds[s][f]) /\ fds[s][f].writer
    /\ Goto(s, "write", f, 0, 0)
    /\ UNCHANGED <<fds, heap, tasks, fs_owner, files, flaws>>
WriteReturns(s) ==
    /\ state[s] = "live" /\ op[s].at = "write" /\ cli = Nobody
    /\ LET b == fds[s][op[s].fd].data
       IN /\ ~heap[b].queued \/ heap[b].r = 0
          /\ heap' = [heap EXCEPT ![b].queued = heap[b].r # 0 \/ @]
    /\ Return(s)
    /\ UNCHANGED <<fds, tasks, fs_owner, files, flaws>>

-----------------------------------------------------------------------------
(* Tasks *)

FileFds(tbl) == {f \in Fd : IsFile(tbl[f])}

\* A file gets a buffer of its own, and stays the parent's to write back.
Cloned(e, b) == [e EXCEPT !.data = b, !.dirty = FALSE]
Ends(tbl, b, w) == {f \in Fd : IsPipe(tbl[f]) /\ tbl[f].data = b /\ tbl[f].writer = w}

\* The counts after the slots below n have been copied.
Shared(h, tbl, n) ==
    [b \in Blk |-> [h[b] EXCEPT !.r = @ + Cardinality(Ends(tbl, b, FALSE) \cap 0..n - 1),
                                !.w = @ + Cardinality(Ends(tbl, b, TRUE) \cap 0..n - 1)]]

\* fd_table_clone runs out of memory at slot n: the buffers are given back, the
\* counts are not.  (Bound: once.)
CloneFails(s) ==
    /\ Idle(s) /\ "leak" \notin flaws
    /\ \E n \in FileFds(fds[s]) :
        /\ heap' = Shared(heap, fds[s], n)
        /\ flaws' = IF heap' = heap THEN flaws ELSE flaws \cup {"leak"}
    /\ UNCHANGED <<op, tasks, fs_owner, fds, files>>

Dead == {t \in Slot : state[t] = "dead"}
Unused == {t \in Slot : state[t] = "unused"}

\* From here nobody else runs, but for a yield.
irq_save_disable(s) == s

\* task_fork: clone the table, then claim a slot; the first dead one before a new one.
\* A dead slot that is already off the run list is searched for without end.
SYS_FORK(s) ==
    /\ Idle(s) /\ Dead \cup Unused # {}
    /\ \E pick \in [FileFds(fds[s]) -> FreeBlk] :
        /\ \A f, g \in FileFds(fds[s]) : f # g => pick[f] # pick[g]
        /\ LET child == [f \in Fd |-> IF IsFile(fds[s][f]) THEN Cloned(fds[s][f], pick[f])
                                      ELSE fds[s][f]]
               from(b) == {fds[s][f].data : f \in {g \in FileFds(fds[s]) : pick[g] = b}}
               bought == [b \in Blk |-> IF from(b) = {} THEN heap[b]
                                        ELSE heap[CHOOSE c \in from(b) : TRUE]]
               t == IF Dead # {} THEN Lowest(Dead) ELSE Lowest(Unused)
           IN /\ heap' = Shared(bought, child, TASK_MAX_FDS)
              /\ IF t \in unlinked
                 THEN /\ flaws' = flaws \cup {"hung"}
                      /\ UNCHANGED <<op, tasks, fds>>
                 ELSE IF t \in Dead
                 THEN /\ unlinked' = unlinked \cup {t}
                      /\ pend' = [pend EXCEPT ![s] = child]
                      /\ cli' = irq_save_disable(s)
                      /\ Goto(s, "reap", 0, 0, t)
                      /\ UNCHANGED <<state, fds, flaws>>
                 ELSE /\ state' = [state EXCEPT ![t] = "live"]
                      /\ fds' = [fds EXCEPT ![t] = child]
                      /\ UNCHANGED <<op, pend, unlinked, cli, flaws>>
    /\ UNCHANGED <<fs_owner, files>>

\* fd_table_destroy on the slot's last table, one descriptor at a time, with
\* interrupts off except while it waits to write a changed file back.
fd_table_destroy(s) ==
    /\ op[s].at = "reap" /\ cli = s /\ op[s].fd < TASK_MAX_FDS
    /\ LET f == op[s].fd
           t == op[s].slot
           e == fds[t][f]
           h == IF IsPipe(e) THEN Down(heap, e) ELSE heap
           last == IsPipe(e) /\ Unnamed(h, e.data)
       IN IF e.dirty /\ IsFile(e)
          THEN /\ IF fs_owner = Nobody
                  THEN op' = [op EXCEPT ![s].at = "locked"] /\ fs_owner' = s /\ UNCHANGED cli
                  ELSE op' = [op EXCEPT ![s].at = "flush"] /\ cli' = Nobody /\ UNCHANGED fs_owner
               /\ UNCHANGED <<fds, heap, flaws>>
          ELSE /\ op' = [op EXCEPT ![s].fd = f + 1]
               /\ fds' = [fds EXCEPT ![t][f] = Closed]
               /\ heap' = IF last \/ IsFile(e) THEN kfree(h, e.data) ELSE h
               /\ flaws' = IF last /\ Releasing(e.data) # {} THEN flaws \cup {"race"} ELSE flaws
               /\ UNCHANGED <<cli, fs_owner>>
    /\ UNCHANGED <<state, pend, unlinked, files>>

\* The slot becomes the child's.
SlotReused(s) ==
    /\ op[s].at = "reap" /\ cli = s /\ op[s].fd = TASK_MAX_FDS
    /\ LET t == op[s].slot
       IN /\ fds' = [fds EXCEPT ![t] = pend[s]]
          /\ state' = [state EXCEPT ![t] = "live"]
          /\ unlinked' = unlinked \ {t}
    /\ pend' = [pend EXCEPT ![s] = NoTable]
    /\ cli' = Nobody
    /\ Return(s)
    /\ UNCHANGED <<fs_owner, heap, files, flaws>>

\* SYS_EXIT, or a signal's default action when the task is next scheduled, wherever
\* in a call it then is.  The table stays as it is until the slot is reused.
task_terminate(s) ==
    /\ state[s] = "live" /\ cli = Nobody
    /\ state' = [state EXCEPT ![s] = "dead"]
    /\ Return(s)
    /\ pend' = [pend EXCEPT ![s] = NoTable]
    /\ fs_owner' = IF fs_owner = s THEN Ghost ELSE fs_owner
    /\ flaws' = flaws \cup (IF op[s].at = "release" THEN {"halfclosed"} ELSE {})
                      \cup (IF op[s].at = "flush" /\ op[s].slot # s THEN {"leak"} ELSE {})
    /\ UNCHANGED <<fds, heap, unlinked, cli, files>>

Call(s) ==
    \/ "open" \in Calls /\ \E mode \in {"lazy", "read", "load", "trunc"} : SYS_OPEN(s, mode)
    \/ "pipe" \in Calls /\ SYS_PIPE(s)
    \/ "fork" \in Calls /\ (SYS_FORK(s) \/ CloneFails(s))
    \/ "exit" \in Calls /\ task_terminate(s)
    \/ \E f \in Fd :
        \/ "write" \in Calls /\ (WriteFile(s, f) \/ WritePipe(s, f))
        \/ "read" \in Calls /\ SYS_READ(s, f)
        \/ "close" \in Calls /\ SYS_CLOSE(s, f)
        \/ "dup" \in Calls /\ SYS_DUP(s, f)
        \/ "dup2" \in Calls /\ \E g \in Fd : SYS_DUP2(s, f, g)

Step(s) ==
    \/ pipe_release(s) \/ vfs_fs_lock(s) \/ \E ok \in BOOLEAN : fd_flush_one(s, ok)
    \/ ReadReturns(s) \/ WriteReturns(s)
    \/ fd_table_destroy(s) \/ SlotReused(s)

Sound == flaws \cap Fatal = {}
Next == Sound /\ \E s \in Slot : Call(s) \/ Step(s)

Spec == Init /\ [][Next]_vars
\* A task inside a call gets the processor again and again (Sched: NoStarvation), and
\* then nobody else has interrupts off: a reader that polls a ring without writers
\* comes to see it, whatever others do in between.
AtEnd(s) == Sound /\ ReadReturns(s) /\ heap[fds[s][op[s].fd].data].w = 0
Fairness == \A s \in Slot : WF_vars(Sound /\ Step(s)) /\ SF_vars(AtEnd(s))

-----------------------------------------------------------------------------
(* Properties *)

\* Everything has its type, and a closed descriptor is all zero: no pointer survives
\* a change of kind (the stale value that the comment in fd_close suspects).
TypeOK ==
    /\ state \in [Slot -> {"unused", "live", "dead"}]
    /\ \A tbl \in {fds[s] : s \in Slot} \cup {pend[s] : s \in Slot} :
          tbl \in [Fd -> Entry] /\ \A f \in Fd : tbl[f].kind = "none" => tbl[f] = Closed
    /\ \A s \in Slot : op[s].at \in Points
    /\ unlinked \subseteq Slot /\ cli \in Slot \cup {Nobody}
    /\ fs_owner \in Slot \cup {Nobody, Ghost}
    /\ heap \in [Blk -> Block] /\ {disk, version} \subseteq 0..MaxVersion
    /\ flaws \subseteq Fatal \cup {"leak"}

Place == Slot \X Fd \X BOOLEAN
In(p) == IF p[3] THEN pend[p[1]][p[2]] ELSE fds[p[1]][p[2]]
Naming(b) == {p \in Place : In(p).data = b}

\* A buffer belongs to one descriptor and is on the heap as long as that names it; a
\* ring is on the heap as long as any descriptor of any table names it; and nothing
\* else is: through open, growth, fork, exit and the reuse of a slot no block is
\* freed under somebody or forgotten (fd.c; not after a dup of a file, see SoleBuffer).
BlocksOwned ==
    Sound => \A b \in Blk :
        /\ heap[b].as = "file" => Cardinality(Naming(b)) <= 1
        /\ \A p \in Naming(b) : heap[b].as = IF IsPipe(In(p)) THEN "ring" ELSE "file"
        /\ ("leak" \notin flaws /\ heap[b].as # "free") => Naming(b) # {}

\* The counts of a ring are the descriptors of each end, in every table there is, but
\* for one whose close is between its two halves; after a clone that failed they are
\* at least that, so the ring is still not freed early (pipe_release, fd_table_clone).
RefcountsExact ==
    Sound => \A b \in Blk : heap[b].as = "ring" => \A w \in BOOLEAN :
        LET count == IF w THEN heap[b].w ELSE heap[b].r
            named == Cardinality({p \in Naming(b) : In(p).writer = w})
                     - Cardinality({s \in Releasing(b) : fds[s][op[s].fd].writer = w})
        IN IF "leak" \in flaws THEN count >= named ELSE count = named

\* What reaches the file was written by the task whose table it came from: a child
\* does not write back what its parent changed (fd_table_clone clears dirty).
WritesOwn == \A s \in Slot :
    op[s].at = "locked" /\ op'[s].at # "locked" /\ disk' # disk =>
        heap[fds[op[s].slot][op[s].fd].data].by = op[s].slot

\* A changed buffer is given up only by writing it back, well or not, or by moving it.
FlushesFirst == \A s \in Slot, f \in Fd :
    IsFile(fds[s][f]) /\ fds[s][f].dirty /\ ~fds'[s][f].dirty =>
        \E t \in Slot : op[t].at = "locked" /\ op[t].slot = s /\ op[t].fd = f

\* Two tasks set out to reuse the same slot only while the first waits for the file
\* system, or was ended there (task_fork masks interrupts, but fd_table_destroy yields).
HungOnFlush == "hung" \in flaws =>
    \/ \E s \in Slot : op[s].at = "flush" /\ op[s].slot # s
    \/ \E t \in unlinked : \A s \in Slot : op[s].at = "user" \/ op[s].slot # t

\* A reader returns once no table names the write end.
EofReturns ==
    \A s \in Slot, b \in Blk :
        (op[s].at = "read" /\ fds[s][op[s].fd].data = b /\ Sound /\ "leak" \notin flaws
            /\ \A p \in Naming(b) : ~In(p).writer)
        ~> (op[s].at # "read" \/ ~Sound \/ "leak" \in flaws)

=============================================================================
