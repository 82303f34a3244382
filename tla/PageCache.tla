------------------------------ MODULE PageCache ------------------------------
(***************************************************************************)
(* The page cache of pagecache.c with the file-system lock of vfs.c:       *)
(* programs that read, map and write files while tasks are ended.  A file  *)
(* has one page; its content is the number of times it was written.        *)
(*                                                                         *)
(* pc_get runs with interrupts masked, so it is one action, except that    *)
(* vfs_fs_lock yields while another task holds the lock: the mask does not *)
(* last across that and other tasks enter the cache.  The code's comments  *)
(* take the masked section for a lock.  What is promised is promised until *)
(* somebody uses the cache while a fill waits ("raced"), a task is ended   *)
(* inside a call ("cut") or memory runs out ("oom").  Writers invalidate   *)
(* before they write: `stale' holds the files that were cached in between. *)
(***************************************************************************)
EXTENDS Frames, Sequences

CONSTANTS
    Task, File,
    PC_NPAGES,      \* slots of the cache
    MaxVersion,     \* bound: writes to a file
    Nobody,         \* the lock is free
    Departed        \* its holder was ended

Slot == 1..PC_NPAGES
Data == [file : File, version : 0..MaxVersion]
NoData == [file |-> Nobody, version |-> 0]
NoOp == [at |-> "idle"]
Using == {"read", "map"}
Op == {NoOp}
      \cup [at : {"get"}, use : Using, file : File]
      \cup [at : {"fill"}, use : Using, file : File, slot : Slot, frame : Frame]
      \cup [at : {"lock", "write"}, file : File]
EmptySlot == [valid |-> FALSE, file |-> Nobody, frame |-> NoFrame]
NoMap == [frame |-> NoFrame, data |-> NoData]

VARIABLES
    refcount,       \* mem_map[].refcount
    content,        \* what a frame holds
    version,        \* what the disk holds of a file
    s_pages,        \* the slots
    lru,            \* the list from s_mru to s_lru
    s_fs_owner,
    op,             \* where a task is inside a system call
    mapped,         \* a page the program has mapped, with what it first saw there
    stale,          \* history: files cached while they were written
    ended           \* history: why nothing is promised any more, if so

cacheVars == <<refcount, content, s_pages, lru>>
vars == <<cacheVars, version, s_fs_owner, op, mapped, stale, ended>>

Init ==
    /\ refcount = [f \in Frame |-> 0] /\ content = [f \in Frame |-> NoData]
    /\ version = [p \in File |-> 0]
    /\ s_pages = [k \in Slot |-> EmptySlot] /\ lru = [k \in Slot |-> k]
    /\ s_fs_owner = Nobody
    /\ op = [t \in Task |-> NoOp] /\ mapped = [t \in Task |-> NoMap]
    /\ stale = {} /\ ended = "no"

Goes(t, where) == op' = [op EXCEPT ![t] = where]
Idle(t) == op[t] = NoOp

\* A fill of another task waits for the lock.
FillWaits(t) == \E u \in Task \ {t} : op[u].at = "fill"
Enters(t) == ended' = IF FillWaits(t) THEN "raced" ELSE ended

-----------------------------------------------------------------------------
(* System calls of programs *)

\* SYS_READ of a file on disk, or SYS_MMAP2 of a read-only page of it.
SYS_READ(t, p, use) ==
    /\ Idle(t) /\ (use = "map" => mapped[t] = NoMap)
    /\ Goes(t, [at |-> "get", use |-> use, file |-> p])
    /\ UNCHANGED <<cacheVars, version, s_fs_owner, mapped, stale, ended>>

\* backend_write_file and backend_delete_file run under the lock, with interrupts on.
vfs_fs_lock(t) ==
    /\ op[t].at = "lock" /\ s_fs_owner = Nobody
    /\ s_fs_owner' = t
    /\ Goes(t, [at |-> "write", file |-> op[t].file])
    /\ UNCHANGED <<cacheVars, version, mapped, stale, ended>>

\* The backend may fail.
vfs_fs_unlock(t, ok) ==
    /\ op[t].at = "write" /\ (ok => version[op[t].file] < MaxVersion)
    /\ version' = IF ok THEN [version EXCEPT ![op[t].file] = @ + 1] ELSE version
    /\ s_fs_owner' = Nobody
    /\ Goes(t, NoOp)
    /\ UNCHANGED <<cacheVars, mapped, stale, ended>>

\* vmm_unmap_and_free, by SYS_MUNMAP or at the end of the address space.
SYS_MUNMAP(t) ==
    /\ Idle(t) /\ mapped[t] # NoMap
    /\ refcount' = Dropped(refcount, mapped[t].frame)
    /\ mapped' = [mapped EXCEPT ![t] = NoMap]
    /\ UNCHANGED <<content, s_pages, lru, version, s_fs_owner, op, stale, ended>>

-----------------------------------------------------------------------------
(* The cache *)

Unlinked(k) == SelectSeq(lru, LAMBDA j : j # k)
Touched(k) == <<k>> \o Unlinked(k)
Holds(k, p) == s_pages[k].valid /\ s_pages[k].file = p

\* What pagecache_read and pagecache_acquire do with the frame under the mask: copy
\* from it, or take a reference for the mapping.
Served(t, frame, rc, data) ==
    /\ content' = data
    /\ IF op[t].use = "map"
       THEN /\ refcount' = Counted(rc, frame)
            /\ mapped' = [mapped EXCEPT ![t] = [frame |-> frame, data |-> data[frame]]]
       ELSE refcount' = rc /\ UNCHANGED mapped
    /\ Goes(t, NoOp)

pc_get_hit(t, k) ==
    /\ op[t].at = "get" /\ Holds(k, op[t].file)
    /\ lru' = Touched(k)
    /\ Served(t, s_pages[k].frame, refcount, content)
    /\ Enters(t)
    /\ UNCHANGED <<s_pages, version, s_fs_owner, stale>>

Writing(p) == \E t \in Task : op[t].at \in {"lock", "write"} /\ op[t].file = p

\* vfs_read_at has the lock: the frame is filled and the slot is the task's.
Filled(t, k, frame, rc) ==
    LET p == op[t].file IN
    /\ s_pages' = [s_pages EXCEPT ![k] = [valid |-> TRUE, file |-> p, frame |-> frame]]
    /\ lru' = Touched(k)
    /\ Served(t, frame, rc, [content EXCEPT ![frame] = [file |-> p, version |-> version[p]]])
    /\ stale' = IF Writing(p) THEN stale \cup {p} ELSE stale

\* vfs_read_at fails: the slot keeps the frame and is not valid.
FillFails(t, k, frame, rc) ==
    /\ s_pages' = [s_pages EXCEPT ![k] = [EmptySlot EXCEPT !.frame = frame]]
    /\ refcount' = rc
    /\ content' = [content EXCEPT ![frame] = NoData]
    /\ Goes(t, NoOp)
    /\ UNCHANGED <<lru, mapped, stale>>

\* Faulty variant: the frame is reused whoever maps it.
ReusedAlways(rc, frame) == frame # NoFrame
Reusable(rc, frame) == frame # NoFrame /\ rc[frame] = 1

\* A miss recycles the last slot: its frame if only the cache holds it, else the
\* cache lets go of it and takes a new one.
pc_get_miss(t, f) ==
    LET k == lru[PC_NPAGES]
        old == s_pages[k].frame
        rc == IF Reusable(refcount, old) THEN refcount ELSE Dropped(refcount, old)
    IN  /\ op[t].at = "get" /\ \A j \in Slot : ~Holds(j, op[t].file)
        /\ IF Reusable(refcount, old) THEN f = old ELSE f \in Free(rc)
        /\ IF s_fs_owner = Nobody
           THEN Filled(t, k, f, Taken(rc, f)) \/ FillFails(t, k, f, Taken(rc, f))
           ELSE /\ Goes(t, [at |-> "fill", use |-> op[t].use, file |-> op[t].file,
                            slot |-> k, frame |-> f])
                /\ refcount' = Taken(rc, f)
                /\ UNCHANGED <<content, s_pages, lru, mapped, stale>>
        /\ Enters(t)
        /\ UNCHANGED <<version, s_fs_owner>>

\* No frame: PMM_ALLOC_ERROR is not 0, so pc_get reads the file to that address.
pc_get_oom(t) ==
    LET old == s_pages[lru[PC_NPAGES]].frame
        rc == Dropped(refcount, old)
    IN  /\ op[t].at = "get" /\ \A j \in Slot : ~Holds(j, op[t].file)
        /\ ~Reusable(refcount, old) /\ Free(rc) = {}
        /\ refcount' = rc
        /\ ended' = "oom"
        /\ UNCHANGED <<content, s_pages, lru, version, s_fs_owner, op, mapped, stale>>

\* The lock is free at last.
pc_get_fill(t) ==
    /\ op[t].at = "fill" /\ s_fs_owner = Nobody
    /\ \/ Filled(t, op[t].slot, op[t].frame, refcount)
       \/ FillFails(t, op[t].slot, op[t].frame, refcount)
    /\ Enters(t)
    /\ UNCHANGED <<version, s_fs_owner>>

Invalidated(k) == [s_pages[k] EXCEPT !.valid = FALSE, !.frame = NoFrame]

\* vfs_write_file and vfs_delete_file: before the write and outside of the lock.  An
\* invalidated slot is the next to be recycled.
pagecache_invalidate(t, p) ==
    LET hits == {k \in Slot : Holds(k, p)}
        named == [f \in Frame |-> Cardinality({k \in hits : s_pages[k].frame = f})]
    IN  /\ Idle(t)
        /\ s_pages' = [k \in Slot |-> IF k \in hits THEN Invalidated(k) ELSE s_pages[k]]
        /\ lru' = SelectSeq(lru, LAMBDA k : k \notin hits) \o SelectSeq(lru, LAMBDA k : k \in hits)
        /\ refcount' = DroppedAll(refcount, named)
        /\ stale' = stale \ {p}
        /\ Goes(t, [at |-> "lock", file |-> p])
        /\ Enters(t)
        /\ UNCHANGED <<content, version, s_fs_owner, mapped>>

\* task_terminate: a mapping goes with the address space; what a call holds is lost,
\* the lock included.
task_terminate(t) ==
    /\ refcount' = Dropped(refcount, mapped[t].frame)
    /\ mapped' = [mapped EXCEPT ![t] = NoMap]
    /\ s_fs_owner' = IF s_fs_owner = t THEN Departed ELSE s_fs_owner
    /\ ended' = IF op[t].at \in {"fill", "write"} THEN "cut" ELSE ended
    /\ Goes(t, NoOp)
    /\ UNCHANGED <<content, s_pages, lru, version, stale>>

-----------------------------------------------------------------------------
\* Bound: nothing is explored once nothing is promised.
Promised == ended = "no"

Step(t) ==
    \/ \E p \in File : pagecache_invalidate(t, p) \/ \E use \in Using : SYS_READ(t, p, use)
    \/ \E ok \in BOOLEAN : vfs_fs_unlock(t, ok)
    \/ SYS_MUNMAP(t)
    \/ \E k \in Slot : pc_get_hit(t, k)
    \/ \E f \in Frame : pc_get_miss(t, f)
    \/ pc_get_oom(t) \/ pc_get_fill(t) \/ vfs_fs_lock(t)
    \/ task_terminate(t)

Next == Promised /\ \E t \in Task : Step(t)

Spec == Init /\ [][Next]_vars

-----------------------------------------------------------------------------
(* Properties *)

TypeOK ==
    /\ refcount \in [Frame -> 0..RefMax] /\ content \in [Frame -> Data \cup {NoData}]
    /\ version \in [File -> 0..MaxVersion]
    /\ s_pages \in [Slot -> [valid : BOOLEAN, file : File \cup {Nobody}, frame : Frame \cup {NoFrame}]]
    /\ lru \in [Slot -> Slot] /\ \A k \in Slot : \E i \in Slot : lru[i] = k
    /\ s_fs_owner \in Task \cup {Nobody, Departed}
    /\ op \in [Task -> Op]
    /\ mapped \in [Task -> [frame : Frame \cup {NoFrame}, data : Data \cup {NoData}]]
    /\ stale \subseteq File
    /\ ended \in {"no", "raced", "cut", "oom"}

Current(k) == content[s_pages[k].frame].version = version[s_pages[k].file]

\* A valid slot holds what the disk holds of its file, unless the file was read into
\* the cache while a write to it was under way: that page stays until the next write.
CacheCoherent ==
    Promised => \A k \in Slot : s_pages[k].valid =>
        /\ content[s_pages[k].frame].file = s_pages[k].file
        /\ Current(k) \/ s_pages[k].file \in stale

\* A mapped page keeps what it showed when it was mapped, however often its slot is
\* recycled or its file is rewritten: pc_get never refills a frame that somebody maps.
MappedStable ==
    Promised => \A t \in Task : mapped[t] # NoMap =>
        refcount[mapped[t].frame] > 0 /\ content[mapped[t].frame] = mapped[t].data

\* The count of a frame is the number of slots, mappings and fills in progress that
\* hold it.  While a fill waits with a new frame, its slot still names the frame the
\* cache has let go of.
CacheRefs ==
    Promised => \A f \in Frame :
        refcount[f] = Cardinality({k \in Slot : s_pages[k].frame = f
                          /\ \A t \in Task : op[t].at = "fill" => op[t].slot # k})
                    + Cardinality({t \in Task : mapped[t].frame = f})
                    + Cardinality({t \in Task : op[t].at = "fill" /\ op[t].frame = f})
=============================================================================
