-------------------------------- MODULE Ext2 --------------------------------
(***************************************************************************)
(* The ext2 driver (fs/ext2.c), one block group.  An operation is a        *)
(* sequence of block writes, one step each, and the power can fail or a    *)
(* write be refused between any two; many of the refusals go unnoticed.    *)
(* Bitmaps, inodes and blocks are written at once; the free counts of the  *)
(* superblock and of the group descriptor only at the end.                 *)
(*                                                                         *)
(* A file is a number of blocks, each holding the write it came from and   *)
(* its place.  A directory block is a sequence of records that tile it.    *)
(* A name is [id, need]: need is the space that its record takes.          *)
(***************************************************************************)
EXTENDS Integers, Sequences, FiniteSets, SequencesExt

CONSTANTS
    NBlocks, NInodes,
    Direct,             \* direct pointers of an inode (12)
    PPB,                \* pointers in an indirect block
    Room,               \* space in a directory block, "." and ".." taking 1 each
    MaxRun,             \* blocks in one transfer (255 sectors)
    Paths,              \* the paths that are used: one or two names
    Sizes,              \* of files, in blocks (bound: no doubly-indirect block)
    Calls,              \* the operations that are called
    MaxCalls,           \* bound: calls made
    MaxFaults           \* bound: writes or reads refused, and power failures

VARIABLES
    disk,               \* [bbm, ibm, inode, blk, sb, gd]
    mem,                \* s_sb and s_gd, and whether they are dirty
    op,                 \* the operation in progress
    told,               \* history: what the callers were told each path holds
    calls, faults,      \* history: calls made, faults met
    failed,             \* history: some operation reported an error
    damage              \* history: what has been spoilt

vars == <<disk, mem, op, told, calls, faults, failed, damage>>

Blocks == 1..NBlocks
Inodes == 1..NInodes
EXT2_ROOT_INO == 1

Unused == [mode |-> "none", size |-> 0, links |-> 0, ptr |-> [i \in 1..(Direct + 1) |-> 0]]
Zero == [k |-> "zero"]
Data(v, i) == [k |-> "data", v |-> v, i |-> i]
Ptrs(f) == [k |-> "ptrs", p |-> f]
Records(s) == [k |-> "dir", recs |-> s]
Record(ino, n, len) == [ino |-> ino, name |-> n, len |-> len]
Dot == [id |-> ".", need |-> 1]
DotDot == [id |-> "..", need |-> 1]

-----------------------------------------------------------------------------
(* Reading *)

Pointer(d, b, i) == IF d.blk[b].k = "ptrs" THEN d.blk[b].p[i] ELSE 0
Indirect(in) == in.ptr[Direct + 1]

e2_bmap(d, in, lb) ==
    IF lb < Direct THEN in.ptr[lb + 1]
    ELSE IF lb - Direct < PPB /\ Indirect(in) # 0 THEN Pointer(d, Indirect(in), lb - Direct + 1)
    ELSE 0

\* The blocks of an inode in the order in which e2_free_inode_blocks frees them.
BlocksOf(d, in) ==
    SelectSeq(SubSeq(in.ptr, 1, Direct), LAMBDA b : b # 0) \o
    (IF Indirect(in) = 0 THEN <<>>
     ELSE SelectSeq([i \in 1..PPB |-> Pointer(d, Indirect(in), i)], LAMBDA b : b # 0) \o <<Indirect(in)>>)
Bare(in) == [in EXCEPT !.ptr = Unused.ptr]

\* The records of a directory, each a block and a place in it.  A block that holds no
\* records has none that is long enough.
CellsIn(d, b) ==
    IF b = 0 \/ d.blk[b].k # "dir" THEN <<>> ELSE [j \in 1..Len(d.blk[b].recs) |-> <<b, j>>]
Cells(d, in) == FlattenSeq([l \in 1..in.size |-> CellsIn(d, e2_bmap(d, in, l - 1))])
Rec(d, x) == d.blk[x[1]].recs[x[2]]

NotFound == <<>>
FirstOf(d, cs, Test(_)) ==
    LET hits == {i \in DOMAIN cs : Test(Rec(d, cs[i]))}
    IN  IF hits = {} THEN NotFound ELSE cs[Min(hits)]
FirstCell(d, in, Test(_)) == FirstOf(d, Cells(d, in), Test)
e2_dir_lookup(d, in, n) == FirstCell(d, in, LAMBDA r : r.ino # 0 /\ r.name = n)

\* e2_split and e2_resolve: the inode of the directory that a path's last name is in.
\* Only what is looked into must be a directory, not what is returned.
InoAt(d, x) == IF x = NotFound THEN 0 ELSE Rec(d, x).ino
e2_resolve(d, p) ==
    IF Len(p) = 1 THEN EXT2_ROOT_INO
    ELSE InoAt(d, e2_dir_lookup(d, d.inode[EXT2_ROOT_INO], p[1]))
Parent(d, p) == d.inode[e2_resolve(d, p)]
Lookup(d, p) == e2_dir_lookup(d, Parent(d, p), Last(p))
Names(d, in) == {r \in {Rec(d, x) : x \in Range(Cells(d, in))} : r.ino # 0 /\ r.name \notin {Dot, DotDot}}
e2_dir_is_empty(d, in) == Names(d, in) = {}

None == [k |-> "none"]
Dir == [k |-> "dir"]
Torn == [k |-> "torn"]
File(v, n) == [k |-> "file", v |-> IF n = 0 THEN 0 ELSE v, n |-> n]

\* What ext2_read_file and ext2_stat make of a path.
ReadBlocks(d, bs) ==
    IF bs = <<>> THEN File(0, 0)
    ELSE IF \E i \in DOMAIN bs : bs[i] = 0 \/ d.blk[bs[i]].k # "data" THEN Torn
    ELSE IF \A i \in DOMAIN bs : d.blk[bs[i]] = Data(d.blk[bs[1]].v, i)
         THEN File(d.blk[bs[1]].v, Len(bs)) ELSE Torn
Read(d, in) ==
    CASE in.mode = "reg" -> ReadBlocks(d, [i \in 1..in.size |-> e2_bmap(d, in, i - 1)])
      [] in.mode = "dir" -> Dir
      [] OTHER -> Torn
ReadAt(d, x) == IF x = NotFound THEN None ELSE Read(d, d.inode[Rec(d, x).ino])
ReadIn(d, i, n) ==
    IF i = 0 \/ d.inode[i].mode # "dir" THEN None ELSE ReadAt(d, e2_dir_lookup(d, d.inode[i], n))
Holds(d, p) == ReadIn(d, e2_resolve(d, p), Last(p))

\* The inodes that have a name, and how many names each has.
Directories(d) ==
    {EXT2_ROOT_INO} \cup {i \in {r.ino : r \in Names(d, d.inode[EXT2_ROOT_INO])} : d.inode[i].mode = "dir"}
Linked(d) == {EXT2_ROOT_INO} \cup {r.ino : r \in UNION {Names(d, d.inode[i]) : i \in Directories(d)}}
Shared(d) ==
    \/ \E i, j \in Linked(d) : i # j /\ Range(BlocksOf(d, d.inode[i])) \cap Range(BlocksOf(d, d.inode[j])) # {}
    \/ \E i, j \in Directories(d) : \E r \in Names(d, d.inode[i]), s \in Names(d, d.inode[j]) :
           <<i, r.name>> # <<j, s.name>> /\ r.ino = s.ino
Twins(d) == \E i \in Directories(d) : LET cs == Cells(d, d.inode[i]) IN
    \E x, y \in Range(cs) : /\ x # y /\ Rec(d, x).name = Rec(d, y).name
                            /\ Rec(d, x).ino # 0 /\ Rec(d, y).ino # 0
\* A block or an inode that is in use and free to be taken.
Loose(d, but) == \/ \E i \in Linked(d) \ but : ~(Range(BlocksOf(d, d.inode[i])) \subseteq d.bbm)
                 \/ ~(Linked(d) \subseteq d.ibm)

-----------------------------------------------------------------------------
(* Operations *)

Idle == [pc |-> "idle"]

\* ino, in: the inode of the operation and the copy in memory; home, hin: the same of the
\* directory to add to; from: the one to remove from; frees: blocks to free; new: the
\* block just allocated; run: blocks of data not yet written; done: blocks counted as
\* written; bad: an error is to be returned; silent: a refused access went unnoticed, or
\* the directory is none.
Op(kind, p, q) ==
    [kind |-> kind, pc |-> "start", p |-> p, q |-> q, n |-> 0, tail |-> FALSE, v |-> calls + 1,
     ino |-> 0, in |-> Unused, home |-> 0, hin |-> Unused, from |-> 0, over |-> FALSE,
     frees |-> <<>>, new |-> 0, run |-> <<>>, done |-> 0, bad |-> FALSE, silent |-> FALSE]

Under(p, x) == IsPrefix(p, x)
Targets == {x \in Paths : Under(op.p, x) \/ (op.kind = "rename" /\ Under(op.q, x))}
After ==
    [x \in Paths |->
        CASE op.kind = "write" /\ x = op.p -> File(op.v, op.n)
          [] op.kind = "mkdir" /\ x = op.p -> Dir
          [] op.kind \in {"delete", "rmdir", "rename"} /\ Under(op.p, x) -> None
          [] op.kind = "rename" /\ Under(op.q, x) ->
                told[op.p \o SubSeq(x, Len(op.q) + 1, Len(x))]
          [] OTHER -> told[x]]
\* A write that runs out of space keeps what it wrote.
Allowed(x) == {told[x], After[x]} \cup
    (IF op.kind = "write" /\ x = op.p THEN {File(op.v, k) : k \in 0..op.n} ELSE {})

\* An operation that a fault cut short, or went through unnoticed: the paths hold what
\* they hold on the disk, and damage is recorded.
Settle(d) ==
    /\ op' = Idle
    /\ told' = [x \in Paths |-> Holds(d, x)]
    /\ damage' = damage \cup
        {[kind |-> IF op.over THEN "overwrite" ELSE op.kind, pc |-> op.pc, silent |-> op.silent, what |-> w] :
            w \in {u \in {"torn", "hurt", "shared", "twins", "loose"} :
                     CASE u = "torn" -> \E x \in Targets : Holds(d, x) \notin Allowed(x)
                       [] u = "hurt" -> \E x \in Paths \ Targets : Holds(d, x) # told[x]
                       [] u = "shared" -> Shared(d)
                       [] u = "twins" -> Twins(d)
                       [] u = "loose" -> Loose(d, {})}}
Finish ==
    IF op.bad \/ op.silent THEN Settle(disk') /\ failed' = (failed \/ op.bad)
    ELSE op' = Idle /\ told' = After /\ UNCHANGED <<failed, damage>>
Error == Settle(disk') /\ failed' = TRUE
Going == UNCHANGED <<told, failed, damage>>

Fault == faults < MaxFaults /\ faults' = faults + 1
Smooth == UNCHANGED faults

At(pc) == op.pc = pc /\ UNCHANGED calls
\* A write whose refusal nobody looks at.
Ignored(d, on) ==
    /\ \/ disk' = d /\ op' = on /\ Smooth
       \/ Fault /\ UNCHANGED disk /\ op' = [on EXCEPT !.silent = TRUE]
    /\ Going
\* What is undone when a step fails: the inode, and of a directory its block.
Undone ==
    IF op.kind \in {"write", "mkdir"} /\ op.ino # 0
    THEN /\ op' = [op EXCEPT !.bad = TRUE, !.frees = BlocksOf(disk, op.in),
                             !.pc = IF op.in.mode = "dir" THEN "free" ELSE "ifree"]
         /\ Going
    ELSE Error
\* A write whose refusal is an error.
Checked(d, on) ==
    \/ disk' = d /\ op' = on /\ Smooth /\ Going
    \/ Fault /\ UNCHANGED disk /\ Undone

\* The counts in memory change with the bitmaps and are flushed later.
Count(blocks, inodes, dirs) ==
    mem' = [sb |-> [b |-> mem.sb.b + blocks, i |-> mem.sb.i + inodes],
            gd |-> [b |-> mem.gd.b + blocks, i |-> mem.gd.i + inodes, dirs |-> mem.gd.dirs + dirs],
            sb_dirty |-> TRUE, gd_dirty |-> TRUE]

FreeBlocks == IF mem.gd.b = 0 THEN {} ELSE Blocks \ disk.bbm
FreeInodes == IF mem.gd.i = 0 THEN {} ELSE Inodes \ disk.ibm

\* e2_alloc_block: the first block that is free is marked, counted and cleared.
e2_alloc_block(b) ==
    /\ FreeBlocks # {} /\ b = Min(FreeBlocks)
    /\ disk' = [disk EXCEPT !.bbm = @ \cup {b}, !.blk[b] = Zero]
    /\ Count(-1, 0, 0) /\ Smooth
\* None is free, or the mark is refused.
NoBlock == (IF FreeBlocks = {} THEN Smooth ELSE Fault) /\ UNCHANGED <<disk, mem>>

-----------------------------------------------------------------------------
(* Calls *)

Promised == damage = {}
Call(c) ==
    /\ c \in Calls /\ op = Idle /\ calls < MaxCalls /\ Promised
    /\ calls' = calls + 1
    /\ UNCHANGED <<disk, mem>> /\ Going

\* A lookup, which a refused read turns into a name that is not there.
Looked(p, x) ==
    \/ x = Lookup(disk, p) /\ Smooth
    \/ x = NotFound /\ Lookup(disk, p) # NotFound /\ Fault
Blind == faults' # faults
Ino(p) == Rec(disk, Lookup(disk, p)).ino

ext2_write_file(p, n, tail) ==
    /\ Call("write")
    /\ e2_resolve(disk, p) # 0 /\ Parent(disk, p).mode = "dir"
    /\ \E x \in {NotFound, Lookup(disk, p)} :
        /\ Looked(p, x)
        /\ LET o == [Op("write", p, p) EXCEPT !.n = n, !.tail = tail, !.silent = Blind,
                        !.home = e2_resolve(disk, p), !.hin = Parent(disk, p)]
               in == disk.inode[Ino(p)]
           IN  IF x = NotFound THEN op' = [o EXCEPT !.pc = "ialloc"]
               ELSE /\ in.mode = "reg"
                    /\ op' = [o EXCEPT !.ino = Ino(p), !.in = [Bare(in) EXCEPT !.size = 0], !.over = TRUE,
                                       !.frees = BlocksOf(disk, in), !.pc = "free"]

ext2_mkdir(p) ==
    /\ Call("mkdir")
    /\ e2_resolve(disk, p) # 0 /\ Parent(disk, p).mode = "dir"
    /\ Looked(p, NotFound)
    /\ op' = [Op("mkdir", p, p) EXCEPT !.silent = Blind, !.home = e2_resolve(disk, p),
                                       !.hin = Parent(disk, p), !.pc = "ialloc"]

Removal(kind, p) ==
    [Op(kind, p, p) EXCEPT !.ino = Ino(p), !.in = disk.inode[Ino(p)], !.from = e2_resolve(disk, p),
                           !.home = e2_resolve(disk, p), !.hin = Parent(disk, p), !.pc = "remove"]
ext2_delete_file(p) ==
    /\ Call("delete")
    /\ e2_resolve(disk, p) # 0 /\ Lookup(disk, p) # NotFound /\ disk.inode[Ino(p)].mode # "dir"
    /\ op' = Removal("delete", p) /\ Smooth

ext2_delete_dir(p) ==
    /\ Call("rmdir")
    /\ e2_resolve(disk, p) # 0 /\ Lookup(disk, p) # NotFound /\ disk.inode[Ino(p)].mode = "dir"
    /\ e2_dir_is_empty(disk, disk.inode[Ino(p)])
    /\ op' = Removal("rmdir", p) /\ Smooth

\* Bound: a directory is renamed only where the paths under it are followed, and not
\* into itself (which the code does not refuse, and which cuts it off).
Followed(p, q) == \A x \in Paths : Under(q, x) => p \o SubSeq(x, Len(q) + 1, Len(x)) \in Paths

\* What the new name is to be in need not be a directory: then a file gets a block of
\* records, and what is renamed cannot be found again.
e2_rename_common(p, q) ==
    /\ Call("rename") /\ ~Under(p, q) /\ Followed(p, q)
    /\ e2_resolve(disk, p) # 0 /\ e2_resolve(disk, q) # 0
    /\ Lookup(disk, p) # NotFound /\ Looked(q, NotFound)
    /\ op' = [Removal("rename", p) EXCEPT !.q = q, !.home = e2_resolve(disk, q), !.hin = Parent(disk, q),
                                          !.silent = Blind \/ Parent(disk, q).mode # "dir", !.pc = "add"]

-----------------------------------------------------------------------------
(* Steps *)

e2_alloc_inode ==
    /\ At("ialloc")
    /\ \/ /\ FreeInodes # {}
          /\ disk' = [disk EXCEPT !.ibm = @ \cup {Min(FreeInodes)}]
          /\ Count(0, -1, IF op.kind = "mkdir" THEN 1 ELSE 0)
          /\ op' = [op EXCEPT !.ino = Min(FreeInodes), !.pc = IF op.kind = "mkdir" THEN "balloc" ELSE "add",
                              !.in = IF op.kind = "mkdir" THEN @ ELSE [Unused EXCEPT !.mode = "reg", !.links = 1]]
          /\ Smooth /\ Going
       \/ /\ IF FreeInodes = {} THEN Smooth ELSE Fault
          /\ UNCHANGED <<disk, mem>> /\ Error

MkdirBlock ==
    /\ At("balloc")
    /\ \/ \E b \in Blocks :
            /\ e2_alloc_block(b)
            /\ op' = [op EXCEPT !.pc = "dots",
                        !.in = [Unused EXCEPT !.mode = "dir", !.size = 1, !.links = 2, !.ptr[1] = b]]
            /\ Going
       \/ NoBlock /\ Undone

WriteDots ==
    /\ At("dots") /\ UNCHANGED mem
    /\ Checked([disk EXCEPT !.blk[op.in.ptr[1]] =
                   Records(<<Record(op.ino, Dot, 1), Record(op.home, DotDot, Room - 1)>>)],
               [op EXCEPT !.pc = "inode"])

e2_write_inode ==
    /\ At("inode") /\ UNCHANGED mem
    /\ Ignored([disk EXCEPT !.inode[op.ino] = op.in],
               [op EXCEPT !.pc = CASE op.kind = "mkdir" -> "add" [] op.kind = "write" -> "sb" [] OTHER -> "ifree"])

\* e2_dir_add: in the first slack that is long enough ...
Leaf == Last(op.q)
Slack(r) == r.len - (IF r.ino = 0 THEN 0 ELSE r.name.need)
Split(recs, j) ==
    LET r == recs[j]
        made == Record(op.ino, Leaf, Slack(r))
    IN  SubSeq(recs, 1, j - 1) \o
        (IF r.ino = 0 THEN <<made>> ELSE <<[r EXCEPT !.len = r.name.need], made>>) \o
        SubSeq(recs, j + 1, Len(recs))
Added == [op EXCEPT !.pc = CASE op.kind = "write" -> IF op.n = 0 THEN "inode" ELSE "bmap"
                             [] op.kind = "mkdir" -> "parent" [] OTHER -> "remove",
                    !.hin.links = IF op.kind = "mkdir" THEN @ + 1 ELSE @]
e2_dir_add ==
    /\ At("add") /\ UNCHANGED mem
    /\ LET x == FirstCell(disk, op.hin, LAMBDA r : Slack(r) >= Leaf.need)
       IN  IF x # NotFound
           THEN Checked([disk EXCEPT !.blk[x[1]].recs = Split(@, x[2])], Added)
           ELSE op' = [op EXCEPT !.pc = "grow"] /\ UNCHANGED disk /\ Smooth /\ Going
\* ... or in a block of its own, which the inode of the directory is then given.
DirBlock ==
    /\ At("growblk") /\ UNCHANGED mem
    /\ Checked([disk EXCEPT !.blk[op.new] = Records(<<Record(op.ino, Leaf, Room)>>)],
               [op EXCEPT !.hin.size = @ + 1, !.pc = "growinode"])
DirInode ==
    /\ At("growinode") /\ UNCHANGED mem
    /\ Checked([disk EXCEPT !.inode[op.home] = op.hin], Added)

\* e2_bmap_alloc: a pointer of the inode is set in memory, one of an indirect block on
\* the disk, which nobody looks at.
Growing == op.pc = "grow"
Subject == IF Growing THEN op.hin ELSE op.in
Index == IF Growing THEN op.hin.size ELSE op.done
Mapped(o) == [o EXCEPT !.pc = IF Growing THEN "growblk" ELSE "got"]
Point(o, i, b) == IF Growing THEN [o EXCEPT !.hin.ptr[i] = b] ELSE [o EXCEPT !.in.ptr[i] = b]
Short == [op EXCEPT !.bad = TRUE, !.pc = "last"]
e2_bmap_alloc ==
    /\ op.pc \in {"bmap", "grow"} /\ UNCHANGED calls
    /\ IF e2_bmap(disk, Subject, Index) # 0
       THEN /\ op' = Mapped([op EXCEPT !.new = e2_bmap(disk, Subject, Index)])
            /\ UNCHANGED <<disk, mem>> /\ Smooth /\ Going
       ELSE \/ \E b \in Blocks :
                /\ Index < Direct + PPB
                /\ e2_alloc_block(b)
                /\ op' = CASE Index < Direct -> Mapped(Point([op EXCEPT !.new = b], Index + 1, b))
                           [] Index >= Direct /\ Indirect(Subject) = 0 -> Point(op, Direct + 1, b)
                           [] OTHER -> [op EXCEPT !.new = b, !.pc = IF Growing THEN "growptr" ELSE "ptr"]
                /\ Going
            \/ /\ IF Index < Direct + PPB THEN NoBlock ELSE UNCHANGED <<disk, mem>> /\ Smooth
               /\ IF Growing THEN Undone ELSE op' = Short /\ Going
WritePointer ==
    /\ op.pc \in {"ptr", "growptr"} /\ UNCHANGED <<calls, mem>>
    /\ LET grow == op.pc = "growptr"
           b == Indirect(IF grow THEN op.hin ELSE op.in)
           i == (IF grow THEN op.hin.size ELSE op.done) - Direct + 1
       IN  Ignored([disk EXCEPT !.blk[b] = Ptrs([[j \in 1..PPB |-> Pointer(disk, b, j)] EXCEPT ![i] = op.new])],
                   [op EXCEPT !.pc = IF grow THEN "growblk" ELSE "got"])

\* The data: full blocks that adjoin are gathered into one transfer, and counted before
\* they are written; the last, partial one is written by itself.
Partial == op.tail /\ op.done + 1 = op.n
RunWritten(run) ==
    [disk EXCEPT !.blk = [b \in Blocks |->
        IF b \in Range(run) THEN Data(op.v, op.done - Len(run) + IndexFirstSubSeq(<<b>>, run)) ELSE @[b]]]
Counted(o) == [o EXCEPT !.done = @ + 1, !.pc = IF op.done + 1 < op.n THEN "bmap" ELSE "last"]
BreaksRun == op.run # <<>> /\ (Partial \/ op.new # Last(op.run) + 1 \/ Len(op.run) >= MaxRun)
Broken == [op EXCEPT !.bad = TRUE, !.pc = "inode", !.in.size = op.done]
WriteData ==
    /\ At("got") /\ UNCHANGED mem /\ Going
    /\ \/ /\ ~BreaksRun /\ ~Partial
          /\ op' = Counted([op EXCEPT !.run = Append(@, op.new)])
          /\ UNCHANGED disk /\ Smooth
       \/ /\ BreaksRun
          /\ disk' = RunWritten(op.run) /\ op' = [op EXCEPT !.run = <<>>] /\ Smooth
       \/ /\ ~BreaksRun /\ Partial
          /\ disk' = [disk EXCEPT !.blk[op.new] = Data(op.v, op.n)] /\ op' = Counted(op) /\ Smooth
       \/ /\ BreaksRun \/ Partial
          /\ Fault /\ UNCHANGED disk /\ op' = Broken
LastRun ==
    /\ At("last") /\ UNCHANGED mem
    /\ LET on == [op EXCEPT !.pc = "inode", !.in.size = op.done, !.run = <<>>]
       IN  IF op.run = <<>> THEN op' = on /\ UNCHANGED disk /\ Smooth /\ Going
           ELSE Ignored(RunWritten(op.run), on)

\* Faulty variant: the record is dropped and its space with it.
Dropped(recs, j) ==
    IF j = 1 THEN [recs EXCEPT ![1].ino = 0] ELSE SubSeq(recs, 1, j - 1) \o SubSeq(recs, j + 1, Len(recs))
\* e2_dir_remove: the record is joined to the one before it, or is the first and emptied.
Joined(recs, j) ==
    IF j = 1 THEN [recs EXCEPT ![1].ino = 0]
    ELSE SubSeq(recs, 1, j - 2) \o <<[recs[j - 1] EXCEPT !.len = @ + recs[j].len]>> \o
         SubSeq(recs, j + 1, Len(recs))
Moved == op.kind = "rename" /\ op.in.mode = "dir" /\ op.from # op.home
e2_dir_remove ==
    /\ At("remove") /\ UNCHANGED mem
    /\ LET x == e2_dir_lookup(disk, disk.inode[op.from], Last(op.p))
       IN  Checked([disk EXCEPT !.blk[x[1]].recs = Joined(@, x[2])],
                   IF op.kind = "rename" THEN [op EXCEPT !.pc = IF Moved THEN "dotdot" ELSE "sb"]
                   ELSE [op EXCEPT !.frees = BlocksOf(disk, op.in), !.pc = "free",
                                   !.in = [Bare(op.in) EXCEPT !.links = 0]])
Reparent ==
    /\ At("dotdot") /\ UNCHANGED mem
    /\ Ignored([disk EXCEPT !.blk[op.in.ptr[1]].recs[2].ino = op.home], [op EXCEPT !.pc = "npd"])
NewParent ==
    /\ At("npd") /\ UNCHANGED mem
    /\ Ignored([disk EXCEPT !.inode[op.home].links = @ + 1], [op EXCEPT !.pc = "opd"])
OldParent ==
    /\ At("opd") /\ UNCHANGED mem
    /\ Ignored([disk EXCEPT !.inode[op.from].links = @ - 1], [op EXCEPT !.pc = "sb"])

\* The count goes up whether or not the mark is cleared.
e2_free_block ==
    /\ At("free")
    /\ IF op.frees = <<>>
       THEN /\ op' = [op EXCEPT !.pc = CASE op.bad -> "ifree"
                                         [] op.kind = "write" /\ op.n > 0 -> "bmap" [] OTHER -> "inode"]
            /\ UNCHANGED <<disk, mem>> /\ Smooth /\ Going
       ELSE /\ Count(1, 0, 0)
            /\ Ignored([disk EXCEPT !.bbm = @ \ {Head(op.frees)}], [op EXCEPT !.frees = Tail(@)])
e2_free_inode ==
    /\ At("ifree")
    /\ Count(0, 1, IF op.kind \in {"mkdir", "rmdir"} THEN -1 ELSE 0)
    /\ LET d == [disk EXCEPT !.ibm = @ \ {op.ino}]
           on == IF op.kind = "rmdir" THEN [op EXCEPT !.pc = "parent", !.hin.links = @ - 1]
                 ELSE [op EXCEPT !.pc = "sb"]
       IN  IF op.bad THEN ((disk' = d /\ Smooth) \/ (Fault /\ UNCHANGED disk)) /\ Error
           ELSE Ignored(d, on)
WriteParent ==
    /\ At("parent") /\ UNCHANGED mem
    /\ Ignored([disk EXCEPT !.inode[op.home] = op.hin], [op EXCEPT !.pc = "sb"])

\* e2_flush_meta: the superblock and then the descriptor, each forgotten if refused.
FlushSuper ==
    /\ At("sb")
    /\ mem' = [mem EXCEPT !.sb_dirty = FALSE]
    /\ IF mem.sb_dirty THEN Ignored([disk EXCEPT !.sb = mem.sb], [op EXCEPT !.pc = "gd"])
       ELSE op' = [op EXCEPT !.pc = "gd"] /\ UNCHANGED disk /\ Smooth /\ Going
FlushGroup ==
    /\ At("gd")
    /\ mem' = [mem EXCEPT !.gd_dirty = FALSE]
    /\ \/ disk' = (IF mem.gd_dirty THEN [disk EXCEPT !.gd = mem.gd] ELSE disk) /\ Smooth
       \/ mem.gd_dirty /\ Fault /\ UNCHANGED disk
    /\ Finish

\* The power fails, and the volume is mounted again.
ext2_mount == mem' = [sb |-> disk.sb, gd |-> disk.gd, sb_dirty |-> FALSE, gd_dirty |-> FALSE]
Crash ==
    /\ op # Idle
    /\ Fault /\ ext2_mount
    /\ UNCHANGED <<disk, calls>>
    /\ Error

\* A volume from ext2_mkfs whose lost+found has been removed.
Init ==
    /\ LET root == [Unused EXCEPT !.mode = "dir", !.size = 1, !.links = 2, !.ptr[1] = 1]
           sb == [b |-> NBlocks - 1, i |-> NInodes - 1]
       IN  disk = [bbm |-> {1}, ibm |-> {EXT2_ROOT_INO},
                   inode |-> [i \in Inodes |-> IF i = EXT2_ROOT_INO THEN root ELSE Unused],
                   blk |-> [b \in Blocks |-> IF b = 1 THEN
                              Records(<<Record(1, Dot, 1), Record(1, DotDot, Room - 1)>>) ELSE Zero],
                   sb |-> sb, gd |-> [b |-> sb.b, i |-> sb.i, dirs |-> 1]]
    /\ mem = [sb |-> disk.sb, gd |-> disk.gd, sb_dirty |-> FALSE, gd_dirty |-> FALSE]
    /\ op = Idle /\ told = [p \in Paths |-> None]
    /\ calls = 0 /\ faults = 0 /\ failed = FALSE /\ damage = {}

Next ==
    \/ \E p \in Paths : \/ \E n \in Sizes, tail \in BOOLEAN : (n = 0 => ~tail) /\ ext2_write_file(p, n, tail)
                        \/ ext2_mkdir(p) \/ ext2_delete_file(p) \/ ext2_delete_dir(p)
                        \/ \E q \in Paths : e2_rename_common(p, q)
    \/ e2_alloc_inode \/ MkdirBlock \/ WriteDots \/ e2_write_inode
    \/ e2_dir_add \/ DirBlock \/ DirInode \/ e2_bmap_alloc \/ WritePointer \/ WriteData \/ LastRun
    \/ e2_dir_remove \/ Reparent \/ NewParent \/ OldParent \/ e2_free_block \/ e2_free_inode \/ WriteParent
    \/ FlushSuper \/ FlushGroup \/ Crash

Spec == Init /\ [][Next]_vars

-----------------------------------------------------------------------------
(* Properties *)

\* The counts in memory differ from the disk's only while they are to be flushed; and
\* none goes below zero, where it would wrap (a power failure can leave them too high).
TypeOK ==
    /\ disk.bbm \subseteq Blocks /\ disk.ibm \subseteq Inodes
    /\ faults = 0 => (mem.sb # disk.sb => mem.sb_dirty) /\ (mem.gd # disk.gd => mem.gd_dirty)
    /\ \A c \in {mem.sb.b, mem.sb.i, mem.gd.b, mem.gd.i} : c >= 0

\* The records of a directory block tile it, whatever was added and removed.
RecordsTile == \A b \in Blocks : disk.blk[b].k = "dir" =>
    /\ FoldLeft(LAMBDA s, r : s + r.len, 0, disk.blk[b].recs) = Room
    /\ \A j \in DOMAIN disk.blk[b].recs : Slack(disk.blk[b].recs[j]) >= 0

\* Between operations every path holds what the callers were told, if no fault has done
\* damage.
ReadBack == op = Idle /\ Promised => \A p \in Paths : Holds(disk, p) = told[p]

\* Files that an operation is not about are whole on the disk all through it, so that a
\* power failure at any point leaves them alone; unless a rename went into one of them.
Bystanders ==
    op # Idle /\ damage = {} => (op.hin.mode # "reg" =>
        \A x \in Paths \ Targets : Holds(disk, x) = told[x])

\* What is in use is marked, at every moment, so that no power failure lets a file take
\* a block of another; but for the file that is being written, whose inode still has the
\* blocks that were freed, or those of the file or directory that had it before.
InUseMarked ==
    damage = {} => ~Loose(disk, IF op = Idle THEN {} ELSE IF op.kind = "write" THEN {op.ino} ELSE {})

\* What a power failure or a refused access can spoil.
DamageConfined == \A b \in damage :
    CASE b.what = "torn" -> b.kind \in {"overwrite", "write"} \/ b.silent
      [] b.what = "hurt" -> b.kind = "rename" /\ b.silent
      [] b.what = "shared" -> b.kind = "rename"
      [] b.what = "twins" -> b.silent
      [] b.what = "loose" -> b.kind \in {"overwrite", "write"}

\* Between operations, if none failed, the counts are those of the bitmaps, the marked
\* blocks and inodes are those in use, and a directory is linked from itself, its parent
\* and each directory in it.
CountsAgree ==
    op = Idle /\ Promised /\ ~failed /\ faults = 0 =>
        /\ mem.sb = [b |-> mem.gd.b, i |-> mem.gd.i]
        /\ mem.gd = [b |-> Cardinality(Blocks \ disk.bbm), i |-> Cardinality(Inodes \ disk.ibm),
                     dirs |-> Cardinality({i \in Linked(disk) : disk.inode[i].mode = "dir"})]
        /\ disk.ibm = Linked(disk)
        /\ disk.bbm = UNION {Range(BlocksOf(disk, disk.inode[i])) : i \in Linked(disk)}
        /\ \A i \in Directories(disk) : disk.inode[i].links =
               2 + Cardinality({r \in Names(disk, disk.inode[i]) : disk.inode[r.ino].mode = "dir"})

\* A file that is being renamed is there under the old or the new name, whenever the
\* power fails.
RenameKeeps ==
    op # Idle => (op.kind = "rename" /\ ~op.silent =>
        told[op.p] \in {Holds(disk, op.p), Holds(disk, op.q)})
=============================================================================
