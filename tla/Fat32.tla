------------------------------- MODULE Fat32 --------------------------------
(***************************************************************************)
(* The FAT32 driver (fs/fat32.c).  An operation is a sequence of sector    *)
(* writes, one step each, and the power can fail or a write be refused     *)
(* between any two.  The allocation table is written through a cache of    *)
(* one sector, which reaches the disk when another sector is wanted or at  *)
(* fat_flush; everything else is written at once.  vfs_fs_lock keeps       *)
(* operations apart, so there is one at a time.                            *)
(*                                                                         *)
(* A name is [base, tail, lfn]: the letters that survive in a short name,  *)
(* those that do not, and the long-name slots it needs.  A file is a       *)
(* number of clusters, each holding the write it came from and its place.  *)
(***************************************************************************)
EXTENDS Integers, Sequences, FiniteSets, SequencesExt

CONSTANTS
    total_clusters,
    PerSector,          \* entries of the table in a sector (128)
    PerCluster,         \* slots of a directory cluster (16 a sector)
    Paths,              \* the paths that are used: one or two names
    Sizes,              \* of files, in clusters
    Calls,              \* the operations that are called
    MaxCalls,           \* bound: calls made
    MaxFaults           \* bound: writes or reads refused, and power failures

VARIABLES
    fat,                \* the table on the disk
    mem,                \* the table as the driver sees it: the disk's, and the cached sector
    sect,               \* s_fat_lba: the sector that is cached
    data,               \* the clusters on the disk
    hint,               \* vol.free_hint
    op,                 \* the operation in progress
    told,               \* history: what the callers were told each path holds
    calls, faults,      \* history: calls made, faults met
    failed,             \* history: some operation reported an error
    damage              \* history: what a fault has spoilt

vars == <<fat, mem, sect, data, hint, op, told, calls, faults, failed, damage>>

limit == total_clusters + 2
Clusters == 2..(limit - 1)
root_cluster == 2
FREE == 0
EOC == 1
Sector(c) == c \div PerSector
NoSector == -1

-----------------------------------------------------------------------------
(* Names *)

lfn_needs_lfn(n) == n.lfn > 0

\* The tail is always ~1: nothing looks for a name that is taken.
make_basis_name(n) == [base |-> n.base, tail |-> "~1", lfn |-> 0]

\* make_83_name keeps a name that needs no long form.
ShortName(n) == IF lfn_needs_lfn(n) THEN make_basis_name(n) ELSE n

-----------------------------------------------------------------------------
(* Clusters and directories, read through a table f and clusters d *)

RECURSIVE Walk(_, _, _)
Walk(f, c, n) == IF n = 0 \/ c \notin Clusters THEN <<>> ELSE <<c>> \o Walk(f, f[c], n - 1)
Chain(f, c) == Walk(f, c, total_clusters)
Ends(f, c) == Chain(f, c) = <<>> \/ f[Last(Chain(f, c))] = EOC

End == [k |-> "end"]        \* 0x00
Deleted == [k |-> "del"]    \* 0xE5
Junk == [k |-> "junk"]      \* whatever a cluster that is not a directory looks like
Lfn(n, i) == [k |-> "lfn", name |-> n, seq |-> i]
\* name is history: the name the entry was made for.
Ent(n, first, size, dir) ==
    [k |-> "ent", short |-> ShortName(n), first |-> first, size |-> size, dir |-> dir, name |-> n]
IsEnt(s) == s.k = "ent"
Free(s) == s.k \in {"end", "del"}

DirCluster(slots) == [slots |-> slots, v |-> 0, i |-> 0]
FileCluster(v, i) == [slots |-> <<>>, v |-> v, i |-> i]
Zeroed == DirCluster([i \in 1..PerCluster |-> End])

\* The slots of a directory in the order of its chain: each a cluster and a place in it.
CellsOf(ch) ==
    [k \in 1..(Len(ch) * PerCluster) |->
        <<ch[1 + (k - 1) \div PerCluster], 1 + ((k - 1) % PerCluster)>>]
Cells(f, c) == CellsOf(Chain(f, c))
Slot(d, x) == IF d[x[1]].slots = <<>> THEN Junk ELSE d[x[1]].slots[x[2]]
Place(x, s) == data' = [data EXCEPT ![x[1]].slots[x[2]] = s]

\* dir_scan stops at the first slot never used.
BeforeEnd(d, cs) ==
    LET ends == {i \in DOMAIN cs : Slot(d, cs[i]).k = "end"}
    IN  IF ends = {} THEN cs ELSE SubSeq(cs, 1, Min(ends) - 1)
Seen(f, d, c) == BeforeEnd(d, Cells(f, c))

\* What an entry is called: the long name gathered from the slots before it, if they
\* got as far as its first letters, and its short name otherwise.  Whether those slots
\* were written for this entry is not looked at (the checksum is not compared).
Shown(d, cs, i) ==
    IF i > 1 /\ Slot(d, cs[i - 1]).k = "lfn" /\ Slot(d, cs[i - 1]).seq = 1
    THEN Slot(d, cs[i - 1]).name
    ELSE Slot(d, cs[i]).short

NotFound == <<>>

\* dir_scan(DIRSCAN_FIND): the slot of the first entry with this long or short name.
\* What is found after junk has been read is anybody's guess, so nothing is.
FirstHit(d, cs, n) ==
    LET hits == {i \in DOMAIN cs : \/ Slot(d, cs[i]).k = "junk"
                                   \/ IsEnt(Slot(d, cs[i])) /\ n \in {Shown(d, cs, i), Slot(d, cs[i]).short}}
    IN  IF hits = {} THEN NotFound ELSE cs[Min(hits)]
dir_scan(f, d, c, n) == FirstHit(d, Seen(f, d, c), n)

\* The clusters whose entry of the table a scan reads on its way.
Scanned(f, d, c, x) ==
    IF x # NotFound THEN SubSeq(Chain(f, c), 1, IndexFirstSubSeq(<<x[1]>>, Chain(f, c)) - 1)
    ELSE IF Seen(f, d, c) = Cells(f, c) THEN Chain(f, c) ELSE <<>>

\* path_split and path_resolve_dir: the directory that a path's last name is in, or 0.
Subdirectory(d, x) ==
    IF x # NotFound /\ IsEnt(Slot(d, x)) /\ Slot(d, x).dir THEN Slot(d, x).first ELSE 0
path_split(f, d, p) ==
    IF Len(p) = 1 THEN root_cluster ELSE Subdirectory(d, dir_scan(f, d, root_cluster, p[1]))

None == [k |-> "none"]
Dir == [k |-> "dir"]
Torn == [k |-> "torn"]
File(v, n) == [k |-> "file", v |-> IF n = 0 THEN 0 ELSE v, n |-> n]

\* What fat32_read_file, fat32_read_at and fat32_file_exists make of a path: a file is
\* torn if its chain is not exactly the clusters of one write, or is not allocated.
FileIn(d, size, ch) ==
    IF Len(ch) = size /\ \A i \in 1..size : d[ch[i]] = FileCluster(d[ch[1]].v, i)
    THEN File(IF size = 0 THEN 0 ELSE d[ch[1]].v, size) ELSE Torn
Read(f, d, e) ==
    IF ~IsEnt(e) \/ ~Ends(f, e.first) THEN Torn
    ELSE IF e.dir THEN Dir ELSE FileIn(d, e.size, Chain(f, e.first))
ReadAt(f, d, x) == IF x = NotFound THEN None ELSE Read(f, d, Slot(d, x))
ReadIn(f, d, c, n) == IF c = 0 THEN None ELSE ReadAt(f, d, dir_scan(f, d, c, n))
Holds(f, d, p) == ReadIn(f, d, path_split(f, d, p), Last(p))

\* The entries of a directory; the directories; all the entries there are.
Entries(f, d, c) == {x \in Range(Seen(f, d, c)) : IsEnt(Slot(d, x))}
Directories(f, d) ==
    {root_cluster} \cup {Slot(d, x).first : x \in {y \in Entries(f, d, root_cluster) : Slot(d, y).dir}}
AllEntries(f, d) == UNION {Entries(f, d, c) : c \in Directories(f, d)}
Owned(f, d, x) == Range(Chain(f, Slot(d, x).first))

\* Three ways in which a directory deceives, each reached without any fault: entries
\* behind a slot never used, where dir_scan does not look (the run that a long name
\* needs did not fit before the end of the cluster); an entry in the slot of a deleted
\* one, which left its long name behind; and a file called what another is called in
\* short.
Hidden(d, behind) == \E x \in behind : ~Free(Slot(d, x)) /\ Slot(d, x) # Junk
Ghost(d, cs) == \E i \in DOMAIN cs : IsEnt(Slot(d, cs[i])) /\ Shown(d, cs, i) # Slot(d, cs[i]).name
Alias(d, xs) == \E x, y \in xs : x # y /\ Slot(d, x).name = Slot(d, y).short
Deceives(f, d) == \E c \in Directories(f, d) :
    \/ Hidden(d, Range(Cells(f, c)) \ Range(Seen(f, d, c)))
    \/ Ghost(d, Seen(f, d, c))
    \/ Alias(d, Entries(f, d, c))

Shared(f, d) == \E x, y \in AllEntries(f, d) : x # y /\ Owned(f, d, x) \cap Owned(f, d, y) # {}
Spoilt(f, d) == \E c \in Directories(f, d) : \E x \in Range(Cells(f, c)) : Slot(d, x) = Junk
Twins(f, d) == \E c \in Directories(f, d) : \E x, y \in Entries(f, d, c) :
    x # y /\ Slot(d, x).name = Slot(d, y).name

-----------------------------------------------------------------------------
(* Operations *)

Idle == [pc |-> "idle"]

\* old: the entry found; cur: the cluster to free or to write next; k: how many are
\* written; new: the cluster just allocated; prev: the last of the chain so far; first:
\* its first; home: the directory to add to; from: the one to remove from; entry: what to
\* add; cells: where; silent: a refused access went unnoticed.
Op(kind, p, q) ==
    [kind |-> kind, pc |-> "start", p |-> p, q |-> q, n |-> 0, v |-> calls + 1, old |-> NotFound,
     cur |-> 0, k |-> 0, new |-> 0, prev |-> 0, first |-> 0, home |-> 0, from |-> 0,
     entry |-> End, cells |-> <<>>, silent |-> FALSE]

Go(pc) == op' = [op EXCEPT !.pc = pc]

Under(p, x) == IsPrefix(p, x)
Targets == {x \in Paths : Under(op.p, x) \/ (op.kind = "rename" /\ Under(op.q, x))}
After(x) ==
    CASE op.kind = "write" /\ x = op.p -> File(op.v, op.n)
      [] op.kind = "mkdir" /\ x = op.p -> Dir
      [] op.kind \in {"delete", "rmdir", "rename"} /\ Under(op.p, x) -> None
      [] op.kind = "rename" /\ Under(op.q, x) -> told[op.p \o SubSeq(x, Len(op.q) + 1, Len(x))]
      [] OTHER -> told[x]

\* An operation that a fault cut short, or went through unnoticed: the paths hold what
\* they hold in the driver's table f, and damage there or in the disk's g is recorded.
Wrong(u, h, d) ==
    CASE u = "torn" -> \E x \in Targets : Holds(h, d, x) \notin {told[x], After(x)}
      [] u = "hurt" -> Spoilt(h, d) \/ \E x \in Paths \ Targets : Holds(h, d, x) # told[x]
      [] u = "shared" -> Shared(h, d)
      [] u = "twins" -> Twins(h, d)
Wrongs(h, d) == IF Deceives(h, d) THEN {} ELSE {u \in {"torn", "hurt", "shared", "twins"} : Wrong(u, h, d)}
Settle(f, g, d) ==
    /\ op' = Idle
    /\ told' = [x \in Paths |-> Holds(f, d, x)]
    /\ damage' = damage \cup
        {[kind |-> IF op.kind = "write" /\ op.old # NotFound THEN "overwrite" ELSE op.kind,
          pc |-> op.pc, silent |-> op.silent, what |-> u] : u \in UNION {Wrongs(h, d) : h \in {f, g}}}

Finish(f, g, d) ==
    /\ IF op.silent THEN Settle(f, g, d) ELSE op' = Idle /\ told' = [x \in Paths |-> After(x)] /\ UNCHANGED damage
    /\ UNCHANGED failed
Error(f, g, d) == Settle(f, g, d) /\ failed' = TRUE
Going == UNCHANGED <<told, failed, damage>>

Fault == faults < MaxFaults /\ faults' = faults + 1
Smooth == UNCHANGED faults

\* The cached sector is written back when an entry of another is wanted.
Touch(cs) ==
    /\ fat' = IF \E i \in DOMAIN cs : Sector(cs[i]) # sect THEN mem ELSE fat
    /\ sect' = IF cs = <<>> THEN sect ELSE Sector(Last(cs))
\* Such a write-back is due, and can be refused.
Due(c) == Sector(c) # sect /\ mem # fat

fat_write(c, v) == mem' = [mem EXCEPT ![c] = v] /\ Touch(<<c>>)

\* The search starts at the hint and wraps.
Order == [i \in 1..total_clusters |-> IF hint + i <= limit THEN hint + i - 1
                                      ELSE hint + i - 1 - total_clusters]
Found(i) == mem[Order[i]] = FREE /\ \A j \in 1..(i - 1) : mem[Order[j]] # FREE
Full == \A c \in Clusters : mem[c] # FREE

\* fat_alloc, up to the mark ...
fat_alloc(next) == \E i \in DOMAIN Order :
    /\ Found(i)
    /\ mem' = [mem EXCEPT ![Order[i]] = EOC]
    /\ Touch(SubSeq(Order, 1, i))
    /\ op' = [op EXCEPT !.pc = next, !.new = Order[i]]
\* ... and the link from the cluster before, if there is one.
Hinted == hint' = IF op.new + 1 >= limit THEN 2 ELSE op.new + 1
Linked(prev) ==
    /\ IF prev = 0 THEN UNCHANGED <<fat, mem, sect>> ELSE fat_write(prev, op.new)
    /\ Hinted

Promised == damage = {} /\ ~Deceives(mem, data)
Between == op = Idle /\ calls < MaxCalls /\ Promised
Call(c) ==
    /\ c \in Calls
    /\ calls' = calls + 1
    /\ UNCHANGED <<mem, data, hint>>

\* A lookup, which a refused read turns into a name that is not there.
LookupIn(c, y, x) ==
    \/ x = y /\ Touch(Scanned(mem, data, c, x)) /\ Smooth
    \/ x = NotFound /\ y # NotFound /\ Fault /\ UNCHANGED <<fat, sect>>
Home(p) == path_split(mem, data, p)
Entry(p) == dir_scan(mem, data, Home(p), Last(p))
Lookup(p, x) == Home(p) # 0 /\ LookupIn(Home(p), Entry(p), x)
Outcome(p) == {NotFound, Entry(p)}
Blind == faults' # faults

-----------------------------------------------------------------------------
(* Calls *)

fat32_write_file(p, n) ==
    /\ Call("write")
    /\ \E x \in Outcome(p) :
        /\ Lookup(p, x)
        /\ x # NotFound => ~Slot(data, x).dir
        /\ op' = [Op("write", p, p) EXCEPT
                    !.n = n, !.old = x, !.silent = Blind,
                    !.home = Home(p),
                    !.cur = IF x = NotFound THEN 0 ELSE Slot(data, x).first,
                    !.pc = IF x # NotFound /\ Slot(data, x).first >= 2 THEN "free"
                           ELSE IF n > 0 THEN "alloc" ELSE "flush"]
    /\ Going

fat32_mkdir(p) ==
    /\ Call("mkdir")
    /\ Lookup(p, NotFound)
    /\ op' = [Op("mkdir", p, p) EXCEPT
                !.n = 1, !.silent = Blind, !.home = Home(p), !.pc = "alloc"]
    /\ Going

fat32_delete_file(p) ==
    /\ Call("delete")
    /\ \E x \in Outcome(p) \ {NotFound} :
        /\ Lookup(p, x)
        /\ ~Slot(data, x).dir
        /\ op' = [Op("delete", p, p) EXCEPT
                    !.old = x, !.cur = Slot(data, x).first, !.pc = "mark"]
    /\ Going

Dots(c, parent) ==
    <<[k |-> "dot", first |-> c], [k |-> "dot", first |-> IF parent = root_cluster THEN 0 ELSE parent]>>
Empty(c) == Entries(mem, data, c) = {}

fat32_delete_dir(p) ==
    /\ Call("rmdir")
    /\ \E x \in Outcome(p) \ {NotFound} :
        /\ Lookup(p, x)
        /\ Slot(data, x).dir /\ Empty(Slot(data, x).first)
        /\ op' = [Op("rmdir", p, p) EXCEPT
                    !.old = x, !.cur = Slot(data, x).first, !.pc = "mark"]
    /\ Going

\* Bound: a directory is renamed only where the paths under it are followed, and not
\* into itself (which the code does not refuse, and which cuts it off).
Followed(p, q) == \A x \in Paths : Under(q, x) => p \o SubSeq(x, Len(q) + 1, Len(x)) \in Paths

fat32_rename_internal(p, q) ==
    /\ Call("rename") /\ ~Under(p, q) /\ Followed(p, q)
    /\ Home(p) # 0
    /\ \E x \in {Entry(p)} \ {NotFound} :
        /\ Lookup(q, NotFound)
        /\ op' = [Op("rename", p, q) EXCEPT
                    !.silent = Blind, !.home = Home(q), !.from = Home(p),
                    !.entry = Ent(Last(q), Slot(data, x).first, Slot(data, x).size, Slot(data, x).dir),
                    !.pc = "add"]
    /\ Going

-----------------------------------------------------------------------------
(* Steps, each with the way out when its write is refused *)

At(pc) == op.pc = pc /\ UNCHANGED calls

\* fat_free_chain, one cluster.
Freed == IF op.kind = "write" /\ op.n > 0 THEN "alloc" ELSE "flush"

fat_free_chain ==
    /\ At("free")
    /\ fat_write(op.cur, FREE)
    /\ hint' = IF op.cur < hint THEN op.cur ELSE hint
    /\ LET next == mem[op.cur] IN
        \/ /\ op' = [op EXCEPT !.cur = next, !.pc = IF next \in Clusters THEN "free" ELSE Freed]
           /\ Smooth
        \/ \* the write-back is refused once: the chain is taken to end here
           /\ Due(op.cur) /\ Fault
           /\ op' = [op EXCEPT !.pc = Freed, !.silent = TRUE]
    /\ UNCHANGED data /\ Going

AllocData ==
    /\ At("alloc") /\ ~Full
    /\ fat_alloc("link")
    /\ Smooth /\ UNCHANGED <<data, hint>> /\ Going

\* Disk full: what was allocated stays so, and the entry of the file is not touched.
AllocFails ==
    /\ At("alloc") /\ Full
    /\ fat' = mem /\ sect' = Sector(Last(Order))
    /\ Smooth /\ UNCHANGED <<mem, data, hint>>
    /\ Error(mem, mem, data)

LinkData ==
    /\ At("link")
    /\ LET on == [op EXCEPT !.first = IF @ = 0 THEN op.new ELSE @, !.prev = op.new, !.k = @ + 1,
                            !.pc = IF op.k + 1 < op.n THEN "alloc" ELSE "flush"]
       IN  \/ Linked(op.prev) /\ op' = on /\ Smooth
           \/ \* the write-back is refused: nothing is linked, and nobody looks
              /\ op.prev # 0 /\ Due(op.prev) /\ Fault
              /\ op' = [on EXCEPT !.silent = TRUE]
              /\ Hinted /\ UNCHANGED <<fat, mem, sect>>
    /\ UNCHANGED data /\ Going

\* The entry that was found is updated in place; otherwise one is added.
ToEntry(o) ==
    IF o.old # NotFound THEN [o EXCEPT !.pc = "dirent"]
    ELSE [o EXCEPT !.entry = Ent(Last(o.p), o.first, o.n, FALSE), !.pc = "add"]

AfterFlush ==
    LET on == [op EXCEPT !.cur = op.first, !.k = 1] IN
    CASE op.kind = "write" /\ op.n > 0 -> op' = [on EXCEPT !.pc = "data"] /\ Going
      [] op.kind = "write" /\ op.n = 0 -> op' = ToEntry(on) /\ Going
      [] op.kind = "mkdir" -> op' = [on EXCEPT !.pc = "dots"] /\ Going
      [] OTHER -> Finish(mem, mem, data)


fat_flush ==
    /\ At("flush")
    /\ fat' = mem /\ Smooth /\ UNCHANGED <<mem, sect, data, hint>>
    /\ AfterFlush

WriteData ==
    /\ At("data")
    /\ data' = [data EXCEPT ![op.cur] = FileCluster(op.v, op.k)]
    /\ Touch(<<op.cur>>)
    /\ LET on == [op EXCEPT !.cur = mem[op.cur], !.k = @ + 1] IN
        op' = IF mem[op.cur] \in Clusters /\ op.k < op.n THEN on ELSE ToEntry(on)
    /\ Smooth /\ UNCHANGED <<mem, hint>> /\ Going

WriteDots ==
    /\ At("dots")
    /\ data' = [data EXCEPT ![op.first] =
                    DirCluster([i \in 1..PerCluster |-> IF i <= 2 THEN Dots(op.first, op.home)[i] ELSE End])]
    /\ op' = [op EXCEPT !.entry = Ent(Last(op.p), op.first, 0, TRUE), !.pc = "add"]
    /\ Smooth /\ UNCHANGED <<fat, mem, sect, hint>> /\ Going

UpdateEntry ==
    /\ At("dirent")
    /\ Place(op.old, [Slot(data, op.old) EXCEPT !.first = op.first, !.size = op.n])
    /\ Smooth /\ UNCHANGED <<fat, mem, sect, hint>>
    /\ Finish(mem, fat, data')

-----------------------------------------------------------------------------
(* dir_add_with_lfn and dir_add_entry *)

Needed == op.entry.name.lfn + 1
Run(cs, i) == i + Needed - 1 <= Len(cs) /\ \A j \in i..(i + Needed - 1) : Free(Slot(data, cs[j]))

\* The first run of free slots that is long enough; else a new cluster.
FindRun ==
    /\ At("add")
    /\ LET cs == Cells(mem, op.home)
           runs == {i \in DOMAIN cs : Run(cs, i)}
       IN  op' = IF runs # {}
                 THEN [op EXCEPT !.cells = SubSeq(cs, Min(runs), Min(runs) + Needed - 1), !.pc = "put"]
                 ELSE [op EXCEPT !.pc = "grow"]
    /\ Touch(SelectSeq(Chain(mem, op.home), LAMBDA c : \A i \in DOMAIN op'.cells : op'.cells[i][1] # c))
    /\ Smooth /\ UNCHANGED <<mem, data, hint>> /\ Going

GrowAlloc ==
    /\ At("grow") /\ ~Full
    /\ fat_alloc("growlink")
    /\ Smooth /\ UNCHANGED <<data, hint>> /\ Going
GrowFails ==
    /\ At("grow") /\ Full
    /\ Touch(Order) /\ Smooth /\ UNCHANGED <<mem, data, hint>>
    /\ Error(mem, fat', data)
GrowLink ==
    /\ At("growlink")
    /\ LET prev == Last(Chain(mem, op.home))
           on == [op EXCEPT !.pc = "growflush"]
       IN  \/ Linked(prev) /\ op' = on /\ Smooth
           \/ /\ Due(prev) /\ Fault
              /\ op' = [on EXCEPT !.silent = TRUE]
              /\ Hinted /\ UNCHANGED <<fat, mem, sect>>
    /\ UNCHANGED data /\ Going

\* The directory reaches its new cluster on the disk before that is cleared.
GrowFlush ==
    /\ At("growflush")
    /\ fat' = mem /\ Go("zero")
    /\ Smooth /\ UNCHANGED <<mem, sect, data, hint>> /\ Going
GrowZero ==
    /\ At("zero")
    /\ data' = [data EXCEPT ![op.new] = Zeroed]
    /\ op' = [op EXCEPT !.cells = [i \in 1..Needed |-> <<op.new, i>>], !.pc = "put"]
    /\ Smooth /\ UNCHANGED <<fat, mem, sect, hint>> /\ Going

\* The long-name slots, the last letters first, and then the entry.
PutSlot ==
    /\ At("put")
    /\ IF Len(op.cells) > 1
       THEN /\ Place(Head(op.cells), Lfn(op.entry.name, Len(op.cells) - 1))
            /\ op' = [op EXCEPT !.cells = Tail(@)]
            /\ Going
       ELSE /\ Place(Head(op.cells), op.entry)
            /\ IF op.kind = "rename" THEN Go("mark") /\ Going ELSE Finish(mem, fat, data')
    /\ Smooth /\ UNCHANGED <<fat, mem, sect, hint>>

\* fat32_delete_file, fat32_delete_dir: mark the entry, then free.  A rename looks for
\* the old name again, and can find it in the entry it has just made, if that is in a
\* slot that shows another's long name: then it undoes itself and reports success.
MarkDeleted ==
    /\ At("mark")
    /\ LET x == IF op.kind = "rename" THEN dir_scan(mem, data, op.from, Last(op.p)) ELSE op.old
       IN  Place(x, Deleted)
    /\ op' = [op EXCEPT !.pc = IF op.kind # "rename" /\ op.cur \in Clusters THEN "free" ELSE "flush",
                        !.silent = @ \/ Deceives(mem, data)]
    /\ Smooth /\ UNCHANGED <<fat, mem, sect, hint>> /\ Going

\* A write that is looked at is refused: the operation returns an error.
Refused ==
    /\ op.pc \in {"flush", "growflush", "data", "dots", "dirent", "zero", "put", "mark"}
    /\ op.pc \in {"flush", "growflush"} => mem # fat
    /\ Fault /\ UNCHANGED <<fat, mem, sect, data, hint, calls>>
    /\ Error(mem, fat, data)

\* The power fails, and the volume is mounted again.
fat32_mount == mem' = fat /\ sect' = NoSector /\ hint' = 2 /\ UNCHANGED fat
Crash ==
    /\ op # Idle
    /\ Fault /\ fat32_mount
    /\ UNCHANGED <<data, calls>>
    /\ Settle(fat, fat, data) /\ failed' = TRUE

\* fat32_unmount, and a new mount.
Remount ==
    /\ op = Idle /\ mem = fat /\ hint # 2
    /\ fat32_mount
    /\ UNCHANGED <<data, op, told, calls, faults, failed, damage>>

Init ==
    /\ fat = [c \in Clusters |-> IF c = root_cluster THEN EOC ELSE FREE]
    /\ mem = fat /\ sect = NoSector
    /\ data = [c \in Clusters |-> IF c = root_cluster THEN Zeroed ELSE FileCluster(0, 0)]
    /\ hint = 2 /\ op = Idle
    /\ told = [p \in Paths |-> None]
    /\ calls = 0 /\ faults = 0 /\ failed = FALSE /\ damage = {}

Next ==
    \/ /\ Between
       /\ \E p \in Paths : \/ \E n \in Sizes : fat32_write_file(p, n)
                           \/ fat32_mkdir(p) \/ fat32_delete_file(p) \/ fat32_delete_dir(p)
                           \/ \E q \in Paths : fat32_rename_internal(p, q)
    \/ fat_free_chain \/ AllocData \/ AllocFails \/ LinkData \/ fat_flush \/ WriteData
    \/ WriteDots \/ UpdateEntry
    \/ FindRun \/ GrowAlloc \/ GrowFails \/ GrowLink \/ GrowFlush \/ GrowZero \/ PutSlot
    \/ MarkDeleted \/ Refused \/ Crash \/ Remount

Spec == Init /\ [][Next]_vars

-----------------------------------------------------------------------------
(* Properties *)

\* The cached sector is the only place where the driver's table differs from the disk's.
TypeOK ==
    /\ fat \in [Clusters -> {FREE, EOC} \cup Clusters]
    /\ \A c \in Clusters : mem[c] # fat[c] => Sector(c) = sect
    /\ hint \in Clusters

\* Between operations every path holds what the callers were told, if the directories do
\* not deceive and no fault has done damage.
ReadBack == op = Idle /\ Promised => \A p \in Paths : Holds(mem, data, p) = told[p]

\* Files that an operation is not about are whole on the disk all through it, so that a
\* power failure at any point leaves them alone; but for the moment when a directory
\* reaches a cluster that is not yet cleared.
Bystanders ==
    op # Idle /\ op.pc # "zero" /\ damage = {} /\ ~Deceives(fat, data) =>
        \A x \in Paths \ Targets : Holds(fat, data, x) = told[x]

\* What a power failure or a refused access can spoil: the file that is being
\* overwritten, the names of one that is being renamed, a directory that is growing; and
\* the file that is written when a refused access was not noticed.
DamageConfined == \A b \in damage : b.pc \notin {"growflush", "zero"} =>
    CASE b.what = "torn" -> b.kind = "overwrite" \/ b.silent
      [] b.what = "hurt" -> FALSE
      [] b.what = "shared" -> b.kind = "rename"
      [] b.what = "twins" -> b.silent

\* Between operations that succeeded, the clusters that are not free are those of the
\* files and directories.
NoLeak ==
    op = Idle /\ Promised /\ ~failed /\ faults = 0 =>
        {c \in Clusters : mem[c] # FREE} =
            Range(Chain(mem, root_cluster)) \cup UNION {Owned(mem, data, x) : x \in AllEntries(mem, data)}

\* A file that is being renamed is there under the old or the new name, whenever the
\* power fails; unless the write that links a grown directory was refused unnoticed.
RenameKeeps ==
    op # Idle /\ op.pc # "zero" =>
        (op.kind = "rename" /\ ~op.silent /\ ~Deceives(fat, data) =>
            told[op.p] \in {Holds(fat, data, op.p), Holds(fat, data, op.q)})
=============================================================================
