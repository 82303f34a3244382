------------------------------- MODULE Mounts -------------------------------
(***************************************************************************)
(* The VFS mount table (fs/vfs.c): how it is filled at boot, how a path is *)
(* routed to an entry of it, and how tasks use and change it while others  *)
(* wait for the file-system lock or are inside a driver.                   *)
(*                                                                         *)
(* A path is the sequence of its names and a volume a drive and a          *)
(* partition.  The ext2 and FAT32 drivers have one volume each.  Routing   *)
(* picks an entry before the lock is taken; what kind of entry it is is    *)
(* looked at again afterwards.  Mounting and unmounting take no lock.      *)
(* A scan or an update of the table without disk access is one step.       *)
(***************************************************************************)
EXTENDS Integers, Sequences, FiniteSets, SequencesExt

CONSTANTS
    Tasks,
    MAX_MOUNTS,
    Machines,           \* what the system boots on: the partitions [fs, sentinel] of each drive,
                        \* the CD-ROM, root= and the drive that the BIOS booted (0: none)
    Names,              \* of the slots that are made, mounted and removed
    Files,              \* the paths that are used
    Dirs,               \* and those that are changed to
    MaxChanges          \* bound: mounts, unmounts and the like

VARIABLES
    machine,            \* the one that was booted, and whether it has been shut down
    tab,                \* s_mounts, also what lies beyond s_nmounts
    n,                  \* s_nmounts
    drv,                \* the volume of each disk driver
    owner, depth,       \* s_fs_owner, s_fs_depth
    cwd,                \* of each task
    task,               \* what each task is in the middle of
    changes,            \* history: how often the table was changed
    raced               \* history: two mounts got in each other's way

vars == <<machine, tab, n, drv, owner, depth, cwd, task, changes, raced>>

None == <<>>
Nobody == "nobody"
Drivers == {"ext2", "fat32"}
DiskBackends == Drivers \cup {"iso9660"}
fs_backend_disk(b) == b \in DiskBackends
Entry(mp, b, vol, slot) == [mp |-> mp, backend |-> b, vol |-> vol, slot |-> slot]
Blank == Entry(<<>>, "none", None, "")

-----------------------------------------------------------------------------
(* The table; s is [tab, n, drv] *)

mount_add(s, e) == IF s.n >= MAX_MOUNTS THEN s ELSE [s EXCEPT !.tab[s.n + 1] = e, !.n = @ + 1]

\* The table is compacted, and the last entry stays behind beyond the end.
mount_remove(s, k) ==
    [s EXCEPT !.tab = [i \in 1..MAX_MOUNTS |-> IF i \in k..(s.n - 1) THEN s.tab[i + 1] ELSE s.tab[i]],
              !.n = @ - 1]

Used(s) == 1..s.n
First(S) == IF S = {} THEN 0 ELSE Min(S)
mount_find_exact(s, p) == First({i \in Used(s) : s.tab[i].mp = p})
mount_find_slot(s, name) == First({i \in Used(s) : s.tab[i].slot = name})
mount_is_bound(s, i) == i \in Used(s) /\ s.tab[i].backend # "none"
backend_in_use(s, b) == \E i \in Used(s) : s.tab[i].backend = b
backend_volume_in_use(s, b, v) == \E i \in Used(s) : s.tab[i].backend = b /\ s.tab[i].vol = v
mount_has_alias(s, k) ==
    \E i \in Used(s) \ {k} : s.tab[i].backend = s.tab[k].backend /\ s.tab[i].vol = s.tab[k].vol

\* vfs_route: the best of the first i entries, "/" only while there is no other.
vfs_route(s, p) ==
    LET Better(best, i) ==
            CASE s.tab[i].mp = <<>> -> IF best = 0 THEN i ELSE best
              [] ~IsPrefix(s.tab[i].mp, p) -> best
              [] best = 0 -> i
              [] OTHER -> IF Len(s.tab[i].mp) > Len(s.tab[best].mp) THEN i ELSE best
        Best[i \in 0..s.n] == IF i = 0 THEN 0 ELSE Better(Best[i - 1], i)
    IN  Best[s.n]

-----------------------------------------------------------------------------
(* Boot *)

Part(m, v) == m.disks[v[1]][v[2]]
Volumes(m) == UNION {{<<d, p>> : p \in DOMAIN m.disks[d]} : d \in DOMAIN m.disks}
Backend(m, v) == IF Part(m, v).fs = "ext2" THEN "ext2" ELSE "fat32"
\* ext2_mount or fat32_mount succeeds.
Mountable(m, v) == Part(m, v).fs \in Drivers
CdVolume == <<"cd">>

Overlays == <<Entry(<<"dev">>, "devfs", None, ""), Entry(<<"proc">>, "procfs", None, ""),
              Entry(<<"tmp">>, "tmpfs", None, ""), Entry(<<"log">>, "logfs", None, "")>>

vfs_init(m) ==
    FoldLeft(mount_add,
             [tab |-> [i \in 1..MAX_MOUNTS |-> Blank], n |-> 0, drv |-> [b \in Drivers |-> None]],
             Overlays \o
             (IF m.cd.present THEN <<Entry(<<"mnt", "cdrom">>, "iso9660", CdVolume, "cdrom")>> ELSE <<>>) \o
             <<Entry(<<"mnt", "boot">>, "none", None, "boot"), Entry(<<"mnt", "root">>, "none", None, "root")>>)

Driven(s, b, v) == [s EXCEPT !.drv[b] = v]
Rooted(s, b, v) == mount_add(IF b \in Drivers THEN Driven(s, b, v) ELSE s, Entry(<<>>, b, v, ""))

\* The partitions in the order in which they are looked at.
Order(m) == FlattenSeq([d \in 1..Len(m.disks) |-> [p \in 1..Len(m.disks[d]) |-> <<d, p>>]])
vfs_mount_root(m, s) ==
    LET found == SelectSeq(Order(m), LAMBDA v : Mountable(m, v) /\ Part(m, v).sentinel)
        elected == IF found # <<>> THEN Rooted(s, Backend(m, found[1]), found[1])
                   ELSE IF m.cd.present /\ m.cd.sentinel THEN Rooted(s, "iso9660", CdVolume)
                   ELSE s
    IN  CASE m.spec = "none" -> s
          [] m.spec = "cdrom" /\ m.cd.present /\ m.cd.sentinel -> Rooted(s, "iso9660", CdVolume)
          [] m.spec \in Volumes(m) /\ Mountable(m, m.spec) -> Rooted(s, Backend(m, m.spec), m.spec)
          [] OTHER -> elected

\* A slot gets a volume: its driver is told to mount it, unless it has it already.
Bound(s, k, b, v) == [Driven(s, b, v) EXCEPT !.tab[k].backend = b, !.tab[k].vol = v]
Bindable(m, s, k, v) ==
    /\ k # 0 /\ ~mount_is_bound(s, k)
    /\ IF backend_in_use(s, Backend(m, v)) THEN backend_volume_in_use(s, Backend(m, v), v)
       ELSE Mountable(m, v)

\* One partition is the root; of several the second, and the first may be the boot one.
try_mount_drive(m, s, d) ==
    LET root == mount_find_slot(s, "root")
        boot == mount_find_slot(s, "boot")
        data == <<d, IF Len(m.disks[d]) = 1 THEN 1 ELSE 2>>
        ok == Bindable(m, s, root, data)
        s1 == IF ok THEN Bound(s, root, Backend(m, data), data) ELSE s
        b == <<d, 1>>
        s2 == IF /\ Len(m.disks[d]) > 1 /\ Part(m, b).fs = "fat32"
                 /\ boot # 0 /\ ~mount_is_bound(s1, boot) /\ ~backend_in_use(s1, "fat32")
              THEN mount_add(Bound(s1, boot, "fat32", b), Entry(<<"boot">>, "fat32", b, ""))
              ELSE s1
    IN  IF Len(m.disks[d]) = 0 THEN [ok |-> FALSE, s |-> s] ELSE [ok |-> ok, s |-> s2]

vfs_rootfs_is_disk(s) ==
    LET k == mount_find_exact(s, <<>>) IN k # 0 /\ s.tab[k].backend \in Drivers
Homes == <<Entry(<<"root">>, "tmpfs", <<"ns", 1>>, ""), Entry(<<"home">>, "tmpfs", <<"ns", 3>>, ""),
           Entry(<<"home", "user">>, "tmpfs", <<"ns", 2>>, "")>>
vfs_auto_mount(m, s) ==
    LET Try(x, d) == IF x.ok THEN x ELSE try_mount_drive(m, x.s, d)
        x == FoldLeft(Try, [ok |-> FALSE, s |-> s],
                      (IF m.hint = 0 THEN <<>> ELSE <<m.hint>>) \o [d \in 1..Len(m.disks) |-> d])
    IN  IF vfs_rootfs_is_disk(x.s) THEN x.s ELSE FoldLeft(mount_add, x.s, Homes)

Booted(m) == vfs_auto_mount(m, vfs_mount_root(m, vfs_init(m)))

-----------------------------------------------------------------------------
(* Tasks *)

Now == [tab |-> tab, n |-> n, drv |-> drv]
Becomes(s) == tab' = s.tab /\ n' = s.n /\ drv' = s.drv
Locks == <<owner, depth>>
Table == <<tab, n, drv>>

Idle == [pc |-> "idle"]
Dead == [pc |-> "dead"]
\* Nothing is promised once two mounts raced, and nothing happens after a shutdown.
Goes == ~machine.off /\ ~raced
Free(t) == task[t] = Idle /\ Goes
At(t, pc) == task[t].pc = pc /\ Goes

\* want: the volume of the entry that the path was routed to; got: the one that the
\* driver called has; flat: it is not one of Drivers; quiet: the table has not changed since.
Using(pc, kind, p, k) ==
    [pc |-> pc, kind |-> kind, abs |-> p, idx |-> k, want |-> tab[k].vol, also |-> tab[k].vol,
     got |-> None, flat |-> FALSE, quiet |-> TRUE]
Reached(k) == CASE tab[k].backend \in Drivers -> drv[tab[k].backend]
                [] tab[k].backend = "iso9660" -> tab[k].vol
                [] OTHER -> None
Inside(o) == [o EXCEPT !.pc = "in", !.got = Reached(o.idx), !.flat = tab[o.idx].backend \notin Drivers]
OnDisk(k) == k # 0 /\ fs_backend_disk(tab[k].backend)

\* What goes through a backend_* function: vfs_ls, vfs_cat, vfs_mkdir, vfs_read_file,
\* vfs_read_at, vfs_write_file, vfs_delete_file, vfs_delete_dir, vfs_file_exists,
\* vfs_complete.
vfs_use(t, p) ==
    /\ Free(t) /\ OnDisk(vfs_route(Now, p))
    /\ task' = [task EXCEPT ![t] = Using("lock", "use", p, vfs_route(Now, p))]
    /\ UNCHANGED <<machine, Table, Locks, cwd, changes, raced>>

\* The virtual directories, empty mountpoints and the CD take any name; the others in
\* memory only their own.
vfs_cd(t, p) ==
    LET k == vfs_route(Now, p)
        b == tab[k].backend
        free == \/ p \in {<<>>, <<"mnt">>}
                \/ k # 0 /\ (b \in {"none", "iso9660"} \/ (~fs_backend_disk(b) /\ p = tab[k].mp))
    IN  /\ Free(t)
        /\ \/ free /\ cwd[t] # p /\ cwd' = [cwd EXCEPT ![t] = p] /\ UNCHANGED task
           \/ /\ ~free /\ OnDisk(k)
              /\ task' = [task EXCEPT ![t] = Using("lock", "cd", p, k)] /\ UNCHANGED cwd
        /\ UNCHANGED <<machine, Table, Locks, changes, raced>>

\* vfs_stat and vfs_rename call the driver without the lock.
vfs_stat(t, p) ==
    LET k == vfs_route(Now, p) IN
    /\ Free(t) /\ OnDisk(k) /\ p # tab[k].mp /\ p \notin {<<>>, <<"mnt">>}
    /\ task' = [task EXCEPT ![t] = Inside(Using("lock", "stat", p, k))]
    /\ UNCHANGED <<machine, Table, Locks, cwd, changes, raced>>

vfs_rename(t, p, q) ==
    LET k == vfs_route(Now, p)
        l == vfs_route(Now, q)
    IN  /\ Free(t) /\ k # 0 /\ l # 0
        /\ tab[k].backend = tab[l].backend /\ tab[k].backend \in Drivers
        /\ task' = [task EXCEPT ![t] = Inside([Using("lock", "rename", p, k) EXCEPT !.also = tab[l].vol])]
        /\ UNCHANGED <<machine, Table, Locks, cwd, changes, raced>>

\* Which backend is called is looked up again once the lock is had.
vfs_fs_lock(t) ==
    /\ At(t, "lock") /\ owner \in {Nobody, t}
    /\ owner' = t /\ depth' = depth + 1
    /\ task' = [task EXCEPT ![t] = Inside(@)]
    /\ UNCHANGED <<machine, Table, cwd, changes, raced>>

Locked(o) == o.kind \in {"use", "cd"}
vfs_fs_unlock ==
    IF depth > 0 THEN depth' = depth - 1 /\ owner' = (IF depth = 1 THEN Nobody ELSE owner)
    ELSE UNCHANGED Locks
\* A cd finds the directory or does not; what is not a disk any more takes every name.
Leave(t) ==
    /\ At(t, "in")
    /\ IF Locked(task[t]) THEN vfs_fs_unlock ELSE UNCHANGED Locks
    /\ \/ (task[t].kind = "cd" => ~task[t].flat) /\ UNCHANGED cwd
       \/ /\ task[t].kind = "cd" /\ (task[t].flat \/ task[t].got # None)
          /\ cwd' = [cwd EXCEPT ![t] = task[t].abs]
    /\ task' = [task EXCEPT ![t] = Idle]
    /\ UNCHANGED <<machine, Table, changes, raced>>

\* A fatal signal ends a task inside a driver; the lock stays with it.
Kill(t) ==
    /\ At(t, "in")
    /\ task' = [task EXCEPT ![t] = Dead]
    /\ UNCHANGED <<machine, Table, Locks, cwd, changes, raced>>

-----------------------------------------------------------------------------
(* Changes *)

fixup_cwd_mounted(mp) == cwd' = [t \in Tasks |-> IF cwd[t] = <<>> THEN mp ELSE cwd[t]]
\* All that is under a mountpoint, but of "/" only itself.
Stranded(mp, c) == c = mp \/ (mp # <<>> /\ IsPrefix(mp, c))
fixup_cwd_unmounted(mps) ==
    cwd' = [t \in Tasks |-> IF \E mp \in mps : Stranded(mp, cwd[t]) THEN <<>> ELSE cwd[t]]

Changing(t, o, by) ==
    /\ changes' = changes + by /\ UNCHANGED Locks
    /\ task' = [x \in Tasks |-> IF x = t THEN o
                               ELSE IF task[x].pc \in {"lock", "in"} THEN [task[x] EXCEPT !.quiet = FALSE]
                               ELSE task[x]]
Begin(t) == Free(t) /\ changes < MaxChanges

\* vfs_mount_hd: the slot is looked up; then, the disk having been read, whether the
\* driver is in use; and then the driver mounts and the slot is bound.
vfs_mount_hd(t, v, name) ==
    LET k == mount_find_slot(Now, name) IN
    /\ Begin(t) /\ k # 0 /\ ~mount_is_bound(Now, k)
    /\ task' = [task EXCEPT ![t] = [pc |-> "probe", vol |-> v, name |-> name, idx |-> k]]
    /\ UNCHANGED <<machine, Table, Locks, cwd, changes, raced>>
MountStart(t) ==
    /\ At(t, "probe")
    /\ task' = [task EXCEPT ![t] = IF backend_in_use(Now, Backend(machine, task[t].vol)) THEN Idle
                                   ELSE [@ EXCEPT !.pc = "mounting"]]
    /\ UNCHANGED <<machine, Table, Locks, cwd, changes, raced>>
Clash(b, v, k, name) ==
    \/ backend_in_use(Now, b)
    \/ k > n \/ tab[k].slot # name \/ tab[k].backend # "none"
MountDone(t) ==
    LET o == task[t]
        b == Backend(machine, o.vol)
    IN  /\ At(t, "mounting")
        /\ IF Mountable(machine, o.vol)
           THEN /\ Becomes(Bound(Now, o.idx, b, o.vol)) /\ fixup_cwd_mounted(tab[o.idx].mp)
                /\ raced' = (raced \/ Clash(b, o.vol, o.idx, o.name))
                /\ Changing(t, Idle, 1)
           ELSE /\ task' = [task EXCEPT ![t] = Idle]
                /\ UNCHANGED <<Table, Locks, cwd, changes, raced>>
        /\ UNCHANGED machine

vfs_make_mountpoint(t, name) ==
    /\ Begin(t) /\ mount_find_slot(Now, name) = 0 /\ n < MAX_MOUNTS
    /\ Becomes(mount_add(Now, Entry(<<"mnt", name>>, "none", None, name)))
    /\ Changing(t, Idle, 1) /\ UNCHANGED <<machine, cwd, raced>>

vfs_remove_mountpoint(t, name) ==
    LET k == mount_find_slot(Now, name) IN
    /\ Begin(t) /\ k # 0 /\ ~mount_is_bound(Now, k)
    /\ Becomes(mount_remove(Now, k))
    /\ Changing(t, Idle, 1) /\ UNCHANGED <<machine, cwd, raced>>

\* vfs_umount_hd: the driver lets go of the volume, unless another entry has it too ...
Released(s, k) ==
    IF mount_has_alias(s, k) \/ s.tab[k].backend \notin Drivers THEN s ELSE Driven(s, s.tab[k].backend, None)
vfs_umount_hd(t, name) ==
    LET k == mount_find_slot(Now, name) IN
    /\ Begin(t) /\ mount_is_bound(Now, k) /\ tab[k].backend \in Drivers
    /\ Becomes(Released(Now, k))
    /\ Changing(t, [pc |-> "umounting", idx |-> k, name |-> name], 1)
    /\ UNCHANGED <<machine, cwd, raced>>
\* ... and the slot is emptied, and the mirror of the boot volume dropped.
UmountDone(t) ==
    LET k == task[t].idx
        s == [Now EXCEPT !.tab[k].backend = "none"]
        mirror == mount_find_exact(s, <<"boot">>)
    IN  /\ At(t, "umounting")
        /\ fixup_cwd_unmounted({tab[k].mp})
        /\ Becomes(IF mirror # 0 /\ tab[k].slot = "boot" THEN mount_remove(s, mirror) ELSE s)
        /\ raced' = (raced \/ k > n \/ tab[k].slot # task[t].name)
        /\ Changing(t, Idle, 0) /\ UNCHANGED machine

\* From the last entry to the first.
Backwards == [i \in 1..n |-> n + 1 - i]
vfs_notify_cdrom_ejected(t) ==
    LET cds == {i \in Used(Now) : tab[i].backend = "iso9660"}
        Drop(s, i) == IF s.tab[i].backend = "iso9660" THEN mount_remove(s, i) ELSE s
    IN  /\ Begin(t) /\ cds # {}
        /\ fixup_cwd_unmounted({tab[i].mp : i \in cds})
        /\ Becomes(FoldLeft(Drop, Now, Backwards))
        /\ Changing(t, Idle, 1) /\ UNCHANGED <<machine, raced>>

Unbound(s, i) == IF s.tab[i].backend \in Drivers THEN [Released(s, i) EXCEPT !.tab[i].backend = "none"] ELSE s
vfs_prepare_shutdown(t) ==
    /\ Begin(t)
    /\ Becomes(FoldLeft(Unbound, Now, Backwards))
    /\ machine' = [machine EXCEPT !.off = TRUE]
    /\ Changing(t, Idle, 1) /\ UNCHANGED <<cwd, raced>>

-----------------------------------------------------------------------------
Init ==
    \E m \in Machines :
        /\ machine = m
        /\ tab = Booted(m).tab /\ n = Booted(m).n /\ drv = Booted(m).drv
        /\ owner = Nobody /\ depth = 0
        /\ cwd = [t \in Tasks |-> <<>>]
        /\ task = [t \in Tasks |-> Idle]
        /\ changes = 0 /\ raced = FALSE

Next ==
    \E t \in Tasks :
        \/ \E p \in Files : vfs_use(t, p) \/ vfs_stat(t, p) \/ \E q \in Files : vfs_rename(t, p, q)
        \/ \E p \in Dirs : vfs_cd(t, p)
        \/ vfs_fs_lock(t) \/ Leave(t) \/ Kill(t)
        \/ \E name \in Names : \/ \E v \in Volumes(machine) : vfs_mount_hd(t, v, name)
                              \/ vfs_make_mountpoint(t, name) \/ vfs_remove_mountpoint(t, name)
                              \/ vfs_umount_hd(t, name)
        \/ MountStart(t) \/ MountDone(t) \/ UmountDone(t)
        \/ vfs_notify_cdrom_ejected(t) \/ vfs_prepare_shutdown(t)

Spec == Init /\ [][Next]_vars

-----------------------------------------------------------------------------
(* Properties *)

\* The lock has an owner exactly while it is held, and no slot has two entries.
TypeOK ==
    /\ n \in 0..MAX_MOUNTS
    /\ owner = Nobody <=> depth = 0
    /\ \A i, j \in 1..n : i # j => tab[i].mp # tab[j].mp \/ raced

\* The lock keeps apart the operations that take it, also after one was killed.
LockExcludes ==
    /\ \A t \in Tasks : task[t].pc = "in" => (Locked(task[t]) => owner = t)
    /\ depth <= 1

\* A path is routed to the first of the longest mountpoints that it is under.
RouteLongest == \A p \in Files :
    LET over == {i \in 1..n : IsPrefix(tab[i].mp, p)}
        k == vfs_route(Now, p)
    IN  IF over = {} THEN k = 0
        ELSE k \in over /\ \A i \in over : Len(tab[i].mp) < Len(tab[k].mp) \/ (tab[i].mp = tab[k].mp /\ i >= k)

\* Every entry that is bound to a disk volume has its driver on that volume, so that no
\* path leads to another volume than the table says; until two mounts race.
EntriesBacked ==
    ~raced => \A i \in 1..n : tab[i].backend \in Drivers =>
        \/ drv[tab[i].backend] = tab[i].vol
        \/ \E t \in Tasks : task[t].pc = "umounting" /\ task[t].name = tab[i].slot

\* An operation during which the table was left alone works on the volume that its path
\* was routed to, or is refused; and a rename has both its paths there.
ReachesVolume ==
    ~raced => \A t \in Tasks : task[t].pc = "in" =>
        (task[t].quiet => task[t].got \in {task[t].want, None} /\ task[t].also = task[t].want)

\* A shutdown lets go of every volume that an entry has, of those with two entries too.
ReleasesAll ==
    machine'.off /\ ~machine.off =>
        \A i \in 1..n : tab[i].backend \in Drivers => drv'[tab[i].backend] = None
=============================================================================
