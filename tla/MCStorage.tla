----------------------------- MODULE MCStorage ------------------------------
(***************************************************************************)
(* The disk file systems and the table that leads to them, side by side.   *)
(* Each behaviour moves one part, chosen at the start.  FAT32 is there     *)
(* twice: with directories that fit into one cluster, and with small ones  *)
(* that long names make grow.                                              *)
(***************************************************************************)
EXTENDS Naturals, TLC

CONSTANTS t1, t2

VARIABLES
    part,
    fat, sect, data, hint, disk, mem, op, told, calls, faults, failed, damage,
    machine, tab, n, drv, owner, depth, cwd, task, changes, raced

volumeVars == <<fat, sect, data, hint, disk, mem, op, told, calls, faults, failed, damage>>
mountVars == <<machine, tab, n, drv, owner, depth, cwd, task, changes, raced>>
allVars == <<part, volumeVars, mountVars>>

-----------------------------------------------------------------------------
(* Names: plain ones, and a long one that needs one more slot *)
Plain(x) == [base |-> x, tail |-> "", lfn |-> 0]
Long == [base |-> "l", tail |-> "1", lfn |-> 1]
Anything == {"write", "mkdir", "delete", "rmdir", "rename"}

W == INSTANCE Fat32 WITH
        total_clusters <- 6, PerSector <- 3, PerCluster <- 4, Sizes <- {0, 2}, Calls <- Anything,
        Paths <- {<<Plain("a")>>, <<Long>>, <<Plain("d")>>, <<Plain("d"), Plain("a")>>},
        MaxCalls <- 3, MaxFaults <- 1
G == INSTANCE Fat32 WITH
        total_clusters <- 5, PerSector <- 3, PerCluster <- 2, Sizes <- {1},
        Calls <- {"write", "delete", "rename"},
        Paths <- {<<Plain("a")>>, <<Plain("b")>>, <<Long>>},
        MaxCalls <- 4, MaxFaults <- 1

\* Of three units of a directory block one name takes one and the other two.
Named(x, units) == [id |-> x, need |-> units]
E == INSTANCE Ext2 WITH
        NBlocks <- 6, NInodes <- 4, Direct <- 1, PPB <- 1, Room <- 3, MaxRun <- 2,
        Paths <- {<<Named("a", 1)>>, <<Named("d", 2)>>, <<Named("d", 2), Named("a", 1)>>},
        Sizes <- {0, 2}, Calls <- Anything, MaxCalls <- 3, MaxFaults <- 1

-----------------------------------------------------------------------------
(* Machines: a boot partition and a root one beside a second disk; a CD    *)
(* with two FAT32 disks, booted with root=cdrom; two ext2 disks of which   *)
(* the second is the root and the BIOS booted the first.                   *)
Part(fs, sentinel) == [fs |-> fs, sentinel |-> sentinel]
Cd(there) == [present |-> there, sentinel |-> there]
Machine(disks, cd, spec, first) ==
    [disks |-> disks, cd |-> Cd(cd), spec |-> spec, hint |-> first, off |-> FALSE]
V == INSTANCE Mounts WITH
        Tasks <- {t1, t2}, MAX_MOUNTS <- 12, Names <- {"root", "boot", "usb"}, MaxChanges <- 2,
        Files <- {<<"bin">>, <<"mnt", "root", "x">>, <<"boot", "k">>},
        Dirs <- {<<"mnt", "root", "x">>},
        Machines <-
          {Machine(<<<<Part("fat32", FALSE), Part("ext2", TRUE)>>, <<Part("ext2", FALSE)>>>>, FALSE, "auto", 0),
           Machine(<<<<Part("fat32", TRUE)>>, <<Part("fat32", FALSE)>>>>, TRUE, "cdrom", 0),
           Machine(<<<<Part("ext2", FALSE)>>, <<Part("ext2", TRUE)>>>>, TRUE, "auto", 1)}

-----------------------------------------------------------------------------
\* The parts that do not move have no state.
NoFat == fat = 0 /\ sect = 0 /\ data = 0 /\ hint = 0
NoVolume ==
    /\ NoFat /\ disk = 0 /\ mem = 0 /\ op = 0 /\ told = 0 /\ calls = 0
    /\ faults = 0 /\ failed = 0 /\ damage = 0
NoMounts ==
    /\ machine = 0 /\ tab = 0 /\ n = 0 /\ drv = 0 /\ owner = 0 /\ depth = 0
    /\ cwd = 0 /\ task = 0 /\ changes = 0 /\ raced = 0

MCInit ==
    \/ part = "fat" /\ W!Init /\ disk = 0 /\ NoMounts
    \/ part = "small fat" /\ G!Init /\ disk = 0 /\ NoMounts
    \/ part = "ext2" /\ E!Init /\ NoFat /\ NoMounts
    \/ part = "mounts" /\ V!Init /\ NoVolume

MCNext ==
    /\ UNCHANGED part
    /\ \/ part = "fat" /\ W!Next /\ UNCHANGED <<disk, mountVars>>
       \/ part = "small fat" /\ G!Next /\ UNCHANGED <<disk, mountVars>>
       \/ part = "ext2" /\ E!Next /\ UNCHANGED <<fat, sect, data, hint, mountVars>>
       \/ part = "mounts" /\ V!Next /\ UNCHANGED volumeVars

MCSpec == MCInit /\ [][MCNext]_allVars

Symmetry == Permutations({t1, t2})

-----------------------------------------------------------------------------
(* Properties: those of the modules, where they are explained *)

\* What holds of a volume, in whichever file system it is.
Volume(w, g, e) == (part = "fat" => w) /\ (part = "small fat" => g) /\ (part = "ext2" => e)

\* A write that reports success is what the next read finds (write_file, read_file).
ReadBack == Volume(W!ReadBack, G!ReadBack, E!ReadBack)
\* A call leaves the files that it does not name alone (write_file, delete_file, rename).
Bystanders == Volume(W!Bystanders, G!Bystanders, E!Bystanders)
\* A crash or a refused write damages no more than the call in progress can touch.
DamageConfined == Volume(W!DamageConfined, G!DamageConfined, E!DamageConfined)
\* A rename that reports success leaves the file under the new name, and only there.
RenameKeeps == Volume(W!RenameKeeps, G!RenameKeeps, E!RenameKeeps)
\* fat_free_chain gives every cluster of a deleted or replaced file back.
NoLeak == Volume(W!NoLeak, G!NoLeak, TRUE)
\* The records of e2_dir_add and e2_dir_remove fill their directory block exactly.
RecordsTile == Volume(TRUE, TRUE, E!RecordsTile)
\* What an inode of ext2 points to is marked in the bitmaps (e2_alloc_block).
InUseMarked == Volume(TRUE, TRUE, E!InUseMarked)
\* The free counts of superblock and group agree with the bitmaps (e2_flush_meta).
CountsAgree == Volume(TRUE, TRUE, E!CountsAgree)
\* vfs_fs_lock keeps apart the calls that take it.
LockExcludes == part = "mounts" => V!LockExcludes
\* vfs_route finds the longest mountpoint.
RouteLongest == part = "mounts" => V!RouteLongest
\* Bound entries have their driver on their volume (vfs_mount_hd, vfs_umount_hd).
EntriesBacked == part = "mounts" => V!EntriesBacked
\* A call reaches the volume that it was routed to.
ReachesVolume == part = "mounts" => V!ReachesVolume
\* vfs_prepare_shutdown lets go of every volume.
ReleasesAll == part = "mounts" => V!ReleasesAll
Mountpoints == [i \in 1..n |-> tab[i].mp]
=============================================================================
