------------------------------ MODULE MCMemory -------------------------------
(***************************************************************************)
(* The services that hand out memory, side by side: the page allocator,    *)
(* the kernel heap, the allocator of programs, the page cache and the      *)
(* surfaces.  They meet only through the frame counts of Frames, so each   *)
(* behaviour moves one of them, chosen at the start, and what is checked   *)
(* of each is what would be checked of it alone.                           *)
(***************************************************************************)
EXTENDS Heap, TLC

CONSTANTS Task, File, Frame, Id, NoFrame, Nobody, Departed, FrameRefMax

VARIABLES
    part,
    free_lists, mem_map, s_free_frames, holds, saturated,
    blocks, free_list, s_heap_end, user_brk, promised, grown, flaws,
    refcount, content, version, s_pages, lru, s_fs_owner, op, mapped, stale, ended,
    counts, surf, page_dir, life, private, crossed

buddyVars == <<free_lists, mem_map, s_free_frames, holds, saturated>>
mallocVars == <<blocks, free_list, s_heap_end, user_brk, promised, grown, flaws>>
cacheVars == <<refcount, content, version, s_pages, lru, s_fs_owner, op, mapped, stale, ended>>
surfaceVars == <<counts, surf, page_dir, life, private, crossed>>
allVars == <<part, vars, buddyVars, mallocVars, cacheVars, surfaceVars>>

B == INSTANCE Buddy WITH
        s_max_frames <- 8, Reserved <- {0, 3}, PMM_MAX_ORDER <- 3, RefMax <- 2, MaxHolds <- 3
M == INSTANCE Malloc WITH
        BrkBase <- 8, PageSize <- 8, ALIGN <- 2, HDR_BYTES <- 3, SizeMax <- 64, SignLimit <- 32,
        hdr <- blocks, asked <- promised
\* The cache with a slot for each file, and with one slot that the files take turns in.
C == INSTANCE PageCache WITH RefMax <- FrameRefMax, PC_NPAGES <- 2, MaxVersion <- 1
C1 == INSTANCE PageCache WITH RefMax <- FrameRefMax, PC_NPAGES <- 1, MaxVersion <- 1
S == INSTANCE Surfaces WITH
        RefMax <- FrameRefMax, refcount <- counts, Page <- {1, 2}, SURFACE_MAP_SLOTS <- 2,
        Crossing <- {"munmap", "fork", "execve", "sigreturn"}

MCInit ==
    /\ part \in {"buddy", "heap", "malloc", "cache", "slot", "surfaces"}
    /\ Init /\ B!Init /\ M!Init /\ S!Init
    /\ IF part = "slot" THEN C1!Init ELSE C!Init

MCNext ==
    /\ UNCHANGED part
    /\ \/ part = "heap" /\ Next /\ UNCHANGED <<buddyVars, mallocVars, cacheVars, surfaceVars>>
       \/ part = "buddy" /\ B!Next /\ UNCHANGED <<vars, mallocVars, cacheVars, surfaceVars>>
       \/ part = "malloc" /\ M!Next /\ UNCHANGED <<vars, buddyVars, cacheVars, surfaceVars>>
       \/ part = "cache" /\ C!Next /\ UNCHANGED <<vars, buddyVars, mallocVars, surfaceVars>>
       \/ part = "slot" /\ C1!Next /\ UNCHANGED <<vars, buddyVars, mallocVars, surfaceVars>>
       \/ part = "surfaces" /\ S!Next /\ UNCHANGED <<vars, buddyVars, mallocVars, cacheVars>>

MCSpec == MCInit /\ [][MCNext]_allVars

Symmetry == Permutations(Task) \cup Permutations(Frame) \cup Permutations(File)

\* What a free frame holds is not looked at.
View ==
    <<part, vars, buddyVars, mallocVars, surfaceVars, refcount, version, s_pages, lru,
      s_fs_owner, op, mapped, stale, ended,
      [f \in Frame |-> IF refcount[f] = 0 THEN C!NoData ELSE content[f]]>>

-----------------------------------------------------------------------------
(* Properties: those of the modules, where they are explained *)

\* Splitting and merging in pmm.c lose no frame and give out none twice.
Partition == B!Partition
\* The free lists of pmm.c are what PG_BUDDY and the order of a frame say.
ListsAgree == B!ListsAgree
\* buddy_free leaves no two free buddies of one order unmerged.
Coalesced == B!Coalesced
\* A block's refcount is the number of references its callers hold, until it is full.
HoldersCounted == B!HoldersCounted
\* The frames of pmm.c are managed without loss: the four above, and the types.
BuddySound == B!TypeOK /\ Partition /\ ListsAgree /\ Coalesced /\ HoldersCounted

\* The blocks of malloc.c cover the program's heap.
BlocksTile == M!BlocksTile
\* The free list of malloc.c is in address order, unmerged only where the heap grew.
ListOrdered == M!ListOrdered
\* Every free block of malloc.c is on the list, unless realloc cut one.
NothingLost == M!NothingLost
\* What malloc.c promised its callers does not overlap.
PromisesKept == M!PromisesKept
\* The heap of a program is sound after every malloc, free and realloc of malloc.c.
MallocSound == M!TypeOK /\ BlocksTile /\ ListOrdered /\ NothingLost /\ PromisesKept

\* A valid slot of pagecache.c holds what the disk holds of its file, unless it was
\* read while the file was being written.
CacheCoherent == IF part = "slot" THEN C1!CacheCoherent ELSE C!CacheCoherent
\* pc_get never refills a frame that a program has mapped.
MappedStable == IF part = "slot" THEN C1!MappedStable ELSE C!MappedStable
\* The count of a frame is the number of its holders in pagecache.c.
CacheRefs == IF part = "slot" THEN C1!CacheRefs ELSE C!CacheRefs
\* pagecache.c is a cache: the three above, with an LRU list that is a permutation of the slots.
CacheSound ==
    /\ IF part = "slot" THEN C1!TypeOK ELSE C!TypeOK
    /\ CacheCoherent /\ MappedStable /\ CacheRefs

\* Shared surfaces are mapped, shown and freed as surface.c promises.
SurfacesSound == S!SurfacesSound
=============================================================================
