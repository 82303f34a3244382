------------------------------- MODULE Buddy --------------------------------
(***************************************************************************)
(* The physical page allocator (pmm.c): power-of-two blocks on one free    *)
(* list per order, split on the way down and merged on the way up.  Every  *)
(* operation runs with interrupts masked.  `holds' is what the callers own *)
(* and is not in the code: a reference pmm_inc_ref refuses to count (the   *)
(* 8-bit count is full) is one its caller believes to have.                *)
(***************************************************************************)
EXTENDS Naturals, SequencesExt

CONSTANTS
    s_max_frames,       \* highest managed frame + 1
    Reserved,           \* the null page, the kernel image, holes of the memory map
    PMM_MAX_ORDER,
    RefMax,             \* 0xFF
    MaxHolds            \* bound: references the callers take to one block

Index == 0..s_max_frames - 1
Order == 0..PMM_MAX_ORDER - 1

VARIABLES
    free_lists,         \* per order, the frames of the list from its head
    mem_map,            \* per frame: order, refcount, buddy (PG_BUDDY)
    s_free_frames,
    holds,              \* per frame: references to the block it heads
    saturated           \* history: a reference was not counted

vars == <<free_lists, mem_map, s_free_frames, holds, saturated>>

Pool == [lists : [Order -> Seq(Index)],
         map : [Index -> [order : Order, refcount : 0..RefMax, buddy : BOOLEAN]]]
Now == [lists |-> free_lists, map |-> mem_map]

list_add(s, o, f) ==
    [lists |-> [s.lists EXCEPT ![o] = <<f>> \o @],
     map |-> [s.map EXCEPT ![f].order = o, ![f].buddy = TRUE]]
list_del(s, o, f) ==
    [lists |-> [s.lists EXCEPT ![o] = SelectSeq(@, LAMBDA g : g # f)],
     map |-> [s.map EXCEPT ![f].buddy = FALSE]]

\* f ^ (1 << o)
BuddyOf(f, o) == IF (f \div 2^o) % 2 = 0 THEN f + 2^o ELSE f - 2^o

buddy_is_free(s, b, o) == b < s_max_frames /\ s.map[b].buddy /\ s.map[b].order = o

\* Faulty variant: one merge only.
MergeOnce(s, f, o) ==
    LET b == BuddyOf(f, o) IN
    IF o < PMM_MAX_ORDER - 1 /\ buddy_is_free(s, b, o)
    THEN list_add(list_del(s, o, b), o + 1, IF b < f THEN b ELSE f)
    ELSE list_add([s EXCEPT !.map[f].refcount = 0], o, f)

\* buddy_free, the counter apart: merge upwards as long as the buddy is free.
RECURSIVE Climb(_, _, _)
Climb(s, f, o) ==
    LET b == BuddyOf(f, o) IN
    IF o < PMM_MAX_ORDER - 1 /\ buddy_is_free(s, b, o)
    THEN Climb(list_del(s, o, b), IF b < f THEN b ELSE f, o + 1)
    ELSE list_add([s EXCEPT !.map[f].refcount = 0], o, f)
buddy_free(s, f, o) == Climb(s, f, o)

\* pmm_alloc_pages: park the upper half of each split on the next lower list.
RECURSIVE Halve(_, _, _, _)
Halve(s, f, o, order) ==
    IF o = order THEN s
    ELSE Halve(list_add(s, o - 1, f + 2^(o - 1)), f, o - 1, order)

\* pmm_init: every usable frame is freed in ascending order.
Empty == [lists |-> [o \in Order |-> <<>>],
          map |-> [f \in Index |-> [order |-> 0, refcount |-> 0, buddy |-> FALSE]]]
Usable == SelectSeq([i \in 1..s_max_frames |-> i - 1], LAMBDA f : f \notin Reserved)
pmm_init == FoldLeft(LAMBDA s, f : buddy_free(s, f, 0), Empty, Usable)
Init ==
    /\ free_lists = pmm_init.lists /\ mem_map = pmm_init.map
    /\ s_free_frames = Len(Usable)
    /\ holds = [f \in Index |-> 0]
    /\ saturated = FALSE

Become(s) == free_lists' = s.lists /\ mem_map' = s.map

\* The smallest order that has a block; none is PMM_ALLOC_ERROR and changes nothing.
IsFound(o, order) ==
    o >= order /\ free_lists[o] # <<>> /\ \A p \in order..o - 1 : free_lists[p] = <<>>
pmm_alloc_pages(order) ==
    \E o \in Order :
        /\ IsFound(o, order)
        /\ LET f == Head(free_lists[o])
               s == Halve(list_del(Now, o, f), f, o, order)
           IN /\ Become([s EXCEPT !.map[f] = [order |-> order, refcount |-> 1, buddy |-> FALSE]])
              /\ holds' = [holds EXCEPT ![f] = 1]
        /\ s_free_frames' = s_free_frames - 2^order
        /\ UNCHANGED saturated

\* By a caller that holds a reference.
pmm_free_pages(f) ==
    /\ holds[f] > 0
    /\ holds' = [holds EXCEPT ![f] = @ - 1]
    /\ CASE mem_map[f].refcount = 0 -> UNCHANGED <<free_lists, mem_map, s_free_frames>>
         [] mem_map[f].refcount = 1 ->
               /\ Become(buddy_free([Now EXCEPT !.map[f].refcount = 0], f, mem_map[f].order))
               /\ s_free_frames' = s_free_frames + 2^mem_map[f].order
         [] OTHER -> /\ mem_map' = [mem_map EXCEPT ![f].refcount = @ - 1]
                     /\ UNCHANGED <<free_lists, s_free_frames>>
    /\ UNCHANGED saturated

Full(f) == mem_map[f].refcount \in {0, RefMax}

\* By a caller that shares a reference it holds.
pmm_inc_ref(f) ==
    /\ holds[f] \in 1..MaxHolds - 1
    /\ holds' = [holds EXCEPT ![f] = @ + 1]
    /\ mem_map' = IF Full(f) THEN mem_map
                  ELSE [mem_map EXCEPT ![f].refcount = @ + 1]
    /\ saturated' = (saturated \/ mem_map[f].refcount = RefMax)
    /\ UNCHANGED <<free_lists, s_free_frames>>

\* Nothing is promised, and nothing is explored, once a reference went uncounted.
Next ==
    /\ ~saturated
    /\ \/ \E order \in Order : pmm_alloc_pages(order)
       \/ \E f \in Index : pmm_free_pages(f) \/ pmm_inc_ref(f)

Spec == Init /\ [][Next]_vars

-----------------------------------------------------------------------------
(* Properties *)

Heads == {f \in Index : mem_map[f].buddy}
Held == {f \in Index : mem_map[f].refcount > 0}
Span(f) == f..f + 2^mem_map[f].order - 1

TypeOK ==
    /\ Now \in Pool
    /\ s_free_frames \in Nat /\ holds \in [Index -> 0..MaxHolds] /\ saturated \in BOOLEAN

\* The blocks on the free lists and the blocks in use share no frame, and together
\* they are every usable frame, each exactly as often as it is counted: splitting
\* and merging neither lose a frame nor hand one out twice (pmm_alloc_pages,
\* buddy_free), and s_free_frames is the number on the lists.
Partition ==
    /\ \A f, g \in Heads \cup Held : f # g => Span(f) \cap Span(g) = {}
    /\ UNION {Span(f) : f \in Heads \cup Held} = Index \ Reserved
    /\ s_free_frames = Cardinality(UNION {Span(f) : f \in Heads})
    /\ Heads \cap Held = {}

\* PG_BUDDY and the recorded order say which list a frame is on, once.
ListsAgree ==
    \A o \in Order :
        /\ ToSet(free_lists[o]) = {f \in Heads : mem_map[f].order = o}
        /\ Len(free_lists[o]) = Cardinality(ToSet(free_lists[o]))

\* Freed memory is merged as far as it goes: no two buddies of one order are both
\* free, after any order of frees; so when everything is free again the largest
\* blocks are back.
Coalesced ==
    \A f \in Heads : LET o == mem_map[f].order IN
        /\ f % 2^o = 0
        /\ o < PMM_MAX_ORDER - 1 =>
              ~(BuddyOf(f, o) \in Heads /\ mem_map[BuddyOf(f, o)].order = o)

\* A block its callers still hold is not given out again: its count is the number of
\* references, as long as none was taken beyond the 8-bit count (pmm_inc_ref returns
\* without counting it, and its caller cannot tell).
HoldersCounted == ~saturated => \A f \in Index : mem_map[f].refcount = holds[f]
=============================================================================
