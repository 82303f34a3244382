------------------------------- MODULE Malloc -------------------------------
(***************************************************************************)
(* The user-space allocator (userspace/malloc.c): first fit over an        *)
(* address-sorted list of free blocks, grown with SYS_BRK.  A program is   *)
(* one thread, so each call is one action.  `asked' is what the program    *)
(* was promised and is not in the code.                                    *)
(***************************************************************************)
EXTENDS Integers, SequencesExt

CONSTANTS
    BrkBase,            \* the break when the program starts
    PageSize, ALIGN, HDR_BYTES,
    SizeMax,            \* 2^32
    SignLimit           \* 2^31: sys_brk's answer is read as a signed number

MIN_BLOCK == HDR_BYTES + ALIGN

VARIABLES
    hdr,            \* where a header was written: size and the free flag
    free_list,      \* the addresses on the list, from s_free_head
    s_heap_end,
    user_brk,       \* the kernel's break (SYS_BRK)
    asked,          \* pointers in use and the size asked for
    grown,          \* history: where grow_heap put a block
    flaws           \* history: "wrapped" (a size wrapped), "shrunk" (realloc cut a
                    \* block), "overshot" (a break past SignLimit), "killed"

vars == <<hdr, free_list, s_heap_end, user_brk, asked, grown, flaws>>

Init ==
    /\ hdr = [b \in {} |-> 0] /\ free_list = <<>> /\ asked = [p \in {} |-> 0]
    /\ s_heap_end = BrkBase /\ user_brk = BrkBase
    /\ grown = {} /\ flaws = {}

round_up(v, a) == LET s == (v + (a - 1)) % SizeMax IN s - (s % a)
Larger(a, b) == IF a < b THEN b ELSE a

\* What a request takes with its header; malloc rounds it up to MIN_BLOCK, realloc does not.
\* Faulty variant: leaves out the header.
NeedsBare(sz) == round_up(sz, ALIGN)
Needs(sz) == round_up((sz + HDR_BYTES) % SizeMax, ALIGN)
Wants(sz) == Larger(Needs(sz), MIN_BLOCK)

Put(h, b, size, free) ==
    [c \in DOMAIN h \cup {b} |-> IF c = b THEN [size |-> size, free |-> free] ELSE h[c]]
Promise(p, sz) == [q \in DOMAIN asked \cup {p} |-> IF q = p THEN sz ELSE asked[q]]
Without(p) == [q \in DOMAIN asked \ {p} |-> asked[q]]

Cuts(size, want) == size >= want + MIN_BLOCK

\* split_block and unlink_free on a block of the list: the tail takes its place there.
Carved(h, b, want) ==
    IF Cuts(h[b].size, want)
    THEN Put(Put(h, b, want, FALSE), b + want, h[b].size - want, TRUE)
    ELSE Put(h, b, h[b].size, FALSE)
Relisted(h, list, b, want) ==
    LET rest == IF Cuts(h[b].size, want) THEN <<b + want>> ELSE <<>>
        i == CHOOSE j \in DOMAIN list : list[j] = b
    IN SubSeq(list, 1, i - 1) \o rest \o SubSeq(list, i + 1, Len(list))

WrappedBy(sz) == IF Needs(sz) < sz THEN {"wrapped"} ELSE {}
Hand(h, list, b, sz) ==
    /\ hdr' = Carved(h, b, Wants(sz)) /\ free_list' = Relisted(h, list, b, Wants(sz))
    /\ asked' = Promise(b + HDR_BYTES, sz)
    /\ flaws' = flaws \cup WrappedBy(sz)

IsFirstFit(i, want) ==
    /\ hdr[free_list[i]].size >= want
    /\ \A j \in 1..i - 1 : hdr[free_list[j]].size < want
NoFit(want) == \A i \in DOMAIN free_list : hdr[free_list[i]].size < want

malloc_fit(sz) ==
    /\ sz # 0
    /\ \E i \in DOMAIN free_list :
         IsFirstFit(i, Wants(sz)) /\ Hand(hdr, free_list, free_list[i], sz)
    /\ UNCHANGED <<s_heap_end, user_brk, grown>>

NewEnd(want) == (s_heap_end + round_up(want, PageSize)) % SizeMax
\* SYS_BRK never refuses and never shrinks; brk_set reads a large answer as a failure.
SYS_BRK(new_end) == Larger(new_end, user_brk)
Grows(want) == SYS_BRK(NewEnd(want)) < SignLimit

\* grow_heap appends the new block at the end of the list; it is not merged with the
\* free block in front of it.
malloc_grow(sz) ==
    LET want == Wants(sz) IN
    /\ sz # 0 /\ NoFit(want) /\ Grows(want) /\ NewEnd(want) > s_heap_end
    /\ user_brk' = SYS_BRK(NewEnd(want))
    /\ s_heap_end' = NewEnd(want)
    /\ grown' = grown \cup {s_heap_end}
    /\ Hand(Put(hdr, s_heap_end, NewEnd(want) - s_heap_end, TRUE), Append(free_list, s_heap_end),
            s_heap_end, sz)

\* The answer is read as a failure, but the kernel has moved the break.
malloc_fails(sz) ==
    LET want == Wants(sz) IN
    /\ sz # 0 /\ NoFit(want) /\ ~Grows(want)
    /\ user_brk' = SYS_BRK(NewEnd(want))
    /\ flaws' = flaws \cup {"overshot"}
    /\ UNCHANGED <<hdr, free_list, s_heap_end, asked, grown>>

\* The new end wrapped: the header goes past the break, and the fault kills the program.
malloc_wraps(sz) ==
    LET want == Wants(sz) IN
    /\ sz # 0 /\ NoFit(want) /\ Grows(want) /\ NewEnd(want) <= s_heap_end
    /\ flaws' = flaws \cup {"killed"}
    /\ UNCHANGED <<hdr, free_list, s_heap_end, user_brk, asked, grown>>

MergedAhead(h, list, b) ==
    LET After == {i \in DOMAIN list : list[i] = b + h[b].size}
        size == h[b].size + (IF After = {} THEN 0 ELSE h[b + h[b].size].size)
    IN [hdr |-> Put([c \in DOMAIN h \ {list[i] : i \in After} |-> h[c]], b, size, TRUE),
        list |-> SelectSeq(list, LAMBDA c : c # b + h[b].size)]
\* free_insert_coalesce, behind the insertion: with the next block of the list if it
\* starts where b ends, then with the previous one if it ends where b starts.
Merged(h, list, b) ==
    LET m == MergedAhead(h, list, b)
        Before == {c \in ToSet(m.list) : c + m.hdr[c].size = b}
    IN IF Before = {} THEN m
       ELSE LET c == CHOOSE c \in Before : TRUE IN
            [hdr |-> Put([d \in DOMAIN m.hdr \ {b} |-> m.hdr[d]], c,
                         m.hdr[c].size + m.hdr[b].size, TRUE),
             list |-> SelectSeq(m.list, LAMBDA d : d # b)]

\* In front of the first listed block of a higher address.
Inserted(list, b) ==
    SelectSeq(list, LAMBDA c : c < b) \o <<b>> \o SelectSeq(list, LAMBDA c : c > b)

\* By the owner of the pointer.
free(p) ==
    LET b == p - HDR_BYTES
        m == Merged(Put(hdr, b, hdr[b].size, TRUE), Inserted(free_list, b), b)
    IN /\ p \in DOMAIN asked /\ ~hdr[b].free
       /\ hdr' = m.hdr /\ free_list' = m.list
       /\ asked' = Without(p)
       /\ UNCHANGED <<s_heap_end, user_brk, grown, flaws>>

\* A block that is large enough stays where it is.  What split_block cuts off is marked
\* free but, the block not being on the list, put on no list.  (A larger one is
\* malloc, a copy, and free.)
realloc_kept(p, sz) ==
    LET b == p - HDR_BYTES
        want == Needs(sz)
    IN /\ p \in DOMAIN asked /\ sz # 0 /\ hdr[b].size >= want
       /\ hdr' = IF Cuts(hdr[b].size, want)
                 THEN Put(Put(hdr, b, want, FALSE), b + want, hdr[b].size - want, TRUE) ELSE hdr
       /\ asked' = Promise(p, sz)
       /\ flaws' = flaws \cup WrappedBy(sz)
                         \cup (IF Cuts(hdr[b].size, want) THEN {"shrunk"} ELSE {})
       /\ UNCHANGED <<free_list, s_heap_end, user_brk, grown>>

\* Nothing is promised, and nothing is explored, after a size wrapped or a fault.
Next ==
    /\ flaws \cap {"wrapped", "killed"} = {}
    /\ \/ \E sz \in 0..SizeMax - 1 :
            \/ malloc_fit(sz) \/ malloc_grow(sz) \/ malloc_fails(sz) \/ malloc_wraps(sz)
       \/ \E p \in DOMAIN asked : free(p)
       \/ \E p \in DOMAIN asked, sz \in 0..SizeMax - 1 : realloc_kept(p, sz)

Spec == Init /\ [][Next]_vars

-----------------------------------------------------------------------------
(* Properties *)

Block == [size : 0..SizeMax, free : BOOLEAN]

TypeOK ==
    /\ hdr \in [DOMAIN hdr -> Block] /\ DOMAIN hdr \subseteq BrkBase..SignLimit
    /\ asked \in [DOMAIN asked -> 0..SizeMax - 1]
    /\ ToSet(free_list) \subseteq DOMAIN hdr
    /\ s_heap_end \in BrkBase..SignLimit /\ user_brk \in BrkBase..SizeMax
    /\ grown \subseteq BrkBase..SignLimit
    /\ flaws \subseteq {"wrapped", "shrunk", "overshot", "killed"}

\* The blocks cover the heap from its base to its end: each ends where another
\* begins, after any splits, merges and growth; and each has room for its
\* header, unless a size wrapped.
BlocksTile ==
    /\ s_heap_end > BrkBase => BrkBase \in DOMAIN hdr
    /\ \A b \in DOMAIN hdr :
         /\ "wrapped" \notin flaws => hdr[b].size >= HDR_BYTES
         /\ b + hdr[b].size \in DOMAIN hdr \cup {s_heap_end}
         /\ \A c \in DOMAIN hdr : b < c => b + hdr[b].size <= c

\* The list is in address order ("Free blocks are kept in a singly-linked list in
\* address order"), its blocks are free, and two neighbours are left unmerged only
\* where the heap grew.
ListOrdered ==
    \A i \in 1..Len(free_list) :
        /\ hdr[free_list[i]].free
        /\ i > 1 => /\ free_list[i - 1] < free_list[i]
                    /\ free_list[i - 1] + hdr[free_list[i - 1]].size = free_list[i]
                         => free_list[i] \in grown

\* Every free block can be allocated again, until realloc shortens a block: the part
\* it cuts off is on no list.
NothingLost ==
    "shrunk" \notin flaws =>
        {b \in DOMAIN hdr : hdr[b].free} = ToSet(free_list)

\* What the program was promised never overlaps and lies inside the heap, as long as
\* no size wrapped; shortening a block keeps that too.
PromisesKept ==
    "wrapped" \notin flaws =>
        \A p \in DOMAIN asked :
            /\ p + asked[p] <= s_heap_end
            /\ \A q \in DOMAIN asked : p < q => p + asked[p] <= q - HDR_BYTES
=============================================================================
