-------------------------------- MODULE Heap --------------------------------
(***************************************************************************)
(* The kernel heap (heap.c): first fit over a list of blocks that covers   *)
(* the whole region, each behind a header.  Each of kmalloc and kfree is   *)
(* one action: the list is only touched with interrupts masked.  `asked'   *)
(* is what the callers were promised: it is not in the code.               *)
(***************************************************************************)
EXTENDS Integers

CONSTANTS
    HEAP_START, HEAP_MAX,
    BLOCK_HDR_SIZE, SPLIT_MIN,
    Align,          \* 4
    SizeMax         \* 2^32: size_t wraps there

ASSUME HeapAssumption ==
    /\ HEAP_START \in Nat \ {0} /\ HEAP_MAX \in Nat /\ SizeMax \in Nat
    /\ BLOCK_HDR_SIZE \in Nat \ {0} /\ SPLIT_MIN \in Nat /\ Align \in Nat \ {0}
    /\ HEAP_START + BLOCK_HDR_SIZE <= HEAP_MAX /\ HEAP_MAX <= SizeMax

NULL == 0
Address == HEAP_START..HEAP_MAX

VARIABLES
    hdr,        \* the headers: where the list has a block, its size, is_free and next
    asked,      \* pointers in use and the size their owner asked for
    wrapped     \* history: a request so large that rounding it up wrapped

vars == <<hdr, asked, wrapped>>

Block == [size : 0..HEAP_MAX, is_free : BOOLEAN, next : Address \cup {NULL}]

\* heap_init
Init ==
    /\ hdr = [b \in {HEAP_START} |->
                [size |-> HEAP_MAX - HEAP_START - BLOCK_HDR_SIZE, is_free |-> TRUE, next |-> NULL]]
    /\ asked = [p \in {} |-> 0]
    /\ wrapped = FALSE

User(b) == b + BLOCK_HDR_SIZE       \* the pointer handed out
End(b) == User(b) + hdr[b].size     \* the first byte behind the block

\* (size + 3u) & ~3u
Rounded(size) == LET s == (size + (Align - 1)) % SizeMax IN s - (s % Align)

Splittable(b, size) == hdr[b].size >= size + BLOCK_HDR_SIZE + SPLIT_MIN

Fits(b, size) == hdr[b].is_free /\ hdr[b].size >= size
IsFirstFit(b, size) ==
    /\ b \in DOMAIN hdr /\ Fits(b, size)
    /\ \A c \in DOMAIN hdr : Fits(c, size) => b <= c

\* The block is cut in two, or handed out whole.
Cut(b, size) ==
    LET rest == User(b) + size IN
    [c \in DOMAIN hdr \cup {rest} |->
        IF c = b THEN [size |-> size, is_free |-> FALSE, next |-> rest]
        ELSE IF c = rest THEN [size |-> hdr[b].size - size - BLOCK_HDR_SIZE, is_free |-> TRUE,
                               next |-> hdr[b].next]
        ELSE hdr[c]]
Whole(b) == [hdr EXCEPT ![b].is_free = FALSE]
Claimed(b, size) == IF Splittable(b, size) THEN Cut(b, size) ELSE Whole(b)

Promise(p, size) == [q \in DOMAIN asked \cup {p} |-> IF q = p THEN size ELSE asked[q]]
Without(p) == [q \in DOMAIN asked \ {p} |-> asked[q]]

\* `size = 0' and an exhausted heap return NULL and change nothing.
kmalloc(size, b) ==
    /\ size # 0
    /\ IsFirstFit(b, Rounded(size))
    /\ hdr' = Claimed(b, Rounded(size))
    /\ asked' = Promise(User(b), size)
    /\ wrapped' = (wrapped \/ size + (Align - 1) >= SizeMax)

\* The loop of kfree: a block takes in the free blocks behind it, up to one in use.
Run(b) == {c \in DOMAIN hdr : b < c /\ \A d \in DOMAIN hdr : b < d /\ d <= c => hdr[d].is_free}
IsLast(l, b) == l \in Run(b) \cup {b} /\ \A c \in Run(b) : c <= l

Merged(b, l) ==
    [c \in DOMAIN hdr \ Run(b) |->
        IF c = b THEN [size |-> End(l) - User(b), is_free |-> TRUE, next |-> hdr[l].next]
        ELSE hdr[c]]

\* By the owner of the pointer.
kfree(b, l) ==
    /\ b \in DOMAIN hdr /\ User(b) \in DOMAIN asked
    /\ IsLast(l, b)
    /\ hdr' = Merged(b, l)
    /\ asked' = Without(User(b))
    /\ UNCHANGED wrapped

\* Faulty variant: counts the header as room.
KeepsLoose(b, size) == hdr[b].size + BLOCK_HDR_SIZE >= size
Keeps(b, size) == hdr[b].size >= size

\* krealloc: a block that is large enough stays; else kmalloc, copy, kfree, between
\* which others may allocate.
krealloc_kept(b, size) ==
    /\ size # 0
    /\ b \in DOMAIN hdr /\ User(b) \in DOMAIN asked
    /\ Keeps(b, size)
    /\ asked' = [asked EXCEPT ![User(b)] = size]
    /\ UNCHANGED <<hdr, wrapped>>

Next ==
    \/ \E size \in 0..SizeMax - 1, b \in DOMAIN hdr : kmalloc(size, b) \/ krealloc_kept(b, size)
    \/ \E b, l \in DOMAIN hdr : kfree(b, l)

Spec == Init /\ [][Next]_vars

-----------------------------------------------------------------------------
(* Properties *)

TypeOK ==
    /\ DOMAIN hdr \subseteq Address /\ hdr \in [DOMAIN hdr -> Block]
    /\ asked \in [DOMAIN asked -> 0..SizeMax - 1] /\ DOMAIN asked \subseteq Nat
    /\ wrapped \in BOOLEAN

\* The list covers the region: it starts at HEAP_START, every block ends where the
\* next one begins and the last one ends at HEAP_MAX, whatever has been split and
\* merged; so following next never leaves the heap and no two blocks overlap.
Tiled ==
    /\ HEAP_START \in DOMAIN hdr
    /\ \A b \in DOMAIN hdr :
        /\ hdr[b].next = IF End(b) = HEAP_MAX THEN NULL ELSE End(b)
        /\ End(b) # HEAP_MAX => End(b) \in DOMAIN hdr
        /\ End(b) <= HEAP_MAX
        /\ \A c \in DOMAIN hdr : b < c => End(b) <= c

\* The blocks in use are exactly those of the pointers handed out, and each is as
\* large as its owner asked for, as long as no request was so large that rounding
\* it up to the alignment wrapped to a small one.
Owned ==
    /\ {b \in DOMAIN hdr : ~hdr[b].is_free} = {b \in DOMAIN hdr : User(b) \in DOMAIN asked}
    /\ \A p \in DOMAIN asked : p - BLOCK_HDR_SIZE \in DOMAIN hdr
    /\ ~wrapped => \A p \in DOMAIN asked : hdr[p - BLOCK_HDR_SIZE].size >= asked[p]

\* What two owners were promised never overlaps.
Separate ==
    ~wrapped => \A p, q \in DOMAIN asked : p < q => p + asked[p] <= q - BLOCK_HDR_SIZE

\* All three, of every state that kmalloc, kfree and krealloc reach.
HeapSound == Tiled /\ Owned /\ Separate
=============================================================================
