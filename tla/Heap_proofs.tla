----------------------------- MODULE Heap_proofs -----------------------------
(***************************************************************************)
(* The kernel heap for every region, header size, split minimum, alignment *)
(* and request.  The inductive invariant is TypeOK, Tiled and Owned:       *)
(* Separate alone says nothing about the free blocks that the next kmalloc *)
(* cuts up or that kfree merges.                                           *)
(***************************************************************************)
EXTENDS Heap, TLAPS

\* A leaf is given up after this many seconds.
USE SMTT(60)

HeapInv == TypeOK /\ Tiled /\ Owned

\* Rounding up a request gives a size of the machine's width.
LEMMA RoundedNat ==
    ASSUME NEW size \in 0..SizeMax - 1
    PROVE  Rounded(size) \in Nat
<1> DEFINE s == (size + (Align - 1)) % SizeMax
<1>1. SizeMax \in Nat /\ SizeMax > 0
  BY HeapAssumption
<1>2. s \in Nat
  BY <1>1, HeapAssumption
<1> HIDE DEF s
<1>3. s % Align \in Nat /\ s % Align <= s
  BY <1>2, HeapAssumption, Z3
<1>4. s - (s % Align) \in Nat
  BY <1>2, <1>3
<1> QED
  BY <1>4 DEF Rounded, s

\* ... and, unless it wraps, no less than was asked for.
LEMMA RoundedUp ==
    ASSUME NEW size \in 0..SizeMax - 1, size + (Align - 1) < SizeMax
    PROVE  Rounded(size) >= size
<1> DEFINE s == size + (Align - 1)
<1>1. s \in Nat /\ s % SizeMax = s
  BY HeapAssumption
<1> HIDE DEF s
<1>2. s % Align \in 0..Align - 1
  BY <1>1, HeapAssumption
<1>3. s - (s % Align) >= s - (Align - 1)
  BY <1>1, <1>2, HeapAssumption
<1>4. s - (Align - 1) = size
  BY HeapAssumption DEF s
<1> QED
  BY <1>1, <1>3, <1>4 DEF Rounded, s

\* heap_init lays out one free block.
LEMMA HeapInit == Init => HeapInv
<1> SUFFICES ASSUME Init PROVE HeapInv
  OBVIOUS
<1>1. /\ DOMAIN hdr = {HEAP_START} /\ DOMAIN asked = {} /\ wrapped = FALSE
      /\ hdr[HEAP_START] = [size |-> HEAP_MAX - HEAP_START - BLOCK_HDR_SIZE, is_free |-> TRUE,
                            next |-> NULL]
  BY DEF Init
<1>2. TypeOK
  <2>1. hdr[HEAP_START] \in Block /\ HEAP_START \in Address
    BY <1>1, HeapAssumption DEF Block, Address
  <2> QED
    BY <1>1, <2>1, ZenonT(60) DEF Init, TypeOK
<1>3. End(HEAP_START) = HEAP_MAX
  BY <1>1, HeapAssumption DEF End, User
<1>4. Tiled
  BY <1>1, <1>3, HeapAssumption DEF Tiled
<1>5. Owned
  BY <1>1 DEF Owned
<1> QED
  BY <1>2, <1>4, <1>5 DEF HeapInv

\* kmalloc, cutting the block in two or not, keeps the list a cover of the region.
LEMMA KmallocStep ==
    ASSUME HeapInv, NEW size \in 0..SizeMax - 1, NEW b \in DOMAIN hdr, kmalloc(size, b)
    PROVE  HeapInv'
<1> DEFINE sz == Rounded(size)
<1>1. sz \in Nat
  BY RoundedNat
<1> HIDE DEF sz
<1>2. /\ hdr[b] \in Block /\ b \in Address /\ hdr[b].is_free /\ hdr[b].size >= sz
      /\ hdr' = Claimed(b, sz) /\ asked' = Promise(User(b), size)
      /\ wrapped' = (wrapped \/ size + (Align - 1) >= SizeMax)
  BY DEF kmalloc, IsFirstFit, Fits, HeapInv, TypeOK, sz
<1>3. User(b) \notin DOMAIN asked
  BY <1>2 DEF HeapInv, Owned
<1>4. ~wrapped' => ~wrapped /\ ~(sz < size)
  <2>1. ~wrapped' => ~wrapped /\ ~(size + (Align - 1) >= SizeMax)
    BY <1>2, ZenonT(60)
  <2> QED
    BY <2>1, <1>1, RoundedUp, HeapAssumption DEF sz
<1>5. CASE Splittable(b, sz)
  <2> DEFINE rest == User(b) + sz
  <2>1. hdr' = Cut(b, sz)
    BY <1>2, <1>5 DEF Claimed
  <2>2. rest \in Nat /\ b < rest /\ rest < End(b) /\ rest \in Address /\ End(b) \in Nat
    BY <1>1, <1>2, <1>5, HeapAssumption DEF Splittable, User, End, Address, Block, HeapInv, Tiled
  <2>3. rest \notin DOMAIN hdr
    BY <2>2 DEF HeapInv, Tiled, TypeOK, Address
  <2>4. DOMAIN hdr' = DOMAIN hdr \cup {rest}
    BY <2>1 DEF Cut
  <2>5. /\ hdr'[b] = [size |-> sz, is_free |-> FALSE, next |-> rest]
        /\ hdr'[rest] = [size |-> hdr[b].size - sz - BLOCK_HDR_SIZE, is_free |-> TRUE,
                         next |-> hdr[b].next]
        /\ \A c \in DOMAIN hdr \ {b} : hdr'[c] = hdr[c]
    BY <2>1, <2>2, <2>3 DEF Cut
  <2>6. TypeOK'
    <3>1. hdr'[b] \in Block /\ hdr'[rest] \in Block
      BY <1>1, <1>2, <1>5, <2>2, <2>5, HeapAssumption DEF Block, Splittable, Address
    <3>2. hdr' \in [DOMAIN hdr' -> Block]
      BY <3>1, <2>1, <2>4, <2>5 DEF HeapInv, TypeOK, Cut
    <3>3. asked' \in [DOMAIN asked' -> 0..SizeMax - 1] /\ DOMAIN asked' \subseteq Nat
      BY <1>2, HeapAssumption DEF Promise, HeapInv, TypeOK, User, Address
    <3>4. wrapped' \in BOOLEAN
      BY <1>2 DEF HeapInv, TypeOK
    <3> QED
      BY <3>2, <3>3, <3>4, <2>2, <2>4 DEF HeapInv, TypeOK
  <2>7. Tiled'
    <3>1. End(b)' = rest /\ End(rest)' = End(b) /\ \A c \in DOMAIN hdr \ {b} : End(c)' = End(c)
      BY <1>1, <1>2, <2>2, <2>5, HeapAssumption DEF End, User, Block, Address, HeapInv, TypeOK
    <3>2. \A c \in DOMAIN hdr : c \in Nat /\ End(c) \in Nat
      BY HeapAssumption DEF End, User, Block, Address, HeapInv, TypeOK
    <3>3. ASSUME NEW c \in DOMAIN hdr'
          PROVE  /\ hdr'[c].next = IF End(c)' = HEAP_MAX THEN NULL ELSE End(c)'
                 /\ End(c)' # HEAP_MAX => End(c)' \in DOMAIN hdr'
                 /\ End(c)' <= HEAP_MAX
      BY <3>1, <3>2, <2>2, <2>4, <2>5, HeapAssumption DEF HeapInv, Tiled
    <3>4. ASSUME NEW c \in DOMAIN hdr', NEW d \in DOMAIN hdr', c < d
          PROVE  End(c)' <= d
      BY <3>1, <3>2, <3>4, <2>2, <2>4, HeapAssumption DEF HeapInv, Tiled
    <3> QED
      BY <3>3, <3>4, <2>4 DEF HeapInv, Tiled
  <2>8. Owned'
    <3>1. \A c \in DOMAIN hdr : c \in Nat
      BY HeapAssumption DEF Address, HeapInv, TypeOK
    <3>2. DOMAIN asked' = DOMAIN asked \cup {User(b)}
      BY <1>2 DEF Promise
    <3>3. User(rest) \notin DOMAIN asked
      <4> SUFFICES ASSUME User(rest) \in DOMAIN asked PROVE FALSE
        OBVIOUS
      <4>1. User(rest) - BLOCK_HDR_SIZE = rest
        BY <2>2, HeapAssumption DEF User
      <4> QED
        BY <4>1, <2>3 DEF HeapInv, Owned
    <3>4. User(rest) # User(b) /\ \A c \in DOMAIN hdr \ {b} : User(c) # User(b)
      BY <3>1, <2>2, HeapAssumption DEF User
    <3>5. \A c \in DOMAIN hdr' : ~hdr'[c].is_free <=> User(c) \in DOMAIN asked'
      BY <3>2, <3>3, <3>4, <2>4, <2>5 DEF HeapInv, Owned
    <3>6. User(b) - BLOCK_HDR_SIZE = b
      BY <1>2, HeapAssumption DEF User, Address
    <3>7. \A p \in DOMAIN asked' : p - BLOCK_HDR_SIZE \in DOMAIN hdr'
      BY <3>2, <3>6, <2>4 DEF HeapInv, Owned
    <3>8. ASSUME ~wrapped', NEW p \in DOMAIN asked'
          PROVE  hdr'[p - BLOCK_HDR_SIZE].size >= asked'[p]
      <4>1. CASE p = User(b)
        <5>1. asked'[p] = size /\ hdr'[b].size = sz
          BY <4>1, <1>2, <2>5 DEF Promise
        <5> QED
          BY <5>1, <4>1, <3>6, <3>8, <1>1, <1>4
      <4>2. CASE p # User(b)
        <5>1. p \in DOMAIN asked /\ asked'[p] = asked[p] /\ ~wrapped
          BY <4>2, <3>2, <3>8, <1>2, <1>4 DEF Promise
        <5>2. p - BLOCK_HDR_SIZE \in DOMAIN hdr \ {b}
          BY <5>1, <4>2, HeapAssumption DEF HeapInv, Owned, User, TypeOK
        <5> QED
          BY <5>1, <5>2, <2>5 DEF HeapInv, Owned
      <4> QED
        BY <4>1, <4>2
    <3> QED
      BY <3>5, <3>7, <3>8 DEF Owned, User
  <2> QED
    BY <2>6, <2>7, <2>8 DEF HeapInv
<1>6. CASE ~Splittable(b, sz)
  <2>1. /\ hdr' = Whole(b) /\ DOMAIN hdr' = DOMAIN hdr
        /\ hdr'[b] = [hdr[b] EXCEPT !.is_free = FALSE]
        /\ \A c \in DOMAIN hdr \ {b} : hdr'[c] = hdr[c]
    BY <1>2, <1>6 DEF Claimed, Whole, HeapInv, TypeOK
  <2>2. TypeOK'
    <3>1. hdr' \in [DOMAIN hdr' -> Block]
      <4>1. hdr'[b] \in Block
        BY <2>1, <1>2, ZenonT(60) DEF Block
      <4> QED
        BY <4>1, <2>1 DEF Whole, HeapInv, TypeOK
    <3>2. asked' \in [DOMAIN asked' -> 0..SizeMax - 1] /\ DOMAIN asked' \subseteq Nat
      BY <1>2, HeapAssumption DEF Promise, HeapInv, TypeOK, User, Address
    <3> QED
      BY <3>1, <3>2, <2>1, <1>2 DEF HeapInv, TypeOK
  <2>3. \A c \in DOMAIN hdr : hdr'[c].size = hdr[c].size /\ hdr'[c].next = hdr[c].next
    BY <2>1, <1>2 DEF Block
  <2>4. Tiled'
    BY <2>1, <2>3 DEF HeapInv, Tiled, End, User
  <2>5. Owned'
    <3>1. \A c \in DOMAIN hdr : c \in Nat
      BY HeapAssumption DEF Address, HeapInv, TypeOK
    <3>2. DOMAIN asked' = DOMAIN asked \cup {User(b)}
      BY <1>2 DEF Promise
    <3>3. \A c \in DOMAIN hdr \ {b} : User(c) # User(b)
      BY <3>1, HeapAssumption DEF User
    <3>4. \A c \in DOMAIN hdr' : ~hdr'[c].is_free <=> User(c) \in DOMAIN asked'
      BY <3>2, <3>3, <2>1, <1>2 DEF HeapInv, Owned, Block
    <3>5. User(b) - BLOCK_HDR_SIZE = b
      BY <1>2, HeapAssumption DEF User, Address
    <3>6. \A p \in DOMAIN asked' : p - BLOCK_HDR_SIZE \in DOMAIN hdr'
      BY <3>2, <3>5, <2>1 DEF HeapInv, Owned
    <3>7. ASSUME ~wrapped', NEW p \in DOMAIN asked'
          PROVE  hdr'[p - BLOCK_HDR_SIZE].size >= asked'[p]
      <4>1. CASE p = User(b)
        <5>1. asked'[p] = size /\ hdr'[b].size = hdr[b].size /\ hdr[b].size \in Nat
          BY <4>1, <1>2, <2>3 DEF Promise, Block
        <5> QED
          BY <5>1, <4>1, <3>5, <3>7, <1>1, <1>2, <1>4
      <4>2. CASE p # User(b)
        <5>1. p \in DOMAIN asked /\ asked'[p] = asked[p] /\ ~wrapped
          BY <4>2, <3>2, <3>7, <1>2, ZenonT(60) DEF Promise
        <5> QED
          BY <5>1, <2>3 DEF HeapInv, Owned
      <4> QED
        BY <4>1, <4>2
    <3> QED
      BY <3>4, <3>6, <3>7 DEF Owned, User
  <2> QED
    BY <2>2, <2>4, <2>5 DEF HeapInv
<1> QED
  BY <1>5, <1>6

\* kfree, whatever it merges, keeps it too.
LEMMA KfreeStep ==
    ASSUME HeapInv, NEW b \in DOMAIN hdr, NEW l \in DOMAIN hdr, kfree(b, l)
    PROVE  HeapInv'
<1>1. /\ User(b) \in DOMAIN asked /\ IsLast(l, b) /\ wrapped' = wrapped
      /\ hdr' = Merged(b, l) /\ asked' = Without(User(b))
  BY DEF kfree
<1>2. \A c \in DOMAIN hdr : c \in Address /\ c \in Nat /\ hdr[c] \in Block /\ End(c) \in Nat
                            /\ User(c) \in Nat /\ c < User(c) /\ User(c) <= End(c)
  BY HeapAssumption DEF HeapInv, TypeOK, Address, Block, End, User
<1>3. b \notin Run(b) /\ b <= l /\ \A c \in Run(b) : b < c /\ c <= l
  BY <1>1, <1>2 DEF Run, IsLast
<1>4. \A c \in DOMAIN hdr : b < c /\ c <= l => c \in Run(b)
  BY <1>1, <1>2 DEF Run, IsLast
<1>5. \A c \in Run(b) : c \in DOMAIN hdr /\ hdr[c].is_free
  BY <1>2 DEF Run
<1>6. /\ DOMAIN hdr' = DOMAIN hdr \ Run(b)
      /\ hdr'[b] = [size |-> End(l) - User(b), is_free |-> TRUE, next |-> hdr[l].next]
      /\ \A c \in DOMAIN hdr' \ {b} : hdr'[c] = hdr[c]
  BY <1>1, <1>3 DEF Merged
<1>7. User(b) <= End(l) /\ End(l) <= HEAP_MAX
  <2>1. CASE l = b
    BY <2>1, <1>2 DEF HeapInv, Tiled
  <2>2. CASE l # b
    BY <2>2, <1>2, <1>3 DEF HeapInv, Tiled, End
  <2> QED
    BY <2>1, <2>2
<1>8. TypeOK'
  <2>1. hdr'[b] \in Block
    BY <1>2, <1>6, <1>7, HeapAssumption DEF Block
  <2>2. hdr' \in [DOMAIN hdr' -> Block]
    BY <2>1, <1>1, <1>2, <1>6 DEF Merged
  <2>3. asked' \in [DOMAIN asked' -> 0..SizeMax - 1] /\ DOMAIN asked' \subseteq Nat
    BY <1>1 DEF Without, HeapInv, TypeOK
  <2> QED
    BY <2>2, <2>3, <1>1, <1>6 DEF HeapInv, TypeOK
<1>9. Tiled'
  <2>1. End(b)' = End(l) /\ \A c \in DOMAIN hdr' \ {b} : End(c)' = End(c)
    <3>1. hdr'[b].size = End(l) - User(b)
      BY <1>6
    <3>2. User(b) + (End(l) - User(b)) = End(l)
      BY <1>2
    <3> QED
      BY <3>1, <3>2, <1>6 DEF End, User
  <2>2. HEAP_START \in DOMAIN hdr'
    BY <1>2, <1>3, <1>6, HeapAssumption DEF HeapInv, Tiled, Address
  <2>3. ASSUME NEW c \in DOMAIN hdr'
        PROVE  /\ hdr'[c].next = IF End(c)' = HEAP_MAX THEN NULL ELSE End(c)'
               /\ End(c)' # HEAP_MAX => End(c)' \in DOMAIN hdr'
               /\ End(c)' <= HEAP_MAX
    <3>1. CASE c = b
      <4>1. End(l) \notin Run(b)
        BY <1>2, <1>3
      <4> QED
        BY <3>1, <4>1, <2>1, <1>2, <1>6 DEF HeapInv, Tiled
    <3>2. CASE c < b
      <4>1. End(c) <= b
        BY <3>2, <1>6 DEF HeapInv, Tiled
      <4>2. End(c) \notin Run(b)
        BY <4>1, <1>2, <1>3, <1>6
      <4> QED
        BY <3>2, <4>2, <2>1, <1>2, <1>6 DEF HeapInv, Tiled
    <3>3. CASE b < c
      <4>1. l < c
        BY <3>3, <1>2, <1>4, <1>6
      <4>2. End(c) \notin Run(b)
        BY <4>1, <1>2, <1>3, <1>6
      <4> QED
        BY <3>3, <4>2, <2>1, <1>2, <1>6 DEF HeapInv, Tiled
    <3> QED
      BY <3>1, <3>2, <3>3, <1>2, <1>6
  <2>4. ASSUME NEW c \in DOMAIN hdr', NEW d \in DOMAIN hdr', c < d
        PROVE  End(c)' <= d
    <3>1. CASE c = b
      <4>1. l < d
        BY <3>1, <2>4, <1>2, <1>4, <1>6
      <4> QED
        BY <3>1, <4>1, <2>1, <1>2, <1>6 DEF HeapInv, Tiled
    <3>2. CASE c # b
      BY <3>2, <2>1, <2>4, <1>6 DEF HeapInv, Tiled
    <3> QED
      BY <3>1, <3>2
  <2> QED
    BY <2>2, <2>3, <2>4 DEF Tiled
<1>10. Owned'
  <2>1. DOMAIN asked' = DOMAIN asked \ {User(b)}
        /\ \A p \in DOMAIN asked' : asked'[p] = asked[p]
    BY <1>1 DEF Without
  <2>2. \A c \in DOMAIN hdr : User(c) = User(b) => c = b
    BY <1>2, HeapAssumption DEF User
  <2>3. \A c \in DOMAIN hdr' : ~hdr'[c].is_free <=> User(c) \in DOMAIN asked'
    BY <2>1, <2>2, <1>6 DEF HeapInv, Owned
  <2>4. ASSUME NEW p \in DOMAIN asked'
        PROVE  p - BLOCK_HDR_SIZE \in DOMAIN hdr' \ {b}
    <3>1. p \in DOMAIN asked /\ p # User(b) /\ p \in Nat
      BY <2>1 DEF HeapInv, TypeOK
    <3>2. p - BLOCK_HDR_SIZE \in DOMAIN hdr /\ User(p - BLOCK_HDR_SIZE) = p
      BY <3>1, HeapAssumption DEF HeapInv, Owned, User
    <3>3. ~hdr[p - BLOCK_HDR_SIZE].is_free
      BY <3>1, <3>2 DEF HeapInv, Owned
    <3> QED
      BY <3>1, <3>2, <3>3, <1>5, <1>6
  <2>5. ASSUME ~wrapped', NEW p \in DOMAIN asked'
        PROVE  hdr'[p - BLOCK_HDR_SIZE].size >= asked'[p]
    BY <2>1, <2>4, <2>5, <1>1, <1>6 DEF HeapInv, Owned
  <2> QED
    BY <2>3, <2>4, <2>5 DEF Owned, User
<1> QED
  BY <1>8, <1>9, <1>10 DEF HeapInv

\* A block that krealloc keeps is large enough already.
LEMMA KreallocStep ==
    ASSUME HeapInv, NEW size \in 0..SizeMax - 1, NEW b \in DOMAIN hdr, krealloc_kept(b, size)
    PROVE  HeapInv'
<1>1. /\ User(b) \in DOMAIN asked /\ hdr[b].size >= size /\ hdr' = hdr /\ wrapped' = wrapped
      /\ asked' = [asked EXCEPT ![User(b)] = size]
  BY DEF krealloc_kept, Keeps
<1>2. /\ asked' \in [DOMAIN asked -> 0..SizeMax - 1] /\ DOMAIN asked' = DOMAIN asked
      /\ asked'[User(b)] = size
      /\ \A p \in DOMAIN asked \ {User(b)} : asked'[p] = asked[p]
  BY <1>1 DEF HeapInv, TypeOK
<1>3. TypeOK'
  BY <1>1, <1>2 DEF HeapInv, TypeOK
<1>4. Tiled'
  BY <1>1 DEF HeapInv, Tiled, End, User
<1>5. User(b) - BLOCK_HDR_SIZE = b
  BY HeapAssumption DEF HeapInv, TypeOK, User, Address
<1>6. ASSUME ~wrapped, NEW p \in DOMAIN asked
      PROVE  hdr[p - BLOCK_HDR_SIZE].size >= asked'[p]
  BY <1>1, <1>2, <1>5, <1>6 DEF HeapInv, Owned
<1>7. Owned'
  BY <1>1, <1>2, <1>6 DEF HeapInv, Owned, User
<1> QED
  BY <1>3, <1>4, <1>7 DEF HeapInv

\* The block list of heap.c covers the heap without gap or overlap, and its blocks
\* in use are the pointers handed out, after any sequence of calls.
THEOREM HeapInvariant == Spec => [](TypeOK /\ Tiled /\ Owned)
<1>1. Init => HeapInv
  BY HeapInit
<1>2. HeapInv /\ [Next]_vars => HeapInv'
  <2> SUFFICES ASSUME HeapInv, [Next]_vars PROVE HeapInv'
    OBVIOUS
  <2>1. CASE Next
    BY <2>1, KmallocStep, KreallocStep, KfreeStep DEF Next
  <2>2. CASE UNCHANGED vars
    BY <2>2 DEF vars, HeapInv, TypeOK, Tiled, Owned, End, User
  <2> QED
    BY <2>1, <2>2
<1> QED
  BY <1>1, <1>2, PTL DEF Spec, HeapInv

\* What two owners were promised by kmalloc or krealloc never overlaps.
THEOREM HeapSeparate == Spec => []Separate
<1>1. TypeOK /\ Tiled /\ Owned => Separate
  <2> SUFFICES ASSUME TypeOK, Tiled, Owned, ~wrapped,
                      NEW p \in DOMAIN asked, NEW q \in DOMAIN asked, p < q
               PROVE  p + asked[p] <= q - BLOCK_HDR_SIZE
    BY DEF Separate
  <2> DEFINE b == p - BLOCK_HDR_SIZE
             c == q - BLOCK_HDR_SIZE
  <2>1. b \in DOMAIN hdr /\ c \in DOMAIN hdr /\ hdr[b].size >= asked[p]
    BY DEF Owned
  <2>2. b \in Nat /\ c \in Nat /\ p \in Nat /\ q \in Nat /\ asked[p] \in Nat /\ hdr[b].size \in Nat
    BY <2>1, HeapAssumption DEF TypeOK, Address, Block
  <2>3. b < c /\ End(b) = p + hdr[b].size
    BY <2>2, HeapAssumption DEF End, User
  <2>4. End(b) <= c
    BY <2>1, <2>3 DEF Tiled
  <2> QED
    BY <2>1, <2>2, <2>3, <2>4, HeapAssumption
<1> QED
  BY <1>1, HeapInvariant, PTL

\* The kernel heap is sound: a gapless cover, the blocks in use those handed out and
\* large enough, no two of them overlapping.
THEOREM HeapIsSound == Spec => []HeapSound
<1>1. TypeOK /\ Tiled /\ Owned /\ Separate => HeapSound
  BY DEF HeapSound
<1> QED
  BY <1>1, HeapInvariant, HeapSeparate, PTL
=============================================================================
