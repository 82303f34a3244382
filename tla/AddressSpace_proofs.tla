------------------------ MODULE AddressSpace_proofs ------------------------
(***************************************************************************)
(* Private address spaces, for any number of tasks, frames and pages.      *)
(* PagingInv is the inductive invariant: that counts are exact needs to    *)
(* know that a directory names a frame once (or 255 would not be enough)   *)
(* and what a half-built directory holds when it is unwound; that a        *)
(* writable page has no other holder needs the counts, by which            *)
(* try_handle_cow_fault decides.                                           *)
(***************************************************************************)
EXTENDS AddressSpace, FiniteSetTheorems, TLAPS

\* A leaf is given up after this many seconds.
USE ZenonT(60)

Pd == [Page -> Pte]
Names(pd, f) == \E v \in Page : pd[v].frame = f
Count(pd, f) == IF Names(pd, f) THEN 1 ELSE 0

-----------------------------------------------------------------------------
(* Counting the entries that name a frame *)

LEMMA PagesFinite == IsFiniteSet(Page) /\ IsFiniteSet(Task \X Page)
<1>1. 0 \in Int /\ NPages - 1 \in Int
  BY AddressSpaceAssumption, SMTT(60)
<1>2. IsFiniteSet(Page)
  BY <1>1, FS_Interval DEF Page
<1> QED
  BY <1>2, FS_Product, AddressSpaceAssumption

\* The entries of all directories that name a frame can be counted.
LEMMA HoldersFinite ==
    ASSUME NEW pds, NEW f
    PROVE  IsFiniteSet(Holders(pds, f)) /\ Cardinality(Holders(pds, f)) \in Nat
  BY PagesFinite, FS_Subset, FS_CardinalityType DEF Holders

\* Who holds a frame, entry by entry.
LEMMA HoldersAre ==
    ASSUME NEW pds, NEW f
    PROVE  /\ Holders(pds, f) = {} <=> \A u \in Task, x \in Page : pds[u][x].frame # f
           /\ \A t \in Task, v \in Page :
                Holders(pds, f) = {<<t, v>>}
                    <=> \A u \in Task, x \in Page : pds[u][x].frame = f <=> u = t /\ x = v
<1>1. \A u \in Task, x \in Page : <<u, x>> \in Holders(pds, f) <=> pds[u][x].frame = f
  BY DEF Holders
<1>2. \A h \in Holders(pds, f) : \E u \in Task, x \in Page : h = <<u, x>>
  BY SMTT(60) DEF Holders
<1>3. ASSUME NEW t \in Task, NEW v \in Page
      PROVE  Holders(pds, f) = {<<t, v>>}
                <=> \A u \in Task, x \in Page : pds[u][x].frame = f <=> u = t /\ x = v
  <2>1. ASSUME Holders(pds, f) = {<<t, v>>}, NEW u \in Task, NEW x \in Page
        PROVE  pds[u][x].frame = f <=> u = t /\ x = v
    BY <1>1, <2>1
  <2>2. ASSUME \A u \in Task, x \in Page : pds[u][x].frame = f <=> u = t /\ x = v
        PROVE  Holders(pds, f) = {<<t, v>>}
    <3>1. <<t, v>> \in Holders(pds, f)
      BY <1>1, <2>2
    <3>2. ASSUME NEW h \in Holders(pds, f) PROVE h = <<t, v>>
      BY <1>1, <1>2, <2>2, <3>2, SMTT(60)
    <3> QED
      BY <3>1, <3>2
  <2> QED
    BY <2>1, <2>2
<1>4. Holders(pds, f) = {} <=> \A u \in Task, x \in Page : pds[u][x].frame # f
  <2>1. ASSUME NEW h \in Holders(pds, f) PROVE \E u \in Task, x \in Page : pds[u][x].frame = f
    BY <1>1, <1>2, <2>1, SMTT(60)
  <2>2. ASSUME NEW u \in Task, NEW x \in Page, pds[u][x].frame = f PROVE Holders(pds, f) # {}
    BY <1>1, <2>2
  <2> QED
    BY <2>1, <2>2
<1> QED
  BY <1>3, <1>4

\* Directories that name the same frames in the same places count alike.
LEMMA SameFrames ==
    ASSUME NEW pds, NEW pds2, NEW f,
           \A t \in Task, v \in Page : pds2[t][v].frame = pds[t][v].frame
    PROVE  Holders(pds2, f) = Holders(pds, f)
  BY DEF Holders

\* vmm_free_pd drops a frame once: a sound directory names it once or not at all.
LEMMA ReferencesAre ==
    ASSUME NEW pd \in Pd, SoundPd(pd), NEW f \in Frame
    PROVE  References(pd)[f] = IF Names(pd, f) THEN 1 ELSE 0
<1>1. CASE Names(pd, f)
  <2>1. PICK v \in Page : pd[v].frame = f
    BY <1>1 DEF Names
  <2>2. {u \in Page : pd[u].frame = f} = {v}
    BY <2>1, FramesAssumption DEF SoundPd
  <2> QED
    BY <1>1, <2>2, FS_Singleton DEF References
<1>2. CASE ~Names(pd, f)
  <2>1. {u \in Page : pd[u].frame = f} = {}
    BY <1>2 DEF Names
  <2> QED
    BY <1>2, <2>1, FS_EmptySet DEF References
<1> QED
  BY <1>1, <1>2

\* The holders of a frame are those outside one directory, and at most one inside it.
LEMMA OneDirectory ==
    ASSUME NEW pds, NEW t \in Task, SoundPd(pds[t]), NEW f \in Frame
    PROVE  Cardinality(Holders(pds, f))
            = Cardinality({h \in Holders(pds, f) : h[1] # t})
              + (IF Names(pds[t], f) THEN 1 ELSE 0)
<1> DEFINE K == {h \in Holders(pds, f) : h[1] # t}
           c == Cardinality(K)
<1>0. IsFiniteSet(K) /\ Cardinality(K) \in Nat
  BY HoldersFinite, FS_Subset, FS_CardinalityType
<1>1. CASE Names(pds[t], f)
  <2>1. PICK v \in Page : pds[t][v].frame = f
    BY <1>1 DEF Names
  <2>2. Holders(pds, f) = K \cup {<<t, v>>}
    <3>1. ASSUME NEW h \in Holders(pds, f), h[1] = t PROVE h = <<t, v>>
      BY <2>1, <3>1, FramesAssumption, SMTT(60) DEF Holders, SoundPd
    <3> QED
      BY <2>1, <3>1, SMTT(60) DEF Holders
  <2>3. <<t, v>> \notin K
    OBVIOUS
  <2>4. Cardinality(K \cup {<<t, v>>}) = c + 1
    BY <1>0, <2>3, FS_AddElement
  <2> QED
    BY <1>1, <2>2, <2>4
<1>2. CASE ~Names(pds[t], f)
  <2>1. Holders(pds, f) = K
    BY <1>2 DEF Holders, Names
  <2>2. c + 0 = c
    BY <1>0, Z3
  <2> QED
    BY <1>2, <2>1, <2>2
<1> QED
  BY <1>1, <1>2

\* What replacing one directory does to the number of holders.
LEMMA Replaced ==
    ASSUME NEW pds, NEW new, NEW t \in Task, \A u \in Task : u # t => new[u] = pds[u],
           SoundPd(pds[t]), SoundPd(new[t]), NEW f \in Frame
    PROVE  Cardinality(Holders(new, f))
            = Cardinality(Holders(pds, f)) - Count(pds[t], f) + Count(new[t], f)
<1> DEFINE K == {h \in Holders(pds, f) : h[1] # t}
<1>1. {h \in Holders(new, f) : h[1] # t} = K
  BY DEF Holders
<1>2. Cardinality(K) \in Nat
  BY HoldersFinite, FS_Subset, FS_CardinalityType
<1>3. Cardinality(Holders(pds, f)) = Cardinality(K) + Count(pds[t], f)
  BY OneDirectory DEF Count
<1>4. Cardinality(Holders(new, f)) = Cardinality(K) + Count(new[t], f)
  BY <1>1, OneDirectory, SMTT(60) DEF Count
<1> QED
  BY <1>2, <1>3, <1>4, SMTT(60) DEF Count

\* A frame has at most one holder per directory.
LEMMA AtMostTasks ==
    ASSUME NEW pds, \A t \in Task : SoundPd(pds[t]), NEW f \in Frame
    PROVE  Cardinality(Holders(pds, f)) <= Cardinality(Task)
<1> DEFINE H == Holders(pds, f)
           owner == [h \in H |-> h[1]]
<1>1. owner \in [H -> Task]
  BY DEF Holders
<1>2. ASSUME NEW g \in H, NEW h \in H, owner[g] = owner[h] PROVE g = h
  <2>1. g[1] = h[1] /\ g = <<g[1], g[2]>> /\ h = <<h[1], h[2]>>
    BY <1>2, SMTT(60) DEF Holders
  <2>2. g[2] = h[2]
    BY <2>1, FramesAssumption, SMTT(60) DEF Holders, SoundPd
  <2> QED
    BY <2>1, <2>2
<1>3. owner \in Injection(H, Task)
  BY <1>1, <1>2 DEF Injection, IsInjective
<1> QED
  BY <1>3, FS_Injection, AddressSpaceAssumption

-----------------------------------------------------------------------------
(* Single entries and directories *)

LEMMA EmptySound ==
    /\ EmptyPd \in Pd /\ SoundPd(EmptyPd) /\ NoPte \in Pte
    /\ \A f \in Frame : ~Names(EmptyPd, f)
  BY FramesAssumption DEF EmptyPd, Pd, NoPte, Pte, SoundPd, Names

\* A directory stays sound when an entry gets a frame that the directory does not name.
LEMMA EntrySound ==
    ASSUME NEW pd, SoundPd(pd), NEW v \in Page, NEW new, \A u \in Page : u # v => new[u] = pd[u],
           new[v].frame = NoFrame => new[v] = NoPte,
           new[v].frame \in {pd[v].frame, NoFrame} \/ ~Names(pd, new[v].frame)
    PROVE  /\ SoundPd(new)
           /\ \A f \in Frame : Names(new, f) <=> f = new[v].frame \/ (f # pd[v].frame /\ Names(pd, f))
<1>1. SoundPd(new)
  BY SMTT(60) DEF SoundPd, Names
<1>2. \A f \in Frame : Names(new, f) <=> f = new[v].frame \/ (f # pd[v].frame /\ Names(pd, f))
  BY FramesAssumption DEF SoundPd, Names
<1> QED
  BY <1>1, <1>2

\* A frame on the free lists is in no directory.
LEMMA FreeUnnamed ==
    ASSUME PagingInv, NEW f \in Free(refcount)
    PROVE  /\ f \in Frame /\ f # NoFrame /\ refcount[f] = 0 /\ Named(f) = 0
           /\ \A t \in Task, v \in Page : page_dir[t][v].frame # f /\ new_pd[t][v].frame # f
<1>1. f \in Frame /\ refcount[f] = 0 /\ f # NoFrame
  BY FramesAssumption DEF Free
<1>2. /\ Cardinality(Holders(page_dir, f)) = 0 /\ Cardinality(Holders(new_pd, f)) = 0
      /\ Named(f) = 0
  BY <1>1, HoldersFinite, SMTT(60) DEF PagingInv, RefcountExact, Named
<1>3. Holders(page_dir, f) = {} /\ Holders(new_pd, f) = {}
  BY <1>2, HoldersFinite, FS_EmptySet
<1> QED
  BY <1>1, <1>2, <1>3, HoldersAre, SMTT(60)

\* A frame in some directory is not on the free lists.
LEMMA NamedNotFree ==
    ASSUME PagingInv, NEW t \in Task, NEW f \in Frame, Names(page_dir[t], f) \/ Names(new_pd[t], f)
    PROVE  refcount[f] > 0 /\ refcount[f] \in Nat /\ f \notin Free(refcount)
<1>1. refcount[f] \in Nat
  BY FramesAssumption, SMTT(60) DEF PagingInv, TypeOK
<1>2. f \notin Free(refcount)
  BY FreeUnnamed DEF Names
<1> QED
  BY <1>1, <1>2, SMTT(60) DEF Free

\* What a step that replaces a directory of t and a new_pd of u does to the count.
LEMMA NamedStep ==
    ASSUME PagingInv, NEW t \in Task, NEW u \in Task,
           SoundPd(page_dir'[t]), SoundPd(new_pd'[u]),
           \A x \in Task : x # t => page_dir'[x] = page_dir[x],
           \A x \in Task : x # u => new_pd'[x] = new_pd[x],
           NEW f \in Frame
    PROVE  /\ Named(f)' = Named(f) - Count(page_dir[t], f) + Count(page_dir'[t], f)
                          - Count(new_pd[u], f) + Count(new_pd'[u], f)
           /\ Named(f) \in Nat /\ Named(f)' \in Nat
<1>1. SoundPd(page_dir[t]) /\ SoundPd(new_pd[u])
  BY DEF PagingInv, PdsSound
<1>2. Cardinality(Holders(page_dir', f))
        = Cardinality(Holders(page_dir, f)) - Count(page_dir[t], f) + Count(page_dir'[t], f)
  BY <1>1, Replaced, SMTT(60)
<1>3. Cardinality(Holders(new_pd', f))
        = Cardinality(Holders(new_pd, f)) - Count(new_pd[u], f) + Count(new_pd'[u], f)
  BY <1>1, Replaced, SMTT(60)
<1>4. /\ Cardinality(Holders(page_dir, f)) \in Nat /\ Cardinality(Holders(new_pd, f)) \in Nat
      /\ Cardinality(Holders(page_dir', f)) \in Nat /\ Cardinality(Holders(new_pd', f)) \in Nat
  BY HoldersFinite
<1> QED
  BY <1>2, <1>3, <1>4, SMTT(60) DEF Count, Named

-----------------------------------------------------------------------------
(* What every step has to show *)

\* The entry <<t, v>> is the only one, in use or under construction, with its frame.
Alone(pds, nds, t, v) ==
    \A u \in Task, x \in Page :
        /\ pds[u][x].frame = pds[t][v].frame <=> u = t /\ x = v
        /\ nds[u][x].frame # pds[t][v].frame

LEMMA SoleIsAlone ==
    /\ WritableIsSole <=>
        \A t \in Task, v \in Page :
            life[t] = "live" /\ page_dir[t][v].w => Alone(page_dir, new_pd, t, v)
    /\ WritableIsSole' <=>
        \A t \in Task, v \in Page :
            life'[t] = "live" /\ page_dir'[t][v].w => Alone(page_dir', new_pd', t, v)
<1>1. ASSUME NEW pds, NEW nds, NEW t \in Task, NEW v \in Page
      PROVE  Alone(pds, nds, t, v) <=> /\ Holders(pds, pds[t][v].frame) = {<<t, v>>}
                                       /\ Holders(nds, pds[t][v].frame) = {}
  <2>1. Holders(nds, pds[t][v].frame) = {}
            <=> \A u \in Task, x \in Page : nds[u][x].frame # pds[t][v].frame
    BY HoldersAre, SMTT(60)
  <2>2. Holders(pds, pds[t][v].frame) = {<<t, v>>}
            <=> \A u \in Task, x \in Page : pds[u][x].frame = pds[t][v].frame <=> u = t /\ x = v
    BY HoldersAre, SMTT(60)
  <2> QED
    BY <2>1, <2>2 DEF Alone
<1>2. \A t \in Task, v \in Page :
        /\ Alone(page_dir, new_pd, t, v) <=> /\ Holders(page_dir, page_dir[t][v].frame) = {<<t, v>>}
                                            /\ Holders(new_pd, page_dir[t][v].frame) = {}
        /\ Alone(page_dir', new_pd', t, v) <=>
                /\ Holders(page_dir', page_dir'[t][v].frame) = {<<t, v>>}
                /\ Holders(new_pd', page_dir'[t][v].frame) = {}
  BY <1>1
<1> QED
  BY <1>2 DEF WritableIsSole

\* Only the stack page of t's new directory has frame f.
PrivateTo(pds, nds, t, f) ==
    \A u \in Task, x \in Page :
        /\ pds[u][x].frame # f
        /\ nds[u][x].frame = f <=> u = t /\ x = StackPage

Stack(f) == [EmptyPd EXCEPT ![StackPage] = Writable(f)]

LEMMA LoadedIsPrivate ==
    ASSUME NEW t \in Task
    PROVE  /\ StackPage \in Page
           /\ Loaded(t) <=> \E f \in Frame : /\ new_pd[t] = Stack(f) /\ content[f] = Fresh
                                             /\ PrivateTo(page_dir, new_pd, t, f)
           /\ Loaded(t)' <=> \E f \in Frame : /\ new_pd'[t] = Stack(f) /\ content'[f] = Fresh
                                              /\ PrivateTo(page_dir', new_pd', t, f)
<1>1. StackPage \in Page
  BY AddressSpaceAssumption, SMTT(60) DEF StackPage, Page
<1>2. ASSUME NEW pds, NEW nds, NEW f
      PROVE  PrivateTo(pds, nds, t, f)
                <=> Holders(pds, f) = {} /\ Holders(nds, f) = {<<t, StackPage>>}
  BY <1>1, HoldersAre, SMTT(60) DEF PrivateTo
<1> QED
  BY <1>1, <1>2 DEF Loaded, Stack

\* The state besides the directories has its types.
RestOK ==
    /\ refcount \in [Frame -> 0..RefMax] /\ content \in [Frame -> Content]
    /\ life \in [Task -> {"unused", "live", "dead"}]
    /\ mmap_next \in [Task -> 0..NPages]
    /\ call \in [Task -> {"user", "fork", "exec", "exec-fresh", "reap"}]
    /\ cloned \in [Task -> Page \cup {NPages}]
    /\ cut \in BOOLEAN

\* A step replaces at most the directory of one task t and the new_pd of one task u.
\* The frames it puts there were in one of the two, or free: so it cannot touch what
\* other tasks may write or have loaded, and what is left to show is about t and u.
LEMMA PdStep ==
    ASSUME PagingInv, NEW t \in Task, NEW u \in Task,
           page_dir' \in [Task -> Pd], new_pd' \in [Task -> Pd],
           SoundPd(page_dir'[t]), SoundPd(new_pd'[u]),
           \A x \in Task : x # t => page_dir'[x] = page_dir[x],
           \A x \in Task : x # u => new_pd'[x] = new_pd[x],
           \A f \in Frame : Names(page_dir'[t], f) \/ Names(new_pd'[u], f) =>
                Names(page_dir[t], f) \/ Names(new_pd[u], f) \/ f \in Free(refcount),
           RestOK',
           \A f \in Frame : refcount'[f] >= Named(f)' /\ (cut' \/ refcount'[f] = Named(f)'),
           \A x \in Task \ {t} : life'[x] = "live" => life[x] = "live",
           \A x \in Task \ {t, u} :
                /\ life'[x] = life[x] /\ call'[x] = call[x] /\ cloned'[x] = cloned[x]
                /\ \A f \in Frame : PrivateTo(page_dir, new_pd, x, f) => content'[f] = content[f],
           PhaseOK(t)', PhaseOK(u)',
           \A v \in Page : life'[t] = "live" /\ page_dir'[t][v].w => Alone(page_dir', new_pd', t, v)
    PROVE  PagingInv'
<1>1. TypeOK'
  BY DEF RestOK, TypeOK, Pd
<1>2. PdsSound'
  BY DEF PagingInv, PdsSound
<1>3. RefcountExact'
  BY DEF RefcountExact
<1>4. page_dir \in [Task -> Pd] /\ new_pd \in [Task -> Pd]
  BY DEF PagingInv, TypeOK, Pd
<1>5. ASSUME NEW x \in Task \ {t, u} PROVE PhaseOK(x)'
  <2>1. PhaseOK(x) /\ page_dir'[x] = page_dir[x] /\ new_pd'[x] = new_pd[x]
    BY DEF PagingInv, PhasesOK
  <2>2. ASSUME Loaded(x) PROVE Loaded(x)'
    <3>1. PICK f \in Frame : /\ new_pd[x] = Stack(f) /\ content[f] = Fresh
                             /\ PrivateTo(page_dir, new_pd, x, f)
      BY <2>2, LoadedIsPrivate
    <3>2. StackPage \in Page /\ Names(new_pd[x], f)
      BY <3>1, LoadedIsPrivate, SMTT(60) DEF PrivateTo, Names
    <3>3. ~Names(page_dir[t], f) /\ ~Names(new_pd[u], f) /\ f \notin Free(refcount)
      BY <3>1, <3>2, NamedNotFree DEF PrivateTo, Names
    <3>4. PrivateTo(page_dir', new_pd', x, f)
      <4>1. ~Names(page_dir'[t], f) /\ ~Names(new_pd'[u], f)
        BY <3>3
      <4> QED
        BY <3>1, <4>1, SMTT(60) DEF PrivateTo, Names
    <3> QED
      BY <2>1, <3>1, <3>4, LoadedIsPrivate
  <2> QED
    BY <2>1, <2>2 DEF PhaseOK
<1>6. PhasesOK'
  BY <1>5 DEF PhasesOK
<1>7. ASSUME NEW x \in Task, NEW v \in Page, x # t, life'[x] = "live", page_dir'[x][v].w
      PROVE  Alone(page_dir', new_pd', x, v)
  <2>1. page_dir'[x] = page_dir[x] /\ life[x] = "live" /\ Alone(page_dir, new_pd, x, v)
    BY <1>7, SoleIsAlone DEF PagingInv
  <2> DEFINE f == page_dir[x][v].frame
  <2>2. f \in Frame /\ Names(page_dir[x], f)
    BY <1>4, <1>7, <2>1, SMTT(60) DEF PagingInv, PdsSound, SoundPd, NoPte, Pd, Pte, Names
  <2>3. ~Names(page_dir[t], f) /\ ~Names(new_pd[u], f) /\ f \notin Free(refcount)
    BY <1>7, <2>1, <2>2, NamedNotFree, SMTT(60) DEF Alone, Names
  <2>4. ~Names(page_dir'[t], f) /\ ~Names(new_pd'[u], f)
    BY <2>2, <2>3
  <2> QED
    BY <1>7, <2>1, <2>4, SMTT(60) DEF Alone, Names
<1>8. WritableIsSole'
  BY <1>7, SoleIsAlone
<1> QED
  BY <1>1, <1>2, <1>3, <1>6, <1>8 DEF PagingInv

\* PagingInv, about one task.
LEMMA Basics ==
    ASSUME PagingInv, NEW t \in Task
    PROVE  /\ page_dir \in [Task -> Pd] /\ new_pd \in [Task -> Pd]
           /\ page_dir[t] \in Pd /\ SoundPd(page_dir[t])
           /\ new_pd[t] \in Pd /\ SoundPd(new_pd[t])
           /\ PhaseOK(t) /\ RestOK
  BY DEF PagingInv, TypeOK, PdsSound, PhasesOK, RestOK, Pd

\* A count of 1 is the faulting task's own: what try_handle_cow_fault relies on.
LEMMA CountOne ==
    ASSUME PagingInv, NEW t \in Task, NEW v \in Page, page_dir[t][v].frame \in Frame,
           Sole(refcount, page_dir[t][v].frame)
    PROVE  Alone(page_dir, new_pd, t, v)
<1> DEFINE f == page_dir[t][v].frame
           a == Cardinality(Holders(page_dir, f))
           b == Cardinality(Holders(new_pd, f))
<1>1. a \in Nat /\ b \in Nat /\ IsFiniteSet(Holders(page_dir, f)) /\ IsFiniteSet(Holders(new_pd, f))
  BY HoldersFinite
<1>2. <<t, v>> \in Holders(page_dir, f)
  BY DEF Holders
<1>3. a # 0
  BY <1>1, <1>2, FS_EmptySet
<1>4. refcount[f] \in Nat /\ refcount[f] <= 1 /\ refcount[f] >= a + b
  BY FramesAssumption, SMTT(60) DEF PagingInv, TypeOK, RefcountExact, Named, Sole
<1>5. a = 1 /\ b = 0
  BY <1>1, <1>3, <1>4, SMTT(60)
<1>6. Holders(new_pd, f) = {}
  BY <1>1, <1>5, FS_EmptySet
<1>7. PICK h : Holders(page_dir, f) = {h}
  BY <1>1, <1>5, FS_Singleton
<1>8. Holders(page_dir, f) = {<<t, v>>}
  BY <1>2, <1>7
<1>9. \A u \in Task, x \in Page : page_dir[u][x].frame = f <=> u = t /\ x = v
  BY <1>8, HoldersAre, SMTT(60)
<1>10. \A u \in Task, x \in Page : new_pd[u][x].frame # f
  BY <1>6, HoldersAre, SMTT(60)
<1> QED
  BY <1>9, <1>10 DEF Alone

Less(f, old, new) == IF f = old /\ f # new THEN 1 ELSE 0

\* A running program's entry is replaced: by a free frame, by nothing, or by other
\* rights to the same frame, and the count follows.
LEMMA EntryStep ==
    ASSUME PagingInv, NEW t \in Task, NEW v \in Page, NEW pte \in Pte,
           User(t), SetPte(t, v, pte), UNCHANGED <<life, call, new_pd, cloned, cut>>, RestOK',
           pte.frame = NoFrame => pte = NoPte,
           pte.frame \in {page_dir[t][v].frame, NoFrame} \cup Free(refcount),
           \A f \in Frame : refcount'[f] = refcount[f] - Less(f, page_dir[t][v].frame, pte.frame)
                                           + Less(f, pte.frame, page_dir[t][v].frame),
           pte.w => \/ pte.frame \in Free(refcount)
                    \/ pte.frame = page_dir[t][v].frame /\ Alone(page_dir, new_pd, t, v),
           \A x \in Task \ {t}, f \in Frame : PrivateTo(page_dir, new_pd, x, f) => content'[f] = content[f]
    PROVE  PagingInv'
<1> DEFINE old == page_dir[t][v].frame
<1>1. /\ page_dir \in [Task -> Pd] /\ new_pd \in [Task -> Pd] /\ page_dir[t] \in Pd
      /\ SoundPd(page_dir[t]) /\ PhaseOK(t) /\ RestOK /\ SoundPd(new_pd[t])
  BY Basics
<1>2. /\ page_dir'[t][v] = pte /\ \A x \in Page : x # v => page_dir'[t][x] = page_dir[t][x]
      /\ page_dir' \in [Task -> Pd]
      /\ \A x \in Task : x # t => page_dir'[x] = page_dir[x]
  BY <1>1 DEF SetPte, Pd
<1>3. /\ pte.frame \in {old, NoFrame} \/ ~Names(page_dir[t], pte.frame)
      /\ pte.frame \in Free(refcount) => pte.frame \in Frame /\ pte.frame # old
  BY FreeUnnamed DEF Names
<1>4. /\ SoundPd(page_dir'[t])
      /\ \A f \in Frame : Names(page_dir'[t], f) <=> f = pte.frame \/ (f # old /\ Names(page_dir[t], f))
  BY <1>1, <1>2, <1>3, EntrySound, SMTT(60)
<1>5. new_pd' = new_pd /\ new_pd[t] = EmptyPd /\ life[t] = "live" /\ call[t] = "user" /\ cloned[t] = 0
  BY <1>1 DEF User, At, PhaseOK
<1>6. ASSUME NEW f \in Frame
      PROVE  refcount'[f] >= Named(f)' /\ (cut' \/ refcount'[f] = Named(f)')
  <2>1. /\ Named(f)' = Named(f) - Count(page_dir[t], f) + Count(page_dir'[t], f)
                          - Count(new_pd[t], f) + Count(new_pd'[t], f)
        /\ Named(f) \in Nat /\ Named(f)' \in Nat
    BY <1>1, <1>2, <1>4, <1>5, NamedStep
  <2>2. Count(new_pd'[t], f) = Count(new_pd[t], f) /\ Count(new_pd[t], f) \in Nat
    BY <1>5 DEF Count
  <2>3. Count(page_dir'[t], f) - Count(page_dir[t], f) = Less(f, pte.frame, old) - Less(f, old, pte.frame)
    <3>1. f = old => Names(page_dir[t], f)
      BY DEF Names
    <3>2. f = pte.frame /\ f # old => ~Names(page_dir[t], f)
      BY <1>3, FramesAssumption
    <3> QED
      BY <1>4, <3>1, <3>2, SMTT(60) DEF Count, Less
  <2>4. refcount[f] \in Nat /\ refcount[f] >= Named(f) /\ (cut \/ refcount[f] = Named(f))
    BY FramesAssumption, SMTT(60) DEF PagingInv, TypeOK, RefcountExact
  <2>5. Count(page_dir'[t], f) \in Nat /\ Count(page_dir[t], f) \in Nat
        /\ Less(f, pte.frame, old) \in Nat /\ Less(f, old, pte.frame) \in Nat
    BY DEF Count, Less
  <2>6. Named(f)' = Named(f) + Less(f, pte.frame, old) - Less(f, old, pte.frame)
    BY <2>1, <2>2, <2>3, <2>5, SMTT(60)
  <2> QED
    BY <2>1, <2>4, <2>5, <2>6, SMTT(60)
<1>7. PhaseOK(t)'
  BY <1>1, <1>5 DEF PhaseOK
<1>8. ASSUME NEW x \in Page, life'[t] = "live", page_dir'[t][x].w
      PROVE  Alone(page_dir', new_pd', t, x)
  <2>1. CASE x # v
    <3>1. page_dir'[t][x] = page_dir[t][x] /\ Alone(page_dir, new_pd, t, x)
      BY <1>1, <1>2, <1>5, <1>8, <2>1, SoleIsAlone DEF PagingInv, Pd
    <3>2. page_dir[t][x].frame \in Frame /\ Names(page_dir[t], page_dir[t][x].frame)
      BY <1>1, <1>8, <3>1, SMTT(60) DEF SoundPd, NoPte, Pd, Pte, Names
    <3>3. pte.frame # page_dir[t][x].frame
      BY <2>1, <3>1, <3>2, NamedNotFree, FramesAssumption DEF Alone
    <3> QED
      BY <1>1, <1>2, <1>5, <2>1, <3>1, <3>3, SMTT(60) DEF Alone, Pd
  <2>2. CASE x = v
    <3>1. page_dir'[t][x] = pte
      BY <1>1, <1>2, <2>2 DEF Pd
    <3>2. CASE pte.frame \in Free(refcount)
      <4>1. \A u \in Task, y \in Page : page_dir[u][y].frame # pte.frame /\ new_pd[u][y].frame # pte.frame
        BY <3>2, FreeUnnamed
      <4> QED
        BY <1>1, <1>2, <1>5, <2>2, <3>1, <4>1, SMTT(60) DEF Alone, Pd
    <3>3. CASE pte.frame = old /\ Alone(page_dir, new_pd, t, v)
      BY <1>1, <1>2, <1>5, <2>2, <3>1, <3>3, SMTT(60) DEF Alone, Pd
    <3> QED
      BY <1>8, <3>1, <3>2, <3>3
  <2> QED
    BY <2>1, <2>2
<1>9. \A f \in Frame : Names(page_dir'[t], f) \/ Names(new_pd'[t], f) =>
        Names(page_dir[t], f) \/ Names(new_pd[t], f) \/ f \in Free(refcount)
  BY <1>4, <1>5, FramesAssumption, SMTT(60) DEF Names
<1> HIDE DEF old
<1> QED
  BY <1>1, <1>2, <1>4, <1>5, <1>6, <1>7, <1>8, <1>9, PdStep

\* The step of a running program that leaves directories and counts alone.
LEMMA StillStep ==
    ASSUME PagingInv, NEW t \in Task, User(t),
           UNCHANGED <<refcount, page_dir, new_pd, call, cloned, cut>>, RestOK',
           \A x \in Task \ {t} : life'[x] = life[x],
           \A x \in Task \ {t}, f \in Frame : PrivateTo(page_dir, new_pd, x, f) => content'[f] = content[f]
    PROVE  PagingInv'
<1>1. /\ page_dir \in [Task -> Pd] /\ new_pd \in [Task -> Pd] /\ PhaseOK(t)
      /\ SoundPd(page_dir[t]) /\ SoundPd(new_pd[t])
  BY Basics
<1>2. new_pd[t] = EmptyPd /\ cloned[t] = 0 /\ call[t] = "user" /\ life[t] = "live"
  BY <1>1 DEF PhaseOK, User, At
<1>3. PhaseOK(t)'
  BY <1>2 DEF PhaseOK
<1>4. \A f \in Frame : refcount'[f] >= Named(f)' /\ (cut' \/ refcount'[f] = Named(f)')
  BY DEF PagingInv, RefcountExact, Named
<1>5. \A v \in Page : page_dir'[t][v].w => Alone(page_dir', new_pd', t, v)
  BY <1>2, SoleIsAlone DEF PagingInv
<1> QED
  BY <1>1, <1>3, <1>4, <1>5, PdStep

-----------------------------------------------------------------------------
(* Programs and their page faults *)

LEMMA SYS_BRK_Inv ==
    ASSUME PagingInv, NEW t \in Task, SYS_BRK(t)
    PROVE  PagingInv'
<1>1. User(t) /\ RestOK
  BY Basics DEF SYS_BRK
<1>2. RestOK'
  BY <1>1, AddressSpaceAssumption, SMTT(60) DEF SYS_BRK, RestOK, StackPage
<1> QED
  BY <1>1, <1>2, StillStep DEF SYS_BRK

LEMMA kill_userspace_fault_Inv ==
    ASSUME PagingInv, NEW t \in Task, kill_userspace_fault(t)
    PROVE  PagingInv'
<1>1. User(t) /\ RestOK
  BY Basics DEF kill_userspace_fault
<1>2. RestOK' /\ \A x \in Task \ {t} : life'[x] = life[x]
  BY <1>1 DEF kill_userspace_fault, RestOK
<1> QED
  BY <1>1, <1>2, StillStep DEF kill_userspace_fault

LEMMA store_Inv ==
    ASSUME PagingInv, NEW t \in Task, NEW v \in Page, store(t, v)
    PROVE  PagingInv'
<1>1. User(t) /\ RestOK
  BY Basics DEF store
<1>2. RestOK'
  BY <1>1 DEF store, RestOK, Content
<1>3. ASSUME NEW x \in Task \ {t}, NEW f \in Frame, PrivateTo(page_dir, new_pd, x, f)
      PROVE  content'[f] = content[f]
  BY <1>1, <1>3 DEF store, PrivateTo, RestOK
<1> QED
  BY <1>1, <1>2, <1>3, StillStep DEF store

\* Filling a free frame is seen by nobody who has it loaded.
LEMMA FillsFree ==
    ASSUME PagingInv, NEW f \in Free(refcount), NEW c \in Content,
           content' = [content EXCEPT ![f] = c]
    PROVE  \A x \in Task, g \in Frame : PrivateTo(page_dir, new_pd, x, g) => content'[g] = content[g]
<1> SUFFICES ASSUME NEW x \in Task, NEW g \in Frame, PrivateTo(page_dir, new_pd, x, g)
             PROVE  content'[g] = content[g]
  OBVIOUS
<1>1. StackPage \in Page /\ new_pd[x][StackPage].frame = g
  BY LoadedIsPrivate DEF PrivateTo
<1>2. f # g
  BY <1>1, FreeUnnamed
<1> QED
  BY <1>2 DEF PagingInv, TypeOK

\* pmm_alloc_frame and pmm_free_frame, as they move a count.
LEMMA Counts ==
    ASSUME NEW rc \in [Frame -> 0..RefMax], NEW f \in Frame, rc[f] = 0, NEW old, old # f,
           old \in Frame => rc[old] > 0
    PROVE  /\ Taken(rc, f) \in [Frame -> 0..RefMax]
           /\ Dropped(Taken(rc, f), old) \in [Frame -> 0..RefMax]
           /\ Dropped(rc, old) \in [Frame -> 0..RefMax]
           /\ \A g \in Frame : /\ Taken(rc, f)[g] = IF g = f THEN 1 ELSE rc[g]
                               /\ Dropped(Taken(rc, f), old)[g]
                                    = IF g = f THEN 1 ELSE IF g = old THEN rc[g] - 1 ELSE rc[g]
                               /\ Dropped(rc, old)[g] = IF g = old THEN rc[g] - 1 ELSE rc[g]
  BY FramesAssumption, SMTT(60) DEF Taken, Dropped

LEMMA WritablePte ==
    ASSUME NEW f \in Frame
    PROVE  /\ Writable(f) \in Pte /\ Writable(f).frame = f /\ Writable(f).w /\ f # NoFrame
           /\ ~Writable(f).cow /\ NoPte.frame = NoFrame /\ ~NoPte.w /\ ~NoPte.cow
  BY FramesAssumption DEF Writable, Pte, NoPte

LEMMA try_handle_anon_fault_Inv ==
    ASSUME PagingInv, NEW t \in Task, NEW v \in Page, NEW f \in Frame, try_handle_anon_fault(t, v, f)
    PROVE  PagingInv'
<1>1. User(t) /\ RestOK /\ f \in Free(refcount) /\ page_dir[t][v].frame = NoFrame
  BY Basics, WritablePte DEF try_handle_anon_fault
<1>2. refcount[f] = 0 /\ f # NoFrame /\ refcount \in [Frame -> 0..RefMax]
  BY <1>1, FreeUnnamed DEF RestOK
<1>3. /\ refcount' \in [Frame -> 0..RefMax]
      /\ \A g \in Frame : refcount'[g] = IF g = f THEN 1 ELSE refcount[g]
  BY <1>2, Counts, FramesAssumption, SMTT(60) DEF try_handle_anon_fault
<1>4. RestOK'
  BY <1>1, <1>3 DEF try_handle_anon_fault, RestOK, Content
<1>5. \A g \in Frame : refcount'[g] = refcount[g] - Less(g, NoFrame, f) + Less(g, f, NoFrame)
  BY <1>2, <1>3, FramesAssumption, SMTT(60) DEF Less
<1>6. \A x \in Task \ {t}, g \in Frame : PrivateTo(page_dir, new_pd, x, g) => content'[g] = content[g]
  BY <1>1, FillsFree DEF try_handle_anon_fault, Content
<1>7. Writable(f) \in Pte /\ Writable(f).frame = f /\ f # NoFrame /\ SetPte(t, v, Writable(f))
  BY WritablePte DEF try_handle_anon_fault
<1> QED
  BY <1>1, <1>4, <1>5, <1>6, <1>7, EntryStep, SMTT(60) DEF try_handle_anon_fault

\* An entry with any right or mark has a frame, and its frame has a count.
LEMMA EntryHasFrame ==
    ASSUME PagingInv, NEW t \in Task, NEW v \in Page, page_dir[t][v] # NoPte
    PROVE  /\ page_dir[t][v] \in Pte /\ page_dir[t][v].frame \in Frame
           /\ page_dir[t][v].frame # NoFrame /\ Names(page_dir[t], page_dir[t][v].frame)
           /\ refcount[page_dir[t][v].frame] > 0
<1>1. /\ page_dir[t][v] \in Pte /\ page_dir[t][v].frame \in Frame
      /\ Names(page_dir[t], page_dir[t][v].frame)
  BY Basics DEF SoundPd, Pd, Pte, Names
<1> QED
  BY <1>1, NamedNotFree, FramesAssumption

LEMMA cow_promote_Inv ==
    ASSUME PagingInv, NEW t \in Task, NEW v \in Page, cow_promote(t, v)
    PROVE  PagingInv'
<1> DEFINE f == page_dir[t][v].frame
<1>1. User(t) /\ RestOK /\ page_dir[t][v] # NoPte /\ Sole(refcount, f)
  BY Basics, SMTT(60) DEF cow_promote, NoPte
<1>2. f \in Frame
  BY <1>1, EntryHasFrame
<1>3. Writable(f) \in Pte /\ Writable(f).frame = f /\ f # NoFrame /\ SetPte(t, v, Writable(f))
  BY <1>2, WritablePte DEF cow_promote
<1>4. Alone(page_dir, new_pd, t, v)
  BY <1>1, <1>2, CountOne
<1>5. RestOK' /\ \A g \in Frame : refcount'[g] = refcount[g] - Less(g, f, f) + Less(g, f, f)
  BY <1>1, SMTT(60) DEF cow_promote, RestOK, Less
<1> HIDE DEF f
<1> QED
  BY <1>1, <1>3, <1>4, <1>5, EntryStep DEF cow_promote, f

LEMMA cow_copy_Inv ==
    ASSUME PagingInv, NEW t \in Task, NEW v \in Page, NEW f \in Frame, cow_copy(t, v, f)
    PROVE  PagingInv'
<1> DEFINE old == page_dir[t][v].frame
<1>1. User(t) /\ RestOK /\ page_dir[t][v] # NoPte /\ f \in Free(refcount)
  BY Basics, SMTT(60) DEF cow_copy, NoPte
<1>2. old \in Frame /\ refcount[old] > 0
  BY <1>1, EntryHasFrame
<1>3. refcount[f] = 0 /\ f # old /\ refcount \in [Frame -> 0..RefMax]
  BY <1>1, FreeUnnamed DEF RestOK
<1>4. /\ refcount' \in [Frame -> 0..RefMax]
      /\ \A g \in Frame : refcount'[g] = IF g = f THEN 1 ELSE IF g = old THEN refcount[g] - 1 ELSE refcount[g]
  BY <1>2, <1>3, Counts, SMTT(60) DEF cow_copy
<1>5. content[old] \in Content /\ content' = [content EXCEPT ![f] = content[old]]
  BY <1>1, <1>2 DEF RestOK, cow_copy
<1>6. RestOK'
  BY <1>1, <1>4, <1>5 DEF cow_copy, RestOK
<1>7. \A g \in Frame : refcount'[g] = refcount[g] - Less(g, old, f) + Less(g, f, old)
  BY <1>3, <1>4, SMTT(60) DEF Less
<1>8. \A x \in Task \ {t}, g \in Frame : PrivateTo(page_dir, new_pd, x, g) => content'[g] = content[g]
  BY <1>1, <1>5, FillsFree
<1>9. Writable(f) \in Pte /\ Writable(f).frame = f /\ f # NoFrame /\ SetPte(t, v, Writable(f))
  BY WritablePte DEF cow_copy
<1> HIDE DEF old
<1> QED
  BY <1>1, <1>6, <1>7, <1>8, <1>9, EntryStep, SMTT(60) DEF cow_copy, old

LEMMA SYS_MPROTECT_Inv ==
    ASSUME PagingInv, "mprotect-rw" \notin Calls,
           NEW t \in Task, NEW v \in Page, NEW write \in BOOLEAN, SYS_MPROTECT(t, v, write)
    PROVE  PagingInv'
<1> DEFINE f == page_dir[t][v].frame
           pte == Protected(page_dir[t][v], write)
<1>1. User(t) /\ RestOK /\ page_dir[t][v] # NoPte /\ write = FALSE /\ SetPte(t, v, pte)
  BY Basics DEF SYS_MPROTECT
<1>2. f \in Frame /\ f # NoFrame
  BY <1>1, EntryHasFrame
<1>3. pte \in Pte /\ pte.frame = f /\ ~pte.w
  BY <1>1, <1>2 DEF Protected, Pte
<1>4. RestOK' /\ \A g \in Frame : refcount'[g] = refcount[g] - Less(g, f, f) + Less(g, f, f)
  BY <1>1, SMTT(60) DEF SYS_MPROTECT, RestOK, Less
<1> HIDE DEF f, pte
<1> QED
  BY <1>1, <1>2, <1>3, <1>4, EntryStep DEF SYS_MPROTECT, f

LEMMA SYS_MUNMAP_Inv ==
    ASSUME PagingInv, NEW t \in Task, NEW v \in Page, SYS_MUNMAP(t, v)
    PROVE  PagingInv'
<1> DEFINE f == page_dir[t][v].frame
<1>1. User(t) /\ RestOK /\ page_dir[t][v] # NoPte /\ SetPte(t, v, NoPte)
  BY Basics DEF SYS_MUNMAP
<1>2. f \in Frame /\ f # NoFrame /\ refcount[f] > 0
  BY <1>1, EntryHasFrame
<1>3. /\ refcount' \in [Frame -> 0..RefMax]
      /\ \A g \in Frame : refcount'[g] = IF g = f THEN refcount[g] - 1 ELSE refcount[g]
  BY <1>1, <1>2, FramesAssumption, SMTT(60) DEF SYS_MUNMAP, EntryReleased, Dropped, RestOK
<1>4. RestOK' /\ NoPte \in Pte /\ NoPte.frame = NoFrame /\ ~NoPte.w
  BY <1>1, <1>3, EmptySound DEF SYS_MUNMAP, RestOK, NoPte
<1>5. \A g \in Frame : refcount'[g] = refcount[g] - Less(g, f, NoFrame) + Less(g, NoFrame, f)
  BY <1>1, <1>2, <1>3, FramesAssumption, SMTT(60) DEF Less, RestOK
<1> HIDE DEF f
<1> QED
  BY <1>1, <1>4, <1>5, EntryStep DEF SYS_MUNMAP, f

LEMMA SYS_MMAP2_fixed_Inv ==
    ASSUME PagingInv, NEW t \in Task, NEW v \in Page, NEW f \in Frame, SYS_MMAP2_fixed(t, v, f)
    PROVE  PagingInv'
<1> DEFINE old == page_dir[t][v].frame
<1>1. User(t) /\ RestOK /\ f \in Free(refcount)
  BY Basics DEF SYS_MMAP2_fixed
<1>2. old \in Frame => refcount[old] > 0
  BY EntryHasFrame, FramesAssumption, SMTT(60) DEF NoPte
<1>3. refcount[f] = 0 /\ f # old /\ refcount \in [Frame -> 0..RefMax]
  BY <1>1, FreeUnnamed DEF RestOK
<1>4. /\ refcount' \in [Frame -> 0..RefMax]
      /\ \A g \in Frame : refcount'[g] = IF g = f THEN 1 ELSE IF g = old THEN refcount[g] - 1 ELSE refcount[g]
  BY <1>2, <1>3, Counts, SMTT(60) DEF SYS_MMAP2_fixed, EntryReleased
<1>5. RestOK'
  BY <1>1, <1>4 DEF SYS_MMAP2_fixed, RestOK, Content
<1>6. \A g \in Frame : refcount'[g] = refcount[g] - Less(g, old, f) + Less(g, f, old)
  BY <1>3, <1>4, SMTT(60) DEF Less
<1>7. \A x \in Task \ {t}, g \in Frame : PrivateTo(page_dir, new_pd, x, g) => content'[g] = content[g]
  BY <1>1, FillsFree DEF SYS_MMAP2_fixed, Content
<1>8. Writable(f) \in Pte /\ Writable(f).frame = f /\ f # NoFrame /\ SetPte(t, v, Writable(f))
  BY WritablePte DEF SYS_MMAP2_fixed
<1> HIDE DEF old
<1> QED
  BY <1>1, <1>5, <1>6, <1>7, <1>8, EntryStep, SMTT(60) DEF SYS_MMAP2_fixed, old

-----------------------------------------------------------------------------
(* Directories that are freed *)

\* vmm_free_pd takes one from the count of every frame that the directory names.
LEMMA PdFreedIs ==
    ASSUME PagingInv, NEW x \in Task, NEW pd \in {page_dir[x], new_pd[x]}
    PROVE  /\ PdFreed(refcount, pd) \in [Frame -> 0..RefMax]
           /\ \A f \in Frame : PdFreed(refcount, pd)[f] = refcount[f] - Count(pd, f)
<1>1. pd \in Pd /\ SoundPd(pd) /\ refcount \in [Frame -> 0..RefMax]
  BY Basics DEF RestOK
<1>2. \A f \in Frame : References(pd)[f] = Count(pd, f)
  BY <1>1, ReferencesAre DEF Count
<1>3. \A f \in Frame : Names(pd, f) => refcount[f] > 0
  BY NamedNotFree
<1>4. ASSUME NEW f \in Frame
      PROVE  /\ PdFreed(refcount, pd)[f] = refcount[f] - Count(pd, f)
             /\ PdFreed(refcount, pd)[f] \in 0..RefMax
  <2>1. Count(pd, f) \in {0, 1} /\ Count(pd, f) <= refcount[f] /\ refcount[f] \in 0..RefMax
    BY <1>1, <1>3, FramesAssumption, SMTT(60) DEF Count
  <2>2. PdFreed(refcount, pd)[f] = IF Count(pd, f) > refcount[f] THEN 0 ELSE refcount[f] - Count(pd, f)
    BY <1>2 DEF PdFreed, DroppedAll
  <2> QED
    BY <2>1, <2>2, FramesAssumption, SMTT(60)
<1>5. DOMAIN PdFreed(refcount, pd) = Frame
  BY DEF PdFreed, DroppedAll
<1>6. PdFreed(refcount, pd) = [f \in Frame |-> PdFreed(refcount, pd)[f]]
  BY DEF PdFreed, DroppedAll
<1> QED
  BY <1>4, <1>6

\* The step that ends a system call, and drops the directory it was building or
\* taking down: the count is given back, or the task is cut off.
LEMMA DropStep ==
    ASSUME PagingInv, NEW t \in Task, UNCHANGED <<content, page_dir, mmap_next>>, RestOK',
           new_pd' = [new_pd EXCEPT ![t] = EmptyPd],
           \A x \in Task \ {t} : life'[x] = life[x] /\ call'[x] = call[x] /\ cloned'[x] = cloned[x],
           life[t] = "live", call'[t] = "user", cloned'[t] = 0,
           \/ cut' = cut /\ refcount' = PdFreed(refcount, new_pd[t])
           \/ cut' = (cut \/ new_pd[t] # EmptyPd) /\ refcount' = refcount
    PROVE  PagingInv'
<1>1. /\ page_dir \in [Task -> Pd] /\ new_pd \in [Task -> Pd] /\ SoundPd(page_dir[t]) /\ RestOK
      /\ SoundPd(new_pd[t])
  BY Basics
<1>2. new_pd'[t] = EmptyPd /\ new_pd' \in [Task -> Pd] /\ \A x \in Task : x # t => new_pd'[x] = new_pd[x]
  BY <1>1, EmptySound
<1>3. SoundPd(new_pd'[t]) /\ \A f \in Frame : ~Names(new_pd'[t], f)
  BY <1>2, EmptySound
<1>4. ASSUME NEW f \in Frame
      PROVE  refcount'[f] >= Named(f)' /\ (cut' \/ refcount'[f] = Named(f)')
  <2>1. /\ Named(f)' = Named(f) - Count(page_dir[t], f) + Count(page_dir'[t], f)
                          - Count(new_pd[t], f) + Count(new_pd'[t], f)
        /\ Named(f) \in Nat /\ Named(f)' \in Nat
    BY <1>1, <1>2, <1>3, NamedStep
  <2>2. Count(new_pd'[t], f) = 0 /\ Count(new_pd[t], f) \in {0, 1} /\ Count(page_dir[t], f) \in {0, 1}
        /\ Count(page_dir'[t], f) = Count(page_dir[t], f)
    BY <1>3 DEF Count
  <2>3. refcount[f] \in Nat /\ refcount[f] >= Named(f) /\ (cut \/ refcount[f] = Named(f))
    BY FramesAssumption, SMTT(60) DEF PagingInv, TypeOK, RefcountExact
  <2>4. Named(f)' = Named(f) - Count(new_pd[t], f)
    BY <2>1, <2>2, SMTT(60)
  <2>5. CASE cut' = cut /\ refcount' = PdFreed(refcount, new_pd[t])
    BY <2>1, <2>2, <2>3, <2>4, <2>5, PdFreedIs, SMTT(60)
  <2>6. CASE cut' = (cut \/ new_pd[t] # EmptyPd) /\ refcount' = refcount
    <3>1. ~cut' => Count(new_pd[t], f) = 0
      BY <2>6, EmptySound DEF Count
    <3>2. ~cut' => ~cut
      BY <2>6
    <3>3. refcount'[f] >= Named(f)'
      BY <2>1, <2>2, <2>3, <2>4, <2>6, SMTT(60)
    <3>4. Count(new_pd[t], f) = 0 => Named(f)' = Named(f)
      BY <2>1, <2>4, SMTT(60)
    <3>5. refcount'[f] = refcount[f]
      BY <2>6
    <3> QED
      BY <2>3, <3>1, <3>2, <3>3, <3>4, <3>5
  <2> QED
    BY <2>5, <2>6
<1>5. PhaseOK(t)'
  BY <1>2 DEF PhaseOK
<1>6. ASSUME NEW v \in Page, page_dir'[t][v].w PROVE Alone(page_dir', new_pd', t, v)
  <2>1. Alone(page_dir, new_pd, t, v)
    BY <1>6, SoleIsAlone DEF PagingInv
  <2>2. page_dir[t][v].frame \in Frame
    BY <1>1, <1>6, SMTT(60) DEF SoundPd, NoPte, Pd, Pte
  <2> QED
    BY <1>2, <1>3, <2>1, <2>2, SMTT(60) DEF Alone, Names
<1>7. \A f \in Frame : Names(page_dir'[t], f) \/ Names(new_pd'[t], f) =>
        Names(page_dir[t], f) \/ Names(new_pd[t], f) \/ f \in Free(refcount)
  BY <1>3
<1> QED
  BY <1>1, <1>2, <1>3, <1>4, <1>5, <1>6, <1>7, PdStep

LEMMA fork_fails_Inv ==
    ASSUME PagingInv, NEW t \in Task, fork_fails(t)
    PROVE  PagingInv'
<1>1. RestOK /\ refcount' = PdFreed(refcount, new_pd[t]) /\ life[t] = "live"
  BY Basics DEF fork_fails, Unwound, At
<1>2. refcount' \in [Frame -> 0..RefMax]
  BY <1>1, PdFreedIs
<1>3. RestOK' /\ call'[t] = "user" /\ cloned'[t] = 0
      /\ \A x \in Task \ {t} : life'[x] = life[x] /\ call'[x] = call[x] /\ cloned'[x] = cloned[x]
  BY <1>1, <1>2, AddressSpaceAssumption, SMTT(60) DEF fork_fails, RestOK, Goes, Page
<1> QED
  BY <1>1, <1>3, DropStep DEF fork_fails

LEMMA elf_exec_fails_Inv ==
    ASSUME PagingInv, NEW t \in Task, elf_exec_fails(t)
    PROVE  PagingInv'
<1>1. /\ RestOK /\ refcount' = PdFreed(refcount, new_pd[t]) /\ life[t] = "live"
      /\ cloned[t] = 0
  BY Basics DEF elf_exec_fails, Unwound, InExec, PhaseOK
<1>2. refcount' \in [Frame -> 0..RefMax]
  BY <1>1, PdFreedIs
<1>3. RestOK' /\ call'[t] = "user" /\ cloned'[t] = 0
      /\ \A x \in Task \ {t} : life'[x] = life[x] /\ call'[x] = call[x] /\ cloned'[x] = cloned[x]
  BY <1>1, <1>2 DEF elf_exec_fails, RestOK, Goes
<1> QED
  BY <1>1, <1>3, DropStep DEF elf_exec_fails

LEMMA elf_exec_reap_Inv ==
    ASSUME PagingInv, NEW t \in Task, elf_exec_reap(t)
    PROVE  PagingInv'
<1>1. /\ RestOK /\ refcount' = PdFreed(refcount, new_pd[t]) /\ life[t] = "live"
      /\ cloned[t] = 0
  BY Basics DEF elf_exec_reap, At, PhaseOK
<1>2. refcount' \in [Frame -> 0..RefMax]
  BY <1>1, PdFreedIs
<1>3. RestOK' /\ call'[t] = "user" /\ cloned'[t] = 0
      /\ \A x \in Task \ {t} : life'[x] = life[x] /\ call'[x] = call[x] /\ cloned'[x] = cloned[x]
  BY <1>1, <1>2 DEF elf_exec_reap, RestOK, Goes
<1> QED
  BY <1>1, <1>3, DropStep DEF elf_exec_reap

LEMMA task_terminate_Inv ==
    ASSUME PagingInv, NEW t \in Task, task_terminate(t)
    PROVE  PagingInv'
<1>1. RestOK /\ life[t] = "live"
  BY Basics DEF task_terminate
<1>2. RestOK' /\ call'[t] = "user" /\ cloned'[t] = 0
      /\ \A x \in Task \ {t} : life'[x] = life[x] /\ call'[x] = call[x] /\ cloned'[x] = cloned[x]
  BY <1>1, AddressSpaceAssumption, SMTT(60) DEF task_terminate, RestOK, Goes, Page
<1> QED
  BY <1>1, <1>2, DropStep DEF task_terminate

-----------------------------------------------------------------------------
(* fork *)

\* No count reaches its limit: at most two directories for each task name a frame,
\* each once.
LEMMA BelowLimit ==
    ASSUME NEW pds \in [Task -> Pd], NEW nds \in [Task -> Pd],
           \A x \in Task : SoundPd(pds[x]) /\ SoundPd(nds[x]), NEW f \in Frame
    PROVE  Cardinality(Holders(pds, f)) + Cardinality(Holders(nds, f)) <= RefMax
<1>1. Cardinality(Holders(pds, f)) <= Cardinality(Task) /\ Cardinality(Holders(nds, f)) <= Cardinality(Task)
  BY AtMostTasks
<1>2. Cardinality(Holders(pds, f)) \in Nat /\ Cardinality(Holders(nds, f)) \in Nat
  BY HoldersFinite
<1>3. Cardinality(Task) \in Nat /\ RefMax \in Nat /\ RefMax >= 2 * Cardinality(Task)
  BY FS_CardinalityType, AddressSpaceAssumption, FramesAssumption
<1> QED
  BY <1>1, <1>2, <1>3, SMTT(60)

LEMMA vmm_clone_pd_cow_Inv ==
    ASSUME PagingInv, NEW t \in Task, vmm_clone_pd_cow(t)
    PROVE  PagingInv'
<1> DEFINE v == cloned[t]
           old == page_dir[t][v]
           sh == Shared(old)
<1>1. /\ page_dir \in [Task -> Pd] /\ new_pd \in [Task -> Pd] /\ RestOK
      /\ SoundPd(page_dir[t]) /\ SoundPd(new_pd[t]) /\ PhaseOK(t)
  BY Basics
<1>2. v \in Page /\ life[t] = "live" /\ call[t] \in {"user", "fork"}
  BY <1>1, AddressSpaceAssumption, SMTT(60) DEF vmm_clone_pd_cow, At, User, RestOK, Page
<1>3. \A x \in Page : IF x < v THEN new_pd[t][x] = page_dir[t][x] /\ ~page_dir[t][x].w
                      ELSE new_pd[t][x] = NoPte
  <2>1. CASE call[t] = "fork"
    BY <1>1, <2>1 DEF PhaseOK
  <2>2. CASE call[t] = "user"
    <3>1. v = 0 /\ new_pd[t] = EmptyPd
      BY <1>1, <2>2 DEF PhaseOK
    <3> QED
      BY <3>1, SMTT(60) DEF EmptyPd, Page
  <2> QED
    BY <1>2, <2>1, <2>2
<1>4. old \in Pte /\ sh \in Pte /\ sh.frame = old.frame /\ ~sh.w /\ (sh.frame = NoFrame => sh = NoPte)
  <2>1. old \in Pte /\ (old.frame = NoFrame => old = NoPte)
    BY <1>1, <1>2 DEF Pd, SoundPd
  <2>2. CASE old = NoPte
    BY <2>1, <2>2 DEF Shared, NoPte
  <2>3. CASE old # NoPte
    <3>1. sh = [old EXCEPT !.w = FALSE, !.cow = TRUE]
      BY <2>3 DEF Shared
    <3> HIDE DEF sh, old
    <3> QED
      BY <2>1, <2>3, <3>1 DEF Pte
  <2> QED
    BY <2>2, <2>3
<1>5. /\ page_dir' = [page_dir EXCEPT ![t] = [page_dir[t] EXCEPT ![v] = sh]]
      /\ new_pd' = [new_pd EXCEPT ![t] = [new_pd[t] EXCEPT ![v] = sh]]
  BY DEF vmm_clone_pd_cow, ShareEntry, SetPte
<1>6. /\ page_dir' \in [Task -> Pd] /\ new_pd' \in [Task -> Pd]
      /\ \A x \in Task : x # t => page_dir'[x] = page_dir[x] /\ new_pd'[x] = new_pd[x]
      /\ page_dir'[t] = [page_dir[t] EXCEPT ![v] = sh] /\ new_pd'[t] = [new_pd[t] EXCEPT ![v] = sh]
  BY <1>1, <1>2, <1>4, <1>5 DEF Pd
<1>7. /\ \A x \in Page : page_dir'[t][x] = IF x = v THEN sh ELSE page_dir[t][x]
      /\ \A x \in Page : new_pd'[t][x] = IF x = v THEN sh ELSE new_pd[t][x]
  BY <1>1, <1>6, SMTT(60) DEF Pd
<1>8. SoundPd(page_dir'[t]) /\ \A f \in Frame : Names(page_dir'[t], f) <=> Names(page_dir[t], f)
  <2>1. \A x \in Page : page_dir'[t][x].frame = page_dir[t][x].frame
    BY <1>4, <1>7
  <2> QED
    BY <1>1, <1>4, <1>7, <2>1, SMTT(60) DEF SoundPd, Names
<1>9. \A x \in Page : new_pd[t][x].frame = old.frame => old.frame = NoFrame
  <2> SUFFICES ASSUME NEW x \in Page, new_pd[t][x].frame = old.frame, old.frame # NoFrame PROVE FALSE
    OBVIOUS
  <2>1. x < v /\ page_dir[t][x].frame = page_dir[t][v].frame
    BY <1>3, SMTT(60) DEF NoPte
  <2>2. x = v
    BY <1>1, <1>2, <2>1 DEF SoundPd
  <2> QED
    BY <1>2, <2>1, <2>2, SMTT(60) DEF Page
<1>10. SoundPd(new_pd'[t])
  BY <1>1, <1>2, <1>4, <1>7, <1>9, SMTT(60) DEF SoundPd
<1>11. \A f \in Frame : Names(new_pd'[t], f) <=> Names(new_pd[t], f) \/ f = old.frame
  <2>1. new_pd[t][v] = NoPte
    BY <1>2, <1>3, SMTT(60) DEF Page
  <2> QED
    BY <1>2, <1>4, <1>7, <2>1, FramesAssumption, SMTT(60) DEF Names, NoPte
<1>12. \A f \in Frame : f = old.frame => ~Names(new_pd[t], f) /\ Names(page_dir[t], f)
  BY <1>2, <1>9, FramesAssumption DEF Names
<1>13. refcount' = IF old = NoPte THEN refcount ELSE Counted(refcount, old.frame)
  BY DEF vmm_clone_pd_cow
<1>14. old = NoPte \/ old.frame \in Frame
  BY <1>1, <1>2, <1>4 DEF SoundPd, Pte
<1>15. cut' = cut /\ content' = content /\ life' = life /\ mmap_next' = mmap_next
       /\ call' = [call EXCEPT ![t] = "fork"] /\ cloned' = [cloned EXCEPT ![t] = v + 1]
  BY DEF vmm_clone_pd_cow, Goes
<1>16. refcount' \in [Frame -> 0..RefMax]
       /\ \A f \in Frame : refcount'[f] = IF f = old.frame /\ refcount[f] # RefMax THEN refcount[f] + 1
                                          ELSE refcount[f]
  <2>1. CASE old = NoPte
    BY <1>1, <1>13, <2>1, FramesAssumption, SMTT(60) DEF NoPte, RestOK
  <2>2. CASE old # NoPte
    <3>1. old.frame \in Frame /\ refcount[old.frame] > 0
      BY <1>12, <1>14, <2>2, NamedNotFree
    <3>2. refcount' = IF refcount[old.frame] \in {0, RefMax} THEN refcount
                      ELSE [refcount EXCEPT ![old.frame] = @ + 1]
      BY <1>13, <2>2 DEF Counted
    <3> HIDE DEF old
    <3> QED
      BY <1>1, <3>1, <3>2, FramesAssumption, SMTT(60) DEF RestOK
  <2> QED
    BY <2>1, <2>2
<1>17. ASSUME NEW f \in Frame
       PROVE  refcount'[f] >= Named(f)' /\ (cut' \/ refcount'[f] = Named(f)')
  <2>1. /\ Named(f)' = Named(f) - Count(page_dir[t], f) + Count(page_dir'[t], f)
                          - Count(new_pd[t], f) + Count(new_pd'[t], f)
        /\ Named(f) \in Nat /\ Named(f)' \in Nat
    BY <1>1, <1>6, <1>8, <1>10, NamedStep
  <2>2. Count(page_dir'[t], f) = Count(page_dir[t], f) /\ Count(page_dir[t], f) \in {0, 1}
    BY <1>8 DEF Count
  <2>3. /\ Count(new_pd[t], f) \in {0, 1}
        /\ Count(new_pd'[t], f) = IF f = old.frame THEN Count(new_pd[t], f) + 1 ELSE Count(new_pd[t], f)
    BY <1>11, <1>12, SMTT(60) DEF Count
  <2>4. Named(f)' = IF f = old.frame THEN Named(f) + 1 ELSE Named(f)
    BY <2>1, <2>2, <2>3, SMTT(60)
  <2>5. \A x \in Task : SoundPd(page_dir'[x]) /\ SoundPd(new_pd'[x])
    BY <1>6, <1>8, <1>10 DEF PagingInv, PdsSound
  <2>6. Named(f)' <= RefMax
    BY <1>6, <2>5, BelowLimit DEF Named
  <2>7. refcount[f] \in 0..RefMax /\ refcount[f] >= Named(f) /\ RefMax \in Nat
    BY FramesAssumption DEF PagingInv, TypeOK, RefcountExact
  <2>8. cut \/ refcount[f] = Named(f)
    BY DEF PagingInv, RefcountExact
  <2>9. refcount'[f] >= Named(f)'
    BY <1>16, <2>1, <2>4, <2>6, <2>7, SMTT(60)
  <2>10. refcount[f] = Named(f) => refcount'[f] = Named(f)'
    BY <1>16, <2>1, <2>4, <2>6, <2>7, SMTT(60)
  <2> QED
    BY <1>15, <2>8, <2>9, <2>10
<1>18. RestOK'
  <2>1. v + 1 \in Page \cup {NPages}
    BY <1>2, AddressSpaceAssumption, SMTT(60) DEF Page
  <2> QED
    BY <1>1, <1>15, <1>16, <2>1 DEF RestOK
<1>19. PhaseOK(t)'
  <2>1. life'[t] = "live" /\ call'[t] = "fork" /\ cloned'[t] = v + 1
    BY <1>1, <1>2, <1>15 DEF RestOK
  <2>2. \A x \in Page : IF x < v + 1 THEN new_pd'[t][x] = page_dir'[t][x] /\ ~page_dir'[t][x].w
                        ELSE new_pd'[t][x] = NoPte
    BY <1>2, <1>3, <1>4, <1>7, SMTT(60) DEF Page
  <2> QED
    BY <2>1, <2>2 DEF PhaseOK
<1>20. ASSUME NEW x \in Page, page_dir'[t][x].w PROVE Alone(page_dir', new_pd', t, x)
  <2>1. x # v /\ page_dir[t][x].w /\ page_dir'[t][x] = page_dir[t][x]
    BY <1>4, <1>7, <1>20
  <2>2. Alone(page_dir, new_pd, t, x)
    BY <1>2, <2>1, SoleIsAlone DEF PagingInv
  <2>3. page_dir[t][x].frame \in Frame
    BY <1>1, <2>1, SMTT(60) DEF SoundPd, NoPte, Pd, Pte
  <2>4. page_dir[t][x].frame # old.frame
    BY <1>1, <1>2, <2>1, <2>3, FramesAssumption DEF SoundPd
  <2>5. \A y \in Task, z \in Page : page_dir'[y][z].frame = page_dir[y][z].frame
    BY <1>4, <1>6, <1>7
  <2>6. \A y \in Task, z \in Page : new_pd'[y][z].frame = new_pd[y][z].frame \/ new_pd'[y][z].frame = old.frame
    BY <1>4, <1>6, <1>7
  <2> QED
    BY <2>1, <2>2, <2>4, <2>5, <2>6, SMTT(60) DEF Alone
<1>21. \A f \in Frame : Names(page_dir'[t], f) \/ Names(new_pd'[t], f) =>
         Names(page_dir[t], f) \/ Names(new_pd[t], f) \/ f \in Free(refcount)
  BY <1>8, <1>11, <1>12
<1>22. \A x \in Task \ {t} : life'[x] = life[x] /\ call'[x] = call[x] /\ cloned'[x] = cloned[x]
  BY <1>1, <1>15 DEF RestOK
<1> HIDE DEF v, old, sh
<1> QED
  BY <1>6, <1>8, <1>10, <1>15, <1>17, <1>18, <1>19, <1>20, <1>21, <1>22, PdStep

\* What task_fork and task_create find in the slot they take.
LEMMA NewSlot ==
    ASSUME PagingInv, NEW c \in Task, IsNewSlot(c)
    PROVE  life[c] # "live" /\ call[c] = "user" /\ new_pd[c] = EmptyPd /\ cloned[c] = 0
  BY Basics DEF IsNewSlot, PhaseOK

LEMMA task_fork_Inv ==
    ASSUME PagingInv, NEW t \in Task, NEW c \in Task, task_fork(t, c)
    PROVE  PagingInv'
<1>1. /\ page_dir \in [Task -> Pd] /\ new_pd \in [Task -> Pd] /\ RestOK
      /\ SoundPd(page_dir[t]) /\ SoundPd(new_pd[t]) /\ PhaseOK(t)
  BY Basics
<1>2. /\ life[c] # "live" /\ call[c] = "user" /\ new_pd[c] = EmptyPd /\ cloned[c] = 0
      /\ life[t] = "live" /\ call[t] = "fork" /\ cloned[t] = NPages /\ t # c
  BY NewSlot DEF task_fork, At
<1>3. /\ page_dir' = [page_dir EXCEPT ![c] = new_pd[t]] /\ new_pd' = [new_pd EXCEPT ![t] = EmptyPd]
      /\ refcount' = PdFreed(refcount, page_dir[c]) /\ cut' = cut /\ content' = content
      /\ life' = [life EXCEPT ![c] = "live"] /\ call' = [call EXCEPT ![t] = "user", ![c] = "user"]
      /\ cloned' = [cloned EXCEPT ![t] = 0] /\ mmap_next' = [mmap_next EXCEPT ![c] = mmap_next[t]]
  BY DEF task_fork, Reclaimed
<1>4. /\ page_dir' \in [Task -> Pd] /\ new_pd' \in [Task -> Pd]
      /\ page_dir'[c] = new_pd[t] /\ new_pd'[t] = EmptyPd /\ new_pd'[c] = EmptyPd
      /\ \A x \in Task : x # c => page_dir'[x] = page_dir[x]
      /\ \A x \in Task : x # t => new_pd'[x] = new_pd[x]
  BY <1>1, <1>2, <1>3, EmptySound
<1>5. SoundPd(page_dir'[c]) /\ SoundPd(new_pd'[t]) /\ \A f \in Frame : ~Names(new_pd'[t], f)
  BY <1>1, <1>4, EmptySound
<1>6. \A f \in Frame : Names(page_dir'[c], f) \/ Names(new_pd'[t], f) =>
        Names(page_dir[c], f) \/ Names(new_pd[t], f) \/ f \in Free(refcount)
  BY <1>4, <1>5
<1>7. refcount' \in [Frame -> 0..RefMax] /\ \A f \in Frame : refcount'[f] = refcount[f] - Count(page_dir[c], f)
  BY <1>3, PdFreedIs
<1>8. RestOK'
  BY <1>1, <1>3, <1>7, AddressSpaceAssumption, SMTT(60) DEF RestOK, Page
<1>9. ASSUME NEW f \in Frame
      PROVE  refcount'[f] >= Named(f)' /\ (cut' \/ refcount'[f] = Named(f)')
  <2>1. /\ Named(f)' = Named(f) - Count(page_dir[c], f) + Count(page_dir'[c], f)
                          - Count(new_pd[t], f) + Count(new_pd'[t], f)
        /\ Named(f) \in Nat /\ Named(f)' \in Nat
    BY <1>1, <1>4, <1>5, NamedStep
  <2>2. /\ Count(new_pd'[t], f) = 0 /\ Count(page_dir'[c], f) = Count(new_pd[t], f)
        /\ Count(new_pd[t], f) \in {0, 1} /\ Count(page_dir[c], f) \in {0, 1}
    BY <1>4, <1>5 DEF Count
  <2>3. refcount[f] \in Nat /\ refcount[f] >= Named(f)
    BY FramesAssumption, SMTT(60) DEF PagingInv, TypeOK, RefcountExact
  <2>4. cut \/ refcount[f] = Named(f)
    BY DEF PagingInv, RefcountExact
  <2>5. Named(f)' = Named(f) - Count(page_dir[c], f)
    BY <2>1, <2>2, SMTT(60)
  <2>6. refcount'[f] >= Named(f)'
    BY <1>7, <2>1, <2>2, <2>3, <2>5, SMTT(60)
  <2>7. refcount[f] = Named(f) => refcount'[f] = Named(f)'
    BY <1>7, <2>5
  <2> QED
    BY <1>3, <2>4, <2>6, <2>7
<1>10. /\ call'[t] = "user" /\ call'[c] = "user" /\ cloned'[t] = 0 /\ cloned'[c] = 0
       /\ life'[c] = "live" /\ life'[t] = "live"
       /\ \A x \in Task \ {t, c} : life'[x] = life[x] /\ call'[x] = call[x] /\ cloned'[x] = cloned[x]
       /\ \A x \in Task \ {c} : life'[x] = life[x]
  BY <1>1, <1>2, <1>3 DEF RestOK
<1>11. PhaseOK(t)' /\ PhaseOK(c)'
  BY <1>4, <1>10 DEF PhaseOK
<1>12. \A v \in Page : ~page_dir'[c][v].w
  <2>1. \A v \in Page : v < NPages
    BY AddressSpaceAssumption, SMTT(60) DEF Page
  <2> QED
    BY <1>1, <1>2, <1>4, <2>1 DEF PhaseOK
<1>13. /\ \A x \in Task \ {c} : life'[x] = "live" => life[x] = "live"
       /\ \A x \in Task \ {c, t} : life'[x] = life[x] /\ call'[x] = call[x] /\ cloned'[x] = cloned[x]
  BY <1>10
<1> QED
  BY <1>3, <1>4, <1>5, <1>6, <1>8, <1>9, <1>11, <1>12, <1>13, PdStep

-----------------------------------------------------------------------------
(* New programs *)

LEMMA task_create_Inv ==
    ASSUME PagingInv, NEW c \in Task, task_create(c)
    PROVE  PagingInv'
<1>1. /\ page_dir \in [Task -> Pd] /\ new_pd \in [Task -> Pd] /\ RestOK
      /\ SoundPd(page_dir[c]) /\ SoundPd(new_pd[c])
  BY Basics
<1>2. life[c] # "live" /\ call[c] = "user" /\ new_pd[c] = EmptyPd /\ cloned[c] = 0
  BY NewSlot DEF task_create
<1>3. /\ page_dir' = [page_dir EXCEPT ![c] = EmptyPd] /\ new_pd' = new_pd
      /\ refcount' = PdFreed(refcount, page_dir[c]) /\ cut' = cut /\ content' = content
      /\ life' = [life EXCEPT ![c] = "live"] /\ call' = [call EXCEPT ![c] = "exec-fresh"]
      /\ cloned' = cloned /\ mmap_next' = [mmap_next EXCEPT ![c] = 0]
  BY DEF task_create, Reclaimed, Goes
<1>4. /\ page_dir' \in [Task -> Pd] /\ new_pd' \in [Task -> Pd] /\ page_dir'[c] = EmptyPd
      /\ \A x \in Task : x # c => page_dir'[x] = page_dir[x] /\ new_pd'[x] = new_pd[x]
  BY <1>1, <1>3, EmptySound
<1>5. SoundPd(page_dir'[c]) /\ SoundPd(new_pd'[c]) /\ \A f \in Frame : ~Names(page_dir'[c], f)
  BY <1>1, <1>3, <1>4, EmptySound
<1>6. \A f \in Frame : Names(page_dir'[c], f) \/ Names(new_pd'[c], f) =>
        Names(page_dir[c], f) \/ Names(new_pd[c], f) \/ f \in Free(refcount)
  BY <1>3, <1>5
<1>7. refcount' \in [Frame -> 0..RefMax] /\ \A f \in Frame : refcount'[f] = refcount[f] - Count(page_dir[c], f)
  BY <1>3, PdFreedIs
<1>8. RestOK'
  BY <1>1, <1>3, <1>7, AddressSpaceAssumption, SMTT(60) DEF RestOK
<1>9. ASSUME NEW f \in Frame
      PROVE  refcount'[f] >= Named(f)' /\ (cut' \/ refcount'[f] = Named(f)')
  <2>1. /\ Named(f)' = Named(f) - Count(page_dir[c], f) + Count(page_dir'[c], f)
                          - Count(new_pd[c], f) + Count(new_pd'[c], f)
        /\ Named(f) \in Nat /\ Named(f)' \in Nat
    BY <1>1, <1>4, <1>5, NamedStep
  <2>2. /\ Count(page_dir'[c], f) = 0 /\ Count(new_pd'[c], f) = Count(new_pd[c], f)
        /\ Count(new_pd[c], f) \in {0, 1} /\ Count(page_dir[c], f) \in {0, 1}
    BY <1>3, <1>5 DEF Count
  <2>3. refcount[f] \in Nat /\ refcount[f] >= Named(f)
    BY FramesAssumption, SMTT(60) DEF PagingInv, TypeOK, RefcountExact
  <2>4. cut \/ refcount[f] = Named(f)
    BY DEF PagingInv, RefcountExact
  <2>5. Named(f)' = Named(f) - Count(page_dir[c], f)
    BY <2>1, <2>2, SMTT(60)
  <2>6. refcount'[f] >= Named(f)'
    BY <1>7, <2>1, <2>2, <2>3, <2>5, SMTT(60)
  <2>7. refcount[f] = Named(f) => refcount'[f] = Named(f)'
    BY <1>7, <2>5
  <2> QED
    BY <1>3, <2>4, <2>6, <2>7
<1>10. /\ call'[c] = "exec-fresh" /\ life'[c] = "live" /\ cloned'[c] = 0 /\ new_pd'[c] = EmptyPd
       /\ \A x \in Task \ {c} : life'[x] = life[x] /\ call'[x] = call[x] /\ cloned'[x] = cloned[x]
  BY <1>1, <1>2, <1>3 DEF RestOK
<1>11. PhaseOK(c)'
  BY <1>10 DEF PhaseOK
<1>12. \A v \in Page : ~page_dir'[c][v].w
  BY <1>4, SMTT(60) DEF EmptyPd, NoPte
<1> QED
  BY <1>3, <1>4, <1>5, <1>6, <1>8, <1>9, <1>10, <1>11, <1>12, PdStep

\* The one-page directory of a new program.
LEMMA StackPd ==
    ASSUME NEW f \in Frame
    PROVE  /\ Stack(f) \in Pd /\ SoundPd(Stack(f)) /\ Stack(f) # EmptyPd
           /\ \A v \in Page : Stack(f)[v] = IF v = StackPage THEN Writable(f) ELSE NoPte
           /\ \A v \in Page : /\ Stack(f)[v].frame = IF v = StackPage THEN f ELSE NoFrame
                              /\ Stack(f)[v].w <=> v = StackPage
           /\ \A g \in Frame : Names(Stack(f), g) <=> g = f
<1>1. StackPage \in Page
  BY AddressSpaceAssumption, SMTT(60) DEF StackPage, Page
<1>2. \A v \in Page : Stack(f)[v] = IF v = StackPage THEN Writable(f) ELSE NoPte
  BY <1>1 DEF Stack, EmptyPd
<1>3. Writable(f) \in Pte /\ NoPte \in Pte /\ Writable(f).frame = f /\ NoPte.frame = NoFrame
      /\ Writable(f).w /\ ~NoPte.w /\ NoFrame \notin Frame
  BY FramesAssumption DEF Writable, NoPte, Pte
<1>4. Stack(f) \in Pd
  BY <1>1, <1>3 DEF Stack, EmptyPd, Pd
<1>5. Stack(f) # EmptyPd
  BY <1>1, <1>2, <1>3 DEF EmptyPd
<1> QED
  BY <1>1, <1>2, <1>3, <1>4, <1>5 DEF SoundPd, Names

LEMMA elf_exec_load_Inv ==
    ASSUME PagingInv, NEW t \in Task, NEW f \in Frame, elf_exec_load(t, f)
    PROVE  PagingInv'
<1>1. /\ page_dir \in [Task -> Pd] /\ new_pd \in [Task -> Pd] /\ RestOK
      /\ SoundPd(page_dir[t]) /\ SoundPd(new_pd[t]) /\ PhaseOK(t)
  BY Basics
<1>2. /\ life[t] = "live" /\ call[t] \in {"exec-fresh", "user"} /\ new_pd[t] = EmptyPd
      /\ f \in Free(refcount) /\ cloned[t] = 0
  BY <1>1 DEF elf_exec_load, At, User, PhaseOK
<1>3. /\ page_dir' = page_dir /\ new_pd' = [new_pd EXCEPT ![t] = Stack(f)]
      /\ refcount' = Taken(refcount, f) /\ cut' = cut /\ content' = [content EXCEPT ![f] = Fresh]
      /\ life' = life /\ cloned' = cloned /\ mmap_next' = [mmap_next EXCEPT ![t] = 0]
      /\ call' = [call EXCEPT ![t] = IF User(t) THEN "exec" ELSE call[t]]
  <2>1. new_pd' = [new_pd EXCEPT ![t] = [new_pd[t] EXCEPT ![StackPage] = Writable(f)]]
    BY DEF elf_exec_load
  <2>2. new_pd' = [new_pd EXCEPT ![t] = Stack(f)]
    BY <1>2, <2>1 DEF Stack
  <2> QED
    BY <2>2 DEF elf_exec_load, Goes
<1>4. /\ page_dir' \in [Task -> Pd] /\ new_pd' \in [Task -> Pd] /\ new_pd'[t] = Stack(f)
      /\ \A x \in Task : x # t => page_dir'[x] = page_dir[x] /\ new_pd'[x] = new_pd[x]
  BY <1>1, <1>3, StackPd
<1>5. /\ SoundPd(page_dir'[t]) /\ SoundPd(new_pd'[t])
      /\ \A g \in Frame : ~Names(new_pd[t], g) /\ (Names(new_pd'[t], g) <=> g = f)
  BY <1>1, <1>2, <1>3, <1>4, EmptySound, StackPd
<1>6. \A g \in Frame : Names(page_dir'[t], g) \/ Names(new_pd'[t], g) =>
        Names(page_dir[t], g) \/ Names(new_pd[t], g) \/ g \in Free(refcount)
  BY <1>2, <1>3, <1>5
<1>7. refcount[f] = 0 /\ refcount \in [Frame -> 0..RefMax] /\ f # NoFrame
  BY <1>1, <1>2, FreeUnnamed DEF RestOK
<1>8. /\ refcount' \in [Frame -> 0..RefMax]
      /\ \A g \in Frame : refcount'[g] = IF g = f THEN 1 ELSE refcount[g]
  BY <1>3, <1>7, Counts, FramesAssumption, SMTT(60)
<1>9. RestOK'
  <2>1. (IF User(t) THEN "exec" ELSE call[t]) \in {"user", "fork", "exec", "exec-fresh", "reap"}
    BY <1>2
  <2>2. call' \in [Task -> {"user", "fork", "exec", "exec-fresh", "reap"}]
    BY <1>1, <1>3, <2>1 DEF RestOK
  <2>3. mmap_next' \in [Task -> 0..NPages]
    BY <1>1, <1>3, AddressSpaceAssumption, SMTT(60) DEF RestOK
  <2>4. content' \in [Frame -> Content]
    BY <1>1, <1>3 DEF RestOK, Content
  <2> QED
    BY <1>1, <1>3, <1>8, <2>2, <2>3, <2>4 DEF RestOK
<1>10. ASSUME NEW g \in Frame
       PROVE  refcount'[g] >= Named(g)' /\ (cut' \/ refcount'[g] = Named(g)')
  <2>1. /\ Named(g)' = Named(g) - Count(page_dir[t], g) + Count(page_dir'[t], g)
                          - Count(new_pd[t], g) + Count(new_pd'[t], g)
        /\ Named(g) \in Nat /\ Named(g)' \in Nat
    BY <1>1, <1>4, <1>5, NamedStep
  <2>2. /\ Count(page_dir'[t], g) = Count(page_dir[t], g) /\ Count(page_dir[t], g) \in {0, 1}
        /\ Count(new_pd[t], g) = 0 /\ Count(new_pd'[t], g) = IF g = f THEN 1 ELSE 0
    BY <1>3, <1>5 DEF Count
  <2>3. refcount[g] \in Nat /\ refcount[g] >= Named(g)
    BY FramesAssumption, SMTT(60) DEF PagingInv, TypeOK, RefcountExact
  <2>4. cut \/ refcount[g] = Named(g)
    BY DEF PagingInv, RefcountExact
  <2>5. Named(g)' = IF g = f THEN Named(g) + 1 ELSE Named(g)
    BY <2>1, <2>2, SMTT(60)
  <2>6. refcount'[g] >= Named(g)'
    BY <1>7, <1>8, <2>1, <2>3, <2>5, SMTT(60)
  <2>7. refcount[g] = Named(g) => refcount'[g] = Named(g)'
    BY <1>7, <1>8, <2>5, SMTT(60)
  <2> QED
    BY <1>3, <2>4, <2>6, <2>7
<1>11. /\ call'[t] \in {"exec", "exec-fresh"} /\ life'[t] = "live" /\ cloned'[t] = 0
       /\ \A x \in Task \ {t} : life'[x] = life[x] /\ call'[x] = call[x] /\ cloned'[x] = cloned[x]
  BY <1>1, <1>2, <1>3 DEF RestOK, User, At
<1>12. Loaded(t)'
  <2>1. PrivateTo(page_dir', new_pd', t, f)
    <3>1. \A u \in Task, x \in Page : page_dir[u][x].frame # f /\ new_pd[u][x].frame # f
      BY <1>2, FreeUnnamed
    <3>2. \A x \in Page : new_pd'[t][x].frame = f <=> x = StackPage
      BY <1>4, <1>7, StackPd, SMTT(60)
    <3> QED
      BY <1>3, <1>4, <3>1, <3>2 DEF PrivateTo
  <2>2. content'[f] = Fresh
    BY <1>1, <1>3 DEF RestOK
  <2> QED
    BY <1>4, <2>1, <2>2, LoadedIsPrivate
<1>13. PhaseOK(t)'
  BY <1>11, <1>12 DEF PhaseOK
<1>14. ASSUME NEW v \in Page, page_dir'[t][v].w PROVE Alone(page_dir', new_pd', t, v)
  <2>1. Alone(page_dir, new_pd, t, v)
    BY <1>2, <1>3, <1>14, SoleIsAlone DEF PagingInv
  <2>2. page_dir[t][v].frame # f /\ page_dir[t][v].frame # NoFrame
    BY <1>1, <1>2, <1>3, <1>14, FreeUnnamed, SMTT(60) DEF SoundPd, NoPte
  <2>3. \A x \in Page : new_pd'[t][x].frame \in {f, NoFrame}
    BY <1>4, StackPd, SMTT(60)
  <2> QED
    BY <1>3, <1>4, <2>1, <2>2, <2>3, SMTT(60) DEF Alone
<1>15. \A x \in Task \ {t}, g \in Frame : PrivateTo(page_dir, new_pd, x, g) => content'[g] = content[g]
  BY <1>2, <1>3, FillsFree DEF Content
<1> QED
  BY <1>3, <1>4, <1>5, <1>6, <1>9, <1>10, <1>11, <1>13, <1>14, <1>15, PdStep

LEMMA elf_exec_commit_Inv ==
    ASSUME PagingInv, NEW t \in Task, elf_exec_commit(t)
    PROVE  PagingInv'
<1>1. /\ page_dir \in [Task -> Pd] /\ new_pd \in [Task -> Pd] /\ RestOK
      /\ SoundPd(page_dir[t]) /\ SoundPd(new_pd[t]) /\ PhaseOK(t)
  BY Basics
<1>2. life[t] = "live" /\ Loaded(t) /\ cloned[t] = 0
  BY <1>1 DEF elf_exec_commit, InExec, PhaseOK
<1>3. PICK f \in Frame : new_pd[t] = Stack(f) /\ PrivateTo(page_dir, new_pd, t, f)
  BY <1>2, LoadedIsPrivate
<1>4. /\ page_dir' = [page_dir EXCEPT ![t] = new_pd[t]] /\ new_pd' = [new_pd EXCEPT ![t] = page_dir[t]]
      /\ call' = [call EXCEPT ![t] = "reap"]
      /\ UNCHANGED <<refcount, content, life, mmap_next, cloned, cut>>
  BY DEF elf_exec_commit, Goes
<1>5. /\ page_dir' \in [Task -> Pd] /\ new_pd' \in [Task -> Pd]
      /\ page_dir'[t] = new_pd[t] /\ new_pd'[t] = page_dir[t]
      /\ \A x \in Task : x # t => page_dir'[x] = page_dir[x] /\ new_pd'[x] = new_pd[x]
  BY <1>1, <1>4
<1>6. SoundPd(page_dir'[t]) /\ SoundPd(new_pd'[t])
  BY <1>1, <1>5
<1>7. RestOK'
  BY <1>1, <1>4 DEF RestOK
<1>8. ASSUME NEW g \in Frame
      PROVE  refcount'[g] >= Named(g)' /\ (cut' \/ refcount'[g] = Named(g)')
  <2>1. /\ Named(g)' = Named(g) - Count(page_dir[t], g) + Count(page_dir'[t], g)
                          - Count(new_pd[t], g) + Count(new_pd'[t], g)
        /\ Named(g) \in Nat
    BY <1>1, <1>5, <1>6, NamedStep
  <2>2. /\ Count(page_dir'[t], g) = Count(new_pd[t], g) /\ Count(page_dir[t], g) \in {0, 1}
        /\ Count(new_pd'[t], g) = Count(page_dir[t], g) /\ Count(new_pd[t], g) \in {0, 1}
    BY <1>5 DEF Count
  <2>3. Named(g)' = Named(g)
    BY <2>1, <2>2, SMTT(60)
  <2> QED
    BY <1>4, <2>3 DEF PagingInv, RefcountExact
<1>9. /\ call'[t] = "reap" /\ life'[t] = "live" /\ cloned'[t] = 0
      /\ \A x \in Task \ {t} : life'[x] = life[x] /\ call'[x] = call[x] /\ cloned'[x] = cloned[x]
  BY <1>1, <1>2, <1>4 DEF RestOK
<1>10. PhaseOK(t)'
  BY <1>9 DEF PhaseOK
<1>11. ASSUME NEW v \in Page, page_dir'[t][v].w PROVE Alone(page_dir', new_pd', t, v)
  <2>1. v = StackPage /\ page_dir'[t][v].frame = f
    BY <1>3, <1>5, <1>11, StackPd, SMTT(60)
  <2>2. \A x \in Page : page_dir'[t][x].frame = f <=> x = v
    BY <1>3, <1>5, <2>1 DEF PrivateTo
  <2>3. \A x \in Page : new_pd'[t][x].frame # f
    BY <1>3, <1>5 DEF PrivateTo
  <2> QED
    BY <1>3, <1>5, <2>1, <2>2, <2>3, SMTT(60) DEF Alone, PrivateTo
<1>12. \A g \in Frame : Names(page_dir'[t], g) \/ Names(new_pd'[t], g) =>
         Names(page_dir[t], g) \/ Names(new_pd[t], g) \/ g \in Free(refcount)
  BY <1>5
<1> QED
  BY <1>4, <1>5, <1>6, <1>7, <1>8, <1>9, <1>10, <1>11, <1>12, PdStep

-----------------------------------------------------------------------------
(* The invariant *)

LEMMA Init_Inv == Init => PagingInv
<1> SUFFICES ASSUME Init PROVE PagingInv
  OBVIOUS
<1>1. EmptyPd \in Pd /\ SoundPd(EmptyPd) /\ 0 \in Page /\ 0 \in 0..RefMax /\ 0 \in 0..NPages
  BY EmptySound, AddressSpaceAssumption, FramesAssumption, SMTT(60) DEF Page
<1>2. TypeOK
  BY <1>1 DEF Init, TypeOK, Content, Pd
<1>3. PdsSound
  BY <1>1 DEF Init, PdsSound
<1>4. PhasesOK
  BY DEF Init, PhasesOK, PhaseOK
<1>5. RefcountExact
  <2> SUFFICES ASSUME NEW f \in Frame PROVE refcount[f] = 0 /\ Named(f) = 0
    BY SMTT(60) DEF RefcountExact
  <2>1. \A x \in Task, v \in Page : page_dir[x][v].frame # f /\ new_pd[x][v].frame # f
    BY FramesAssumption DEF Init, EmptyPd, NoPte
  <2>2. Holders(page_dir, f) = {} /\ Holders(new_pd, f) = {}
    BY <2>1, HoldersAre, SMTT(60)
  <2> QED
    BY <2>2, FS_EmptySet, SMTT(60) DEF Init, Named
<1>6. WritableIsSole
  BY DEF Init, WritableIsSole
<1> QED
  BY <1>2, <1>3, <1>4, <1>5, <1>6 DEF PagingInv

LEMMA Program_Inv ==
    ASSUME PagingInv, NEW t \in Task, ProgramStep(t), "mprotect-rw" \notin Calls
    PROVE  PagingInv'
<1>1. CASE SYS_BRK(t)
  BY <1>1, SYS_BRK_Inv
<1>2. CASE kill_userspace_fault(t)
  BY <1>2, kill_userspace_fault_Inv
<1>3. ASSUME NEW v \in Page, store(t, v) PROVE PagingInv'
  BY <1>3, store_Inv
<1>4. ASSUME NEW v \in Page, cow_promote(t, v) PROVE PagingInv'
  BY <1>4, cow_promote_Inv
<1>5. ASSUME NEW v \in Page, SYS_MUNMAP(t, v) PROVE PagingInv'
  BY <1>5, SYS_MUNMAP_Inv
<1>6. ASSUME NEW v \in Page, NEW write \in BOOLEAN, SYS_MPROTECT(t, v, write) PROVE PagingInv'
  BY <1>6, SYS_MPROTECT_Inv
<1>7. ASSUME NEW v \in Page, NEW f \in Frame, try_handle_anon_fault(t, v, f) PROVE PagingInv'
  BY <1>7, try_handle_anon_fault_Inv
<1>8. ASSUME NEW v \in Page, NEW f \in Frame, cow_copy(t, v, f) PROVE PagingInv'
  BY <1>8, cow_copy_Inv
<1>9. ASSUME NEW v \in Page, NEW f \in Frame, SYS_MMAP2_fixed(t, v, f) PROVE PagingInv'
  BY <1>9, SYS_MMAP2_fixed_Inv
<1> QED
  BY <1>1, <1>2, <1>3, <1>4, <1>5, <1>6, <1>7, <1>8, <1>9 DEF ProgramStep

LEMMA Task_Inv ==
    ASSUME PagingInv, NEW t \in Task, TaskStep(t)
    PROVE  PagingInv'
<1>1. CASE vmm_clone_pd_cow(t)
  BY <1>1, vmm_clone_pd_cow_Inv
<1>2. CASE fork_fails(t)
  BY <1>2, fork_fails_Inv
<1>3. ASSUME NEW c \in Task, task_fork(t, c) PROVE PagingInv'
  BY <1>3, task_fork_Inv
<1>4. CASE task_create(t)
  BY <1>4, task_create_Inv
<1>5. CASE elf_exec_fails(t)
  BY <1>5, elf_exec_fails_Inv
<1>6. CASE elf_exec_commit(t)
  BY <1>6, elf_exec_commit_Inv
<1>7. CASE elf_exec_reap(t)
  BY <1>7, elf_exec_reap_Inv
<1>8. ASSUME NEW f \in Frame, elf_exec_load(t, f) PROVE PagingInv'
  BY <1>8, elf_exec_load_Inv
<1>9. CASE task_terminate(t)
  BY <1>9, task_terminate_Inv
<1> QED
  BY <1>1, <1>2, <1>3, <1>4, <1>5, <1>6, <1>7, <1>8, <1>9 DEF TaskStep

LEMMA Stutter_Inv == PagingInv /\ UNCHANGED vars => PagingInv'
<1> SUFFICES ASSUME PagingInv, UNCHANGED vars PROVE PagingInv'
  OBVIOUS
<1>1. TypeOK' /\ PdsSound'
  BY DEF PagingInv, TypeOK, PdsSound, vars
<1>2. PhasesOK'
  BY DEF PagingInv, PhasesOK, PhaseOK, Loaded, vars
<1>3. RefcountExact'
  BY DEF PagingInv, RefcountExact, Named, vars
<1>4. WritableIsSole'
  BY DEF PagingInv, WritableIsSole, vars
<1> QED
  BY <1>1, <1>2, <1>3, <1>4 DEF PagingInv

\* PagingInv holds at all times, of any number of tasks, pages and frames: whatever
\* faults, forks, execves and deaths come in whatever order, directories name a frame
\* once, counts cover the names, and what is writable has one holder.  Programs are
\* taken not to call mprotect with PROT_WRITE: vmm_protect_page drops the mark for
\* copy-on-write, and the invariant does not survive it.
THEOREM PagingInvariant == ASSUME "mprotect-rw" \notin Calls PROVE Spec => []PagingInv
<1>1. PagingInv /\ [Next]_vars => PagingInv'
  <2> SUFFICES ASSUME PagingInv, Next PROVE PagingInv'
    BY Stutter_Inv
  <2>1. PICK t \in Task : ProgramStep(t) \/ TaskStep(t)
    BY DEF Next
  <2> QED
    BY <2>1, Program_Inv, Task_Inv
<1> QED
  BY Init_Inv, <1>1, PTL DEF Spec

\* pmm_free_frame frees no frame that a page-table entry still names, and every count
\* is given back, except by a task that a signal ended inside fork or execve.
THEOREM CountsAreExact == ASSUME "mprotect-rw" \notin Calls PROVE Spec => []RefcountExact
<1>1. PagingInv => RefcountExact
  BY DEF PagingInv
<1> QED
  BY <1>1, PagingInvariant, PTL

\* Copy-on-write never leaves a frame writable by one task and seen by another.
THEOREM WritersAreSole == ASSUME "mprotect-rw" \notin Calls PROVE Spec => []WritableIsSole
<1>1. PagingInv => WritableIsSole
  BY DEF PagingInv
<1> QED
  BY <1>1, PagingInvariant, PTL

-----------------------------------------------------------------------------
(* Refinement of PrivateMemory *)

LEMMA SeenIs ==
    ASSUME NEW x \in Task
    PROVE  /\ AbsMem[x] = Seen(x) /\ Seen(x) = [v \in Page |-> Seen(x)[v]]
           /\ \A v \in Page : Seen(x)[v] = IF life[x] # "live" \/ page_dir[x][v] = NoPte THEN "absent"
                                           ELSE content[page_dir[x][v].frame]
  BY DEF AbsMem, Seen

LEMMA SeenWillBe ==
    ASSUME NEW x \in Task
    PROVE  /\ AbsMem'[x] = Seen(x)' /\ Seen(x)' = [v \in Page |-> Seen(x)'[v]]
           /\ \A v \in Page : Seen(x)'[v] = IF life'[x] # "live" \/ page_dir'[x][v] = NoPte THEN "absent"
                                            ELSE content'[page_dir'[x][v].frame]
  BY DEF AbsMem, Seen

\* A step that leaves a task's entries as they are, up to rights and marks, and the
\* frames they name, leaves what the task sees.
LEMMA SeenKept ==
    ASSUME NEW x \in Task, life'[x] = life[x],
           \A v \in Page : /\ page_dir'[x][v].frame = page_dir[x][v].frame
                           /\ page_dir'[x][v] = NoPte <=> page_dir[x][v] = NoPte
                           /\ life[x] = "live" /\ page_dir[x][v] # NoPte
                                => content'[page_dir[x][v].frame] = content[page_dir[x][v].frame]
    PROVE  Seen(x)' = Seen(x)
<1>1. \A v \in Page : Seen(x)'[v] = Seen(x)[v]
  BY SeenIs, SeenWillBe, SMTT(60)
<1>2. [v \in Page |-> Seen(x)'[v]] = [v \in Page |-> Seen(x)[v]]
  BY <1>1
<1>3. Seen(x)' = [v \in Page |-> Seen(x)'[v]] /\ Seen(x) = [v \in Page |-> Seen(x)[v]]
  BY SeenIs, SeenWillBe
<1> QED
  BY <1>2, <1>3

LEMMA AllKept ==
    ASSUME \A x \in Task : Seen(x)' = Seen(x)
    PROVE  AbsMem' = AbsMem
  BY DEF AbsMem

\* The step changes what one task sees,
LEMMA TaskChanged ==
    ASSUME NEW t \in Task, \A x \in Task \ {t} : Seen(x)' = Seen(x)
    PROVE  AbsMem' = [AbsMem EXCEPT ![t] = Seen(t)']
<1>1. AbsMem' = [x \in Task |-> Seen(x)']
  BY DEF AbsMem
<1>2. [AbsMem EXCEPT ![t] = Seen(t)'] = [x \in Task |-> IF x = t THEN Seen(t)' ELSE Seen(x)]
  BY DEF AbsMem
<1>3. \A x \in Task : Seen(x)' = IF x = t THEN Seen(t)' ELSE Seen(x)
  OBVIOUS
<1> QED
  BY <1>1, <1>2, <1>3

\* ... or one page of it.
LEMMA PageChanged ==
    ASSUME NEW t \in Task, NEW v \in Page, NEW c, \A x \in Task \ {t} : Seen(x)' = Seen(x),
           Seen(t)'[v] = c, \A y \in Page \ {v} : Seen(t)'[y] = Seen(t)[y]
    PROVE  AbsMem' = [AbsMem EXCEPT ![t][v] = c]
<1>1. AbsMem' = [AbsMem EXCEPT ![t] = Seen(t)']
  BY TaskChanged
<1>2. Seen(t)' = [Seen(t) EXCEPT ![v] = c]
  <2>1. Seen(t)' = [y \in Page |-> Seen(t)'[y]] /\ Seen(t) = [y \in Page |-> Seen(t)[y]]
    BY SeenIs, SeenWillBe
  <2>2. \A y \in Page : Seen(t)'[y] = IF y = v THEN c ELSE Seen(t)[y]
    OBVIOUS
  <2> QED
    BY <2>1, <2>2
<1>3. AbsMem[t] = Seen(t)
  BY SeenIs
<1> QED
  BY <1>1, <1>2, <1>3

\* A page that a live task sees has a content, never "absent".
LEMMA SeenPresent ==
    ASSUME PagingInv, NEW t \in Task, NEW v \in Page, life[t] = "live", page_dir[t][v] # NoPte
    PROVE  page_dir[t][v].frame \in Frame /\ Seen(t)[v] = content[page_dir[t][v].frame]
           /\ Seen(t)[v] # "absent"
<1>1. page_dir[t][v].frame \in Frame
  BY EntryHasFrame
<1>2. content[page_dir[t][v].frame] # "absent"
  BY <1>1, AddressSpaceAssumption, SMTT(60) DEF PagingInv, TypeOK, Content, Fresh
<1> QED
  BY <1>1, <1>2, SeenIs

\* Filling a free frame is seen by no task.
LEMMA FreeUnseen ==
    ASSUME PagingInv, NEW f \in Free(refcount), NEW c \in Content, content' = [content EXCEPT ![f] = c]
    PROVE  \A x \in Task, v \in Page :
             page_dir[x][v].frame \in Frame => content'[page_dir[x][v].frame] = content[page_dir[x][v].frame]
  BY FreeUnnamed DEF PagingInv, TypeOK

\* The other tasks see no change when a step sets entries of t only, and changes no
\* frame they name.
LEMMA OthersKept ==
    ASSUME PagingInv, NEW t \in Task, NEW x \in Task \ {t},
           life'[x] = life[x], page_dir'[x] = page_dir[x],
           life[x] = "live" => \A v \in Page :
             page_dir[x][v].frame \in Frame => content'[page_dir[x][v].frame] = content[page_dir[x][v].frame]
    PROVE  Seen(x)' = Seen(x)
<1>1. \A v \in Page : page_dir[x][v] # NoPte => page_dir[x][v].frame \in Frame
  BY EntryHasFrame
<1> QED
  BY <1>1, SeenKept

\* A task that is not live sees nothing.
LEMMA DeadSees ==
    ASSUME NEW t \in Task
    PROVE  /\ life[t] # "live" => Seen(t) = Abs!Nothing
           /\ life'[t] # "live" => Seen(t)' = Abs!Nothing
  BY DEF Seen, Abs!Nothing, Abs!Absent

\* What programs do, seen from PrivateMemory.
LEMMA Program_Abs ==
    ASSUME PagingInv, NEW t \in Task, ProgramStep(t)
    PROVE  Abs!AbsNext \/ AbsMem' = AbsMem
<1> USE DEF Abs!Fresh
<1>0. /\ page_dir \in [Task -> Pd] /\ RestOK /\ page_dir[t] \in Pd
      /\ life \in [Task -> {"unused", "live", "dead"}] /\ content \in [Frame -> Content]
  BY Basics DEF RestOK
<1>1. CASE SYS_BRK(t)
  BY <1>1, SeenKept, AllKept DEF SYS_BRK
<1>2. CASE kill_userspace_fault(t)
  <2>1. \A x \in Task \ {t} : Seen(x)' = Seen(x)
    BY <1>0, <1>2, SeenKept DEF kill_userspace_fault
  <2>2. Seen(t)' = Abs!Nothing
    BY <1>0, <1>2, DeadSees DEF kill_userspace_fault
  <2>3. Abs!End(t)
    BY <2>1, <2>2, TaskChanged DEF Abs!End
  <2> QED
    BY <2>3 DEF Abs!AbsNext
<1>3. ASSUME NEW v \in Page, store(t, v) PROVE Abs!AbsNext
  <2> DEFINE f == page_dir[t][v].frame
  <2>1. life[t] = "live" /\ page_dir[t][v].w /\ page_dir[t][v] # NoPte /\ life' = life /\ page_dir' = page_dir
    BY <1>3, SMTT(60) DEF store, User, At, NoPte
  <2>2. Alone(page_dir, new_pd, t, v) /\ f \in Frame
    BY <2>1, SoleIsAlone, EntryHasFrame DEF PagingInv
  <2>3. \A g \in Frame : content'[g] = IF g = f THEN t ELSE content[g]
    BY <1>0, <1>3, <2>2 DEF store
  <2>4. ASSUME NEW x \in Task \ {t} PROVE Seen(x)' = Seen(x)
    <3>1. \A y \in Page : page_dir[x][y].frame # f
      BY <2>2 DEF Alone
    <3> QED
      BY <2>1, <2>3, <3>1, OthersKept
  <2>5. Seen(t)'[v] = t
    BY <2>1, <2>2, <2>3, SeenWillBe, SMTT(60)
  <2>6. ASSUME NEW y \in Page \ {v} PROVE Seen(t)'[y] = Seen(t)[y]
    <3>1. page_dir[t][y].frame # f
      BY <2>2 DEF Alone
    <3>2. page_dir[t][y] # NoPte => page_dir[t][y].frame \in Frame
      BY EntryHasFrame
    <3> QED
      BY <2>1, <2>3, <3>1, <3>2, SeenIs, SeenWillBe, SMTT(60)
  <2>7. AbsMem' = [AbsMem EXCEPT ![t][v] = t]
    BY <2>4, <2>5, <2>6, PageChanged, SMTT(60)
  <2>8. AbsMem[t][v] # "absent"
    BY <2>1, SeenPresent, SeenIs, SMTT(60)
  <2>9. Abs!Store(t, v)
    BY <2>7, <2>8 DEF Abs!Store, Abs!Becomes, Abs!Absent
  <2> QED
    BY <2>9 DEF Abs!AbsNext
<1>4. ASSUME NEW v \in Page, cow_promote(t, v) PROVE AbsMem' = AbsMem
  <2>1. /\ page_dir' = [page_dir EXCEPT ![t][v] = Writable(page_dir[t][v].frame)]
        /\ page_dir[t][v] # NoPte /\ life' = life /\ content' = content
    BY <1>4, SMTT(60) DEF cow_promote, SetPte, NoPte
  <2>2. page_dir[t][v].frame # NoFrame
    BY <2>1, EntryHasFrame
  <2>3. Writable(page_dir[t][v].frame) # NoPte /\ Writable(page_dir[t][v].frame).frame = page_dir[t][v].frame
    BY <2>2 DEF Writable, NoPte
  <2>4. \A x \in Task, y \in Page : page_dir'[x][y] = IF x = t /\ y = v THEN Writable(page_dir[t][v].frame)
                                                    ELSE page_dir[x][y]
    BY <1>0, <2>1 DEF Pd
  <2>5. \A x \in Task : Seen(x)' = Seen(x)
    BY <2>1, <2>3, <2>4, SeenKept, SMTT(60)
  <2> QED
    BY <2>5, AllKept
<1>5. ASSUME NEW v \in Page, SYS_MUNMAP(t, v) PROVE Abs!AbsNext
  <2>1. page_dir' = [page_dir EXCEPT ![t][v] = NoPte] /\ life' = life /\ content' = content
    BY <1>5 DEF SYS_MUNMAP, SetPte
  <2>2. \A x \in Task, y \in Page : page_dir'[x][y] = IF x = t /\ y = v THEN NoPte ELSE page_dir[x][y]
    BY <1>0, <2>1 DEF Pd
  <2>3. \A x \in Task \ {t} : Seen(x)' = Seen(x)
    BY <2>1, <2>2, SeenKept, SMTT(60)
  <2>4. Seen(t)'[v] = "absent" /\ \A y \in Page \ {v} : Seen(t)'[y] = Seen(t)[y]
    BY <2>1, <2>2, SeenIs, SeenWillBe, SMTT(60)
  <2>5. Abs!Unmap(t, v)
    BY <2>3, <2>4, PageChanged, SMTT(60) DEF Abs!Unmap, Abs!Becomes, Abs!Absent
  <2> QED
    BY <2>5 DEF Abs!AbsNext
<1>6. ASSUME NEW v \in Page, NEW write \in BOOLEAN, SYS_MPROTECT(t, v, write) PROVE AbsMem' = AbsMem
  <2> DEFINE pte == Protected(page_dir[t][v], write)
  <2>1. page_dir' = [page_dir EXCEPT ![t][v] = pte] /\ page_dir[t][v] # NoPte /\ life' = life /\ content' = content
    BY <1>6 DEF SYS_MPROTECT, SetPte
  <2>2. page_dir[t][v].frame # NoFrame
    BY <2>1, EntryHasFrame
  <2>3. pte # NoPte /\ pte.frame = page_dir[t][v].frame
    BY <2>2 DEF Protected, NoPte
  <2>4. \A x \in Task, y \in Page : page_dir'[x][y] = IF x = t /\ y = v THEN pte ELSE page_dir[x][y]
    BY <1>0, <2>1 DEF Pd
  <2>5. \A x \in Task : Seen(x)' = Seen(x)
    BY <2>1, <2>3, <2>4, SeenKept, SMTT(60)
  <2> QED
    BY <2>5, AllKept
<1>7. ASSUME NEW v \in Page, NEW f \in Frame, NEW c \in Content, User(t), f \in Free(refcount),
             content' = [content EXCEPT ![f] = c], SetPte(t, v, Writable(f)), life' = life
      PROVE  AbsMem' = [AbsMem EXCEPT ![t][v] = c]
  <2>1. \A x \in Task, y \in Page : page_dir'[x][y] = IF x = t /\ y = v THEN Writable(f) ELSE page_dir[x][y]
    BY <1>0, <1>7 DEF Pd, SetPte
  <2>2. \A x \in Task \ {t} : page_dir'[x] = page_dir[x]
    BY <1>0, <1>7 DEF SetPte
  <2>3. \A x \in Task, y \in Page :
          page_dir[x][y].frame \in Frame => content'[page_dir[x][y].frame] = content[page_dir[x][y].frame]
    BY <1>7, FreeUnseen
  <2>4. \A x \in Task \ {t} : Seen(x)' = Seen(x)
    BY <1>7, <2>2, <2>3, OthersKept
  <2>5. Writable(f) # NoPte /\ Writable(f).frame = f /\ content'[f] = c /\ life'[t] = "live"
    BY <1>0, <1>7, FramesAssumption DEF Writable, NoPte, User, At
  <2>6. Seen(t)'[v] = c
    BY <2>1, <2>5, SeenWillBe, SMTT(60)
  <2>7. ASSUME NEW y \in Page \ {v} PROVE Seen(t)'[y] = Seen(t)[y]
    <3>1. page_dir[t][y] # NoPte => page_dir[t][y].frame \in Frame
      BY EntryHasFrame
    <3> QED
      BY <1>7, <2>1, <2>3, <3>1, SeenIs, SeenWillBe, SMTT(60)
  <2> QED
    BY <2>4, <2>6, <2>7, PageChanged, SMTT(60)
<1>8. ASSUME NEW v \in Page, NEW f \in Frame, try_handle_anon_fault(t, v, f) \/ SYS_MMAP2_fixed(t, v, f)
      PROVE  Abs!AbsNext
  <2>1. AbsMem' = [AbsMem EXCEPT ![t][v] = Fresh]
    BY <1>7, <1>8 DEF try_handle_anon_fault, SYS_MMAP2_fixed, Content
  <2>2. Abs!Touch(t, v)
    BY <2>1 DEF Abs!Touch, Abs!Becomes, Fresh
  <2> QED
    BY <2>2 DEF Abs!AbsNext
<1>9. ASSUME NEW v \in Page, NEW f \in Frame, cow_copy(t, v, f) PROVE AbsMem' = AbsMem
  <2>1. life[t] = "live" /\ page_dir[t][v] # NoPte
    BY <1>9, SMTT(60) DEF cow_copy, User, At, NoPte
  <2>2. page_dir[t][v].frame \in Frame /\ AbsMem[t][v] = content[page_dir[t][v].frame]
    BY <2>1, SeenPresent, SeenIs, SMTT(60)
  <2>3. content[page_dir[t][v].frame] \in Content
    BY <1>0, <2>2
  <2>4. AbsMem' = [AbsMem EXCEPT ![t][v] = content[page_dir[t][v].frame]]
    BY <1>7, <1>9, <2>3 DEF cow_copy
  <2>5. [AbsMem EXCEPT ![t][v] = AbsMem[t][v]] = AbsMem
    BY DEF AbsMem, Seen
  <2> QED
    BY <2>2, <2>4, <2>5
<1> QED
  BY <1>1, <1>2, <1>3, <1>4, <1>5, <1>6, <1>8, <1>9 DEF ProgramStep

\* fork, execve and the end of tasks, seen from PrivateMemory.
LEMMA Task_Abs ==
    ASSUME PagingInv, NEW t \in Task, TaskStep(t)
    PROVE  Abs!AbsNext \/ AbsMem' = AbsMem
<1>0. /\ page_dir \in [Task -> Pd] /\ new_pd \in [Task -> Pd] /\ page_dir[t] \in Pd /\ PhaseOK(t)
      /\ life \in [Task -> {"unused", "live", "dead"}] /\ content \in [Frame -> Content]
      /\ cloned \in [Task -> Page \cup {NPages}] /\ RestOK
  BY Basics DEF RestOK
<1>1. CASE vmm_clone_pd_cow(t)
  <2> DEFINE v == cloned[t]
  <2>1. v \in Page /\ life' = life /\ content' = content
        /\ page_dir' = [page_dir EXCEPT ![t][v] = Shared(page_dir[t][v])]
    BY <1>0, <1>1, AddressSpaceAssumption, SMTT(60) DEF vmm_clone_pd_cow, ShareEntry, SetPte, Page
  <2>2. page_dir[t][v] \in Pte
    BY <1>0, <2>1 DEF Pd
  <2>3. page_dir[t][v] # NoPte => page_dir[t][v].frame # NoFrame
    BY <2>1, EntryHasFrame
  <2>4. Shared(page_dir[t][v]).frame = page_dir[t][v].frame
        /\ (Shared(page_dir[t][v]) = NoPte <=> page_dir[t][v] = NoPte)
    BY <2>2, <2>3 DEF Shared, Pte, NoPte
  <2>5. \A x \in Task, y \in Page : page_dir'[x][y] = IF x = t /\ y = v THEN Shared(page_dir[t][v])
                                                    ELSE page_dir[x][y]
    BY <1>0, <2>1 DEF Pd
  <2> HIDE DEF v
  <2>6. \A x \in Task : Seen(x)' = Seen(x)
    BY <2>1, <2>4, <2>5, SeenKept, SMTT(60)
  <2> QED
    BY <2>6, AllKept
<1>2. CASE fork_fails(t) \/ elf_exec_reap(t)
  BY <1>2, SeenKept, AllKept DEF fork_fails, elf_exec_reap
<1>3. ASSUME NEW c \in Task, task_fork(t, c) PROVE Abs!AbsNext
  <2>1. /\ life[t] = "live" /\ life[c] # "live" /\ t # c /\ cloned[t] = NPages /\ call[t] = "fork"
        /\ page_dir' = [page_dir EXCEPT ![c] = new_pd[t]] /\ life' = [life EXCEPT ![c] = "live"]
        /\ content' = content
    BY <1>3, NewSlot DEF task_fork, At
  <2>2. \A x \in Task \ {c} : Seen(x)' = Seen(x)
    BY <1>0, <2>1, SeenKept
  <2>3. \A v \in Page : v < NPages
    BY AddressSpaceAssumption, SMTT(60) DEF Page
  <2>4. \A v \in Page : page_dir'[c][v] = page_dir[t][v]
    BY <1>0, <2>1, <2>3 DEF PhaseOK
  <2>5. life'[c] = "live"
    BY <1>0, <2>1
  <2>6. \A v \in Page : Seen(c)'[v] = Seen(t)[v]
    BY <2>1, <2>4, <2>5, SeenIs, SeenWillBe, SMTT(60)
  <2>7. [v \in Page |-> Seen(c)'[v]] = [v \in Page |-> Seen(t)[v]]
    BY <2>6
  <2>8. Seen(c)' = [v \in Page |-> Seen(c)'[v]] /\ Seen(t) = [v \in Page |-> Seen(t)[v]] /\ AbsMem[t] = Seen(t)
    BY SeenIs, SeenWillBe
  <2>9. AbsMem' = [AbsMem EXCEPT ![c] = Seen(c)']
    BY <2>2, TaskChanged
  <2>10. Seen(c)' = AbsMem[t]
    BY <2>7, <2>8
  <2>11. Abs!Fork(t, c)
    BY <2>1, <2>9, <2>10 DEF Abs!Fork
  <2> QED
    BY <2>11 DEF Abs!AbsNext
<1>4. CASE task_create(t)
  <2>1. /\ life[t] # "live" /\ page_dir' = [page_dir EXCEPT ![t] = EmptyPd]
        /\ life' = [life EXCEPT ![t] = "live"] /\ content' = content
    BY <1>4, NewSlot DEF task_create
  <2>2. \A x \in Task \ {t} : Seen(x)' = Seen(x)
    BY <1>0, <2>1, SeenKept
  <2>3. page_dir'[t] = EmptyPd
    BY <1>0, <2>1
  <2>4. Seen(t)' = Abs!Nothing
    BY <2>3 DEF Seen, EmptyPd, Abs!Nothing, Abs!Absent
  <2>5. Seen(t) = Abs!Nothing
    BY <2>1, DeadSees
  <2> QED
    BY <2>2, <2>4, <2>5, AllKept
<1>5. CASE elf_exec_fails(t)
  <2>1. /\ life[t] = "live" /\ page_dir' = page_dir /\ content' = content
        /\ life' = [life EXCEPT ![t] = IF call[t] = "exec-fresh" THEN "dead" ELSE "live"]
    BY <1>5 DEF elf_exec_fails, InExec
  <2>2. \A x \in Task \ {t} : Seen(x)' = Seen(x)
    BY <1>0, <2>1, SeenKept
  <2>3. CASE call[t] = "exec-fresh"
    <3>1. Seen(t)' = Abs!Nothing
      BY <1>0, <2>1, <2>3, DeadSees
    <3>2. Abs!End(t)
      BY <2>2, <3>1, TaskChanged DEF Abs!End
    <3> QED
      BY <3>2 DEF Abs!AbsNext
  <2>4. CASE call[t] # "exec-fresh"
    BY <1>0, <2>1, <2>2, <2>4, SeenKept, AllKept
  <2> QED
    BY <2>3, <2>4
<1>6. CASE elf_exec_commit(t)
  <2>1. /\ life[t] = "live" /\ Loaded(t) /\ life' = life /\ content' = content
        /\ page_dir' = [page_dir EXCEPT ![t] = new_pd[t]]
    BY <1>0, <1>6 DEF elf_exec_commit, InExec, PhaseOK
  <2>2. PICK f \in Frame : new_pd[t] = Stack(f) /\ content[f] = Fresh
    BY <2>1, LoadedIsPrivate
  <2>3. \A x \in Task \ {t} : Seen(x)' = Seen(x)
    BY <1>0, <2>1, SeenKept
  <2>4. page_dir'[t] = Stack(f)
    BY <1>0, <2>1, <2>2
  <2>5. Writable(f) # NoPte /\ Writable(f).frame = f
    BY FramesAssumption DEF Writable, NoPte
  <2>6. \A v \in Page : Seen(t)'[v] = IF v \in {StackPage} THEN Fresh ELSE "absent"
    BY <2>1, <2>2, <2>4, <2>5, StackPd, SeenWillBe, SMTT(60)
  <2>7. [v \in Page |-> Seen(t)'[v]] = [v \in Page |-> IF v \in {StackPage} THEN Fresh ELSE "absent"]
    BY <2>6
  <2>8. Seen(t)' = [v \in Page |-> Seen(t)'[v]]
    BY SeenWillBe
  <2>9. AbsMem' = [AbsMem EXCEPT ![t] = Seen(t)']
    BY <2>3, TaskChanged
  <2>10. Abs!Exec(t)
    BY <2>7, <2>8, <2>9 DEF Abs!Exec, Abs!Fresh, Abs!Absent, Fresh
  <2> QED
    BY <2>10 DEF Abs!AbsNext
<1>7. ASSUME NEW f \in Frame, elf_exec_load(t, f) PROVE AbsMem' = AbsMem
  <2>1. /\ page_dir' = page_dir /\ life' = life /\ f \in Free(refcount)
        /\ content' = [content EXCEPT ![f] = Fresh]
    BY <1>7 DEF elf_exec_load
  <2>2. \A x \in Task, y \in Page :
          page_dir[x][y].frame \in Frame => content'[page_dir[x][y].frame] = content[page_dir[x][y].frame]
    BY <2>1, FreeUnseen DEF Content
  <2>3. \A x \in Task, y \in Page : page_dir[x][y] # NoPte => page_dir[x][y].frame \in Frame
    BY EntryHasFrame
  <2>4. \A x \in Task : Seen(x)' = Seen(x)
    BY <2>1, <2>2, <2>3, SeenKept
  <2> QED
    BY <2>4, AllKept
<1>8. CASE task_terminate(t)
  <2>1. life' = [life EXCEPT ![t] = "dead"] /\ page_dir' = page_dir /\ content' = content
    BY <1>8 DEF task_terminate
  <2>2. \A x \in Task \ {t} : Seen(x)' = Seen(x)
    BY <1>0, <2>1, SeenKept
  <2>3. Seen(t)' = Abs!Nothing
    BY <1>0, <2>1, DeadSees
  <2>4. Abs!End(t)
    BY <2>2, <2>3, TaskChanged DEF Abs!End
  <2> QED
    BY <2>4 DEF Abs!AbsNext
<1> QED
  BY <1>1, <1>2, <1>3, <1>4, <1>5, <1>6, <1>7, <1>8 DEF TaskStep

\* Every program's memory is private, for any number of tasks, pages and frames: the
\* address spaces built by fork, faults, mmap, munmap and execve implement PrivateMemory,
\* in which only a program's own steps change what it sees.
THEOREM MemoryRefined == ASSUME "mprotect-rw" \notin Calls PROVE Spec => MemoryIsPrivate
<1>1. Init => Abs!AbsInit
  BY DEF Init, Abs!AbsInit, AbsMem, Seen, Abs!Nothing, Abs!Absent
<1>2. PagingInv /\ [Next]_vars => [Abs!AbsNext]_AbsMem
  <2> SUFFICES ASSUME PagingInv, [Next]_vars PROVE Abs!AbsNext \/ AbsMem' = AbsMem
    OBVIOUS
  <2>1. CASE UNCHANGED vars
    BY <2>1 DEF vars, AbsMem, Seen
  <2>2. CASE Next
    <3>1. PICK t \in Task : ProgramStep(t) \/ TaskStep(t)
      BY <2>2 DEF Next
    <3> QED
      BY <3>1, Program_Abs, Task_Abs
  <2> QED
    BY <2>1, <2>2
<1> QED
  BY <1>1, <1>2, PagingInvariant, PTL DEF Spec, MemoryIsPrivate, Abs!AbsSpec
=============================================================================
