-------------------------- MODULE Surfaces_proofs --------------------------
(***************************************************************************)
(* Shared surfaces, for any number of tasks, surfaces, pages and frames.   *)
(* SurfacesInv is the inductive invariant: that a program sees its surface *)
(* until it unmaps it needs to know that the frame has no other owner, who *)
(* could free it, and that a page-table entry and a map slot come and go   *)
(* together, since the last map slot is what surface_gc looks at.          *)
(***************************************************************************)
EXTENDS Surfaces, FiniteSetTheorems, TLAPS

\* A leaf is given up after this many seconds.
USE ZenonT(60)

\* What holds until a program goes behind the back of the surface calls.
Uncrossed ==
    /\ OneOwner /\ SlotsEntered
    /\ \A t \in Task, v \in Page : page_dir[t][v] # NoFrame =>
        /\ \E i \in Id : [task |-> t, base_va |-> v] \in surf[i].map /\ surf[i].frame = page_dir[t][v]
        /\ page_dir[t][v] \notin private
        /\ life[t] = "live"
    /\ \A i \in Id : surf[i].in_use =>
        /\ surf[i].creator # Nobody \/ surf[i].map # {}
        /\ surf[i].creator # Nobody => life[surf[i].creator] = "live"
        /\ \A m \in surf[i].map : life[m.task] = "live"

LEMMA InvIs == SurfacesInv <=> TypeOK /\ (~crossed => Uncrossed)
  BY DEF SurfacesInv, Uncrossed, SurfaceShown, SurfaceHolders

-----------------------------------------------------------------------------
(* Counting *)

\* A directory without entries gives no frame back.
LEMMA NoEntries ==
    ASSUME NEW t \in Task, \A v \in Page : page_dir[t][v] \notin Frame
    PROVE  \A f \in Frame : PdFrames(t)[f] = 0
<1>1. ASSUME NEW f \in Frame PROVE {v \in Page : page_dir[t][v] = f} = {}
  OBVIOUS
<1> QED
  BY <1>1, FS_EmptySet DEF PdFrames

LEMMA PdFramesType ==
    ASSUME IsFiniteSet(Page), NEW t \in Task
    PROVE  PdFrames(t) \in [Frame -> Nat]
<1>1. ASSUME NEW f \in Frame PROVE Cardinality({v \in Page : page_dir[t][v] = f}) \in Nat
  <2>1. IsFiniteSet({v \in Page : page_dir[t][v] = f})
    BY FS_Subset
  <2> QED
    BY <2>1, FS_CardinalityType
<1> QED
  BY <1>1 DEF PdFrames

LEMMA DroppedAllType ==
    ASSUME NEW rc \in [Frame -> 0..RefMax], NEW n \in [Frame -> Nat]
    PROVE  DroppedAll(rc, n) \in [Frame -> 0..RefMax]
  BY FramesAssumption, SMTT(60) DEF DroppedAll

LEMMA CountedAllType ==
    ASSUME NEW rc \in [Frame -> 0..RefMax], NEW n \in [Frame -> Nat]
    PROVE  CountedAll(rc, n) \in [Frame -> 0..RefMax]
  BY FramesAssumption, SMTT(60) DEF CountedAll

LEMMA DroppedNone ==
    ASSUME NEW rc \in [Frame -> 0..RefMax], NEW n, \A f \in Frame : n[f] = 0
    PROVE  DroppedAll(rc, n) = rc
  BY FramesAssumption, SMTT(60) DEF DroppedAll

LEMMA CountedNone ==
    ASSUME NEW rc \in [Frame -> 0..RefMax], NEW n, \A f \in Frame : n[f] = 0
    PROVE  CountedAll(rc, n) = rc
  BY FramesAssumption, SMTT(60) DEF CountedAll

-----------------------------------------------------------------------------
(* surface_gc *)

\* What the calls that end in surface_gc do to the table: creators and map slots go,
\* surfaces stay what they are.
Lessened(S) ==
    /\ S \in [Id -> Surface]
    /\ \A i \in Id : /\ S[i].in_use = surf[i].in_use /\ S[i].frame = surf[i].frame
                     /\ S[i].map \subseteq surf[i].map

\* surface_gc drops the frame of a surface once, and only when the surface is unused.
LEMMA ReleasedIs ==
    ASSUME TypeOK, OneOwner, NEW S, Lessened(S), NEW f \in Frame
    PROVE  Released(refcount, S)[f] =
             IF \E i \in Id : Unused(S[i]) /\ S[i].frame = f THEN 0 ELSE refcount[f]
<1> DEFINE U == {i \in Id : Unused(S[i]) /\ S[i].frame = f}
<1>0. refcount[f] \in Nat
  BY FramesAssumption, SMTT(60) DEF TypeOK
<1>1. Released(refcount, S)[f] =
        IF Cardinality(U) > refcount[f] THEN 0 ELSE refcount[f] - Cardinality(U)
  BY DEF Released, DroppedAll
<1>2. CASE \E i \in Id : Unused(S[i]) /\ S[i].frame = f
  <2>1. PICK i \in Id : Unused(S[i]) /\ S[i].frame = f
    BY <1>2
  <2>2. U = {i}
    BY <2>1, SMTT(60) DEF Lessened, OneOwner, Unused
  <2>3. Cardinality(U) = 1
    BY <2>2, FS_Singleton
  <2>4. refcount[f] = 1
    BY <2>1, SMTT(60) DEF Lessened, OneOwner, Owned, Unused
  <2> QED
    BY <1>1, <1>2, <2>3, <2>4, SMTT(60)
<1>3. CASE ~\E i \in Id : Unused(S[i]) /\ S[i].frame = f
  <2>1. U = {}
    BY <1>3
  <2>2. Cardinality(U) = 0
    BY <2>1, FS_EmptySet
  <2> QED
    BY <1>0, <1>1, <1>3, <2>2, SMTT(60)
<1> QED
  BY <1>2, <1>3

\* The table after surface_gc: what is still used is as the call left it.
LEMMA CollectedIs ==
    ASSUME NEW S, Lessened(S), NEW i \in Id
    PROVE  /\ Collected(S)[i] \in Surface
           /\ Collected(S)[i].in_use <=> surf[i].in_use /\ ~Unused(S[i])
           /\ Collected(S)[i].in_use => Collected(S)[i] = S[i]
           /\ ~Collected(S)[i].in_use => Collected(S)[i].map = {} \/ Collected(S)[i] = S[i]
           /\ Collected(S)[i].map \subseteq S[i].map
           /\ S[i].in_use => S[i].map \subseteq Collected(S)[i].map
<1>1. S[i] \in Surface /\ S[i].in_use = surf[i].in_use
  BY DEF Lessened
<1>2. NoSurface \in Surface /\ ~NoSurface.in_use /\ NoSurface.map = {}
  BY DEF NoSurface, Surface
<1>3. Collected(S)[i] = IF Unused(S[i]) THEN NoSurface ELSE S[i]
  BY DEF Collected
<1>4. Unused(S[i]) => S[i].map = {} /\ S[i].in_use
  BY DEF Unused
<1> QED
  BY <1>1, <1>2, <1>3, <1>4

LEMMA CollectOneOwner ==
    ASSUME TypeOK, OneOwner, NEW S, Lessened(S),
           surf' = Collected(S), refcount' = Released(refcount, S), private' = private
    PROVE  OneOwner'
<1>1. \A i \in Id : /\ surf'[i].in_use <=> surf[i].in_use /\ ~Unused(S[i])
                    /\ surf'[i].in_use => surf'[i].frame = surf[i].frame
  BY CollectedIs DEF Lessened
<1>2. ASSUME NEW i \in Id, NEW j \in Id, surf'[i].in_use, surf'[j].in_use,
             surf'[i].frame = surf'[j].frame
      PROVE  i = j
  BY <1>1, <1>2 DEF OneOwner
<1>3. ASSUME NEW i \in Id, surf'[i].in_use PROVE surf'[i].frame \in Frame \ private'
  BY <1>1, <1>3 DEF OneOwner
<1>4. ASSUME NEW f \in Frame
      PROVE  refcount'[f] = IF f \in private' \/ Owned(f)' THEN 1 ELSE 0
  <2>1. refcount[f] = IF f \in private \/ Owned(f) THEN 1 ELSE 0
    BY DEF OneOwner
  <2>2. refcount'[f] = IF \E i \in Id : Unused(S[i]) /\ S[i].frame = f THEN 0 ELSE refcount[f]
    BY ReleasedIs
  <2>3. CASE \E i \in Id : Unused(S[i]) /\ S[i].frame = f
    <3>1. PICK i \in Id : Unused(S[i]) /\ S[i].frame = f
      BY <2>3
    <3>2. surf[i].in_use /\ surf[i].frame = f
      BY <3>1 DEF Lessened, Unused
    <3>3. f \notin private
      BY <3>2 DEF OneOwner
    <3>4. ~Owned(f)'
      <4>1. ASSUME NEW j \in Id, surf'[j].in_use, surf'[j].frame = f PROVE FALSE
        <5>1. surf[j].in_use /\ surf[j].frame = f /\ ~Unused(S[j])
          BY <1>1, <4>1
        <5>2. j = i
          BY <3>2, <5>1 DEF OneOwner
        <5> QED
          BY <3>1, <5>1, <5>2
      <4> QED
        BY <4>1 DEF Owned
    <3> QED
      BY <2>2, <2>3, <3>3, <3>4
  <2>4. CASE ~\E i \in Id : Unused(S[i]) /\ S[i].frame = f
    <3>1. Owned(f)' <=> Owned(f)
      <4>1. ASSUME NEW i \in Id, surf[i].in_use, surf[i].frame = f
            PROVE  surf'[i].in_use /\ surf'[i].frame = f
        BY <1>1, <2>4, <4>1 DEF Lessened
      <4>2. ASSUME NEW i \in Id, surf'[i].in_use, surf'[i].frame = f
            PROVE  surf[i].in_use /\ surf[i].frame = f
        BY <1>1, <4>2
      <4> QED
        BY <4>1, <4>2 DEF Owned
    <3> QED
      BY <2>1, <2>2, <2>4, <3>1
  <2> QED
    BY <2>3, <2>4
<1> QED
  BY <1>2, <1>3, <1>4 DEF OneOwner

\* A call that ends in surface_gc keeps the invariant when it takes away map slots and
\* the page-table entries that go with them, and nothing else.
LEMMA CollectKeeps ==
    ASSUME TypeOK, Uncrossed, NEW S, Lessened(S),
           surf' = Collected(S), refcount' = Released(refcount, S), private' = private,
           crossed' = crossed,
           page_dir' \in [Task -> [Page -> Frame \cup {NoFrame}]],
           life' \in [Task -> {"live", "dead"}],
           \A t \in Task, v \in Page : page_dir'[t][v] # NoFrame =>
             /\ page_dir'[t][v] = page_dir[t][v] /\ life'[t] = life[t]
             /\ \A i \in Id : [task |-> t, base_va |-> v] \in surf[i].map
                                => [task |-> t, base_va |-> v] \in S[i].map,
           \A i \in Id : \A m \in S[i].map :
             /\ page_dir'[m.task][m.base_va] = page_dir[m.task][m.base_va]
             /\ life'[m.task] = life[m.task],
           \A i \in Id : S[i].in_use /\ S[i].creator # Nobody => life'[S[i].creator] = "live"
    PROVE  SurfacesInv'
<1>1. OneOwner'
  BY CollectOneOwner DEF Uncrossed
<1>2. ASSUME NEW i \in Id
      PROVE  /\ surf'[i] \in Surface
             /\ surf'[i].in_use => surf[i].in_use /\ surf'[i] = S[i] /\ ~Unused(S[i])
             /\ surf'[i].map \subseteq S[i].map /\ S[i].map \subseteq surf[i].map
             /\ S[i].map \subseteq surf'[i].map
             /\ ~surf'[i].in_use => surf'[i].map = {}
             /\ S[i].frame = surf[i].frame
  <2>1. ~surf[i].in_use => S[i].map = {}
    BY DEF Uncrossed, SlotsEntered, Lessened
  <2> QED
    BY <2>1, CollectedIs DEF Lessened
<1>3. TypeOK'
  <2>1. surf' \in [Id -> Surface]
    BY <1>2 DEF Collected
  <2>2. refcount' \in [Frame -> 0..RefMax]
    <3>1. \A f \in Frame : refcount'[f] \in 0..1
      BY <1>1, SMTT(60) DEF OneOwner
    <3>2. refcount' = [f \in Frame |-> refcount'[f]]
      BY DEF Released, DroppedAll
    <3> QED
      BY <3>1, <3>2, FramesAssumption, SMTT(60)
  <2> QED
    BY <2>1, <2>2 DEF TypeOK
<1>4. SlotsEntered'
  <2>1. ASSUME NEW i \in Id, NEW m \in surf'[i].map
        PROVE  page_dir'[m.task][m.base_va] = surf'[i].frame
    <3>1. m \in S[i].map /\ m \in surf[i].map /\ surf'[i].in_use
      BY <1>2, <2>1
    <3>2. page_dir[m.task][m.base_va] = surf[i].frame
      BY <3>1 DEF Uncrossed, SlotsEntered
    <3> QED
      BY <1>2, <3>1, <3>2, SMTT(60)
  <2> QED
    BY <1>2, <2>1 DEF SlotsEntered
<1>5. ASSUME NEW t \in Task, NEW v \in Page, page_dir'[t][v] # NoFrame
      PROVE  /\ \E i \in Id : [task |-> t, base_va |-> v] \in surf'[i].map /\ surf'[i].frame = page_dir'[t][v]
             /\ page_dir'[t][v] \notin private'
             /\ life'[t] = "live"
  <2>1. page_dir[t][v] = page_dir'[t][v] /\ page_dir[t][v] # NoFrame /\ life'[t] = life[t]
    BY <1>5
  <2>2. PICK i \in Id : [task |-> t, base_va |-> v] \in surf[i].map /\ surf[i].frame = page_dir[t][v]
    BY <2>1, SMTT(60) DEF Uncrossed
  <2>3. [task |-> t, base_va |-> v] \in S[i].map
    BY <1>5, <2>2
  <2>4. [task |-> t, base_va |-> v] \in surf'[i].map /\ surf'[i].frame = surf[i].frame
    BY <1>2, <2>3, SMTT(60)
  <2> QED
    BY <2>1, <2>2, <2>4, SMTT(60) DEF Uncrossed
<1>6. ASSUME NEW i \in Id, surf'[i].in_use
      PROVE  /\ surf'[i].creator # Nobody \/ surf'[i].map # {}
             /\ surf'[i].creator # Nobody => life'[surf'[i].creator] = "live"
             /\ \A m \in surf'[i].map : life'[m.task] = "live"
  <2>1. surf[i].in_use /\ surf'[i] = S[i] /\ ~Unused(S[i]) /\ S[i].in_use
    BY <1>2, <1>6 DEF Lessened
  <2>2. ASSUME NEW m \in S[i].map PROVE life'[m.task] = "live"
    BY <1>2, <2>1, <2>2, SMTT(60) DEF Uncrossed
  <2> QED
    BY <2>1, <2>2 DEF Unused
<1>7. Uncrossed'
  BY <1>1, <1>4, <1>5, <1>6 DEF Uncrossed
<1> QED
  BY <1>3, <1>7 DEF SurfacesInv, Uncrossed, SurfaceShown, SurfaceHolders

-----------------------------------------------------------------------------
(* The calls *)

LEMMA Finish ==
    ASSUME TypeOK', crossed' \/ Uncrossed'
    PROVE  SurfacesInv'
  BY DEF SurfacesInv, Uncrossed, SurfaceShown, SurfaceHolders

LEMMA CreateInv ==
    ASSUME Nobody \notin Task, SurfacesInv, ~crossed,
           NEW t \in Task, NEW i \in Id, NEW f \in Frame, surface_create(t, i, f)
    PROVE  SurfacesInv'
<1>1. TypeOK /\ Uncrossed
  BY InvIs
<1> DEFINE s == [in_use |-> TRUE, frame |-> f, creator |-> t, map |-> {}]
<1>2. s \in Surface /\ s.in_use /\ s.frame = f /\ s.creator = t /\ s.map = {}
  BY DEF Surface
<1>3. surf' = [surf EXCEPT ![i] = s] /\ surf'[i] = s /\ \A j \in Id \ {i} : surf'[j] = surf[j]
  BY <1>1 DEF surface_create, TypeOK
<1>4. /\ ~surf[i].in_use /\ refcount[f] = 0 /\ refcount' = [refcount EXCEPT ![f] = 1]
      /\ page_dir' = page_dir /\ life' = life /\ private' = private /\ crossed' = crossed
      /\ life[t] = "live"
  BY DEF surface_create, Free, Taken
<1>5. f \notin private /\ ~Owned(f)
  BY <1>1, <1>4, SMTT(60) DEF Uncrossed, OneOwner
<1>6. TypeOK'
  BY <1>1, <1>2, <1>3, <1>4, FramesAssumption, SMTT(60) DEF TypeOK
<1>7. OneOwner'
  <2>1. \A j \in Id \ {i} : surf[j].in_use => surf[j].frame # f
    BY <1>5 DEF Owned
  <2>2. ASSUME NEW j \in Id, NEW k \in Id, surf'[j].in_use, surf'[k].in_use,
               surf'[j].frame = surf'[k].frame
        PROVE  j = k
    BY <1>1, <1>2, <1>3, <2>1, <2>2, SMTT(60) DEF Uncrossed, OneOwner
  <2>3. ASSUME NEW j \in Id, surf'[j].in_use PROVE surf'[j].frame \in Frame \ private'
    BY <1>1, <1>2, <1>3, <1>4, <1>5, <2>3, SMTT(60) DEF Uncrossed, OneOwner
  <2>4. ASSUME NEW g \in Frame
        PROVE  refcount'[g] = IF g \in private' \/ Owned(g)' THEN 1 ELSE 0
    <3>1. CASE g = f
      BY <1>1, <1>2, <1>3, <1>4, <3>1 DEF TypeOK, Owned
    <3>2. CASE g # f
      <4>1. Owned(g)' <=> Owned(g)
        BY <1>2, <1>3, <1>4, <3>2 DEF Owned
      <4> QED
        BY <1>1, <1>4, <3>2, <4>1 DEF TypeOK, Uncrossed, OneOwner
    <3> QED
      BY <3>1, <3>2
  <2> QED
    BY <2>2, <2>3, <2>4 DEF OneOwner
<1>8. surf[i].map = {}
  BY <1>1, <1>4 DEF Uncrossed, SlotsEntered
<1>9. SlotsEntered'
  BY <1>1, <1>2, <1>3, <1>4, SMTT(60) DEF Uncrossed, SlotsEntered
<1>10. ASSUME NEW u \in Task, NEW v \in Page, page_dir'[u][v] # NoFrame
       PROVE  /\ \E j \in Id : [task |-> u, base_va |-> v] \in surf'[j].map /\ surf'[j].frame = page_dir'[u][v]
              /\ page_dir'[u][v] \notin private'
              /\ life'[u] = "live"
  <2>1. page_dir[u][v] # NoFrame
    BY <1>4, <1>10
  <2>2. PICK j \in Id : [task |-> u, base_va |-> v] \in surf[j].map /\ surf[j].frame = page_dir[u][v]
    BY <1>1, <2>1 DEF Uncrossed
  <2>3. surf'[j] = surf[j]
    BY <1>3, <1>8, <2>2
  <2> QED
    BY <1>1, <1>4, <2>1, <2>2, <2>3 DEF Uncrossed
<1>11. ASSUME NEW j \in Id, surf'[j].in_use
       PROVE  /\ surf'[j].creator # Nobody \/ surf'[j].map # {}
              /\ surf'[j].creator # Nobody => life'[surf'[j].creator] = "live"
              /\ \A m \in surf'[j].map : life'[m.task] = "live"
  BY <1>1, <1>2, <1>3, <1>4, <1>11, SMTT(60) DEF Uncrossed
<1>12. Uncrossed'
  BY <1>7, <1>9, <1>10, <1>11 DEF Uncrossed
<1> QED
  BY <1>6, <1>12, Finish

\* Steps that leave the surfaces their frames leave the frames their owners.
LEMMA SameOwners ==
    ASSUME OneOwner, refcount' = refcount, private' = private,
           \A i \in Id : surf'[i].in_use = surf[i].in_use /\ surf'[i].frame = surf[i].frame
    PROVE  OneOwner'
<1>1. \A f \in Frame : Owned(f)' <=> Owned(f)
  BY DEF Owned
<1> QED
  BY <1>1 DEF OneOwner

\* Changing one field of a surface.
LEMMA MapField ==
    ASSUME NEW s \in Surface, NEW M \in SUBSET [task : Task, base_va : Page]
    PROVE  LET s2 == [s EXCEPT !.map = M] IN
           /\ s2 \in Surface /\ s2.map = M
           /\ s2.in_use = s.in_use /\ s2.frame = s.frame /\ s2.creator = s.creator
  BY DEF Surface

LEMMA CreatorField ==
    ASSUME NEW s \in Surface, NEW c \in Task \cup {Nobody}
    PROVE  LET s2 == [s EXCEPT !.creator = c] IN
           /\ s2 \in Surface /\ s2.creator = c
           /\ s2.in_use = s.in_use /\ s2.frame = s.frame /\ s2.map = s.map
  BY DEF Surface

LEMMA MapInv ==
    ASSUME SurfacesInv, ~crossed,
           NEW t \in Task, NEW i \in Id, NEW v \in Page, surface_map(t, i, v)
    PROVE  SurfacesInv'
<1>1. TypeOK /\ Uncrossed
  BY InvIs
<1> DEFINE new == [task |-> t, base_va |-> v]
           f == surf[i].frame
<1>2. /\ life[t] = "live" /\ surf[i].in_use /\ page_dir[t][v] = NoFrame
      /\ refcount' = refcount /\ life' = life /\ private' = private /\ crossed' = crossed
  BY DEF surface_map
<1>3. f \in Frame /\ f \notin private /\ f # NoFrame
  BY <1>1, <1>2, FramesAssumption DEF Uncrossed, OneOwner
<1>4. /\ page_dir' \in [Task -> [Page -> Frame \cup {NoFrame}]] /\ page_dir'[t][v] = f
      /\ \A u \in Task, x \in Page : u # t \/ x # v => page_dir'[u][x] = page_dir[u][x]
  <2>1. page_dir' = [page_dir EXCEPT ![t][v] = f]
    BY DEF surface_map
  <2>2. page_dir \in [Task -> [Page -> Frame \cup {NoFrame}]]
    BY <1>1 DEF TypeOK
  <2> HIDE DEF f
  <2> QED
    BY <1>3, <2>1, <2>2
<1>5. /\ surf' \in [Id -> Surface] /\ surf'[i].map = surf[i].map \cup {new}
      /\ surf'[i].in_use = surf[i].in_use /\ surf'[i].frame = f
      /\ surf'[i].creator = surf[i].creator
      /\ \A j \in Id \ {i} : surf'[j] = surf[j]
  <2>1. surf' = [surf EXCEPT ![i] = [surf[i] EXCEPT !.map = surf[i].map \cup {new}]]
    BY <1>1 DEF surface_map, TypeOK
  <2>2. surf \in [Id -> Surface] /\ surf[i] \in Surface /\ new \in [task : Task, base_va : Page]
    BY <1>1 DEF TypeOK
  <2>3. surf[i].map \cup {new} \in SUBSET [task : Task, base_va : Page]
    BY <2>2 DEF Surface
  <2> DEFINE s == [surf[i] EXCEPT !.map = surf[i].map \cup {new}]
  <2>4. /\ s \in Surface /\ s.map = surf[i].map \cup {new} /\ s.in_use = surf[i].in_use
        /\ s.frame = f /\ s.creator = surf[i].creator
    BY <2>2, <2>3, MapField
  <2>5. surf' = [surf EXCEPT ![i] = s]
    BY <2>1
  <2> HIDE DEF s
  <2>6. surf'[i] = s /\ \A j \in Id \ {i} : surf'[j] = surf[j]
    BY <2>2, <2>5
  <2>7. surf' \in [Id -> Surface]
    BY <2>2, <2>4, <2>5
  <2> QED
    BY <2>4, <2>6, <2>7
<1>6. TypeOK'
  BY <1>1, <1>2, <1>4, <1>5 DEF TypeOK
<1>7. OneOwner'
  <2>1. \A j \in Id : surf'[j].in_use = surf[j].in_use /\ surf'[j].frame = surf[j].frame
    BY <1>5
  <2> QED
    BY <1>1, <1>2, <2>1, SameOwners DEF Uncrossed
<1>8. ASSUME NEW j \in Id, NEW m \in surf[j].map PROVE m.task # t \/ m.base_va # v
  <2>1. surf[j].in_use /\ page_dir[m.task][m.base_va] = surf[j].frame
    BY <1>1, <1>8 DEF Uncrossed, SlotsEntered
  <2>2. surf[j].frame # NoFrame
    BY <1>1, <2>1, FramesAssumption, SMTT(60) DEF Uncrossed, OneOwner
  <2> QED
    BY <1>2, <2>1, <2>2
<1>9. SlotsEntered'
  <2>1. ASSUME NEW j \in Id, NEW m \in surf'[j].map
        PROVE  page_dir'[m.task][m.base_va] = surf'[j].frame
    <3>1. CASE m \in surf[j].map
      <4>1. m.task \in Task /\ m.base_va \in Page
        BY <1>1, <3>1, SMTT(60) DEF TypeOK, Surface
      <4>2. page_dir'[m.task][m.base_va] = page_dir[m.task][m.base_va]
        BY <1>4, <1>8, <3>1, <4>1
      <4>3. page_dir[m.task][m.base_va] = surf[j].frame
        BY <1>1, <3>1 DEF Uncrossed, SlotsEntered
      <4> QED
        BY <1>5, <4>2, <4>3
    <3>2. CASE m \notin surf[j].map
      BY <1>4, <1>5, <2>1, <3>2, SMTT(60)
    <3> QED
      BY <3>1, <3>2
  <2>2. ASSUME NEW j \in Id, ~surf'[j].in_use PROVE surf'[j].map = {}
    <3>0. j # i
      BY <1>2, <1>5, <2>2
    <3>1. ~surf[j].in_use /\ surf'[j] = surf[j]
      BY <1>5, <2>2, <3>0
    <3>2. surf[j].map = {}
      BY <1>1, <3>1 DEF Uncrossed, SlotsEntered
    <3> QED
      BY <3>1, <3>2
  <2> QED
    BY <2>1, <2>2 DEF SlotsEntered
<1>10. ASSUME NEW u \in Task, NEW x \in Page, page_dir'[u][x] # NoFrame
       PROVE  /\ \E j \in Id : [task |-> u, base_va |-> x] \in surf'[j].map /\ surf'[j].frame = page_dir'[u][x]
              /\ page_dir'[u][x] \notin private'
              /\ life'[u] = "live"
  <2>1. CASE u = t /\ x = v
    BY <1>2, <1>3, <1>4, <1>5, <2>1
  <2>2. CASE u # t \/ x # v
    <3>1. page_dir'[u][x] = page_dir[u][x] /\ page_dir[u][x] # NoFrame
      BY <1>4, <1>10, <2>2
    <3>2. PICK j \in Id : [task |-> u, base_va |-> x] \in surf[j].map /\ surf[j].frame = page_dir[u][x]
      BY <1>1, <3>1 DEF Uncrossed
    <3>3. [task |-> u, base_va |-> x] \in surf'[j].map /\ surf'[j].frame = surf[j].frame
      BY <1>5, <3>2
    <3> QED
      BY <1>1, <1>2, <3>1, <3>2, <3>3 DEF Uncrossed
  <2> QED
    BY <2>1, <2>2
<1>11. ASSUME NEW j \in Id, surf'[j].in_use
       PROVE  /\ surf'[j].creator # Nobody \/ surf'[j].map # {}
              /\ surf'[j].creator # Nobody => life'[surf'[j].creator] = "live"
              /\ \A m \in surf'[j].map : life'[m.task] = "live"
  <2>1. surf[j].in_use /\ surf'[j].creator = surf[j].creator /\ surf[j].map \subseteq surf'[j].map
    BY <1>5, <1>11
  <2>2. ASSUME NEW m \in surf'[j].map PROVE life'[m.task] = "live"
    BY <1>1, <1>2, <1>5, <2>1, <2>2, SMTT(60) DEF Uncrossed
  <2> QED
    BY <1>1, <1>2, <2>1, <2>2 DEF Uncrossed
<1>12. Uncrossed'
  BY <1>7, <1>9, <1>10, <1>11 DEF Uncrossed
<1> QED
  BY <1>6, <1>12, Finish

LEMMA DestroyInv ==
    ASSUME SurfacesInv, ~crossed,
           NEW t \in Task, NEW i \in Id, surface_destroy(t, i)
    PROVE  SurfacesInv'
<1>1. TypeOK /\ Uncrossed
  BY InvIs
<1> DEFINE S == [surf EXCEPT ![i].creator = Nobody]
<1>2. /\ surf' = Collected(S) /\ refcount' = Released(refcount, S)
      /\ page_dir' = page_dir /\ life' = life /\ private' = private /\ crossed' = crossed
  BY DEF surface_destroy
<1>3. /\ S \in [Id -> Surface]
      /\ \A j \in Id : /\ S[j].in_use = surf[j].in_use /\ S[j].frame = surf[j].frame
                        /\ S[j].map = surf[j].map
                        /\ S[j].creator \in {Nobody, surf[j].creator}
  <2>1. surf \in [Id -> Surface]
    BY <1>1 DEF TypeOK
  <2> DEFINE s == [surf[i] EXCEPT !.creator = Nobody]
  <2>2. /\ s \in Surface /\ s.creator = Nobody /\ s.in_use = surf[i].in_use
        /\ s.frame = surf[i].frame /\ s.map = surf[i].map
    BY <2>1, CreatorField
  <2>3. S = [surf EXCEPT ![i] = s]
    BY <2>1
  <2> HIDE DEF s, S
  <2> QED
    BY <2>1, <2>2, <2>3
<1> HIDE DEF S
<1>4. Lessened(S)
  BY <1>3 DEF Lessened
<1>5. page_dir' \in [Task -> [Page -> Frame \cup {NoFrame}]] /\ life' \in [Task -> {"live", "dead"}]
  BY <1>1, <1>2 DEF TypeOK
<1>6. \A j \in Id : S[j].in_use /\ S[j].creator # Nobody => life'[S[j].creator] = "live"
  BY <1>1, <1>2, <1>3, SMTT(60) DEF Uncrossed
<1> QED
  BY <1>1, <1>2, <1>3, <1>4, <1>5, <1>6, CollectKeeps

LEMMA UnmapInv ==
    ASSUME SurfacesInv, ~crossed,
           NEW t \in Task, NEW i \in Id, NEW v \in Page, surface_unmap(t, i, v)
    PROVE  SurfacesInv'
<1>1. TypeOK /\ Uncrossed
  BY InvIs
<1> DEFINE m == [task |-> t, base_va |-> v]
           S == [surf EXCEPT ![i].map = @ \ {m}]
<1>2. /\ surf' = Collected(S) /\ refcount' = Released(refcount, S)
      /\ page_dir' = [page_dir EXCEPT ![t][v] = NoFrame]
      /\ life' = life /\ private' = private /\ crossed' = crossed
      /\ m \in surf[i].map
  BY DEF surface_unmap, EntryCleared
<1>3. /\ S \in [Id -> Surface]
      /\ \A j \in Id : /\ S[j].in_use = surf[j].in_use /\ S[j].frame = surf[j].frame
                        /\ S[j].map \subseteq surf[j].map
                        /\ S[j].creator = surf[j].creator
      /\ S[i].map = surf[i].map \ {m} /\ \A j \in Id \ {i} : S[j] = surf[j]
  <2>1. surf \in [Id -> Surface] /\ surf[i].map \ {m} \in SUBSET [task : Task, base_va : Page]
    BY <1>1 DEF TypeOK, Surface
  <2> DEFINE s == [surf[i] EXCEPT !.map = surf[i].map \ {m}]
  <2>2. /\ s \in Surface /\ s.creator = surf[i].creator /\ s.in_use = surf[i].in_use
        /\ s.frame = surf[i].frame /\ s.map = surf[i].map \ {m}
    BY <2>1, MapField
  <2>3. S = [surf EXCEPT ![i] = s]
    BY <2>1
  <2> HIDE DEF s, S
  <2> QED
    BY <2>1, <2>2, <2>3
<1> HIDE DEF S
<1>4. Lessened(S)
  BY <1>3 DEF Lessened
<1>5. /\ page_dir' \in [Task -> [Page -> Frame \cup {NoFrame}]] /\ life' \in [Task -> {"live", "dead"}]
      /\ page_dir'[t][v] = NoFrame
      /\ \A u \in Task, x \in Page : u # t \/ x # v => page_dir'[u][x] = page_dir[u][x]
  <2>1. page_dir \in [Task -> [Page -> Frame \cup {NoFrame}]] /\ life \in [Task -> {"live", "dead"}]
    BY <1>1 DEF TypeOK
  <2> QED
    BY <1>2, <2>1
<1>6. \A j \in Id \ {i} : m \notin surf[j].map
  <2>1. SUFFICES ASSUME NEW j \in Id \ {i}, m \in surf[j].map PROVE FALSE
    OBVIOUS
  <2>2. page_dir[t][v] = surf[i].frame /\ page_dir[t][v] = surf[j].frame
    <3>1. m.task = t /\ m.base_va = v
      OBVIOUS
    <3> QED
      BY <1>1, <1>2, <2>1, <3>1, SMTT(60) DEF Uncrossed, SlotsEntered
  <2>3. surf[i].in_use /\ surf[j].in_use
    BY <1>1, <1>2, <2>1, SMTT(60) DEF Uncrossed, SlotsEntered
  <2>4. i = j
    BY <1>1, <2>2, <2>3 DEF Uncrossed, OneOwner
  <2> QED
    BY <2>1, <2>4
<1>7. ASSUME NEW u \in Task, NEW x \in Page, page_dir'[u][x] # NoFrame
      PROVE  /\ page_dir'[u][x] = page_dir[u][x] /\ life'[u] = life[u]
             /\ \A j \in Id : [task |-> u, base_va |-> x] \in surf[j].map
                                => [task |-> u, base_va |-> x] \in S[j].map
  <2>1. u # t \/ x # v
    BY <1>5, <1>7
  <2>2. [task |-> u, base_va |-> x] # m
    BY <2>1
  <2> QED
    BY <1>2, <1>3, <1>5, <2>1, <2>2
<1>8. ASSUME NEW j \in Id, NEW n \in S[j].map
      PROVE  /\ page_dir'[n.task][n.base_va] = page_dir[n.task][n.base_va]
             /\ life'[n.task] = life[n.task]
  <2>1. n \in surf[j].map /\ n # m
    BY <1>3, <1>6, <1>8
  <2>2. n \in [task : Task, base_va : Page]
    BY <1>1, <2>1 DEF TypeOK, Surface
  <2>3. n.task # t \/ n.base_va # v
    BY <2>1, <2>2
  <2> QED
    BY <1>2, <1>5, <2>2, <2>3
<1>9. \A j \in Id : S[j].in_use /\ S[j].creator # Nobody => life'[S[j].creator] = "live"
  BY <1>1, <1>2, <1>3, SMTT(60) DEF Uncrossed
<1> QED
  BY <1>1, <1>2, <1>4, <1>5, <1>7, <1>8, <1>9, CollectKeeps

LEMMA TerminateInv ==
    ASSUME Nobody \notin Task, SurfacesInv, ~crossed, NEW t \in Task, task_terminate(t)
    PROVE  SurfacesInv'
<1>1. TypeOK /\ Uncrossed
  BY InvIs
<1> DEFINE S == WithoutTask(t)
<1>2. /\ surf' = Collected(S) /\ refcount' = Released(refcount, S)
      /\ page_dir' = [page_dir EXCEPT ![t] = [v \in Page |-> IF v \in Shown(t) THEN NoFrame ELSE @[v]]]
      /\ life' = [life EXCEPT ![t] = "dead"] /\ private' = private /\ crossed' = crossed
  BY DEF task_terminate
<1>3. ASSUME NEW j \in Id
      PROVE  /\ S[j] \in Surface /\ S[j].in_use = surf[j].in_use /\ S[j].frame = surf[j].frame
             /\ S[j].map = {m \in surf[j].map : m.task # t}
             /\ S[j].creator = IF surf[j].creator = t THEN Nobody ELSE surf[j].creator
  <2>1. surf[j] \in Surface
    BY <1>1 DEF TypeOK
  <2>2. {m \in surf[j].map : m.task # t} \in SUBSET [task : Task, base_va : Page]
    BY <2>1 DEF Surface
  <2> QED
    BY <2>1, <2>2 DEF WithoutTask, Surface
<1>4. Lessened(S)
  <2>1. S \in [Id -> Surface]
    BY <1>3 DEF WithoutTask
  <2> QED
    BY <1>3, <2>1 DEF Lessened
<1> HIDE DEF S
<1>5. /\ page_dir' \in [Task -> [Page -> Frame \cup {NoFrame}]] /\ life' \in [Task -> {"live", "dead"}]
      /\ \A u \in Task \ {t} : page_dir'[u] = page_dir[u] /\ life'[u] = life[u]
      /\ \A v \in Page : page_dir'[t][v] = IF v \in Shown(t) THEN NoFrame ELSE page_dir[t][v]
  <2>1. page_dir \in [Task -> [Page -> Frame \cup {NoFrame}]] /\ life \in [Task -> {"live", "dead"}]
    BY <1>1 DEF TypeOK
  <2> QED
    BY <1>2, <2>1
<1>6. ASSUME NEW v \in Page PROVE page_dir'[t][v] = NoFrame
  <2>1. page_dir[t][v] # NoFrame => v \in Shown(t)
    BY <1>1 DEF Uncrossed, Shown
  <2> QED
    BY <1>5, <2>1
<1>7. ASSUME NEW u \in Task, NEW x \in Page, page_dir'[u][x] # NoFrame
      PROVE  /\ page_dir'[u][x] = page_dir[u][x] /\ life'[u] = life[u]
             /\ \A j \in Id : [task |-> u, base_va |-> x] \in surf[j].map
                                => [task |-> u, base_va |-> x] \in S[j].map
  <2>1. u # t
    BY <1>6, <1>7
  <2> QED
    BY <1>3, <1>5, <2>1
<1>8. ASSUME NEW j \in Id, NEW n \in S[j].map
      PROVE  /\ page_dir'[n.task][n.base_va] = page_dir[n.task][n.base_va]
             /\ life'[n.task] = life[n.task]
  <2>1. n.task \in Task /\ n.task # t
    BY <1>1, <1>3, <1>8 DEF TypeOK, Surface
  <2> QED
    BY <1>5, <2>1
<1>9. ASSUME NEW j \in Id, S[j].in_use, S[j].creator # Nobody PROVE life'[S[j].creator] = "live"
  <2>1. S[j].creator = surf[j].creator /\ S[j].creator # t /\ S[j].creator \in Task
    BY <1>3, <1>9 DEF Surface
  <2>2. surf[j].in_use /\ surf[j].creator # Nobody
    BY <1>3, <1>9, <2>1
  <2> QED
    BY <1>1, <1>5, <2>1, <2>2, SMTT(60) DEF Uncrossed
<1> QED
  BY <1>1, <1>2, <1>4, <1>5, <1>7, <1>8, <1>9, CollectKeeps

-----------------------------------------------------------------------------
(* Slots that are reused, other users of frames, and calls that cross *)

\* A task that is dead, or maps nothing, has no entries to free.
LEMMA DeadMapsNothing ==
    ASSUME TypeOK, Uncrossed, NEW t \in Task, life[t] = "dead"
    PROVE  page_dir[t] = NoPages
<1>1. \A v \in Page : page_dir[t][v] = NoFrame
  BY DEF Uncrossed
<1> QED
  BY <1>1 DEF TypeOK, NoPages

LEMMA NoPagesNoFrames ==
    ASSUME NEW t \in Task, page_dir[t] = NoPages
    PROVE  \A f \in Frame : PdFrames(t)[f] = 0
  BY NoEntries, FramesAssumption DEF NoPages

\* Only tasks change: a slot that maps nothing comes to life, or goes with nothing
\* that names it.
LEMMA LifeChanges ==
    ASSUME TypeOK, Uncrossed, NEW t \in Task, NEW l \in {"live", "dead"},
           life' = [life EXCEPT ![t] = l],
           page_dir' = page_dir, refcount' = refcount, surf' = surf, private' = private,
           crossed' \in BOOLEAN,
           l = "live" \/ ~\E i \in Id : surf[i].creator = t \/ \E m \in surf[i].map : m.task = t
    PROVE  SurfacesInv'
<1>1. TypeOK'
  BY DEF TypeOK
<1>2. OneOwner' /\ SlotsEntered'
  <2>1. OneOwner'
    BY SameOwners DEF Uncrossed
  <2>2. SlotsEntered'
    BY DEF Uncrossed, SlotsEntered
  <2> QED
    BY <2>1, <2>2
<1>3. \A u \in Task : life'[u] = IF u = t THEN l ELSE life[u]
  BY DEF TypeOK
<1>4. ASSUME NEW u \in Task, NEW v \in Page, page_dir[u][v] # NoFrame PROVE life'[u] = "live"
  <2>1. PICK i \in Id : [task |-> u, base_va |-> v] \in surf[i].map
    BY <1>4 DEF Uncrossed
  <2>2. life[u] = "live"
    BY <1>4 DEF Uncrossed
  <2>3. u = t => l = "live"
    <3>1. [task |-> u, base_va |-> v].task = u
      OBVIOUS
    <3> QED
      BY <2>1, <3>1
  <2> QED
    BY <1>3, <2>2, <2>3
<1>5. ASSUME NEW i \in Id, surf[i].in_use
      PROVE  /\ surf[i].creator # Nobody => life'[surf[i].creator] = "live"
             /\ \A m \in surf[i].map : life'[m.task] = "live"
  <2>1. surf[i] \in Surface
    BY DEF TypeOK
  <2>2. surf[i].creator # Nobody => life'[surf[i].creator] = "live"
    BY <1>3, <1>5, <2>1, SMTT(60) DEF Uncrossed, Surface
  <2>3. ASSUME NEW m \in surf[i].map PROVE life'[m.task] = "live"
    <3>1. m.task \in Task
      BY <2>1, <2>3 DEF Surface
    <3>2. life[m.task] = "live"
      BY <1>5, <2>3 DEF Uncrossed
    <3> QED
      BY <1>3, <2>3, <3>1, <3>2
  <2> QED
    BY <2>2, <2>3
<1>6. ASSUME NEW u \in Task, NEW v \in Page, page_dir'[u][v] # NoFrame
      PROVE  /\ \E i \in Id : [task |-> u, base_va |-> v] \in surf'[i].map /\ surf'[i].frame = page_dir'[u][v]
             /\ page_dir'[u][v] \notin private'
             /\ life'[u] = "live"
  <2>1. page_dir[u][v] # NoFrame
    BY <1>6
  <2>2. /\ \E i \in Id : [task |-> u, base_va |-> v] \in surf[i].map /\ surf[i].frame = page_dir[u][v]
        /\ page_dir[u][v] \notin private
    BY <2>1 DEF Uncrossed
  <2> QED
    BY <1>4, <2>1, <2>2
<1>7. ASSUME NEW i \in Id, surf'[i].in_use
      PROVE  /\ surf'[i].creator # Nobody \/ surf'[i].map # {}
             /\ surf'[i].creator # Nobody => life'[surf'[i].creator] = "live"
             /\ \A m \in surf'[i].map : life'[m.task] = "live"
  BY <1>5, <1>7 DEF Uncrossed
<1>8. Uncrossed'
  BY <1>2, <1>6, <1>7 DEF Uncrossed
<1> QED
  BY <1>1, <1>8, Finish

LEMMA CreateTaskInv ==
    ASSUME SurfacesInv, ~crossed, NEW t \in Task, task_create(t)
    PROVE  SurfacesInv'
<1>1. TypeOK /\ Uncrossed
  BY InvIs
<1>2. page_dir[t] = NoPages
  BY <1>1, DeadMapsNothing DEF task_create
<1>3. refcount' = refcount
  BY <1>1, <1>2, NoPagesNoFrames, DroppedNone DEF task_create, TypeOK
<1>4. page_dir' = page_dir
  BY <1>1, <1>2 DEF task_create, TypeOK
<1>5. /\ life' = [life EXCEPT ![t] = "live"]
      /\ surf' = surf /\ private' = private /\ crossed' \in BOOLEAN
  BY <1>1 DEF task_create, TypeOK
<1> QED
  BY <1>1, <1>3, <1>4, <1>5, LifeChanges

LEMMA AllocInv ==
    ASSUME SurfacesInv, ~crossed, NEW f \in Frame, pmm_alloc_frame(f)
    PROVE  SurfacesInv'
<1>1. TypeOK /\ Uncrossed
  BY InvIs
<1>2. /\ refcount[f] = 0 /\ refcount' = [refcount EXCEPT ![f] = 1] /\ private' = private \cup {f}
      /\ surf' = surf /\ page_dir' = page_dir /\ life' = life /\ crossed' = crossed
  BY DEF pmm_alloc_frame, Free, Taken
<1>3. ~Owned(f)
  BY <1>1, <1>2, SMTT(60) DEF Uncrossed, OneOwner
<1>4. TypeOK'
  BY <1>1, <1>2, FramesAssumption, SMTT(60) DEF TypeOK
<1>5. OneOwner'
  <2>1. \A g \in Frame : Owned(g)' <=> Owned(g)
    BY <1>2 DEF Owned
  <2>2. ASSUME NEW i \in Id, surf'[i].in_use PROVE surf'[i].frame \in Frame \ private'
    BY <1>1, <1>2, <1>3, <2>2 DEF Uncrossed, OneOwner, Owned
  <2>3. ASSUME NEW g \in Frame
        PROVE  refcount'[g] = IF g \in private' \/ Owned(g)' THEN 1 ELSE 0
    BY <1>1, <1>2, <2>1 DEF TypeOK, Uncrossed, OneOwner
  <2>4. ASSUME NEW i \in Id, NEW j \in Id, surf'[i].in_use, surf'[j].in_use,
               surf'[i].frame = surf'[j].frame
        PROVE  i = j
    BY <1>1, <1>2, <2>4 DEF Uncrossed, OneOwner
  <2> QED
    BY <2>2, <2>3, <2>4 DEF OneOwner
<1>6. SlotsEntered'
  BY <1>1, <1>2 DEF Uncrossed, SlotsEntered
<1>7. ASSUME NEW t \in Task, NEW v \in Page, page_dir[t][v] # NoFrame PROVE page_dir[t][v] \notin private'
  <2>1. PICK i \in Id : [task |-> t, base_va |-> v] \in surf[i].map /\ surf[i].frame = page_dir[t][v]
    BY <1>1, <1>7 DEF Uncrossed
  <2>2. surf[i].in_use
    BY <1>1, <2>1, SMTT(60) DEF Uncrossed, SlotsEntered
  <2>3. page_dir[t][v] # f
    BY <1>3, <2>1, <2>2 DEF Owned
  <2>4. page_dir[t][v] \notin private
    BY <1>1, <1>7 DEF Uncrossed
  <2> QED
    BY <1>2, <2>3, <2>4
<1>8. Uncrossed'
  BY <1>1, <1>2, <1>5, <1>6, <1>7 DEF Uncrossed
<1> QED
  BY <1>4, <1>8, Finish

LEMMA FreeInv ==
    ASSUME SurfacesInv, ~crossed, NEW f \in Frame, pmm_free_frame(f)
    PROVE  SurfacesInv'
<1>1. TypeOK /\ Uncrossed
  BY InvIs
<1>2. /\ f \in private /\ private' = private \ {f}
      /\ surf' = surf /\ page_dir' = page_dir /\ life' = life /\ crossed' = crossed
  BY DEF pmm_free_frame
<1>3. refcount[f] = 1 /\ ~Owned(f)
  BY <1>1, <1>2, SMTT(60) DEF Uncrossed, OneOwner, Owned
<1>4. refcount' = [refcount EXCEPT ![f] = 0]
  BY <1>3, SMTT(60) DEF pmm_free_frame, Dropped
<1>5. TypeOK'
  BY <1>1, <1>2, <1>4, FramesAssumption, SMTT(60) DEF TypeOK
<1>6. OneOwner'
  <2>1. \A g \in Frame : Owned(g)' <=> Owned(g)
    BY <1>2 DEF Owned
  <2>2. ASSUME NEW g \in Frame
        PROVE  refcount'[g] = IF g \in private' \/ Owned(g)' THEN 1 ELSE 0
    BY <1>1, <1>2, <1>3, <1>4, <2>1 DEF TypeOK, Uncrossed, OneOwner
  <2>3. ASSUME NEW i \in Id, surf'[i].in_use PROVE surf'[i].frame \in Frame \ private'
    BY <1>1, <1>2, <2>3 DEF Uncrossed, OneOwner
  <2>4. ASSUME NEW i \in Id, NEW j \in Id, surf'[i].in_use, surf'[j].in_use,
               surf'[i].frame = surf'[j].frame
        PROVE  i = j
    BY <1>1, <1>2, <2>4 DEF Uncrossed, OneOwner
  <2> QED
    BY <2>2, <2>3, <2>4 DEF OneOwner
<1>7. SlotsEntered'
  BY <1>1, <1>2 DEF Uncrossed, SlotsEntered
<1>8. ASSUME NEW t \in Task, NEW v \in Page, page_dir[t][v] # NoFrame PROVE page_dir[t][v] \notin private'
  BY <1>1, <1>2, <1>8 DEF Uncrossed
<1>9. Uncrossed'
  BY <1>1, <1>2, <1>6, <1>7, <1>8 DEF Uncrossed
<1> QED
  BY <1>5, <1>9, Finish

LEMMA MunmapInv ==
    ASSUME SurfacesInv, ~crossed, NEW t \in Task, NEW v \in Page, SYS_MUNMAP(t, v)
    PROVE  SurfacesInv'
<1>1. TypeOK
  BY InvIs
<1>2. /\ crossed' = TRUE /\ refcount' = Dropped(refcount, page_dir[t][v])
      /\ page_dir' = [page_dir EXCEPT ![t][v] = NoFrame]
      /\ surf' = surf /\ life' = life /\ private' = private
  BY DEF SYS_MUNMAP
<1>3. refcount' \in [Frame -> 0..RefMax]
  BY <1>1, <1>2, FramesAssumption, SMTT(60) DEF TypeOK, Dropped
<1>4. page_dir' \in [Task -> [Page -> Frame \cup {NoFrame}]]
  <2>1. page_dir \in [Task -> [Page -> Frame \cup {NoFrame}]]
    BY <1>1 DEF TypeOK
  <2> QED
    BY <1>2, <2>1
<1>5. TypeOK'
  BY <1>1, <1>2, <1>3, <1>4 DEF TypeOK
<1> QED
  BY <1>2, <1>5, Finish

LEMMA ForkInv ==
    ASSUME IsFiniteSet(Page), SurfacesInv, ~crossed, NEW t \in Task, NEW c \in Task, task_fork(t, c)
    PROVE  SurfacesInv'
<1>1. TypeOK /\ Uncrossed
  BY InvIs
<1>2. /\ life[c] = "dead" /\ life' = [life EXCEPT ![c] = "live"]
      /\ refcount' = CountedAll(DroppedAll(refcount, PdFrames(c)), PdFrames(t))
      /\ page_dir' = [page_dir EXCEPT ![c] = page_dir[t]]
      /\ crossed' = (crossed \/ page_dir[t] # NoPages)
      /\ surf' = surf /\ private' = private
  BY DEF task_fork
<1>3. page_dir[c] = NoPages
  BY <1>1, <1>2, DeadMapsNothing
<1>4. DroppedAll(refcount, PdFrames(c)) = refcount
  BY <1>1, <1>3, NoPagesNoFrames, DroppedNone DEF TypeOK
<1>5. TypeOK'
  <2>1. refcount' \in [Frame -> 0..RefMax]
    BY <1>1, <1>2, <1>4, PdFramesType, CountedAllType DEF TypeOK
  <2>2. page_dir' \in [Task -> [Page -> Frame \cup {NoFrame}]] /\ life' \in [Task -> {"live", "dead"}]
    <3>1. page_dir \in [Task -> [Page -> Frame \cup {NoFrame}]] /\ life \in [Task -> {"live", "dead"}]
      BY <1>1 DEF TypeOK
    <3> QED
      BY <1>2, <3>1
  <2>3. crossed' \in BOOLEAN
    BY <1>2
  <2> QED
    BY <1>1, <1>2, <2>1, <2>2, <2>3 DEF TypeOK
<1>6. CASE page_dir[t] # NoPages
  BY <1>2, <1>5, <1>6, Finish
<1>7. CASE page_dir[t] = NoPages
  <2>1. refcount' = refcount
    BY <1>1, <1>2, <1>4, <1>7, NoPagesNoFrames, CountedNone DEF TypeOK
  <2>2. page_dir' = page_dir
    BY <1>1, <1>2, <1>3, <1>7 DEF TypeOK
  <2>3. crossed' \in BOOLEAN
    BY <1>2
  <2> QED
    BY <1>1, <1>2, <2>1, <2>2, <2>3, LifeChanges
<1> QED
  BY <1>6, <1>7

LEMMA ExecveInv ==
    ASSUME IsFiniteSet(Page), SurfacesInv, ~crossed, NEW t \in Task, SYS_EXECVE(t)
    PROVE  SurfacesInv'
<1>1. TypeOK /\ Uncrossed
  BY InvIs
<1>2. /\ refcount' = DroppedAll(refcount, PdFrames(t))
      /\ page_dir' = [page_dir EXCEPT ![t] = NoPages]
      /\ crossed' = (crossed \/ page_dir[t] # NoPages)
      /\ surf' = surf /\ private' = private /\ life' = life /\ life[t] = "live"
  BY DEF SYS_EXECVE
<1>3. TypeOK'
  <2>1. refcount' \in [Frame -> 0..RefMax]
    BY <1>1, <1>2, PdFramesType, DroppedAllType DEF TypeOK
  <2>2. page_dir' \in [Task -> [Page -> Frame \cup {NoFrame}]]
    <3>1. page_dir \in [Task -> [Page -> Frame \cup {NoFrame}]]
      BY <1>1 DEF TypeOK
    <3>2. NoPages \in [Page -> Frame \cup {NoFrame}]
      BY DEF NoPages
    <3> QED
      BY <1>2, <3>1, <3>2
  <2>3. crossed' \in BOOLEAN
    BY <1>2
  <2> QED
    BY <1>1, <1>2, <2>1, <2>2, <2>3 DEF TypeOK
<1>4. CASE page_dir[t] # NoPages
  BY <1>2, <1>3, <1>4, Finish
<1>5. CASE page_dir[t] = NoPages
  <2>1. refcount' = refcount
    BY <1>1, <1>2, <1>5, NoPagesNoFrames, DroppedNone DEF TypeOK
  <2>2. page_dir' = page_dir
    BY <1>1, <1>2, <1>5 DEF TypeOK
  <2>3. crossed' \in BOOLEAN
    BY <1>2
  <2>4. life' = [life EXCEPT ![t] = "live"]
    BY <1>1, <1>2 DEF TypeOK
  <2> QED
    BY <1>1, <1>2, <2>1, <2>2, <2>3, <2>4, LifeChanges
<1> QED
  BY <1>4, <1>5

LEMMA SigreturnInv ==
    ASSUME SurfacesInv, ~crossed, NEW t \in Task, SYS_SIGRETURN_kill(t)
    PROVE  SurfacesInv'
<1>1. TypeOK /\ Uncrossed
  BY InvIs
<1> DEFINE names == \E i \in Id : surf[i].creator = t \/ \E m \in surf[i].map : m.task = t
<1>2. /\ life' = [life EXCEPT ![t] = "dead"] /\ crossed' = (crossed \/ names)
      /\ refcount' = refcount /\ surf' = surf /\ page_dir' = page_dir /\ private' = private
  BY DEF SYS_SIGRETURN_kill
<1>3. CASE names
  <2>1. TypeOK'
    BY <1>1, <1>2 DEF TypeOK
  <2> QED
    BY <1>2, <1>3, <2>1, Finish
<1>4. CASE ~names
  <2>1. crossed' \in BOOLEAN
    BY <1>2
  <2> QED
    BY <1>1, <1>2, <1>4, <2>1, LifeChanges
<1> QED
  BY <1>3, <1>4

-----------------------------------------------------------------------------
(* The theorems *)

LEMMA InvStep ==
    ASSUME Nobody \notin Task, IsFiniteSet(Page), SurfacesInv, [Next]_vars
    PROVE  SurfacesInv'
<1>1. CASE UNCHANGED vars
  BY <1>1, SMTT(60) DEF vars, SurfacesInv, TypeOK, SurfaceShown, SurfaceHolders, OneOwner, Owned, SlotsEntered
<1>2. CASE Next
  <2> USE <1>2
  <2>0. ~crossed /\ Step
    BY DEF Next
  <2>1. ASSUME NEW t \in Task, NEW i \in Id, NEW f \in Frame, surface_create(t, i, f)
        PROVE  SurfacesInv'
    BY <2>0, <2>1, CreateInv
  <2>2. ASSUME NEW t \in Task, NEW i \in Id, surface_destroy(t, i) PROVE SurfacesInv'
    BY <2>0, <2>2, DestroyInv
  <2>3. ASSUME NEW t \in Task, NEW i \in Id, NEW v \in Page, surface_map(t, i, v) PROVE SurfacesInv'
    BY <2>0, <2>3, MapInv
  <2>4. ASSUME NEW t \in Task, NEW i \in Id, NEW v \in Page, surface_unmap(t, i, v) PROVE SurfacesInv'
    BY <2>0, <2>4, UnmapInv
  <2>5. ASSUME NEW t \in Task, task_terminate(t) PROVE SurfacesInv'
    BY <2>0, <2>5, TerminateInv
  <2>6. ASSUME NEW t \in Task, task_create(t) PROVE SurfacesInv'
    BY <2>0, <2>6, CreateTaskInv
  <2>7. ASSUME NEW t \in Task, NEW v \in Page, SYS_MUNMAP(t, v) PROVE SurfacesInv'
    BY <2>0, <2>7, MunmapInv
  <2>8. ASSUME NEW t \in Task, NEW c \in Task, task_fork(t, c) PROVE SurfacesInv'
    BY <2>0, <2>8, ForkInv
  <2>9. ASSUME NEW t \in Task, SYS_EXECVE(t) PROVE SurfacesInv'
    BY <2>0, <2>9, ExecveInv
  <2>10. ASSUME NEW t \in Task, SYS_SIGRETURN_kill(t) PROVE SurfacesInv'
    BY <2>0, <2>10, SigreturnInv
  <2>11. ASSUME NEW f \in Frame, pmm_alloc_frame(f) PROVE SurfacesInv'
    BY <2>0, <2>11, AllocInv
  <2>12. ASSUME NEW f \in Frame, pmm_free_frame(f) PROVE SurfacesInv'
    BY <2>0, <2>12, FreeInv
  <2> QED
    BY <2>0, <2>1, <2>2, <2>3, <2>4, <2>5, <2>6, <2>7, <2>8, <2>9, <2>10, <2>11, <2>12
    DEF Step
<1> QED
  BY <1>1, <1>2

LEMMA InvInit ==
    ASSUME Init
    PROVE  SurfacesInv
<1>1. NoSurface \in Surface /\ ~NoSurface.in_use /\ NoSurface.map = {}
  BY DEF NoSurface, Surface
<1>2. /\ surf \in [Id -> Surface] /\ \A i \in Id : ~surf[i].in_use /\ surf[i].map = {}
      /\ \A t \in Task, v \in Page : page_dir[t][v] = NoFrame
  BY <1>1 DEF Init, NoPages
<1>3. TypeOK
  <2>1. refcount \in [Frame -> 0..RefMax]
    BY FramesAssumption, SMTT(60) DEF Init
  <2>2. page_dir \in [Task -> [Page -> Frame \cup {NoFrame}]]
    BY DEF Init, NoPages
  <2>3. private \subseteq Frame /\ crossed \in BOOLEAN
    BY DEF Init
  <2>4. life \in [Task -> {"live", "dead"}]
    <3>1. life = [t \in Task |-> "dead"]
      BY DEF Init
    <3> QED
      BY <3>1
  <2> QED
    BY <1>2, <2>1, <2>2, <2>3, <2>4 DEF TypeOK
<1>4. Uncrossed
  BY <1>2 DEF Init, Uncrossed, OneOwner, Owned, SlotsEntered
<1> QED
  BY <1>3, <1>4, InvIs

\* The counts are what SurfaceOwnsFrame says of them.
LEMMA OwnersCounted ==
    ASSUME SurfacesInv
    PROVE  SurfaceOwnsFrame
<1> SUFFICES ASSUME ~crossed, NEW f \in Frame
             PROVE  LET owners == {i \in Id : surf[i].in_use /\ surf[i].frame = f} IN
                    /\ refcount[f] = Cardinality(owners) + (IF f \in private THEN 1 ELSE 0)
                    /\ refcount[f] <= 1
  BY DEF SurfaceOwnsFrame
<1> DEFINE owners == {i \in Id : surf[i].in_use /\ surf[i].frame = f}
<1>1. OneOwner
  BY DEF SurfacesInv
<1>2. CASE Owned(f)
  <2>1. PICK i \in Id : surf[i].in_use /\ surf[i].frame = f
    BY <1>2 DEF Owned
  <2>2. owners = {i}
    BY <1>1, <2>1 DEF OneOwner
  <2>3. Cardinality(owners) = 1
    BY <2>2, FS_Singleton
  <2>4. f \notin private
    BY <1>1, <2>1 DEF OneOwner
  <2>5. refcount[f] = 1
    BY <1>1, <1>2 DEF OneOwner
  <2> QED
    BY <2>3, <2>4, <2>5, SMTT(60)
<1>3. CASE ~Owned(f)
  <2>1. owners = {}
    BY <1>3 DEF Owned
  <2>2. Cardinality(owners) = 0
    BY <2>1, FS_EmptySet
  <2>3. refcount[f] = IF f \in private THEN 1 ELSE 0
    BY <1>1, <1>3 DEF OneOwner
  <2> QED
    BY <2>2, <2>3, SMTT(60)
<1> QED
  BY <1>2, <1>3

\* For any number of tasks, surfaces, pages and frames: until a program replaces,
\* unmaps or forks a surface's page by other means, or is ended by SYS_SIGRETURN, every
\* mapped page shows the surface it was mapped for, a surface's frame has no other
\* owner and is counted once, and the frame goes back to pmm.c once, when neither
\* creator nor client is left, in whatever order they end (surface_gc,
\* surface_release_task).
THEOREM SurfacesAreSound ==
    ASSUME Nobody \notin Task, IsFiniteSet(Page)
    PROVE  Spec => []SurfacesSound
<1>1. Init => SurfacesInv
  BY InvInit
<1>2. SurfacesInv /\ [Next]_vars => SurfacesInv'
  BY InvStep
<1>3. SurfacesInv => SurfacesSound
  BY OwnersCounted DEF SurfacesSound
<1> QED
  BY <1>1, <1>2, <1>3, PTL DEF Spec

=============================================================================
