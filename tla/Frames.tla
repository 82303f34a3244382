------------------------------- MODULE Frames -------------------------------
(***************************************************************************)
(* Page frames and their reference counts: what pmm.c promises its         *)
(* callers.  Which free frame pmm_alloc_frame returns does not matter to   *)
(* them, so any may come; Buddy models how it is found.                    *)
(***************************************************************************)
EXTENDS Naturals, FiniteSets

CONSTANTS
    Frame,          \* physical frames
    RefMax,         \* where pmm_inc_ref saturates (0xFF)
    NoFrame         \* the address 0 and PMM_ALLOC_ERROR

ASSUME FramesAssumption ==
    RefMax \in Nat \ {0} /\ NoFrame \notin Frame /\ IsFiniteSet(Frame)

\* A count of 0 is a frame on the free lists.
Free(rc) == {f \in Frame : rc[f] = 0}

\* pmm_alloc_frame: the callers hold the only reference.
Taken(rc, f) == [rc EXCEPT ![f] = 1]

\* pmm_free_frame: an underflow is logged and ignored.
Dropped(rc, f) ==
    IF f \in Frame /\ rc[f] > 0 THEN [rc EXCEPT ![f] = @ - 1] ELSE rc

\* pmm_inc_ref: a free or a saturated frame is logged and not counted.
Counted(rc, f) ==
    IF rc[f] \in {0, RefMax} THEN rc ELSE [rc EXCEPT ![f] = @ + 1]

\* pmm_free_frame on n references to each frame: vmm_free_pd, surface_gc.
DroppedAll(rc, n) == [f \in Frame |-> IF n[f] > rc[f] THEN 0 ELSE rc[f] - n[f]]
=============================================================================
