----------------------------- MODULE ByteStream -----------------------------
(***************************************************************************)
(* What a pipe promises: bytes come out in the order they went in, none    *)
(* lost, none twice, and never more than Cap of them under way.  Bytes are *)
(* numbered, modulo Distinct.                                              *)
(***************************************************************************)
EXTENDS Naturals, Sequences

CONSTANTS Cap, Distinct

VARIABLES
    sent,       \* the number of the next byte to go in
    queued,     \* the bytes under way
    out         \* the bytes that the last read returned

Init == sent = 0 /\ queued = <<>> /\ out = <<>>

Put == \E n \in 1..Cap - Len(queued) :
    /\ queued' = queued \o [k \in 1..n |-> (sent + k - 1) % Distinct]
    /\ sent' = (sent + n) % Distinct
    /\ UNCHANGED out
Take == \E n \in 1..Len(queued) :
    /\ out' = SubSeq(queued, 1, n)
    /\ queued' = SubSeq(queued, n + 1, Len(queued))
    /\ UNCHANGED sent

Spec == Init /\ [][Put \/ Take]_<<sent, queued, out>>
=============================================================================
