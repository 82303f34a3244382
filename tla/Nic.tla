-------------------------------- MODULE Nic --------------------------------
(***************************************************************************)
(* The four network card drivers (drivers/net/virtio_net.c, e1000.c,        *)
(* pcnet.c, rtl8139.c) behind netdev.c, each against the card it shares its *)
(* rings with.  A driver is only ever entered by one task at a time (the    *)
(* net lock of net_lwip.c); the card runs on its own, so every driver call  *)
(* is two steps, the card being free to run between them: the copy of the   *)
(* frame, and the writes that give the descriptor over.                     *)
(*                                                                         *)
(* A frame is its serial number.  tx.desc[i] and rx.desc[i] are a           *)
(* descriptor with the buffer behind it; "owned" is the driver's reading of *)
(* its ownership bit (OWN of pcnet, DD clear of e1000, HOST_OWNS clear of   *)
(* the rtl8139).  The rtl8139 has no receive descriptors but a byte ring,   *)
(* modelled in units of half a double word: rx.cell.  The two virtio        *)
(* receive rings are the sequences of ids between their indices.            *)
(***************************************************************************)
EXTENDS Integers, Sequences, SequencesExt, FiniteSets

CONSTANTS
    Drivers,    \* the cards that may be present
    TX_COUNT,   \* transmit descriptors (E_TX_COUNT, PCNET_TX_COUNT, 4 slots)
    RX_COUNT,   \* receive descriptors (E_RX_COUNT, PCNET_RX_COUNT, rx_slots)
    RTL_RX_RING,\* units of the rtl8139's receive ring
    Lengths,    \* lengths of frames with their checksum, in the same units
    MaxFrames   \* bound: frames offered in each direction

VARIABLES
    driver,     \* the card whose driver registered
    tx, rx,     \* the rings, the driver's and the card's places in them
    op,         \* the driver call under way
    tried,      \* frames lwIP has given to netdev_send
    accepted,   \* ... those for which it returned 0
    wire,       \* what the card has transmitted
    offered,    \* frames that reached the card
    arrived,    \* ... those it had room for, with how it completed them
    up,         \* what rx_poll has returned to makar_netif_poll
    seen,       \* completed frames rx_poll has disposed of
    flaws       \* known departures met: nothing is promised after one

vars == <<driver, tx, rx, op, tried, accepted, wire, offered, arrived, up, seen, flaws>>

ALIGN == 2
Slots == 0..TX_COUNT - 1
Bufs == 0..RX_COUNT - 1
Goes == flaws = {}
idle == [kind |-> "idle", frame |-> 0]

\* The room a frame takes in the byte ring: its header and its bytes,
\* rounded up to a double word.
Room(len) == ((len + ALIGN + ALIGN - 1) \div ALIGN) * ALIGN
MaxLen == CHOOSE n \in Lengths : \A k \in Lengths : k <= n
Cells == 0..RTL_RX_RING + Room(MaxLen) - 1
NoCell == [frame |-> 0, len |-> 0, kind |-> "ok"]

\* netdev_register keeps the first driver that probed; its rings start as
\* the probe leaves them: all transmit descriptors the driver's, all receive
\* buffers the card's (the e1000's but for the one at its tail).
netdev_register ==
    /\ driver \in Drivers
    /\ tx = [next |-> 0, head |-> 0, tail |-> 0, pending |-> 0, started |-> {},
             desc |-> [i \in Slots |-> [frame |-> 0, owned |-> driver = "rtl8139"]]]
    /\ rx = [next |-> 0, head |-> 0, tail |-> RX_COUNT - 1,
             desc |-> [i \in Bufs |-> [frame |-> 0, kind |-> "ok", owned |-> TRUE]],
             avail |-> [i \in 1..RX_COUNT |-> i - 1], used |-> <<>>,
             cell |-> [c \in Cells |-> NoCell], cbr |-> 0, capr |-> 0]

Init ==
    /\ netdev_register
    /\ op = idle
    /\ tried = 0 /\ offered = 0 /\ seen = 0
    /\ accepted = <<>> /\ wire = <<>> /\ arrived = <<>> /\ up = <<>>
    /\ flaws = {}

(***************************************************************************)
(* Transmitting.                                                            *)
(***************************************************************************)

\* netdev_send refuses the frame, or copies it into the buffer of
\* descriptor i.
Fills(i, free) ==
    /\ op = idle /\ Goes
    /\ tried < MaxFrames
    /\ tried' = tried + 1
    /\ IF free THEN /\ tx' = [tx EXCEPT !.desc[i].frame = tried']
                    /\ op' = [kind |-> "send", frame |-> tried']
               ELSE UNCHANGED <<tx, op>>
    /\ UNCHANGED <<driver, rx, accepted, wire, offered, arrived, up, seen>>

\* The writes after the copy: the descriptor is the card's, send returns 0.
Hands(after) ==
    /\ op.kind = "send" /\ Goes
    /\ tx' = after
    /\ accepted' = Append(accepted, op.frame)
    /\ op' = idle
    /\ UNCHANGED <<driver, rx, tried, wire, offered, arrived, up, seen>>

Next1(i) == (i + 1) % TX_COUNT

\* virtio_net_send: one buffer and one descriptor chain for all frames, given
\* to the card again whether or not it has finished with the last one.
virtio_net_send ==
    /\ driver = "virtio"
    /\ \/ /\ Fills(0, TRUE)
          /\ flaws' = IF tx.pending > 0
                      THEN {"a frame was overwritten before it was sent"} ELSE flaws
       \/ /\ Hands([tx EXCEPT !.pending = @ + 1])
          /\ UNCHANGED flaws

\* e_send: the card looks at nothing beyond its tail register, so once every
\* descriptor is given over the tail has caught up with the head and the ring
\* reads as empty.
e_send ==
    /\ driver = "e1000"
    /\ \/ /\ Fills(tx.next, ~tx.desc[tx.next].owned)
          /\ UNCHANGED flaws
       \/ /\ Hands([tx EXCEPT !.desc[tx.next].owned = TRUE,
                              !.next = Next1(@), !.tail = Next1(tx.next)])
          /\ flaws' = IF Next1(tx.next) = tx.head
                      THEN {"a full ring read as an empty one"} ELSE flaws

\* pc_send.
pc_send ==
    /\ driver = "pcnet"
    /\ \/ Fills(tx.next, ~tx.desc[tx.next].owned)
       \/ Hands([tx EXCEPT !.desc[tx.next].owned = TRUE, !.next = Next1(@)])
    /\ UNCHANGED flaws

\* rtl_send: the ownership bit of a slot means nothing until its first use.
rtl_send ==
    /\ driver = "rtl8139"
    /\ \/ Fills(tx.next, ~(tx.next \in tx.started /\ tx.desc[tx.next].owned))
       \/ Hands([tx EXCEPT !.desc[tx.next].owned = TRUE,
                           !.started = @ \cup {tx.next}, !.next = Next1(@)])
    /\ UNCHANGED flaws

\* What the card believes it has to send, as each card decides it.
TxWork ==
    CASE driver = "virtio"  -> tx.pending > 0
      [] driver = "e1000"   -> tx.head # tx.tail
      [] driver = "pcnet"   -> tx.desc[tx.head].owned
      [] driver = "rtl8139" -> tx.head \in tx.started /\ tx.desc[tx.head].owned

\* The card sends the frame at its place in the ring, as the buffer then is.
Transmit ==
    /\ TxWork /\ Goes
    /\ wire' = Append(wire, tx.desc[tx.head].frame)
    /\ tx' = IF driver = "virtio" THEN [tx EXCEPT !.pending = @ - 1]
             ELSE [tx EXCEPT !.desc[tx.head].owned = FALSE, !.head = Next1(@)]
    /\ UNCHANGED <<driver, rx, op, tried, accepted, offered, arrived, up, seen, flaws>>

(***************************************************************************)
(* Receiving.                                                               *)
(***************************************************************************)

\* The kinds of completion a card gives: the e1000 is set up to drop frames
\* in error (no SBP in RCTL); the others complete a frame in error, an empty
\* one, or (rtl8139) one longer than ETH_MAX_WIRE.
Kinds == IF driver = "e1000" THEN {"ok"} ELSE {"ok", "bad"}

Next2(i) == (i + 1) % RX_COUNT
Completed(f, k) == [frame |-> f, kind |-> k, owned |-> FALSE]

\* The rtl8139 writes a frame only where it leaves the ring not quite full,
\* and runs on past the end of the ring rather than wrap inside a frame.
RtlFits(len) == rx.cbr = rx.capr \/ Room(len) < (rx.capr - rx.cbr) % RTL_RX_RING
RtlWritten(f, k, len) ==
    [c \in Cells |-> IF c \in rx.cbr..rx.cbr + Room(len) - 1
                     THEN [frame |-> f, len |-> len, kind |-> k] ELSE rx.cell[c]]

RxRoom(len) ==
    CASE driver = "virtio"  -> rx.avail # <<>>
      [] driver = "e1000"   -> rx.head # rx.tail
      [] driver = "pcnet"   -> rx.desc[rx.head].owned
      [] driver = "rtl8139" -> RtlFits(len)

\* A frame comes in: the card writes it where the driver left room, or drops
\* it.
Arrive(k, len) ==
    /\ offered < MaxFrames /\ Goes
    /\ offered' = offered + 1
    /\ IF RxRoom(len)
       THEN LET f == offered' IN
            /\ arrived' = Append(arrived, [frame |-> f, kind |-> k])
            /\ rx' = CASE driver = "virtio" ->
                            [rx EXCEPT !.desc[Head(rx.avail)] = Completed(f, k),
                                       !.used = Append(@, Head(rx.avail)),
                                       !.avail = Tail(@)]
                       [] driver \in {"e1000", "pcnet"} ->
                            [rx EXCEPT !.desc[rx.head] = Completed(f, k),
                                       !.head = Next2(@)]
                       [] driver = "rtl8139" ->
                            [rx EXCEPT !.cell = RtlWritten(f, k, len),
                                       !.cbr = (@ + Room(len)) % RTL_RX_RING]
       ELSE UNCHANGED <<arrived, rx>>
    /\ UNCHANGED <<driver, tx, op, tried, accepted, wire, up, seen, flaws>>

\* rx_poll finds a completed frame of kind k and, if it is good, copies it.
Takes(f, k) ==
    /\ op = idle /\ Goes
    /\ op' = [kind |-> k, frame |-> f]
    /\ up' = IF k = "ok" THEN Append(up, f) ELSE up
    /\ UNCHANGED <<driver, tx, rx, tried, accepted, wire, offered, arrived, seen>>

\* ... and then gives the buffer back to the card.
Gives(after) ==
    /\ op.kind \in {"ok", "bad"} /\ Goes
    /\ rx' = after
    /\ seen' = seen + 1
    /\ op' = idle
    /\ UNCHANGED <<driver, tx, tried, accepted, wire, offered, arrived, up>>

\* virtio_net_rx_poll: the next element of the used ring; its buffer is posted
\* again whether the frame was good or empty.
virtio_net_rx_poll ==
    /\ driver = "virtio"
    /\ \/ /\ rx.used # <<>>
          /\ Takes(rx.desc[Head(rx.used)].frame, rx.desc[Head(rx.used)].kind)
       \/ Gives([rx EXCEPT !.used = Tail(@), !.avail = Append(@, Head(rx.used))])
    /\ UNCHANGED flaws

\* e_rx_poll: the descriptor just read becomes the card's new tail.
e_rx_poll ==
    /\ driver = "e1000"
    /\ \/ /\ ~rx.desc[rx.next].owned
          /\ Takes(rx.desc[rx.next].frame, "ok")
       \/ Gives([rx EXCEPT !.desc[rx.next].owned = TRUE, !.tail = rx.next,
                           !.next = Next2(@)])
    /\ UNCHANGED flaws

\* pc_rx_poll: good or in error, the descriptor goes back to the card.
pc_rx_poll ==
    /\ driver = "pcnet"
    /\ \/ /\ ~rx.desc[rx.next].owned
          /\ Takes(rx.desc[rx.next].frame, rx.desc[rx.next].kind)
       \/ Gives([rx EXCEPT !.desc[rx.next].owned = TRUE, !.next = Next2(@)])
    /\ UNCHANGED flaws

\* The bytes rtl_copy_rx reads are one frame's, or 0 for a mixture.
RtlFrame(off) ==
    LET h == rx.cell[off] IN
    IF \A c \in off..off + Room(h.len) - 1 : rx.cell[c] = h THEN h.frame ELSE 0

\* Faulty variant: the length is not rounded up to a double word.
AdvanceBytes(off) == (off + rx.cell[off].len + ALIGN) % RTL_RX_RING

\* The place after the frame at off: header and length, rounded up, wrapped.
Advance(off) ==
    (((off + rx.cell[off].len + ALIGN + ALIGN - 1) \div ALIGN) * ALIGN) % RTL_RX_RING

\* rtl_rx_poll: a frame it does not like stays where it is, and so does
\* everything behind it.
rtl_rx_poll ==
    /\ driver = "rtl8139"
    /\ \/ /\ rx.cbr # rx.capr
          /\ rx.cell[rx.next].kind = "ok"
          /\ Takes(RtlFrame(rx.next), "ok")
          /\ UNCHANGED flaws
       \/ /\ rx.cbr # rx.capr
          /\ rx.cell[rx.next].kind = "bad"
          /\ op = idle /\ Goes
          /\ flaws' = {"a frame in error was left at the head of the ring"}
          /\ UNCHANGED <<driver, tx, rx, op, tried, accepted, wire, offered, arrived,
                         up, seen>>
       \/ /\ Gives([rx EXCEPT !.next = Advance(@), !.capr = Advance(rx.next)])
          /\ UNCHANGED flaws

netdev_send == virtio_net_send \/ e_send \/ pc_send \/ rtl_send
netdev_rx_poll == virtio_net_rx_poll \/ e_rx_poll \/ pc_rx_poll \/ rtl_rx_poll

Next ==
    \/ netdev_send
    \/ Transmit
    \/ netdev_rx_poll
    \/ \E k \in Kinds, len \in Lengths :
           /\ driver # "rtl8139" => len = MaxLen
           /\ Arrive(k, len)

Spec == Init /\ [][Next]_vars

(***************************************************************************)
(* Properties.                                                              *)
(***************************************************************************)

\* The driver's and the card's places are within the rings, and no virtio
\* buffer is listed twice (drivers/net/*.c).
TypeOK ==
    /\ tx.next \in Slots /\ tx.head \in Slots /\ tx.tail \in Slots
    /\ driver # "rtl8139" => rx.next \in Bufs
    /\ driver = "rtl8139" => rx.next \in 0..RTL_RX_RING - 1 /\ rx.next % ALIGN = 0
    /\ op.kind \in {"idle", "send", "ok", "bad"}
    /\ IsInjective(rx.avail \o rx.used)

\* Frames for which send returned 0 go on the wire once each, unchanged and
\* in the order lwIP gave them, however far the card lags behind: no buffer is
\* rewritten while the card may still read it (e_send, pc_send, rtl_send; the
\* comment in rtl_send says so).
SentInOrder == Goes => IsPrefix(wire, accepted)

\* The card always knows of the frames it has been given: transmission cannot
\* come to a standstill with accepted frames in the ring.
NeverStalls == Goes /\ Len(wire) < Len(accepted) => TxWork

\* What rx_poll returns are the good frames, whole, once each and in the order
\* they came.
ReceivedInOrder ==
    LET Good(a) == a.kind = "ok"
        good == SelectSeq(arrived, Good)
    IN  Goes => /\ Len(up) <= Len(good)
                /\ \A i \in 1..Len(up) : up[i] = good[i].frame

\* A frame the card has completed is found by the next poll: the driver's and
\* the card's places never part, whatever errors and overruns came between.
\* The frames in the ring are those that arrived and were not yet disposed of.
PollFinds ==
    Goes /\ op = idle /\ seen < Len(arrived) =>
        CASE driver = "virtio" -> rx.used # <<>>
          [] driver \in {"e1000", "pcnet"} -> ~rx.desc[rx.next].owned
          [] driver = "rtl8139" -> rx.cbr # rx.capr

\* No receive buffer is ever lost: when the driver has disposed of all that
\* arrived the card has every buffer again (but the one the e1000 keeps back).
BuffersComeBack ==
    Goes /\ op = idle /\ seen = Len(arrived) =>
        CASE driver = "virtio" -> Len(rx.avail) = RX_COUNT
          [] driver = "e1000" -> (rx.tail - rx.head) % RX_COUNT = RX_COUNT - 1
          [] driver = "pcnet" -> \A i \in Bufs : rx.desc[i].owned
          [] driver = "rtl8139" -> rx.cbr = rx.capr

=============================================================================
