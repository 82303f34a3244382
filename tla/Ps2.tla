--------------------------------- MODULE Ps2 ---------------------------------
(***************************************************************************)
(* The PS/2 controller and its two devices: the router of                  *)
(* drivers/i8042.c, the scancode decoder and modifier tracker of           *)
(* drivers/keyboard.c and the packet assembler and event ring of           *)
(* drivers/mouse.c.                                                        *)
(*                                                                         *)
(* kq and aq are the bytes the keyboard and the mouse have sent and the    *)
(* kernel has not read.  A keyboard byte is <<code, brk>>: the low seven   *)
(* bits and the top one; a keycode is <<prefix, code>>.  phys is the set   *)
(* of keys a finger is on.  A byte can be lost: the controller overruns,   *)
(* or mouse_init and mouse_cmd read it while they wait for an answer.      *)
(***************************************************************************)
EXTENDS Naturals, Sequences, FiniteSets

CONSTANTS
    Keys,        \* the keys of this keyboard, names of DOMAIN Makes
    MaxHeld,     \* bound: keys held down at once
    MOUSE_RING,  \* slots of the event ring; one stays empty
    MaxPackets,  \* bound: packets the mouse reports
    MaxLosses    \* bound: bytes lost

VARIABLES
    phys, last,  \* the keys held down; the one that repeats
    kq,          \* keyboard bytes on their way
    kb,          \* the keyboard driver's state
    rst,         \* how far a task is in kb_reset_mods (0: in none)
    cur,         \* the key event on the wire, and what came of it
    caps_presses,\* whether Caps Lock has been pressed an odd number of times
    forgot,      \* the keys that were held when the modifiers were reset
    odd,         \* what the driver does not provide for and has happened
    aq,          \* mouse bytes on their way
    ms,          \* the mouse driver's state
    sent,        \* packets reported
    whole,       \* no byte of the last packet was lost, and
    quiet,       \* its motion bytes could not be taken for a first one
    lost,        \* the assembler has missed part of a packet
    losses       \* bytes lost

kbdVars == <<phys, last, kq, kb, rst, cur, caps_presses, forgot, odd>>
auxVars == <<aq, ms, sent, whole, quiet, lost>>
vars == <<kbdVars, auxVars, losses>>

(***************************************************************************)
(* What the keyboard sends (scancode set 1): external.                     *)
(***************************************************************************)
E0 == <<"E0", FALSE>>
E1 == <<"E1", FALSE>>
Ack == <<"FA", FALSE>>
Make(c) == <<c, FALSE>>
Break(c) == <<c, TRUE>>

Codes ==
    [lshift |-> <<"", "2A">>, rshift |-> <<"", "36">>, lctrl |-> <<"", "1D">>,
     rctrl |-> <<"E0", "1D">>, lalt |-> <<"", "38">>, ralt |-> <<"E0", "38">>,
     caps |-> <<"", "3A">>, c |-> <<"", "2E">>, f1 |-> <<"", "3B">>,
     f5 |-> <<"", "3F">>, del |-> <<"E0", "53">>, prtsc |-> <<"E0", "37">>,
     pause |-> <<"E1", "1D">>]

Bytes(k, brk) ==
    LET code == <<Codes[k][2], brk>>
    IN CASE k = "pause" -> IF brk THEN <<>>
                           ELSE <<E1, Make("1D"), Make("45"), E1, Break("1D"), Break("45")>>
         [] k = "prtsc" -> IF brk THEN <<E0, code, E0, Break("2A")>>
                           ELSE <<E0, Make("2A"), E0, code>>
         [] Codes[k][1] = "E0" -> <<E0, code>>
         [] OTHER -> <<code>>

KC(k) == Codes[k]
Shifts == {KC("lshift"), KC("rshift")}
Ctrls == {KC("lctrl"), KC("rctrl")}
Alts == {KC("lalt"), KC("ralt")}
Sided == Shifts \cup Ctrls \cup Alts

\* The compound modifiers of a set of keycodes.
Compound(s) ==
    {m \in {"shift", "ctrl", "alt"} :
        s \cap (CASE m = "shift" -> Shifts [] m = "ctrl" -> Ctrls [] OTHER -> Alts) # {}}

(***************************************************************************)
(* keyboard.c                                                              *)
(***************************************************************************)
is_modifier_kc(kc) == kc \in Sided \cup {KC("caps")}

\* A press of Caps Lock also sends the LEDs' new state (kb_sync_leds).
CapsAfter(k, kc, brk) == IF kc = KC("caps") /\ ~brk THEN ~k.caps ELSE k.caps
Modified(k, side, caps) ==
    [k EXCEPT !.side = side, !.caps = caps, !.led = caps, !.mod = Compound(side)]

\* Faulty variant: the two sides of a modifier share one flag.
OneSide(k, kc, brk) ==
    LET twins == CASE kc \in Shifts -> Shifts [] kc \in Ctrls -> Ctrls
                   [] kc \in Alts -> Alts [] OTHER -> {}
    IN Modified(k, IF brk THEN k.side \ twins ELSE k.side \cup twins, CapsAfter(k, kc, brk))

apply_modifier(k, kc, brk) ==
    IF ~is_modifier_kc(kc) THEN k
    ELSE Modified(k, IF kc \notin Sided THEN k.side
                     ELSE IF brk THEN k.side \ {kc} ELSE k.side \cup {kc}, CapsAfter(k, kc, brk))

kb_reset_mods(k) == [k EXCEPT !.side = {}, !.mod = {}, !.held = {}]

\* What a key press does once it is past the chords that work in every mode.
on_make(k, kc) ==
    CASE is_modifier_kc(kc) -> IF k.mode = "raw" THEN "route" ELSE "none"
      [] kc = KC("f1") /\ k.mode # "raw" /\ "alt" \in k.mod -> "switch"
      [] kc = KC("c") /\ "ctrl" \in k.mod -> "interrupt"
      [] kc = KC("prtsc") -> "none"
      [] OTHER -> "route"

\* What is done about a keycode in the state that it has left behind.
Deed(k, kc, brk) ==
    CASE ~brk /\ "alt" \in k.mod /\ kc = KC("f5") -> "switch"
      [] ~brk /\ {"ctrl", "alt"} \subseteq k.mod /\ kc = KC("del") -> "cad"
      [] k.mode = "scancode" -> "route"
      [] ~brk -> on_make(k, kc)
      [] OTHER -> "none"
Done(k, kc, brk) == [k EXCEPT !.did = Deed(k, kc, brk)]

\* deliver_kc: the driver's state after a keycode; did is what was done.
deliver_kc(k, kc, brk) ==
    LET held == IF ~is_modifier_kc(kc) THEN k.held
                ELSE IF brk THEN k.held \ {kc} ELSE k.held \cup {kc}
    IN IF is_modifier_kc(kc) /\ ~brk /\ kc \in k.held THEN [k EXCEPT !.did = "repeat"]
       ELSE Done(apply_modifier([k EXCEPT !.held = held], kc, brk), kc, brk)

\* The keycode a byte completes, if any: decoder_feed up to deliver_kc.
Completes(k, b) ==
    CASE b \in {Ack, E0, E1} \/ k.dec \in {"E1A", "E1B"} -> <<>>
      [] k.dec = "E0" -> IF b[1] = "2A" THEN <<>> ELSE <<"E0", b[1]>>
      [] OTHER -> <<"", b[1]>>

\* The decoder's state after a byte.
After(k, b) ==
    CASE b = Ack -> "normal"
      [] b = E0 -> "E0"
      [] b = E1 -> "E1A"
      [] k.dec = "E1A" -> "E1B"
      [] OTHER -> "normal"

Fed(k, kc, brk) == IF kc = <<>> THEN k ELSE deliver_kc(k, kc, brk)
decoder_feed(k, b) == Fed([k EXCEPT !.dec = After(k, b)], Completes(k, b), b[2])

(***************************************************************************)
(* The fingers.  A key event is over before the next one starts.           *)
(***************************************************************************)
\* The events deliver_kc should be called with for a key event.
Wanted(k, brk) == IF k = "pause" THEN <<>> ELSE <<<<KC(k), brk>>>>

KeyEvent(k, brk, rep) ==
    /\ kq = <<>> /\ odd = {}
    /\ kq' = Bytes(k, brk)
    /\ cur' = [key |-> k, brk |-> brk, rep |-> rep, got |-> <<>>, cut |-> FALSE,
               since |-> IF cur.cut THEN 1 ELSE IF cur.since < 3 THEN cur.since + 1 ELSE 3,
               reset |-> rst # 0]
    /\ UNCHANGED <<kb, rst, odd, auxVars, losses>>

Press(k) ==
    /\ k \notin phys /\ Cardinality(phys) < MaxHeld
    /\ phys' = IF k = "pause" THEN phys ELSE phys \cup {k}
    /\ last' = k
    /\ caps_presses' = IF k = "caps" THEN ~caps_presses ELSE caps_presses
    /\ KeyEvent(k, FALSE, FALSE)
    /\ UNCHANGED forgot

\* The keyboard repeats the key pressed last.
Repeat(k) ==
    /\ k \in phys /\ k = last /\ k \notin {"pause", "prtsc"}
    /\ KeyEvent(k, FALSE, TRUE)
    /\ UNCHANGED <<phys, last, caps_presses, forgot>>

Release(k) ==
    /\ k \in phys
    /\ phys' = phys \ {k} /\ last' = "none"
    /\ KeyEvent(k, TRUE, FALSE)
    /\ UNCHANGED <<caps_presses, forgot>>

(***************************************************************************)
(* mouse.c                                                                 *)
(***************************************************************************)

\* mouse_feed_byte and mouse_post_event: b3 and over are the bits a first
\* byte is judged by.
mouse_feed_byte(m, b) ==
    LET pkt == Append(m.pkt, b)
    IN IF ~m.ready \/ (m.pkt = <<>> /\ ~b.b3) THEN m
       ELSE IF Len(pkt) < 3 THEN [m EXCEPT !.pkt = pkt]
       ELSE IF pkt[1].over \/ Len(m.ring) = MOUSE_RING - 1 THEN [m EXCEPT !.pkt = <<>>]
       ELSE [m EXCEPT !.pkt = <<>>, !.ring = Append(m.ring, pkt)]

\* The mouse reports a movement: the motion bytes have any bits.
Report ==
    /\ aq = <<>> /\ sent < MaxPackets
    /\ \E over, x, y \in BOOLEAN :
          /\ quiet' = ~(x \/ y)
          /\ aq' = <<[id |-> sent + 1, pos |-> 1, b3 |-> TRUE, over |-> over],
                     [id |-> sent + 1, pos |-> 2, b3 |-> x, over |-> over],
                     [id |-> sent + 1, pos |-> 3, b3 |-> y, over |-> over]>>
    /\ sent' = sent + 1 /\ whole' = TRUE
    /\ UNCHANGED <<kbdVars, ms, lost, losses>>

\* The last steps of mouse_init: drop the bytes that are there, then go live.
\* The rest of a packet may still be on its way.
mouse_init ==
    /\ ~ms.ready
    /\ ms' = [ms EXCEPT !.pkt = <<>>, !.ready = TRUE]
    /\ \E n \in 0 .. Len(aq) : aq' = SubSeq(aq, n + 1, Len(aq))
    /\ lost' = (Len(aq') \in {1, 2}) /\ whole' = (aq' = <<>> \/ Len(aq') = 3)
    /\ UNCHANGED <<kbdVars, sent, quiet, losses>>

\* SYS_MOUSE_READ
mouse_pop_event ==
    /\ ms.ring # <<>>
    /\ ms' = [ms EXCEPT !.ring = Tail(@), !.read = Head(ms.ring)[1].id]
    /\ UNCHANGED <<kbdVars, aq, sent, whole, quiet, lost, losses>>

(***************************************************************************)
(* i8042.c: whichever line interrupted, a byte goes to its device.         *)
(***************************************************************************)
\* k: the driver's state after the byte; kc: the keycode that it completed.
KeyboardByte(k, kc) ==
    /\ \E m \in {"cooked", "raw", "scancode"}, moved \in BOOLEAN :
          /\ kb' = IF k.did = "switch" /\ moved
                   THEN [kb_reset_mods(k) EXCEPT !.mode = m] ELSE k
          /\ moved \/ m = k.mode
          /\ k.did = "switch" \/ (m = k.mode /\ moved)
          /\ forgot' = IF k.did = "switch" /\ moved THEN phys
                       ELSE forgot \ {x \in Keys : kc = KC(x)}
    /\ kq' = Tail(kq) \o (IF k.led # kb.led THEN <<Ack, Ack>> ELSE <<>>)
    /\ cur' = IF kc = <<>> THEN cur
              ELSE [cur EXCEPT !.got = Append(@, <<kc, Head(kq)[2]>>)]
    /\ odd' = odd \cup
         (IF rst \in {2, 3} /\ kc # <<>> /\ is_modifier_kc(kc)
          THEN {"a modifier came during a reset"} ELSE {}) \cup
         (IF kc = KC("caps") /\ cur.rep /\ k.did # "repeat" /\ "caps" \in forgot
          THEN {"a reset let Caps Lock repeat"} ELSE {})

i8042_service ==
    \/ /\ kq # <<>>
       /\ KeyboardByte(decoder_feed([kb EXCEPT !.did = "none"], Head(kq)), Completes(kb, Head(kq)))
       /\ UNCHANGED <<phys, last, rst, caps_presses, auxVars, losses>>
    \/ /\ aq # <<>>
       /\ ms' = mouse_feed_byte(ms, Head(aq))
       /\ aq' = Tail(aq)
       /\ UNCHANGED <<kbdVars, sent, whole, quiet, lost, losses>>

\* A byte is lost.
Lose ==
    /\ losses < MaxLosses /\ losses' = losses + 1
    /\ \/ /\ kq # <<>> /\ Head(kq) # Ack
          /\ kq' = Tail(kq) /\ cur' = [cur EXCEPT !.cut = TRUE]
          /\ UNCHANGED <<phys, last, kb, rst, caps_presses, forgot, odd, auxVars>>
       \/ /\ aq # <<>>
          /\ aq' = Tail(aq) /\ lost' = TRUE /\ whole' = FALSE
          /\ UNCHANGED <<kbdVars, ms, sent, quiet>>

(***************************************************************************)
(* A task changes the mode or the focus (keyboard_set_raw,                 *)
(* keyboard_set_scancode, keyboard_set_focus): the mode, then the          *)
(* assignments of kb_reset_mods, with interrupts on.                       *)
(***************************************************************************)
ResetStep ==
    /\ Keys # {}
    /\ \/ /\ rst = 0 /\ \E m \in {"cooked", "raw", "scancode"} : kb' = [kb EXCEPT !.mode = m]
          /\ UNCHANGED forgot
       \/ rst = 1 /\ kb' = [kb EXCEPT !.side = {}] /\ forgot' = phys
       \/ rst = 2 /\ kb' = [kb EXCEPT !.mod = {}] /\ UNCHANGED forgot
       \/ rst = 3 /\ kb' = [kb EXCEPT !.held = {}] /\ UNCHANGED forgot
    /\ rst' = (rst + 1) % 4
    /\ cur' = [cur EXCEPT !.reset = TRUE]
    /\ UNCHANGED <<phys, last, kq, caps_presses, odd, auxVars, losses>>

Init ==
    /\ phys = {} /\ last = "none" /\ kq = <<>> /\ rst = 0
    /\ kb = [dec |-> "normal", side |-> {}, mod |-> {}, held |-> {}, caps |-> FALSE,
             led |-> FALSE, mode |-> "cooked", did |-> "none"]
    /\ cur = [key |-> "none", brk |-> TRUE, rep |-> FALSE, got |-> <<>>, cut |-> FALSE,
              since |-> 3, reset |-> FALSE]
    /\ caps_presses = FALSE /\ forgot = {} /\ odd = {}
    /\ aq = <<>> /\ sent = 0 /\ whole = TRUE /\ quiet = TRUE /\ lost = FALSE /\ losses = 0
    /\ ms = [ready |-> FALSE, pkt |-> <<>>, ring |-> <<>>, read |-> 0]

Next ==
    \/ \E k \in Keys : Press(k) \/ Repeat(k) \/ Release(k)
    \/ ResetStep \/ Lose \/ i8042_service
    \/ Report \/ mouse_init \/ mouse_pop_event

Spec == Init /\ [][Next]_vars

(***************************************************************************)
(* Properties.                                                             *)
(***************************************************************************)
\* The drivers' state keeps its shape.
TypeOK ==
    /\ kb.dec \in {"normal", "E0", "E1A", "E1B"} /\ kb.side \subseteq Sided
    /\ kb.mod \subseteq {"shift", "ctrl", "alt"}
    /\ Len(ms.pkt) <= 2 /\ Len(ms.ring) < MOUSE_RING

Drained == kq = <<>> /\ cur.key # "none"
Held == {KC(k) : k \in phys}

\* The decoder finds its way back (decoder_feed, "Lost-IRQ tolerance"): a key
\* event whose bytes all arrived is decoded as that key and nothing else,
\* whatever was lost, from the third event after the loss on.
Resynchronises ==
    (Drained /\ ~cur.cut /\ cur.since = 3) => cur.got = Wanted(cur.key, cur.brk)

\* No modifier sticks: one the driver believes to be down is down, whenever the
\* mode or the focus changed under a held key (apply_modifier, kb_reset_mods).
NeverStuck ==
    (Drained /\ losses = 0) =>
        /\ kb.side \subseteq Held /\ kb.held \subseteq Held
        /\ kb.mod \subseteq Compound(Held)

\* The modifiers in force are those of the keys held down, left and right told
\* apart, but for the keys that were down at a reset and have not repeated.
ModifiersTrue ==
    (Drained /\ losses = 0 /\ rst = 0 /\ odd = {}) =>
        /\ kb.side = {KC(k) : k \in phys \ forgot} \cap Sided
        /\ kb.mod = Compound(kb.side)

\* Caps Lock turns once for each press, however long it is held, and the light
\* shows it (s_modkey_held, kb_sync_leds).
CapsOnce ==
    (Drained /\ losses = 0 /\ odd = {}) => kb.caps = caps_presses /\ kb.led = kb.caps

\* Ctrl+Alt+Del is noticed in every mode, and Ctrl+C in all but the scancode
\* one, exactly when the modifiers are held (deliver_kc, on_make).
ChordsSeen ==
    (Drained /\ ~cur.brk /\ losses = 0 /\ odd = {} /\ ~cur.reset /\ phys \cap forgot = {}) =>
        /\ cur.key = "del" => (kb.did = "cad" <=> {"ctrl", "alt"} \subseteq Compound(Held))
        /\ cur.key = "c" =>
              (kb.did = "interrupt" <=> "ctrl" \in Compound(Held) /\ kb.mode # "scancode")

\* Unless a byte was lost, an event the mouse ring hands out is one packet of
\* the mouse, each at most once and in their order (mouse_feed_byte).
PacketsTrue ==
    ~lost => \A i \in DOMAIN ms.ring :
        /\ \A p \in 1 .. 3 : ms.ring[i][p].pos = p /\ ms.ring[i][p].id = ms.ring[i][1].id
        /\ ms.ring[i][1].id > (IF i = 1 THEN ms.read ELSE ms.ring[i - 1][1].id)

\* The packet assembler finds its way back: a packet whose motion bytes cannot
\* be taken for a first byte leaves it between packets, whatever was lost before.
PacketsRealign == (ms.ready /\ aq = <<>> /\ whole /\ quiet) => ms.pkt = <<>>
=============================================================================
