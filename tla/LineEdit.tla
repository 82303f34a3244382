------------------------------ MODULE LineEdit ------------------------------
(* What a line editor promises, without buffers, indexes or screens: the    *)
(* text left and right of the cursor, the lines entered before, and the     *)
(* completions the Tab key steps through.  The two shells' editors          *)
(* (ShReadline for userspace/sh.c, KReadline for shell/shell.c) are shown   *)
(* to implement it.                                                         *)
EXTENDS Integers, Sequences, FiniteSets, SequencesExt

CONSTANTS
    Typed,       \* the characters that are typed; " " and "/" separate
    Room,        \* characters a line holds
    Kept,        \* lines the history keeps
    Most,        \* completions that are considered
    Commands,    \* completions of a first word, in the order they are found
    Files        \* completions of any other word: [name, dir] in that order

VARIABLES
    left, right, \* the line, on both sides of the cursor
    past,        \* the lines entered, the latest first
    back,        \* how many lines back the recalled line is; 0 is the own line
    own,         \* the own line while an older one is shown
    cycle        \* <<>>, or the completions being stepped through

lineVars == <<left, right, past, back, own, cycle>>

NoCycle == <<>>

Cut(s) == IF Len(s) > Room THEN SubSeq(s, 1, Room) ELSE s

-----------------------------------------------------------------------------
(* Completion.  The word before the cursor is a directory part up to its    *)
(* last "/" and a leaf; a completion replaces the leaf.                     *)
LastOf(s, sep) ==
    LET at == {i \in DOMAIN s : s[i] \in sep}
    IN  IF at = {} THEN 0 ELSE CHOOSE i \in at : \A j \in at : j <= i

WordOf(s) == SubSeq(s, LastOf(s, {" "}) + 1, Len(s))
LeafOf(s) == SubSeq(s, LastOf(s, {" ", "/"}) + 1, Len(s))
BaseOf(s) == SubSeq(s, 1, LastOf(s, {" ", "/"}))

(* A word without "/" that nothing but blanks precede is a command; whether *)
(* it still is one behind blanks is the editor's choice.                    *)
First(s) == LastOf(WordOf(s), {"/"}) = 0 /\ \A i \in 1 .. (Len(s) - Len(WordOf(s))) : s[i] = " "

Offer(names, s) ==
    LET all == SelectSeq(names, LAMBDA m : IsPrefix(LeafOf(s), m.name))
    IN  SubSeq(all, 1, IF Len(all) > Most THEN Most ELSE Len(all))

Offered(s) ==
    {Offer(names, s) : names \in (IF First(s) THEN {Commands} ELSE {Files})
                                    \union (IF First(s) /\ WordOf(s) # s THEN {Files} ELSE {})}

Common(ms) ==
    LET fits == {k \in 0 .. Len(ms[1].name) :
                    \A i \in DOMAIN ms : IsPrefix(SubSeq(ms[1].name, 1, k), ms[i].name)}
    IN  SubSeq(ms[1].name, 1, CHOOSE k \in fits : \A j \in fits : j <= k)

Shown(base, m) == Cut(base \o m.name \o (IF m.dir THEN <<"/">> ELSE <<>>))

Finished(base, m) == Cut(base \o m.name \o (IF m.dir THEN <<"/">> ELSE <<" ">>))

(* The first Tab: complete the only match; else as far as all matches       *)
(* agree; and if they agree no further, show the first of them.             *)
Complete(ms) ==
    LET base == BaseOf(left)
    IN  IF ms = <<>> THEN UNCHANGED <<left, cycle>>
        ELSE IF Len(ms) = 1 THEN left' = Finished(base, ms[1]) /\ cycle' = NoCycle
        ELSE IF Len(Common(ms)) > Len(LeafOf(left))
        THEN left' = Cut(base \o Common(ms)) /\ cycle' = NoCycle
        ELSE left' = Shown(base, ms[1]) /\ cycle' = <<[base |-> base, ms |-> ms, i |-> 1]>>

(* Every further Tab shows the next one in its place. *)
Step ==
    LET c == cycle[1]
        i == (c.i % Len(c.ms)) + 1
    IN  left' = Shown(c.base, c.ms[i]) /\ cycle' = <<[c EXCEPT !.i = i]>>

AtEnd == right = <<>> /\ (IF cycle # NoCycle THEN Step ELSE \E ms \in Offered(left) : Complete(ms))

(* Inside the line an editor may complete the word before the cursor when   *)
(* it can only be one, or do nothing.                                       *)
Within ==
    /\ right # <<>> /\ cycle' = NoCycle
    /\ \E ms \in Offered(left) :
          /\ Len(ms) = 1
          /\ LET whole == BaseOf(left) \o ms[1].name
             IN  \E s \in {whole, Append(whole, "/"), Append(whole, " ")} :
                    left' = SubSeq(s, 1, IF Len(s) > Room - Len(right) THEN Room - Len(right) ELSE Len(s))

TabKey == (AtEnd \/ Within) /\ UNCHANGED <<right, past, back, own>>

-----------------------------------------------------------------------------
(* Any other key leaves what the Tab key has shown as it is. *)
Insert ==
    /\ Len(left) + Len(right) < Room
    /\ \E ch \in Typed : left' = Append(left, ch)
    /\ right' = right

RubOut == left # <<>> /\ left' = Front(left) /\ right' = right
Delete == right # <<>> /\ right' = Tail(right) /\ left' = left

Line == left \o right

(* An edit, even one there is no room for, may make the recalled line the   *)
(* own one.                                                                 *)
Edit ==
    /\ Insert \/ RubOut \/ Delete \/ UNCHANGED <<left, right>>
    /\ \/ UNCHANGED <<back, own>>
       \/ back' = 0 /\ own' = <<>>
    /\ cycle' = NoCycle
    /\ UNCHANGED past

Move ==
    /\ \E k \in 0 .. Len(Line) :
          left' = SubSeq(Line, 1, k) /\ right' = SubSeq(Line, k + 1, Len(Line))
    /\ cycle' = NoCycle
    /\ UNCHANGED <<past, back, own>>

Recall(k, line) == back' = k /\ left' = line /\ right' = <<>>

(* One line back, or one line forth; the own line comes back unchanged. *)
Older ==
    /\ back < Len(past)
    /\ Recall(back + 1, past[back + 1])
    /\ own' = IF back = 0 THEN Line ELSE own

Newer ==
    /\ back > 0
    /\ Recall(back - 1, IF back = 1 THEN own ELSE past[back - 1])
    /\ own' = IF back = 1 THEN <<>> ELSE own

(* Up on the oldest line shows it again. *)
Again == back > 0 /\ back = Len(past) /\ Recall(back, past[back]) /\ own' = own

History == (Older \/ Newer \/ Again) /\ cycle' = NoCycle /\ UNCHANGED past

(* The line is entered, and the next one begins empty. *)
Fresh == left' = <<>> /\ right' = <<>> /\ back' = 0 /\ own' = <<>> /\ cycle' = NoCycle

Enter ==
    /\ Fresh
    /\ \/ past' = past
       \/ Line # <<>> /\ past' = SubSeq(<<Line>> \o past, 1, IF Len(past) < Kept THEN Len(past) + 1 ELSE Kept)

Init ==
    /\ left = <<>> /\ right = <<>> /\ past = <<>> /\ back = 0 /\ own = <<>> /\ cycle = NoCycle

Next == TabKey \/ Edit \/ Move \/ History \/ Enter

Spec == Init /\ [][Next]_lineVars
=============================================================================
