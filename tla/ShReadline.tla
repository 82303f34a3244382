----------------------------- MODULE ShReadline -----------------------------
(* The line editor of the user shell: readline of userspace/sh.c, its       *)
(* history ring and its completion, and what it draws.                      *)
(*                                                                          *)
(* The buffer is the code's array; the screen is the row behind the prompt, *)
(* written and backspaced over as the code writes and backspaces.  Lines    *)
(* shorter than the screen is wide.                                         *)
EXTENDS Integers, Sequences, FiniteSets, SequencesExt

CONSTANTS
    Typed,          \* characters that are typed
    LINE_MAX,       \* 512
    HIST_MAX,       \* 16
    TAB_MAX,        \* 32
    Commands,       \* what the PATH, the builtins and the applets offer
    Files,          \* what a directory holds
    Keys            \* the keys that are pressed

VARIABLES
    ed,             \* the locals of readline
    hist,           \* g_hist, g_hist_count, g_hist_head
    scr,            \* the row of the screen behind the prompt
    flaws           \* known departures met

edVars == <<ed, hist, scr, flaws>>

NUL == ""
BS == "bs"
Blank == [i \in 0 .. LINE_MAX |-> " "]

Rep(ch, k) == [i \in 1 .. k |-> ch]

(* What the terminal does with what is written to it. *)
Emit(s, ch) ==
    IF ch = BS THEN [s EXCEPT !.col = @ - 1]
    ELSE [cells |-> [i \in DOMAIN s.cells |-> IF i = s.col THEN ch ELSE s.cells[i]],
          col   |-> s.col + 1]

Draw(s, out) == FoldLeft(Emit, s, out)

Text(e) == [i \in 1 .. e.len |-> e.buf[i - 1]]
From(e, k) == [i \in 1 .. (e.len - k) |-> e.buf[k + i - 1]]

(* What lies behind the line is never read again. *)
Tidy(e) == [e EXCEPT !.buf = [i \in DOMAIN e.buf |-> IF i < e.len THEN e.buf[i] ELSE NUL]]

Done(e, s) == ed' = Tidy(e) /\ scr' = s

-----------------------------------------------------------------------------
(* The history ring. *)
hist_get(h, i) ==
    IF i >= h.count THEN <<>>
    ELSE h.slot[(h.head + HIST_MAX - 1 - i) % HIST_MAX]

hist_push(h, line) ==
    IF line = <<>> \/ (h.count > 0 /\ hist_get(h, 0) = line) THEN h
    ELSE [slot  |-> [h.slot EXCEPT ![h.head] = line],
          head  |-> (h.head + 1) % HIST_MAX,
          count |-> IF h.count < HIST_MAX THEN h.count + 1 ELSE h.count]

-----------------------------------------------------------------------------
(* The keys.  Any key but Tab ends a cycle. *)
NoTc == [active |-> FALSE, m |-> <<>>, idx |-> 0, start |-> 0, committed |-> 0]
Stop(e) == [e EXCEPT !.tc = NoTc]

Fresh == [buf |-> [i \in 0 .. LINE_MAX - 1 |-> NUL], len |-> 0, cur |-> 0,
          hidx |-> -1, saved |-> <<>>, tc |-> NoTc]

NewRow == [cells |-> Blank, col |-> 0]


Insert(ch) ==
    /\ ed.len < LINE_MAX - 1
    /\ LET e == [Stop(ed) EXCEPT
                   !.buf = [i \in DOMAIN @ |-> IF i = ed.cur THEN ch
                                               ELSE IF i > ed.cur THEN ed.buf[i - 1] ELSE ed.buf[i]],
                   !.len = @ + 1, !.cur = @ + 1]
       IN  Done(e, Draw(scr, From(e, e.cur - 1) \o Rep(BS, e.len - e.cur)))
    /\ UNCHANGED <<hist, flaws>>

(* The character at k is closed up; the rest is drawn again and the last    *)
(* place blanked.                                                           *)
Closed(e, k) ==
    [e EXCEPT !.buf = [i \in DOMAIN @ |-> IF i >= k /\ i + 1 < e.len THEN e.buf[i + 1] ELSE e.buf[i]],
              !.len = @ - 1]

Redrawn(e) == From(e, e.cur) \o <<" ">> \o Rep(BS, e.len - e.cur + 1)

Backspace ==
    /\ ed.cur > 0
    /\ LET e == [Closed(Stop(ed), ed.cur - 1) EXCEPT !.cur = @ - 1]
       IN  Done(e, Draw(scr, <<BS>> \o Redrawn(e)))
    /\ UNCHANGED <<hist, flaws>>

DeleteKey ==
    /\ ed.cur < ed.len
    /\ LET e == Closed(Stop(ed), ed.cur) IN Done(e, Draw(scr, Redrawn(e)))
    /\ UNCHANGED <<hist, flaws>>

(* Left, Right, Home and End: the cursor is backspaced to its new place, or *)
(* carried there by writing what it passes.                                 *)
To(k) ==
    /\ k \in 0 .. ed.len
    /\ Done([Stop(ed) EXCEPT !.cur = k],
            Draw(scr, IF k <= ed.cur THEN Rep(BS, ed.cur - k)
                      ELSE SubSeq(Text(ed), ed.cur + 1, k)))
    /\ UNCHANGED <<hist, flaws>>

Arrows == To(ed.cur - 1) \/ To(ed.cur + 1) \/ To(0) \/ To(ed.len)

(* Up and Down.  The line is wiped from the screen before the other is      *)
(* drawn.                                                                   *)
Recalled(k, e) ==
    LET src == IF k < 0 THEN e.saved ELSE hist_get(hist, k)
    IN  [e EXCEPT !.buf = [i \in DOMAIN @ |-> IF i < Len(src) THEN src[i + 1] ELSE NUL],
                  !.len = Len(src), !.cur = Len(src), !.hidx = k]

Show(e) ==
    Done(e, Draw(scr, Rep(BS, ed.cur) \o Rep(" ", ed.len) \o Rep(BS, ed.len) \o Text(e)))

Up ==
    /\ (IF ed.hidx < 0 THEN 0 ELSE ed.hidx + 1) < hist.count
    /\ Show(Recalled(ed.hidx + 1,
                     [Stop(ed) EXCEPT !.saved = IF ed.hidx < 0 THEN Text(ed) ELSE @]))
    /\ UNCHANGED <<hist, flaws>>

Down ==
    /\ ed.hidx >= 0
    /\ Show(Recalled(ed.hidx - 1, Stop(ed)))
    /\ UNCHANGED <<hist, flaws>>

(* The keyboard comes back: the prompt and the line on a new row. *)
FocusGain ==
    /\ Done(Stop(ed), Draw(NewRow, Text(ed) \o Rep(BS, ed.len - ed.cur)))
    /\ UNCHANGED <<hist, flaws>>

-----------------------------------------------------------------------------
(* Tab. *)
rightmost_token_start(e) ==
    LET at == {i \in 0 .. e.len - 1 : e.buf[i] = " "}
    IN  IF at = {} THEN 0 ELSE 1 + CHOOSE i \in at : \A j \in at : j <= i

Token(e) == From(e, rightmost_token_start(e))

(* split_path_token: where the leaf begins in the token. *)
DirLen(tok) ==
    LET at == {i \in DOMAIN tok : tok[i] = "/"}
    IN  IF at = {} THEN 0 ELSE CHOOSE i \in at : \A j \in at : j <= i

Leaf(e) == SubSeq(Token(e), DirLen(Token(e)) + 1, Len(Token(e)))

(* tab_collect and tab_collect_commands. *)
Collected(e) ==
    LET found == SelectSeq(IF rightmost_token_start(e) = 0 /\ DirLen(Token(e)) = 0
                           THEN Commands ELSE Files,
                           LAMBDA m : IsPrefix(Leaf(e), m.name))
    IN  SubSeq(found, 1, IF Len(found) > TAB_MAX THEN TAB_MAX ELSE Len(found))

tab_lcp(ms) ==
    LET same == {k \in 0 .. Len(ms[1].name) :
                    \A i \in DOMAIN ms : Len(ms[i].name) >= k
                                         /\ SubSeq(ms[i].name, 1, k) = SubSeq(ms[1].name, 1, k)}
    IN  CHOOSE k \in same : \A j \in same : j <= k

(* Characters appended at the end of the line, as long as there is room. *)
Added(e, chars) ==
    LET n == IF e.len + Len(chars) > LINE_MAX - 1 THEN LINE_MAX - 1 - e.len ELSE Len(chars)
    IN  [e EXCEPT !.buf = [i \in DOMAIN @ |-> IF i \in e.len .. (e.len + n - 1)
                                              THEN chars[i - e.len + 1] ELSE e.buf[i]],
                  !.len = @ + n, !.cur = e.len + n]

Affix(m) == IF m.dir THEN <<"/">> ELSE <<>>

(* A candidate, from where the token as a whole ends in it. *)
Candidate(e, m) ==
    LET already == e.tc.committed - e.tc.start
    IN  Added(e, SubSeq(m.name, already + 1, Len(m.name)) \o Affix(m))

New(e, f) == SubSeq(Text(f), e.len + 1, f.len)

TabNext ==
    LET e == [ed EXCEPT !.tc.idx = (@ + 1) % Len(ed.tc.m), !.len = ed.tc.committed, !.cur = ed.tc.committed]
        f == Candidate(e, ed.tc.m[e.tc.idx + 1])
        gone == ed.len - ed.tc.committed
    IN  Done(f, Draw(scr, [i \in 1 .. 3 * gone |-> IF i % 3 = 2 THEN " " ELSE BS] \o New(e, f)))

TabFirst ==
    LET e == Stop(ed)
        ms == Collected(e)
        leaf == Leaf(e)
        lcp == tab_lcp(ms)
        far == Added(e, SubSeq(ms[1].name, Len(leaf) + 1, lcp))
        one == Added(far, IF ms[1].dir THEN <<"/">> ELSE <<" ">>)
        all == Candidate([far EXCEPT !.tc = [active |-> TRUE, m |-> ms, idx |-> 0,
                                             start |-> rightmost_token_start(e), committed |-> far.len]],
                         ms[1])
        f == IF ms = <<>> THEN e
             ELSE IF Len(ms) = 1 THEN one
             ELSE IF lcp = Len(leaf) THEN all
             ELSE far
    IN  /\ Done(f, Draw(scr, New(e, f)))
        /\ flaws' = IF f.tc.active /\ DirLen(Token(e)) > 0
                    THEN flaws \union {"a completion in a directory was stepped through"}
                    ELSE flaws

Tab ==
    /\ ed.cur = ed.len
    /\ UNCHANGED hist
    /\ \/ ed.tc.active /\ Len(ed.tc.m) > 1 /\ TabNext /\ UNCHANGED flaws
       \/ ~(ed.tc.active /\ Len(ed.tc.m) > 1) /\ TabFirst

-----------------------------------------------------------------------------
(* Enter and Ctrl-C; the loop in main keeps a line that is not empty. *)
Return ==
    /\ hist' = hist_push(hist, Text(ed))
    /\ ed' = Fresh /\ scr' = NewRow
    /\ UNCHANGED flaws

Interrupt ==
    /\ ed' = Fresh /\ scr' = NewRow
    /\ UNCHANGED <<hist, flaws>>

EdInit ==
    /\ ed = Fresh
    /\ hist = [slot |-> [i \in 0 .. HIST_MAX - 1 |-> <<>>], count |-> 0, head |-> 0]
    /\ scr = NewRow
    /\ flaws = {}

EdNext ==
    /\ flaws = {}
    /\ \/ "type" \in Keys /\ \E ch \in Typed : Insert(ch)
       \/ "erase" \in Keys /\ (Backspace \/ DeleteKey)
       \/ "move" \in Keys /\ Arrows
       \/ "history" \in Keys /\ (Up \/ Down)
       \/ "tab" \in Keys /\ Tab
       \/ "enter" \in Keys /\ (Return \/ Interrupt)
       \/ "focus" \in Keys /\ FocusGain

EdSpec == EdInit /\ [][EdNext]_edVars

-----------------------------------------------------------------------------
EdTypeOK ==
    /\ ed.buf \in [0 .. LINE_MAX - 1 -> Typed \union {NUL, " ", "/"}
                                          \union UNION {Range(m.name) : m \in Range(Commands) \union Range(Files)}]
    /\ ed.len \in 0 .. LINE_MAX - 1
    /\ ed.cur \in 0 .. ed.len
    /\ ed.hidx \in -1 .. HIST_MAX - 1
    /\ hist.count \in 0 .. HIST_MAX /\ hist.head \in 0 .. HIST_MAX - 1

(* The row behind the prompt shows the line, nothing of an older one, and   *)
(* the cursor where the next character goes, though the shell never looks   *)
(* at the screen and only writes and backspaces.                            *)
ScreenShows ==
    /\ scr.col = ed.cur
    /\ \A i \in 0 .. LINE_MAX : scr.cells[i] = IF i < ed.len THEN ed.buf[i] ELSE " "

(* The editor does what a line editor promises: keys insert, delete and     *)
(* move at the cursor, Up and Down walk the lines entered and back to the   *)
(* own line as it was left, Tab completes and steps through the matches.    *)
Editor == INSTANCE LineEdit WITH
    Room <- LINE_MAX - 1,
    Kept <- HIST_MAX,
    Most <- TAB_MAX,
    left <- SubSeq(Text(ed), 1, ed.cur),
    right <- From(ed, ed.cur),
    past <- [i \in 1 .. hist.count |-> hist_get(hist, i - 1)],
    back <- ed.hidx + 1,
    own <- IF ed.hidx >= 0 THEN ed.saved ELSE <<>>,
    cycle <- IF ed.tc.active
             THEN <<[base |-> SubSeq(Text(ed), 1, ed.tc.committed - Len(Leaf([ed EXCEPT !.len = ed.tc.committed]))),
                     ms |-> ed.tc.m, i |-> ed.tc.idx + 1]>>
             ELSE <<>>

Edits == flaws' = {} => [Editor!Next]_(Editor!lineVars)
=============================================================================
