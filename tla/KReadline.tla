------------------------------ MODULE KReadline ------------------------------
(* The line editor of the kernel's shell: shell_readline of shell/shell.c,  *)
(* its history ring, its completion, and readline_redraw.  The line is a C  *)
(* string: it ends at the first NUL, wherever len says it ends.             *)
EXTENDS Integers, Sequences, FiniteSets, SequencesExt

CONSTANTS
    Typed,               \* characters that are typed
    SHELL_MAX_INPUT,     \* bytes of the buffer
    SHELL_HISTORY_SIZE,  \* 16
    TAB_MATCHES,         \* 32
    Commands,            \* what the command tables and the PATH offer
    Files,               \* what a directory holds
    Keys                 \* the keys that are pressed

VARIABLES
    ed,                  \* the locals of shell_readline
    hist,                \* s_history, s_hist_count, s_hist_head
    scr,                 \* the row of the screen from rl_col on
    flaws                \* known departures met

edVars == <<ed, hist, scr, flaws>>

NUL == ""
max == SHELL_MAX_INPUT
Larger(a, b) == IF a > b THEN a ELSE b

(* The C string that starts at k. *)
CString(buf, k) ==
    LET end == CHOOSE i \in k .. max - 1 : buf[i] = NUL /\ \A j \in k .. i - 1 : buf[j] # NUL
    IN  [i \in 1 .. (end - k) |-> buf[k + i - 1]]

Text(e) == CString(e.buf, 0)

Ended(e) == [e EXCEPT !.buf[e.len] = NUL]

(* What lies behind the NUL is never read again. *)
Tidy(e) == [e EXCEPT !.buf = [i \in DOMAIN e.buf |-> IF i <= e.len THEN e.buf[i] ELSE NUL]]

-----------------------------------------------------------------------------

readline_redraw(e, erase_to, s) ==
    [cells |-> [i \in DOMAIN s.cells |->
                   IF i < e.len THEN e.buf[i]
                   ELSE IF i <= Larger(erase_to, e.len) THEN " " ELSE s.cells[i]],
     col   |-> e.cur]

(* Every branch that changes the line ends so. *)
Redraw(e) ==
    /\ ed' = Tidy([e EXCEPT !.drawn = e.len])
    /\ scr' = readline_redraw(e, Larger(ed.drawn, e.len), scr)

history_get(h, ago) ==
    h.slot[(h.head - 1 - ago + SHELL_HISTORY_SIZE) % SHELL_HISTORY_SIZE]

history_push(h, line) ==
    IF line = <<>> THEN h
    ELSE [slot  |-> [h.slot EXCEPT ![h.head] = line],
          head  |-> (h.head + 1) % SHELL_HISTORY_SIZE,
          count |-> IF h.count < SHELL_HISTORY_SIZE THEN h.count + 1 ELSE h.count]

-----------------------------------------------------------------------------
NoTc == [active |-> FALSE, m |-> <<>>, idx |-> 0, start |-> 0, curlen |-> 0]
Stop(e) == [e EXCEPT !.tc = NoTc]

Fresh == [buf |-> [i \in 0 .. max - 1 |-> NUL], len |-> 0, cur |-> 0, drawn |-> 0,
          pos |-> -1, work |-> <<>>, tc |-> NoTc]

NewRow == [cells |-> [i \in 0 .. max |-> " "], col |-> 0]

(* One character put in at the cursor. *)
Put(e, ch) ==
    [e EXCEPT !.buf = [i \in DOMAIN @ |-> IF i = e.cur THEN ch
                                          ELSE IF i > e.cur THEN e.buf[i - 1] ELSE e.buf[i]],
              !.len = @ + 1, !.cur = @ + 1]

(* Characters put in one by one while there is room. *)
PutAll(e, chars) ==
    FoldLeft(LAMBDA f, ch : IF f.len < max - 1 THEN Put(f, ch) ELSE f, e, chars)

Insert(ch) ==
    /\ IF ed.len < max - 1
       THEN Redraw(Ended(Put([Stop(ed) EXCEPT !.pos = -1], ch)))
       ELSE ed' = [Stop(ed) EXCEPT !.pos = -1] /\ scr' = scr
    /\ UNCHANGED <<hist, flaws>>

Backspace ==
    /\ LET e == [Stop(ed) EXCEPT
                   !.buf = [i \in DOMAIN @ |-> IF i >= ed.cur - 1 /\ i < ed.len - 1
                                               THEN ed.buf[i + 1] ELSE ed.buf[i]],
                   !.len = @ - 1, !.cur = @ - 1, !.pos = -1]
       IN  IF ed.cur > 0 THEN Redraw(Ended(e)) ELSE ed' = [Stop(ed) EXCEPT !.pos = -1] /\ scr' = scr
    /\ UNCHANGED <<hist, flaws>>

To(k) ==
    /\ k \in 0 .. ed.len
    /\ ed' = [Stop(ed) EXCEPT !.cur = k]
    /\ scr' = [scr EXCEPT !.col = k]
    /\ UNCHANGED <<hist, flaws>>

Arrows == To(ed.cur - 1) \/ To(ed.cur + 1)

(* Up and Down. *)
Recalled(e, entry, pos) ==
    [e EXCEPT !.buf = [i \in DOMAIN @ |-> IF i < Len(entry) THEN entry[i + 1] ELSE NUL],
              !.len = Len(entry), !.cur = Len(entry), !.pos = pos]

Up ==
    LET pos == IF ed.pos + 1 >= hist.count THEN hist.count - 1 ELSE ed.pos + 1
        e == [Stop(ed) EXCEPT !.work = IF ed.pos < 0 THEN Text(ed) ELSE @]
    IN  /\ Redraw(Recalled(e, IF pos < 0 THEN e.work ELSE history_get(hist, pos), pos))
        /\ UNCHANGED <<hist, flaws>>

(* Down on the own line brings back what was in work, whatever stands       *)
(* there now.                                                               *)
Down ==
    LET pos == ed.pos - 1
        e == Stop(ed)
    IN  /\ Redraw(IF pos < 0 THEN Recalled(e, e.work, -1)
                             ELSE Recalled(e, history_get(hist, pos), pos))
        /\ flaws' = IF ed.pos < 0 /\ ed.work # Text(ed)
                    THEN flaws \union {"Down on a line of one's own"} ELSE flaws
        /\ UNCHANGED hist

-----------------------------------------------------------------------------
(* Tab. *)
WordStart(e) ==
    LET at == {i \in 0 .. e.cur - 1 : e.buf[i] = " "}
    IN  IF at = {} THEN 0 ELSE 1 + CHOOSE i \in at : \A j \in at : j <= i

IsCmd(e) == \A i \in 0 .. WordStart(e) - 1 : e.buf[i] = " "
Slashes(e) == {i \in WordStart(e) .. e.cur - 1 : e.buf[i] = "/"}

LeafStart(e) ==
    IF Slashes(e) = {} THEN WordStart(e)
    ELSE 1 + CHOOSE i \in Slashes(e) : \A j \in Slashes(e) : j <= i

(* A command is matched up to the cursor, a path up to the end of the line. *)
ByCommand(e) == IsCmd(e) /\ Slashes(e) = {}

Prefix(e) ==
    IF ByCommand(e) THEN [i \in 1 .. (e.cur - LeafStart(e)) |-> e.buf[LeafStart(e) + i - 1]]
    ELSE CString(e.buf, LeafStart(e))

Matches(e) ==
    LET found == SelectSeq(IF ByCommand(e) THEN Commands ELSE Files,
                           LAMBDA m : IsPrefix(Prefix(e), m.name))
    IN  SubSeq(found, 1, IF Len(found) > TAB_MATCHES THEN TAB_MATCHES ELSE Len(found))

lcp(ms) ==
    LET same == {k \in 0 .. Len(ms[1].name) :
                    \A i \in DOMAIN ms : Len(ms[i].name) >= k
                                         /\ SubSeq(ms[i].name, 1, k) = SubSeq(ms[1].name, 1, k)}
    IN  CHOOSE k \in same : \A j \in same : j <= k

(* A match in place of the last curlen characters. *)
Pasted(e, m) ==
    LET short == [e EXCEPT !.len = @ - e.tc.curlen, !.cur = @ - e.tc.curlen]
        f == PutAll(short, m.name \o (IF m.dir THEN <<"/">> ELSE <<>>))
    IN  Ended([f EXCEPT !.tc.curlen = f.len - short.len])

TabNext ==
    LET e == [ed EXCEPT !.tc.idx = (@ + 1) % Len(ed.tc.m)]
    IN  Redraw(Pasted(e, e.tc.m[e.tc.idx + 1])) /\ UNCHANGED flaws

TabOne(e, m) ==
    LET f == PutAll(e, SubSeq(m.name, Len(Prefix(e)) + 1, Len(m.name)))
        g == IF m.dir THEN PutAll(f, <<"/">>)
             ELSE IF f.cur = f.len \/ f.buf[f.cur] # " " THEN PutAll(f, <<" ">>) ELSE f
    IN  Redraw(Ended(g))

TabMany(e, ms) ==
    IF lcp(ms) > Len(Prefix(e)) /\ e.cur = e.len
    THEN Redraw(Ended(PutAll(e, SubSeq(ms[1].name, Len(Prefix(e)) + 1, lcp(ms)))))
    ELSE IF e.cur # e.len       \* the matches are listed and the line starts anew
    THEN /\ ed' = [e EXCEPT !.drawn = e.len]
         /\ scr' = readline_redraw(e, e.drawn, NewRow)
    ELSE Redraw(Pasted([e EXCEPT !.tc = [active |-> TRUE, m |-> ms, idx |-> 0,
                                         start |-> LeafStart(e), curlen |-> Len(Prefix(e))]],
                       ms[1]))

TabFirst ==
    LET e == Stop(ed)
        ms == Matches(e)
    IN  /\ IF ms = <<>> THEN ed' = e /\ scr' = scr
           ELSE IF Len(ms) = 1 THEN TabOne(e, ms[1])
           ELSE TabMany(e, ms)
        /\ flaws' = IF e.cur # e.len /\ ~ByCommand(e) /\ ms # <<>>
                    THEN flaws \union {"a path was completed inside the line"} ELSE flaws

Tab ==
    /\ UNCHANGED hist
    /\ \/ ed.tc.active /\ Len(ed.tc.m) > 1 /\ ed.cur = ed.len /\ TabNext
       \/ ~(ed.tc.active /\ Len(ed.tc.m) > 1 /\ ed.cur = ed.len) /\ TabFirst

-----------------------------------------------------------------------------
(* Enter and Ctrl-C; shell_run keeps a line that is not empty. *)
Return ==
    /\ hist' = history_push(hist, Text(ed))
    /\ ed' = Fresh /\ scr' = NewRow
    /\ UNCHANGED flaws

Interrupt ==
    /\ ed' = Fresh /\ scr' = NewRow
    /\ UNCHANGED <<hist, flaws>>

EdInit ==
    /\ ed = Fresh
    /\ hist = [slot |-> [i \in 0 .. SHELL_HISTORY_SIZE - 1 |-> <<>>], count |-> 0, head |-> 0]
    /\ scr = NewRow
    /\ flaws = {}

EdNext ==
    /\ flaws = {}
    /\ \/ "type" \in Keys /\ \E ch \in Typed : Insert(ch)
       \/ "erase" \in Keys /\ Backspace
       \/ "move" \in Keys /\ Arrows
       \/ "history" \in Keys /\ (Up \/ Down)
       \/ "tab" \in Keys /\ Tab
       \/ "enter" \in Keys /\ (Return \/ Interrupt)

EdSpec == EdInit /\ [][EdNext]_edVars
-----------------------------------------------------------------------------
(* The locals are in range, and the string ends where len says it does. *)
EdTypeOK ==
    /\ ed.len \in 0 .. max - 1
    /\ ed.cur \in 0 .. ed.len
    /\ ed.pos \in -1 .. hist.count - 1
    /\ Len(Text(ed)) = ed.len
    /\ hist.count \in 0 .. SHELL_HISTORY_SIZE /\ hist.head \in 0 .. SHELL_HISTORY_SIZE - 1

(* The row shows the line and nothing of a longer one that stood there, and *)
(* the cursor stands where the next character goes: `drawn` remembers how   *)
(* far there is something to erase.                                         *)
ScreenShows ==
    /\ scr.col = ed.cur
    /\ \A i \in 0 .. max : scr.cells[i] = IF i < ed.len THEN ed.buf[i] ELSE " "

(* The kernel shell's editor does what a line editor promises. *)
Editor == INSTANCE LineEdit WITH
    Room <- max - 1,
    Kept <- SHELL_HISTORY_SIZE,
    Most <- TAB_MATCHES,
    left <- SubSeq(Text(ed), 1, ed.cur),
    right <- SubSeq(Text(ed), ed.cur + 1, ed.len),
    past <- [i \in 1 .. hist.count |-> history_get(hist, i - 1)],
    back <- ed.pos + 1,
    own <- IF ed.pos >= 0 THEN ed.work ELSE <<>>,
    cycle <- IF ed.tc.active
             THEN <<[base |-> SubSeq(Text(ed), 1, ed.tc.start), ms |-> ed.tc.m, i |-> ed.tc.idx + 1]>>
             ELSE <<>>

Edits == flaws' = {} => [Editor!Next]_(Editor!lineVars)
=============================================================================
