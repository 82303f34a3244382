------------------------------- MODULE KScript -------------------------------
(* The script runner of the kernel shell (shell/sh_script.c): it splits the *)
(* file into lines, moves the keywords to where its walker expects them,    *)
(* and walks the lines by index, looking for the end of each if and loop.   *)
EXTENDS Script, TLC

CONSTANTS
    GUARD,      \* rounds a while loop may make; 100000 in the code
    GLUE        \* keywords the 2048-byte arena of the fix-up pass holds

VARIABLES script, inline, n, ran

kVars == <<script, inline, n, ran>>

-----------------------------------------------------------------------------
(* The fix-up of sh_run_file.  `then` and `do` go to the end of the line    *)
(* before, if the arena has room for the longer line, and what followed     *)
(* them becomes a line; `else BODY` becomes two lines, the first of them in *)
(* the arena.                                                               *)
Begins(line, kw) == line # <<>> /\ Head(line) = kw

Glued(lines) ==
    LET f[i \in 0 .. Len(lines)] ==
            IF i = 0 THEN [out |-> <<>>, used |-> 0]
            ELSE LET t == lines[i]
                     g == f[i - 1]
                     fits == g.out # <<>> /\ g.used < GLUE
                     head == IF fits
                             THEN [g.out EXCEPT ![Len(g.out)] = @ \o <<Head(t)>>]
                             ELSE g.out
                 IN  IF Head(t) \in {"then", "do"}
                     THEN [out  |-> IF Len(t) > 1 THEN Append(head, Tail(t)) ELSE head,
                           used |-> IF fits THEN g.used + 1 ELSE g.used]
                     ELSE [g EXCEPT !.out = Append(@, t)]
    IN  f[Len(lines)]

ElseSplit(g) ==
    LET f[i \in 0 .. Len(g.out)] ==
            IF i = 0 THEN [out |-> <<>>, used |-> g.used]
            ELSE LET t == g.out[i]
                     was == f[i - 1]
                     fits == was.used < GLUE
                 IN  IF Begins(t, "else") /\ Len(t) > 1
                     THEN [out  |-> (IF fits THEN Append(was.out, <<"else">>) ELSE was.out)
                                        \o <<Tail(t)>>,
                           used |-> IF fits THEN was.used + 1 ELSE was.used]
                     ELSE [was EXCEPT !.out = Append(@, t)]
    IN  f[Len(g.out)].out

-----------------------------------------------------------------------------
(* The line of the matching close, or 0; only this one opening word nests. *)
RECURSIVE Close(_, _, _, _, _, _)
Close(lines, i, to, open, close, depth) ==
    IF i >= to THEN 0
    ELSE IF Begins(lines[i], open) THEN Close(lines, i + 1, to, open, close, depth + 1)
    ELSE IF Begins(lines[i], close)
    THEN IF depth = 1 THEN i ELSE Close(lines, i + 1, to, open, close, depth - 1)
    ELSE Close(lines, i + 1, to, open, close, depth)


find_match(lines, from, to, open, close) == Close(lines, from, to, open, close, 1)

(* The next elif or else of this if, from k on; `end` if there is none. *)
RECURSIVE NextArm(_, _, _, _)
NextArm(lines, k, end, depth) ==
    IF k >= end THEN end
    ELSE IF Begins(lines[k], "if") THEN NextArm(lines, k + 1, end, depth + 1)
    ELSE IF Begins(lines[k], "fi") THEN NextArm(lines, k + 1, end, depth - 1)
    ELSE IF depth = 1 /\ (Begins(lines[k], "elif") \/ Begins(lines[k], "else")) THEN k
    ELSE NextArm(lines, k + 1, end, depth)

(* The words before a keyword that was glued to the line. *)
Before(words, kw) ==
    IF words # <<>> /\ words[Len(words)] = kw THEN SubSeq(words, 1, Len(words) - 1) ELSE words

eval_condition(words, e) == Command(Head(words), e)

Ended(rc, e) == [rc |-> rc, e |-> e]

RECURSIVE run_block(_, _, _, _)
RECURSIVE Arms(_, _, _, _, _)
RECURSIVE Rounds(_, _, _, _, _, _)
RECURSIVE Words(_, _, _, _, _)

(* One arm of an if after the other, the condition on line c.  No further   *)
(* condition is asked once an arm was taken.                                *)
Arms(lines, c, end, taken, e) ==
    LET next == NextArm(lines, c + 1, end, 1)
        asked == IF taken THEN e ELSE eval_condition(Before(Tail(lines[c]), "then"), e)
        take == ~taken /\ asked.st = 0
        r == IF take THEN run_block(lines, c + 1, next, asked) ELSE Ended(0, asked)
    IN  IF r.rc < 0 \/ next = end THEN r
        ELSE IF Begins(lines[next], "elif") THEN Arms(lines, next, end, taken \/ take, r.e)
        ELSE IF taken \/ take THEN r
        ELSE run_block(lines, next + 1, end, r.e)

if_block(lines, i, to, e) ==
    LET end == find_match(lines, i + 1, to, "if", "fi")
    IN  IF end = 0 THEN Ended(-2, e) @@ [next |-> i]
        ELSE Arms(lines, i, end, FALSE, e) @@ [next |-> end + 1]

Rounds(cond, lines, from, end, e, guard) ==
    LET asked == eval_condition(cond, e)
        r == run_block(lines, from, end, asked)
    IN  IF asked.st # 0 THEN Ended(0, asked)
        ELSE IF r.rc < 0 \/ guard + 1 > GUARD THEN r
        ELSE Rounds(cond, lines, from, end, r.e, guard + 1)

while_block(lines, i, to, e) ==
    LET end == find_match(lines, i + 1, to, "while", "done")
    IN  IF end = 0 THEN Ended(-2, e) @@ [next |-> i]
        ELSE Rounds(Before(Tail(lines[i]), "do"), lines, i + 1, end, e, 0) @@ [next |-> end + 1]

Words(words, lines, from, end, e) ==
    IF words = <<>> THEN Ended(0, e)
    ELSE LET r == run_block(lines, from, end, [e EXCEPT !.v = Head(words)])
         IN  IF r.rc < 0 THEN r ELSE Words(Tail(words), lines, from, end, r.e)

for_block(lines, i, to, e) ==
    LET end == find_match(lines, i + 1, to, "for", "done")
        words == Before(SubSeq(lines[i], 4, Len(lines[i])), "do")
    IN  IF end = 0 THEN Ended(-2, e) @@ [next |-> i]
        ELSE Words(words, lines, i + 1, end, e) @@ [next |-> end + 1]

(* lines[from .. to-1] *)
run_block(lines, from, to, e) ==
    IF from >= to THEN Ended(0, e)
    ELSE LET t == lines[from]
             r == CASE Begins(t, "if") -> if_block(lines, from, to, e)
                    [] Begins(t, "while") -> while_block(lines, from, to, e)
                    [] Begins(t, "for") -> for_block(lines, from, to, e)
                    [] OTHER -> Ended(0, Command(Head(t), e)) @@ [next |-> from + 1]
         IN  IF r.rc < 0 THEN Ended(r.rc, r.e) ELSE run_block(lines, r.next, to, r.e)

sh_run_file(src, e) ==
    LET lines == ElseSplit(Glued(src)) IN run_block(lines, 1, Len(lines) + 1, e)
-----------------------------------------------------------------------------
KInit ==
    /\ script \in Scripts \ Leaving
    /\ inline \in BOOLEAN
    /\ n \in 0 .. 2
    /\ ran = <<>>

(* The kernel shell is given the file. *)
RunFile ==
    /\ ran = <<>>
    /\ ran' = <<sh_run_file(Written(script, inline), Start(n))>>
    /\ UNCHANGED <<script, inline, n>>

KNext == RunFile

KSpec == KInit /\ [][KNext]_kVars
-----------------------------------------------------------------------------
KTypeOK ==
    /\ script \in Scripts
    /\ inline \in BOOLEAN
    /\ n \in 0 .. 2
    /\ Len(ran) \in 0 .. 1

(* A loop of the other kind inside a loop ends it too early, because only   *)
(* loops of its own kind are counted.                                       *)
MixesLoops(s) ==
    \E d \in Nodes(s) : \/ d.k = "while" /\ "for" \in Inside(d)
                        \/ d.k = "for" /\ "while" \in Inside(d)

(* The keywords the arena has to hold. *)
Keywords(s) == Cardinality({i \in DOMAIN s : Head(s[i]) \in {"then", "do", "else"}})

(* A script file runs the commands it says, in the order it says, however   *)
(* it is laid out: the arms of an if, every round of a loop, and all of the *)
(* rest.                                                                    *)
FileRuns ==
    ran # <<>> /\ ~MixesLoops(script) /\ Keywords(Written(script, inline)) <= GLUE
        => LET want == Eval(script, Start(n))
           IN  /\ ran[1].rc = 0
               /\ ran[1].e.out = want.out
               /\ ran[1].e.n = want.n
               /\ ran[1].e.v = want.v
=============================================================================
