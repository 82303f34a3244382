------------------------------ MODULE ShScript ------------------------------
(* The script interpreter of the user shell (userspace/sh.c): it reads one  *)
(* statement after another and runs it at once, and a loop goes round by    *)
(* setting the reading position back.                                       *)
EXTENDS Script

CONSTANTS
    LOOP_MAX   \* rounds a while loop may make; 100000 in the code

VARIABLES script, inline, n, ran

shVars == <<script, inline, n, ran>>

-----------------------------------------------------------------------------
(* The parser: what of the source is still unread, and the body that was    *)
(* found behind a keyword and is to be read first.                          *)
parser_t(src, pending) == [src |-> src, pending |-> pending]

rb_next(p) ==
    IF p.pending # <<>>
    THEN [ok |-> TRUE, stmt |-> p.pending, p |-> parser_t(p.src, <<>>)]
    ELSE IF p.src = <<>> THEN [ok |-> FALSE, stmt |-> <<>>, p |-> p]
    ELSE [ok |-> TRUE, stmt |-> Head(p.src), p |-> parser_t(Tail(p.src), <<>>)]

Is(stmt, kw) == stmt # <<>> /\ Head(stmt) = kw

match_kw(p, stmt, kw) ==
    [hit |-> Is(stmt, kw),
     p   |-> IF Is(stmt, kw) /\ Len(stmt) > 1 THEN parser_t(p.src, Tail(stmt)) ELSE p]

(* run_line of one statement. *)
run_line(stmt, e) == Command(Head(stmt), [e EXCEPT !.left = FALSE])

Result(rc, p, e, term) == [rc |-> rc, p |-> p, e |-> e, term |-> term]
Broken(r) == r.rc < 0

-----------------------------------------------------------------------------
(* run_block_until and the three compound statements.  A block that is not  *)
(* executed is still read through.                                          *)
RECURSIVE run_block_until(_, _, _, _)
RECURSIVE Elifs(_, _, _)
RECURSIVE WhileRounds(_, _, _, _, _, _, _)
RECURSIVE ForRounds(_, _, _, _, _)

(* The keyword that has to follow a condition or a for list. *)
Expect(p, kw) ==
    LET r == rb_next(p)
        m == match_kw(r.p, r.stmt, kw)
    IN  [ok |-> r.ok /\ m.hit, p |-> m.p]

Else(r, taken, execute) ==
    IF r.term = "else"
    THEN run_block_until(r.p, {"fi"}, execute /\ ~taken, r.e)
    ELSE r

(* The elif arms.  Each condition is run, whether or not an arm was taken. *)
Elifs(r, taken, execute) ==
    IF Broken(r) THEN r
    ELSE IF r.term # "elif" THEN Else(r, taken, execute)
    ELSE LET c == rb_next(r.p)
             asked == run_line(c.stmt, r.e)
             then == Expect(c.p, "then")
             take == ~taken /\ asked.st = 0
         IN  IF ~c.ok \/ ~then.ok THEN Result(-1, r.p, r.e, "")
             ELSE Elifs(run_block_until(then.p, {"elif", "else", "fi"}, execute /\ take, asked),
                        taken \/ take, execute)

if_statement(stmt, p, execute, e) ==
    LET asked == run_line(Tail(stmt), e)
        then == Expect(p, "then")
        taken == asked.st = 0
    IN  IF ~then.ok THEN Result(-1, p, asked, "")
        ELSE Elifs(run_block_until(then.p, {"elif", "else", "fi"}, execute /\ taken, asked),
                   taken, execute)

(* From the second round on only the source position is set back: a body    *)
(* that stood behind the `do` has been read and is gone.  A loop that is    *)
(* never entered is read through once.                                      *)
WhileRounds(cond, body, start, last, execute, e, round) ==
    LET asked == run_line(cond, e)
        r == run_block_until(body, {"done"}, execute, asked)
    IN  IF round = LOOP_MAX THEN last
        ELSE IF asked.st # 0
        THEN IF round = 0 THEN run_block_until(body, {"done"}, FALSE, asked)
                          ELSE [last EXCEPT !.e = asked]
        ELSE IF Broken(r) THEN r
        ELSE WhileRounds(cond, parser_t(start, <<>>), start, r, execute, r.e, round + 1)

while_statement(stmt, p, execute, e) ==
    LET do == Expect(p, "do")
    IN  IF ~do.ok THEN Result(-1, p, e, "")
        ELSE WhileRounds(Tail(stmt), do.p, do.p.src, Result(0, p, e, ""), execute, e, 0)

ForRounds(words, p, start, execute, e) ==
    LET r == run_block_until(p, {"done"}, execute, [e EXCEPT !.v = Head(words)])
    IN  IF Broken(r) \/ Len(words) = 1 THEN r
        ELSE ForRounds(Tail(words), parser_t(start, <<>>), start, execute, r.e)

for_statement(stmt, p, execute, e) ==
    LET do == Expect(p, "do")
        words == SubSeq(stmt, 4, Len(stmt))
    IN  IF ~do.ok THEN Result(-1, p, e, "")
        ELSE IF words = <<>> THEN run_block_until(do.p, {"done"}, FALSE, e)
        ELSE ForRounds(words, do.p, do.p.src, execute, e)

run_block_until(p, terms, execute, e) ==
    LET next == rb_next(p)
        stmt == next.stmt
        end == {t \in terms : Is(stmt, t)}
        sub == CASE Is(stmt, "if") -> if_statement(stmt, next.p, execute, e)
                 [] Is(stmt, "while") -> while_statement(stmt, next.p, execute, e)
                 [] Is(stmt, "for") -> for_statement(stmt, next.p, execute, e)
                 [] OTHER -> Result(0, next.p, IF execute THEN run_line(stmt, e) ELSE e, "")
    IN  IF ~next.ok THEN Result(-1, p, e, "")
        ELSE IF end # {}
        THEN LET t == CHOOSE t \in end : TRUE
             IN  Result(0, match_kw(next.p, stmt, t).p, e, t)
        ELSE IF Broken(sub) THEN sub
        ELSE run_block_until(sub.p, terms, execute, sub.e)

(* The top level: plain statements one by one, and from the first compound  *)
(* statement on everything to the end as one block.                         *)
RECURSIVE run_script_buf(_, _)
run_script_buf(src, e) ==
    IF src = <<>> THEN e
    ELSE IF Head(src)[1] \in {"if", "while", "for"}
    THEN run_block_until(parser_t(src, <<>>), {}, TRUE, e).e
    ELSE LET ran1 == run_line(Head(src), e)
         IN  IF ran1.left THEN ran1 ELSE run_script_buf(Tail(src), ran1)
-----------------------------------------------------------------------------
ShInit ==
    /\ script \in Scripts
    /\ inline \in BOOLEAN
    /\ n \in 0 .. 2
    /\ ran = <<>>

(* The shell is given the script. *)
RunScript ==
    /\ ran = <<>>
    /\ ran' = <<run_script_buf(Written(script, inline), Start(n))>>
    /\ UNCHANGED <<script, inline, n>>

ShNext == RunScript

ShSpec == ShInit /\ [][ShNext]_shVars
-----------------------------------------------------------------------------
ShTypeOK ==
    /\ script \in Scripts
    /\ inline \in BOOLEAN
    /\ n \in 0 .. 2
    /\ Len(ran) \in 0 .. 1

(* What the two ways of writing a script promise.  Three things are known   *)
(* to differ and are left out: a loop written on one line runs its first    *)
(* statement in the first round only; a for loop that is skipped still sets *)
(* its variable; and exit is only obeyed before the first if or loop.       *)
Loops == {"while", "for"}
Compound == Loops \union {"if"}

ExitsEarly(s) ==
    \A i \in DOMAIN s : \A j \in 1 .. (i - 1) :
        "exit" \in {d.c : d \in {x \in Nodes(<<s[i]>>) : x.k = "cmd"}} => s[j].k = "cmd"

NoExitInside(s) ==
    \A i \in DOMAIN s : s[i].k \in Compound =>
        "exit" \notin {d.c : d \in {x \in Nodes(<<s[i]>>) : x.k = "cmd"}}

SkipsFor(s) ==
    \E d \in Nodes(s) :
        /\ d.k \in {"if", "while"} \/ (d.k = "for" /\ d.words = <<>>)
        /\ "for" \in Inside(d)

Promised ==
    /\ inline => Kinds(script) \intersect Loops = {}
    /\ ~SkipsFor(script)
    /\ ExitsEarly(script)
    /\ NoExitInside(script)

(* A script runs the commands it says, in the order it says, whether its    *)
(* keywords stand on lines of their own or (for an if) share the line with  *)
(* what they guard: the right arm of every if and elif, every round of      *)
(* every loop, nothing of an arm not taken, and the rest of the script      *)
(* after each `fi` and `done`.                                              *)
ScriptRuns ==
    ran # <<>> /\ Promised
        => LET want == Eval(script, Start(n))
           IN  ran[1].out = want.out /\ ran[1].n = want.n /\ ran[1].v = want.v
=============================================================================
