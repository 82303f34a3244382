------------------------------- MODULE Script -------------------------------
(* What a shell script means, and how it is written down.                   *)
(*                                                                          *)
(* A script is a tree: a sequence of commands, ifs and loops.  Eval says    *)
(* which commands a shell has to run for it, in order.  Lines writes it     *)
(* with every keyword on a line of its own; Inline writes it on one line,   *)
(* where a body follows its keyword (`then A; B; else C; fi`).  The two     *)
(* interpreters of the system, the one of userspace/sh.c (ShScript) and the *)
(* one of shell/sh_script.c (KScript), are compared with Eval.              *)
(*                                                                          *)
(* A statement is the sequence of its words, the splitting at `;` and at    *)
(* newlines already done.                                                   *)
EXTENDS Integers, Sequences, FiniteSets

-----------------------------------------------------------------------------
(* The commands scripts are made of, by what a script can tell of them.     *)
(* "a" and "b" leave a mark, "b" with a failing status; "show" leaves the   *)
(* value of the loop variable; "dec" is n=$((n-1)), the only command that   *)
(* changes what "more" ([ $n -gt 0 ]) answers; "yes" and "no" are true and  *)
(* false.                                                                   *)

Start(n) == [out |-> <<>>, n |-> n, v |-> "", st |-> 0, left |-> FALSE]

Marked(e, x, st) == [e EXCEPT !.out = Append(@, x), !.st = st]

Command(c, e) ==
    CASE c = "a" -> Marked(e, "a", 0)
      [] c = "b" -> Marked(e, "b", 1)
      [] c = "show" -> Marked(e, e.v, 0)
      [] c = "dec" -> [e EXCEPT !.n = IF @ = 0 THEN 0 ELSE @ - 1, !.st = 0]
      [] c = "yes" -> [e EXCEPT !.st = 0]
      [] c = "no" -> [e EXCEPT !.st = 1]
      [] c = "more" -> [e EXCEPT !.st = IF e.n > 0 THEN 0 ELSE 1]
      [] c = "exit" -> [e EXCEPT !.left = TRUE]
      [] OTHER -> [e EXCEPT !.st = 127]

-----------------------------------------------------------------------------
(* The trees. *)
Cmd(c) == [k |-> "cmd", c |-> c]
If(arms, els) == [k |-> "if", arms |-> arms, els |-> els]
Arm(c, body) == [c |-> c, body |-> body]
While(c, body) == [k |-> "while", c |-> c, body |-> body]
For(words, body) == [k |-> "for", words |-> words, body |-> body]

(* What running a sequence of nodes does. *)
RECURSIVE Eval(_, _)
RECURSIVE EvalArms(_, _, _)
RECURSIVE EvalWhile(_, _)
RECURSIVE EvalFor(_, _, _)

EvalNode(d, e) ==
    CASE d.k = "cmd" -> Command(d.c, e)
      [] d.k = "if" -> EvalArms(d.arms, d.els, e)
      [] d.k = "while" -> EvalWhile(d, e)
      [] d.k = "for" -> EvalFor(d.words, d.body, e)

Eval(s, e) ==
    IF s = <<>> \/ e.left THEN e ELSE Eval(Tail(s), EvalNode(Head(s), e))

EvalArms(arms, els, e) ==
    IF arms = <<>> THEN Eval(els, e)
    ELSE LET asked == Command(Head(arms).c, e)
         IN  IF asked.st = 0 THEN Eval(Head(arms).body, asked)
                             ELSE EvalArms(Tail(arms), els, asked)

EvalWhile(d, e) ==
    LET asked == Command(d.c, e)
    IN  IF asked.st # 0 \/ asked.left THEN asked
        ELSE EvalWhile(d, Eval(d.body, asked))

EvalFor(words, body, e) ==
    IF words = <<>> \/ e.left THEN e
    ELSE EvalFor(Tail(words), body, Eval(body, [e EXCEPT !.v = Head(words)]))

-----------------------------------------------------------------------------
(* The two ways of writing a script. *)
Catenate(ss) ==
    LET f[i \in 0 .. Len(ss)] == IF i = 0 THEN <<>> ELSE f[i - 1] \o ss[i]
    IN  f[Len(ss)]

(* `kw BODY`: the keyword and the first statement of the body share a line. *)
Glue(kw, body) ==
    IF body = <<>> THEN << <<kw>> >>
    ELSE << <<kw>> \o Head(body) >> \o Tail(body)

Apart(kw, body) == << <<kw>> >> \o body

RECURSIVE Written(_, _)

Under(kw, body, inline) ==
    IF inline THEN Glue(kw, Written(body, inline)) ELSE Apart(kw, Written(body, inline))

WrittenNode(d, inline) ==
    CASE d.k = "cmd" -> << <<d.c>> >>
      [] d.k = "if" ->
           Catenate([i \in DOMAIN d.arms |->
               << <<IF i = 1 THEN "if" ELSE "elif", d.arms[i].c>> >>
                   \o Under("then", d.arms[i].body, inline)])
           \o (IF d.els = <<>> THEN <<>> ELSE Under("else", d.els, inline))
           \o << <<"fi">> >>
      [] d.k = "while" ->
           << <<"while", d.c>> >> \o Under("do", d.body, inline) \o << <<"done">> >>
      [] d.k = "for" ->
           << <<"for", "v", "in">> \o d.words >>
               \o Under("do", d.body, inline) \o << <<"done">> >>

Written(s, inline) == Catenate([i \in DOMAIN s |-> WrittenNode(s[i], inline)])

-----------------------------------------------------------------------------
(* What a tree contains. *)
RECURSIVE Nodes(_)

Bodies(d) ==
    CASE d.k = "cmd" -> {}
      [] d.k = "if" -> {d.arms[i].body : i \in DOMAIN d.arms} \union {d.els}
      [] OTHER -> {d.body}

Nodes(s) ==
    UNION {{s[i]} \union UNION {Nodes(b) : b \in Bodies(s[i])} : i \in DOMAIN s}

Kinds(s) == {d.k : d \in Nodes(s)}
Inside(d) == UNION {Kinds(b) : b \in Bodies(d)}
-----------------------------------------------------------------------------
(* The scripts that are tried: every if and loop over short bodies, those   *)
(* once more inside another if or loop, with a command before and a look at *)
(* the loop variable after.                                                 *)
Simple == {<<Cmd("a")>>, <<Cmd("b"), Cmd("show")>>, <<>>}

Branches(conds, bodies, elses) ==
    {If(<<Arm(c, x)>>, y) : c \in conds, x \in bodies, y \in elses}

Chains(bodies) ==
    {If(<<Arm(c, <<Cmd("b")>>), Arm(d, x)>>, y) :
        c \in {"yes", "no"}, d \in {"yes", "more"}, x \in bodies, y \in {<<>>, <<Cmd("a")>>}}

Repeats(bodies) ==
    {While("more", x \o <<Cmd("dec")>>) : x \in bodies}
        \union {While("no", x) : x \in bodies}
        \union {For(w, x) : w \in {<<>>, <<"1">>, <<"1", "2">>}, x \in bodies}

Shallow == Branches({"yes", "no"}, Simple, Simple) \union Chains(Simple) \union Repeats(Simple)

Nested ==
    LET bodies == {<<d, Cmd("show")>> : d \in Shallow} \union {<<Cmd("b"), d>> : d \in Repeats({<<Cmd("a")>>})}
    IN  Branches({"yes", "no"}, bodies, {<<>>, <<Cmd("a")>>})
            \union Branches({"no", "more"}, {<<Cmd("a")>>}, bodies)
            \union Chains(bodies) \union Repeats(bodies)

Leaving ==
    {<<Cmd("a"), Cmd("exit"), Cmd("b")>>}
        \union {<<d, Cmd("exit"), Cmd("b")>> : d \in Branches({"yes"}, {<<Cmd("exit")>>, <<Cmd("a")>>}, {<<>>})}

Scripts ==
    {<<Cmd("a"), d, Cmd("show")>> : d \in Shallow \union Nested} \union Leaving
=============================================================================
