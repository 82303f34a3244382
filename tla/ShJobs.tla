------------------------------- MODULE ShJobs -------------------------------
(***************************************************************************)
(* Processes of the user shell (userspace/sh.c): the list walker run_line, *)
(* run_one_segment, run_pipeline, spawn, the table of background jobs, the *)
(* wait builtin and the forwarding of Ctrl-C.  The shell is process 1; the *)
(* copy of it that runs a segment in the background is a shell too.        *)
(*                                                                         *)
(* A segment is [do, sep]: the stages of its pipeline and the separator on *)
(* its right ("and", "or", "bg" or "none").  A stage is "ext" (a program   *)
(* that ends by itself), "cat" (one that ends at the end of its input),    *)
(* "loop" (one that runs until it is interrupted) or "missing"; a segment  *)
(* of one stage may also be a builtin: "true", "false", "wait" (all jobs)  *)
(* or "wait1" (the oldest job, by its number).                             *)
(*                                                                         *)
(* sys_wait4, sys_fork, sys_pipe and the delivery of signals are modelled  *)
(* as the kernel performs them: a caught signal waits until the process    *)
(* returns to user mode, and wait4 for a number that is no child returns   *)
(* only when the caller has no child at all.                               *)
(***************************************************************************)
EXTENDS Integers, FiniteSets, Sequences, SequencesExt

CONSTANTS
    MaxPid,         \* processes in one behaviour: fork fails once they are used
    Lines,          \* the lines the user may type
    JOBS_MAX,       \* slots of the table of background jobs
    MaxLines,       \* lines typed in one behaviour
    MaxFaults,      \* pipes and forks the kernel refuses
    CtrlC           \* may the user press Ctrl-C?

VARIABLES
    proc,           \* the processes
    sh,             \* what the shells among them are doing
    seen,           \* per segment of the line: the status the shell took from it, or -1
    real,           \* per segment of the line: the status it really ended with, or -1
    spent,          \* lines typed and faults injected so far
    flaws           \* departures named where they happen

jobVars == <<proc, sh, seen, real, spent, flaws>>

Pids == 1..MaxPid
Builtins == {"true", "false", "wait", "wait1"}
Statuses == {0, 1, 127, 130}

\* A pipe is named by the process that writes to it.
End(p, side) == <<p, side>>
Held(p) == proc[p].fds
Writers(x) == {p \in Pids : proc[p].is \in {"shell", "forked", "cmd"} /\ End(x, "w") \in Held(p)}
Readers(x) == {p \in Pids : proc[p].is \in {"shell", "forked", "cmd"} /\ End(x, "r") \in Held(p)}

NoProc == [is |-> "none", by |-> 0, do |-> "none", seg |-> 0, in |-> 0, out |-> 0,
           fds |-> {}, code |-> 0, int |-> FALSE]
NoShell == [pc |-> "none", line |-> <<>>, i |-> 1, sep |-> "none", prev |-> 0, last |-> 0,
            s |-> 1, pids |-> <<>>, read |-> 0, jobs |-> <<>>, fg |-> 0, k |-> 1]

Free == {p \in Pids : proc[p].is = "none"}
NextPid == CHOOSE p \in Free : \A q \in Free : p <= q
Children(p) == {c \in Pids : proc[c].by = p /\ proc[c].is \notin {"none", "dead"}}
\* A fork fails when the task table is full, or by an injected fault.
Faulty == Free = {} \/ spent.faults < MaxFaults
Fault == IF Free = {} THEN spent ELSE [spent EXCEPT !.faults = @ + 1]

JobInit ==
    /\ proc = [p \in Pids |-> IF p = 1 THEN [NoProc EXCEPT !.is = "shell"] ELSE NoProc]
    /\ sh = [p \in Pids |-> IF p = 1 THEN [NoShell EXCEPT !.pc = "prompt"] ELSE NoShell]
    /\ seen = <<>> /\ real = <<>>
    /\ spent = [lines |-> 0, faults |-> 0]
    /\ flaws = {}

At(p, pc) == proc[p].is = "shell" /\ sh[p].pc = pc
Segment(p) == sh[p].line[sh[p].i]
Stages(p) == Len(Segment(p).do)
Report(p, status) ==
    IF p = 1 THEN [seen EXCEPT ![sh[1].i] = status] ELSE seen
\* What an ending process leaves: the last stage of a foreground segment of
\* shell 1 decides how that segment really ended.
Outcome(p, status) ==
    IF proc[p].by = 1 /\ proc[p].seg # 0 THEN [real EXCEPT ![proc[p].seg] = status] ELSE real

(***************************************************************************)
(* main: read a line, run it, prompt again.                                *)
(***************************************************************************)
ReadLine ==
    /\ At(1, "prompt") /\ spent.lines < MaxLines
    /\ \E line \in Lines :
         /\ sh' = [sh EXCEPT ![1] = [NoShell EXCEPT !.pc = "list", !.line = line,
                                                    !.last = sh[1].last, !.jobs = sh[1].jobs]]
         /\ seen' = [i \in DOMAIN line |-> -1]
         /\ real' = [i \in DOMAIN line |-> -1]
         /\ proc' = [c \in Pids |-> [proc[c] EXCEPT !.seg = 0]]
    /\ spent' = [spent EXCEPT !.lines = @ + 1]
    /\ UNCHANGED flaws

\* run_line: does the separator on its left let a segment run?
gate_open(sep, prev) ==
    CASE sep = "and" -> prev = 0
      [] sep = "or" -> prev # 0
      [] OTHER -> TRUE

\* The segment is over (or was skipped): the walker moves to the next one;
\* a background copy of the shell has only the one segment and exits.
Advance(p, status, ran) ==
    [sh[p] EXCEPT !.pc = "list", !.i = @ + 1, !.sep = Segment(p).sep,
                  !.prev = IF ran THEN status ELSE @, !.last = IF ran THEN status ELSE @,
                  !.s = 1, !.pids = <<>>, !.read = 0, !.fg = 0, !.k = 1]

jobs_add(jobs, pid) == IF Len(jobs) < JOBS_MAX THEN Append(jobs, pid) ELSE jobs

Lost(jobs) == IF Len(jobs) = JOBS_MAX THEN {"the table of jobs was full"} ELSE {}

\* run_line's segment that does not run: the gate is closed.
Skip(p) ==
    /\ At(p, "list") /\ sh[p].i <= Len(sh[p].line)
    /\ ~gate_open(sh[p].sep, sh[p].prev)
    /\ sh' = [sh EXCEPT ![p] = Advance(p, 0, FALSE)]
    /\ UNCHANGED <<proc, seen, real, spent, flaws>>

Runs(p) == At(p, "list") /\ sh[p].i <= Len(sh[p].line) /\ gate_open(sh[p].sep, sh[p].prev)

\* `cmd &`: fork; the copy runs the segment and exits with its status.
Background(p) ==
    /\ Runs(p) /\ Segment(p).sep = "bg"
    /\ \/ /\ Free # {}
          /\ LET c == NextPid IN
               /\ proc' = [proc EXCEPT ![c] = [NoProc EXCEPT !.is = "shell", !.by = p, !.fds = Held(p)]]
               /\ sh' = [sh EXCEPT
                    ![p] = [Advance(p, 0, TRUE) EXCEPT !.jobs = jobs_add(@, c)],
                    ![c] = [NoShell EXCEPT !.pc = "list", !.jobs = sh[p].jobs,
                                           !.line = <<[Segment(p) EXCEPT !.sep = "none"]>>]]
          /\ flaws' = flaws \cup Lost(sh[p].jobs)
          /\ seen' = Report(p, 0)
          /\ real' = IF p = 1 THEN [real EXCEPT ![sh[p].i] = 0] ELSE real
          /\ UNCHANGED spent
       \/ /\ Faulty /\ spent' = Fault
          /\ sh' = [sh EXCEPT ![p] = Advance(p, 1, TRUE)]
          /\ seen' = Report(p, 1)
          /\ real' = IF p = 1 THEN [real EXCEPT ![sh[p].i] = 1] ELSE real
          /\ UNCHANGED <<proc, flaws>>

Foreground(p) == Runs(p) /\ Segment(p).sep # "bg"

\* run_builtin: the ones without a child.
Builtin(p) ==
    /\ Foreground(p) /\ Stages(p) = 1 /\ Segment(p).do[1] \in {"true", "false"}
    /\ LET status == IF Segment(p).do[1] = "true" THEN 0 ELSE 1 IN
         /\ sh' = [sh EXCEPT ![p] = Advance(p, status, TRUE)]
         /\ seen' = Report(p, status)
         /\ real' = IF p = 1 THEN [real EXCEPT ![sh[p].i] = status] ELSE real
    /\ UNCHANGED <<proc, spent, flaws>>

\* run_external and spawn: fork the command; a name that is no program is
\* answered by the shell itself.
Spawn(p) ==
    /\ Foreground(p) /\ Stages(p) = 1 /\ Segment(p).do[1] \notin Builtins
    /\ \/ /\ Segment(p).do[1] # "missing" /\ Free # {}
          /\ proc' = [proc EXCEPT ![NextPid] =
                        [NoProc EXCEPT !.is = "forked", !.by = p, !.do = Segment(p).do[1],
                                       !.seg = IF p = 1 THEN sh[p].i ELSE 0, !.fds = Held(p)]]
          /\ sh' = [sh EXCEPT ![p].pc = "spawned", ![p].pids = <<NextPid>>]
          /\ UNCHANGED <<seen, real, spent>>
       \/ LET status == IF Segment(p).do[1] = "missing" THEN 127 ELSE 1 IN
          /\ \/ status = 127 /\ UNCHANGED spent
             \/ status = 1 /\ Faulty /\ spent' = Fault
          /\ sh' = [sh EXCEPT ![p] = Advance(p, status, TRUE)]
          /\ seen' = Report(p, status)
          /\ real' = IF p = 1 THEN [real EXCEPT ![sh[p].i] = status] ELSE real
          /\ UNCHANGED proc
    /\ UNCHANGED flaws

\* spawn: the command is known to the handler of SIGINT, and then waited for.
Spawned(p) ==
    /\ At(p, "spawned")
    /\ sh' = [sh EXCEPT ![p].pc = "call", ![p].fg = sh[p].pids[1]]
    /\ UNCHANGED <<proc, seen, real, spent, flaws>>

Call(p) ==
    /\ At(p, "call")
    /\ sh' = [sh EXCEPT ![p].pc = "reap"]
    /\ UNCHANGED <<proc, seen, real, spent, flaws>>

(***************************************************************************)
(* run_pipeline: one round of its loop.  The child starts with every end   *)
(* the shell holds and wires itself (Wire); the shell keeps only the read  *)
(* end of the new pipe.                                                    *)
(***************************************************************************)
HasNext(p) == sh[p].s < Stages(p)
\* The ends of the pipe before and of the pipe after stage s, while stage c is forked.
Before(p) == IF sh[p].read = 0 THEN {} ELSE {End(sh[p].read, "r")}
After(p, c) == IF HasNext(p) THEN {End(c, "r"), End(c, "w")} ELSE {}

\* Faulty variant: the write end of the new pipe stays open in the shell.
KeepsWriteEnd(p, c) == (Held(p) \ Before(p)) \cup After(p, c)
\* What the shell still holds after the round that forked c.
ShellKeeps(p, c) == (Held(p) \ Before(p)) \cup (After(p, c) \ {End(c, "w")})

InPipeline(p) == (Foreground(p) /\ Stages(p) > 1) \/ At(p, "pipe")

Pipe(p) ==
    /\ InPipeline(p) /\ Free # {}
    /\ LET c == NextPid IN
         /\ proc' = [proc EXCEPT
              ![p].fds = ShellKeeps(p, c),
              ![c] = [NoProc EXCEPT !.is = "forked", !.by = p, !.do = Segment(p).do[sh[p].s],
                                    !.seg = IF p = 1 /\ ~HasNext(p) THEN sh[p].i ELSE 0,
                                    !.in = sh[p].read, !.out = IF HasNext(p) THEN c ELSE 0,
                                    !.fds = Held(p) \cup After(p, c)]]
         /\ sh' = [sh EXCEPT ![p] =
              [@ EXCEPT !.pc = IF HasNext(p) THEN "pipe" ELSE "reap",
                        !.pids = Append(@, c),
                        !.read = IF HasNext(p) THEN c ELSE 0, !.s = @ + 1]]
    /\ UNCHANGED <<seen, real, spent, flaws>>

\* sys_pipe fails: close the read end, wait for the stages already started.
PipeFails(p) ==
    /\ InPipeline(p) /\ HasNext(p)
    /\ spent.faults < MaxFaults /\ spent' = [spent EXCEPT !.faults = @ + 1]
    /\ proc' = [proc EXCEPT ![p].fds = Held(p) \ Before(p)]
    /\ IF sh[p].pids = <<>>
       THEN /\ sh' = [sh EXCEPT ![p] = Advance(p, 1, TRUE)]
            /\ seen' = Report(p, 1)
            /\ real' = IF p = 1 THEN [real EXCEPT ![sh[p].i] = 1] ELSE real
       ELSE sh' = [sh EXCEPT ![p].pc = "clean"] /\ UNCHANGED <<seen, real>>
    /\ UNCHANGED flaws

\* sys_fork fails: close all ends; the stages already started are left alone.
ForkFails(p) ==
    /\ InPipeline(p) /\ Faulty /\ spent' = Fault
    /\ proc' = [proc EXCEPT ![p].fds = Held(p) \ Before(p)]
    /\ sh' = [sh EXCEPT ![p] = Advance(p, 1, TRUE)]
    /\ seen' = Report(p, 1)
    /\ real' = IF p = 1 THEN [real EXCEPT ![sh[p].i] = 1] ELSE real
    /\ flaws' = flaws \cup (IF sh[p].pids = <<>> THEN {} ELSE {"a fork failed in a pipeline"})

(***************************************************************************)
(* sys_wait4 of one number: reap it if it is a zombie; give up only when   *)
(* the caller has no child left.  When it returns, a pending SIGINT is     *)
(* taken, and the command it is forwarded to is the one just reaped.       *)
(***************************************************************************)
wait4_returns(p, want) == Children(p) = {} \/ (want \in Children(p) /\ proc[want].is = "zombie")
Reaped(p, want) ==
    [proc EXCEPT ![want] = IF want \in Children(p) THEN [NoProc EXCEPT !.is = "dead"] ELSE @,
                 ![p].int = FALSE]
StatusOf(p, want) == IF want \in Children(p) THEN proc[want].code ELSE 0

\* The status of a pipeline, built up while its stages are reaped in order.
LastStatus(p) == StatusOf(p, sh[p].pids[sh[p].k])

\* spawn's and run_pipeline's wait for the processes of the segment.
Reap(p) ==
    /\ At(p, "reap")
    /\ LET k == sh[p].k
           status == LastStatus(p) IN
         /\ wait4_returns(p, sh[p].pids[k])
         /\ proc' = Reaped(p, sh[p].pids[k])
         /\ IF k < Len(sh[p].pids)
            THEN sh' = [sh EXCEPT ![p].k = k + 1, ![p].last = status] /\ UNCHANGED seen
            ELSE /\ sh' = [sh EXCEPT ![p] = Advance(p, status, TRUE)]
                 /\ seen' = Report(p, status)
    /\ UNCHANGED <<real, spent, flaws>>

\* run_pipeline's wait for the stages started before a failed pipe().
Clean(p) ==
    /\ At(p, "clean")
    /\ LET k == sh[p].k IN
         /\ wait4_returns(p, sh[p].pids[k])
         /\ proc' = Reaped(p, sh[p].pids[k])
         /\ IF k < Len(sh[p].pids)
            THEN sh' = [sh EXCEPT ![p].k = k + 1] /\ UNCHANGED <<seen, real>>
            ELSE /\ sh' = [sh EXCEPT ![p] = Advance(p, 1, TRUE)]
                 /\ seen' = Report(p, 1)
                 /\ real' = IF p = 1 THEN [real EXCEPT ![sh[p].i] = 1] ELSE real
    /\ UNCHANGED <<spent, flaws>>

\* The wait builtin, for one job by its number or for all of the table.
WaitCall(p) ==
    /\ Foreground(p) /\ Stages(p) = 1 /\ Segment(p).do[1] \in {"wait", "wait1"}
    /\ Segment(p).do[1] = "wait1" => sh[p].jobs # <<>>
    /\ sh' = [sh EXCEPT ![p].pc = Segment(p).do[1], ![p].k = 1]
    /\ UNCHANGED <<proc, seen, real, spent, flaws>>

jobs_wait_all(p) ==
    /\ At(p, "wait")
    /\ LET k == sh[p].k
           jobs == sh[p].jobs
           Done(status) == /\ sh' = [sh EXCEPT ![p] = [Advance(p, status, TRUE) EXCEPT !.jobs = <<>>]]
                           /\ seen' = Report(p, status)
                           /\ real' = IF p = 1 THEN [real EXCEPT ![sh[p].i] = status] ELSE real
       IN IF jobs = <<>> THEN Done(0) /\ UNCHANGED proc
          ELSE /\ wait4_returns(p, jobs[k])
               /\ proc' = Reaped(p, jobs[k])
               /\ IF k < Len(jobs)
                  THEN sh' = [sh EXCEPT ![p].k = k + 1] /\ UNCHANGED <<seen, real>>
                  ELSE Done(StatusOf(p, jobs[k]))
    /\ UNCHANGED <<spent, flaws>>

\* `wait N`: the table keeps the number.
WaitOne(p) ==
    /\ At(p, "wait1")
    /\ LET want == sh[p].jobs[1]
           status == IF want \in Children(p) THEN proc[want].code ELSE 127 IN
         /\ wait4_returns(p, want)
         /\ proc' = Reaped(p, want)
         /\ sh' = [sh EXCEPT ![p] = Advance(p, status, TRUE)]
         /\ seen' = Report(p, status)
         /\ real' = IF p = 1 THEN [real EXCEPT ![sh[p].i] = status] ELSE real
    /\ flaws' = flaws \cup {"a job was waited for by its number"}
    /\ UNCHANGED spent

\* End of the line: shell 1 prompts again, a background copy exits.
EndOfLine(p) ==
    /\ At(p, "list") /\ sh[p].i > Len(sh[p].line)
    /\ IF p = 1
       THEN sh' = [sh EXCEPT ![1].pc = "prompt"] /\ UNCHANGED proc
       ELSE /\ sh' = [sh EXCEPT ![p] = NoShell]
            /\ proc' = [proc EXCEPT ![p] = [@ EXCEPT !.is = "zombie", !.code = sh[p].last,
                                                     !.fds = {}, !.int = FALSE]]
    /\ UNCHANGED <<seen, real, spent, flaws>>

(***************************************************************************)
(* The commands.                                                           *)
(***************************************************************************)
\* The ends a stage keeps after wiring its stdin and stdout.
Wired(c) ==
    Held(c) \cap {End(proc[c].in, "r"), End(proc[c].out, "w")}

Ended(c, status) ==
    proc' = [proc EXCEPT ![c] = [@ EXCEPT !.is = "zombie", !.code = status, !.fds = {},
                                          !.int = FALSE]]

\* The child of spawn or of run_pipeline: wire the pipe ends and execve; a
\* SIGINT taken before that runs the shell's handler, which knows no command.
Wire(c) ==
    /\ proc[c].is = "forked"
    /\ IF proc[c].do = "missing"
       THEN Ended(c, 127) /\ real' = Outcome(c, 127)
       ELSE /\ proc' = [proc EXCEPT ![c] = [@ EXCEPT !.is = "cmd", !.fds = Wired(c), !.int = FALSE]]
            /\ UNCHANGED real
    /\ UNCHANGED <<sh, seen, spent, flaws>>

\* A command ends: by itself, at the end of its input, because nobody reads
\* what it writes, or on SIGINT.
MayEnd(c) ==
    \/ proc[c].do = "ext"
    \/ proc[c].do = "cat" /\ (proc[c].in = 0 \/ Writers(proc[c].in) = {})
    \/ proc[c].out # 0 /\ Readers(proc[c].out) = {}

Exits(c) ==
    /\ proc[c].is = "cmd" /\ MayEnd(c) /\ ~proc[c].int
    /\ \E status \in (IF proc[c].do = "cat" THEN {0} ELSE {0, 1}) :
         Ended(c, status) /\ real' = Outcome(c, status)
    /\ UNCHANGED <<sh, seen, spent, flaws>>

Interrupted(c) ==
    /\ proc[c].is = "cmd" /\ proc[c].int
    /\ Ended(c, 130) /\ real' = Outcome(c, 130)
    /\ UNCHANGED <<sh, seen, spent, flaws>>

(***************************************************************************)
(* Ctrl-C in the graphical terminal: mxterm sends SIGINT to the shell.     *)
(***************************************************************************)
InKernel(p) == sh[p].pc \in {"reap", "clean", "wait", "wait1"}

Press ==
    /\ CtrlC /\ ~proc[1].int /\ sh[1].pc # "prompt"
    /\ proc' = [proc EXCEPT ![1].int = TRUE]
    /\ UNCHANGED <<sh, seen, real, spent, flaws>>

\* on_sigint, when the shell is in user mode: forward it to g_fg_child.
on_sigint ==
    /\ proc[1].int /\ ~InKernel(1)
    /\ proc' = [proc EXCEPT ![1].int = FALSE,
                            ![sh[1].fg] = IF sh[1].fg # 0 /\ @.is \in {"forked", "cmd"}
                                          THEN [@ EXCEPT !.int = TRUE] ELSE @]
    /\ UNCHANGED <<sh, seen, real, spent, flaws>>

ShellStep(p) ==
    \/ Skip(p) \/ Background(p) \/ Builtin(p) \/ Spawn(p) \/ Spawned(p) \/ Call(p)
    \/ Pipe(p) \/ PipeFails(p) \/ ForkFails(p) \/ Reap(p) \/ Clean(p)
    \/ WaitCall(p) \/ jobs_wait_all(p) \/ WaitOne(p) \/ EndOfLine(p)
CmdStep(c) == Wire(c) \/ Exits(c) \/ Interrupted(c)

JobNext ==
    \/ ReadLine \/ Press \/ on_sigint
    \/ \E p \in Pids : ShellStep(p) \/ CmdStep(p)

JobSpec == JobInit /\ [][JobNext]_jobVars

----------------------------------------------------------------------------
JobTypeOK ==
    /\ \A p \in Pids :
         /\ proc[p].is \in {"none", "shell", "forked", "cmd", "zombie", "dead"}
         /\ proc[p].code \in Statuses /\ proc[p].by \in 0..MaxPid
         /\ proc[p].fds \subseteq {End(x, side) : x \in Pids, side \in {"r", "w"}}
         /\ sh[p].read \in 0..MaxPid /\ Len(sh[p].jobs) <= JOBS_MAX
         /\ (sh[p].pc # "none") = (proc[p].is = "shell")
    /\ spent.lines <= MaxLines /\ spent.faults <= MaxFaults

(* When the shell prompts again it holds no end of any pipe, and every      *)
(* child it still has is a job its table knows, so that a later `wait`      *)
(* reaps it -- except the stages run_pipeline abandons when a fork fails    *)
(* and the jobs a full table drops.                                         *)
ShellClean ==
    At(1, "prompt") =>
        /\ Held(1) = {}
        /\ flaws \cap {"a fork failed in a pipeline", "the table of jobs was full"} = {} =>
             Children(1) \subseteq ToSet(sh[1].jobs)

(* Of the pipes between stages only the two neighbours hold an end once the *)
(* shell has passed on: otherwise a reader never sees the end of its input. *)
EndsPrivate ==
    \A x \in Pids :
        /\ \A p \in Writers(x) : p = x \/ proc[p].is = "forked"
        /\ \A p \in Readers(x) : proc[p].is = "cmd" => proc[p].in = x

(* `wait` comes back only when every job of the table has ended.            *)
WaitWaits ==
    \A p \in Pids : At(p, "wait") /\ sh'[p].pc = "list" =>
        \A j \in ToSet(sh[p].jobs) : proc[j].by = p => proc[j].is \in {"zombie", "dead"}

(* A line of `&&` and `||` runs exactly the segments whose turn it is by    *)
(* how the segments before them really ended -- for a pipeline, how its     *)
(* last stage ended -- whatever the order in which the stages finish.       *)
Latest(i) == LET ran == {j \in 1..(i - 1) : seen[j] # -1} IN
             IF ran = {} THEN 0 ELSE CHOOSE j \in ran : \A k \in ran : k <= j
ListTrue ==
    At(1, "prompt") /\ spent.lines > 0 =>
        \A i \in DOMAIN seen :
            /\ seen[i] = real[i]
            /\ LET before == IF i = 1 THEN "none" ELSE sh[1].line[i - 1].sep
                   ok == Latest(i) = 0 \/ real[Latest(i)] = 0 IN
               (seen[i] # -1) <=> (before = "and" => ok) /\ (before = "or" => ~ok)

(* Nobody waits for somebody who waits: while a line is being run some      *)
(* process can go on, the stages of a pipeline ending one after the other   *)
(* as their input ends -- unless a program of the line never ends, or a job *)
(* was waited for by its number, which a later `wait` then waits for again. *)
Endless == \E p \in Pids : proc[p].is = "cmd" /\ proc[p].do = "loop"
NoHang ==
    \/ At(1, "prompt") \/ Endless \/ "a job was waited for by its number" \in flaws
    \/ ENABLED (on_sigint \/ \E p \in Pids : ShellStep(p) \/ CmdStep(p))
=============================================================================
