------------------------------- MODULE Console -------------------------------
(***************************************************************************)
(* Who has the keyboard and what is on the screen: the virtual terminals   *)
(* (proc/vtty.c), the per-task keyboard rings, modes and focus             *)
(* (drivers/keyboard.c), makmux (userspace/makmux.c) and the steps of      *)
(* fork, execve, wait4 and exit (proc/syscall.c, proc/task.c) that move    *)
(* the focus.                                                              *)
(*                                                                         *)
(* task is the task pool; its indices stand for the task_t pointers the    *)
(* kernel keeps, so an index outlives the process that had it.  Every      *)
(* system call of a task, and every key the interrupt handler decodes, is  *)
(* one action; the calls of one program are interleaved with the others'.  *)
(* A byte in a keyboard ring is written as the pid it was meant for.       *)
(***************************************************************************)
EXTENDS Naturals, Sequences, FiniteSets

CONSTANTS
    Pool,           \* the indices of the task pool, 1..n; 1 is mak.sh0
    VTTY_SHELL_MAX, \* number of user-visible terminals
    KB_TASK_SLOTS,  \* number of keyboard rings
    KB_SLOT_BUF,    \* bytes a keyboard ring (and the global one) can hold
    VTTY_APP_Q,     \* slots of the app-tab queue; one stays empty
    Does,           \* which of the programs and keys are in play
    MaxPid,         \* bound: no task is created beyond this pid
    MaxOpens        \* bound: Alt+T presses not yet taken by makmux

VARIABLES
    task,       \* the task pool
    nextpid,
    con,        \* the console: vtty.c's and keyboard.c's globals
    flaws       \* what has happened that the code does not provide for

vars == <<task, nextpid, con, flaws>>

None == 0
VTTY_ROOT_SLOT == VTTY_SHELL_MAX
Vts == 0 .. VTTY_SHELL_MAX - 1
Ttys == 0 .. VTTY_SHELL_MAX
NoTty == VTTY_SHELL_MAX + 1
Mak_sh0 == 1
Slots == 1 .. KB_TASK_SLOTS

Free == [owner |-> None, ring |-> <<>>, saved |-> "cooked"]
NoTask == [st |-> "dead", pid |-> 0, par |-> 0, tty |-> NoTty, prog |-> "none",
           at |-> "none", asked |-> "cooked", kids |-> {}, aim |-> 0]

(***************************************************************************)
(* vtty.c: owners of a terminal.                                           *)
(***************************************************************************)
task_live(tk, t) == t # None /\ tk[t].st = "live"

vtty_owner(tk, n) ==
    LET on == {t \in Pool : tk[t].st # "dead" /\ tk[t].tty = n}
    IN IF on = {} THEN None
       ELSE CHOOSE t \in on : \A u \in on : tk[t].pid <= tk[u].pid

vtty_root_text_owner(tk, c) ==
    IF task_live(tk, c.roottext) THEN c.roottext ELSE vtty_owner(tk, VTTY_ROOT_SLOT)

\* The terminal whose grid is on the screen (vtty_buf_focused).
Displayed(c) ==
    IF c.mode # "vt" \/ c.nslots = 0 THEN VTTY_ROOT_SLOT ELSE c.current

vtty_is_focused(tk, c, p) ==
    IF tk[p].tty = VTTY_ROOT_SLOT
    THEN CASE c.mode = "gui" -> task_live(tk, c.rootgui) /\ p = c.rootgui
           [] c.mode = "text" ->
                \/ p = vtty_root_text_owner(tk, c)
                \/ task_live(tk, c.fg[VTTY_ROOT_SLOT]) /\ p = c.fg[VTTY_ROOT_SLOT]
           [] OTHER -> c.nslots = 0 /\ p = vtty_root_text_owner(tk, c)
    ELSE c.mode = "vt" /\ tk[p].tty = c.current

(***************************************************************************)
(* keyboard.c: the ring table, the focus and the input mode.               *)
(***************************************************************************)
slot_lookup(c, t) ==
    IF \E i \in Slots : c.slot[i].owner = t
    THEN CHOOSE i \in Slots : c.slot[i].owner = t ELSE 0

slot_register(c, t) ==
    LET free == {i \in Slots : c.slot[i].owner = None}
        i == CHOOSE i \in free : \A j \in free : i <= j
    IN IF slot_lookup(c, t) # 0 \/ free = {} THEN c
       ELSE [c EXCEPT !.slot[i] = [Free EXCEPT !.owner = t],
                      !.focus = IF c.focus = None THEN t ELSE c.focus]

slot_push(c, i, b) ==
    IF Len(c.slot[i].ring) >= KB_SLOT_BUF THEN c
    ELSE [c EXCEPT !.slot[i].ring = Append(c.slot[i].ring, b)]

keyboard_send_to(tk, c, t) ==
    LET c1 == slot_register(c, t)
        i == slot_lookup(c1, t)
    IN IF i = 0 THEN c1 ELSE slot_push(c1, i, tk[t].pid)

keyboard_set_focus(c, t) ==
    LET i == IF t = None THEN 0 ELSE slot_lookup(c, t)
    IN [c EXCEPT !.focus = t,
                 !.input = IF i = 0 THEN "cooked" ELSE c.slot[i].saved]

\* keyboard_set_scancode and keyboard_set_raw, called by task p.
SetInput(c, p, m) ==
    LET i == slot_lookup(c, p)
        c1 == [c EXCEPT !.input = m]
    IN IF i = 0 THEN c1 ELSE [c1 EXCEPT !.slot[i].saved = m]

\* keyboard_release_task(t), called by task p.
keyboard_release_task(c, t, p) ==
    LET i == slot_lookup(c, t)
        c1 == IF i = 0 THEN c ELSE [c EXCEPT !.slot[i] = Free]
    IN IF c.focus = t THEN SetInput([c1 EXCEPT !.focus = None], p, "cooked") ELSE c1

(***************************************************************************)
(* vtty.c: changing what is displayed.                                     *)
(***************************************************************************)
Painted(c, n) == [c EXCEPT !.shown = n]

vtty_request_repaint(c, n) == IF n \in Ttys THEN [c EXCEPT !.pending = n] ELSE c

vtty_switch(tk, c, n) ==
    LET t == IF c.fg[n] # None THEN c.fg[n] ELSE vtty_owner(tk, n)
    IN IF n >= c.nslots \/ (c.mode = "vt" /\ n = c.current) \/ t = None THEN c
       ELSE [keyboard_send_to(tk,
                keyboard_set_focus([c EXCEPT !.mode = "vt", !.current = n], t), t)
             EXCEPT !.pending = n]

vtty_switch_root_text(tk, c) ==
    LET t == IF task_live(tk, c.launcher) THEN c.launcher
             ELSE vtty_root_text_owner(tk, c)
    IN IF t = None THEN c
       ELSE Painted(keyboard_send_to(tk,
                keyboard_set_focus([c EXCEPT !.mode = "text"], t), t), VTTY_ROOT_SLOT)

vtty_switch_root_gui(tk, c) ==
    IF ~task_live(tk, c.rootgui) THEN c
    ELSE keyboard_send_to(tk, keyboard_set_focus([c EXCEPT !.mode = "gui"], c.rootgui),
                          c.rootgui)

vtty_set_foreground(c, n, t) == IF n \in Ttys THEN [c EXCEPT !.fg[n] = t] ELSE c

\* task_by_pid
ByPid(tk, pid) ==
    LET at == {t \in Pool : tk[t].pid = pid /\ tk[t].st # "dead"}
    IN IF at = {} THEN None ELSE CHOOSE t \in at : TRUE

vtty_register_root_gui(tk, c, p) ==
    keyboard_set_focus([c EXCEPT !.rootgui = p, !.launcher = ByPid(tk, tk[p].par),
                                 !.fg[VTTY_ROOT_SLOT] = p, !.mode = "gui"], p)

vtty_task_exited(tk, c, t) ==
    IF t # c.rootgui THEN c
    ELSE vtty_switch_root_text(tk,
            [c EXCEPT !.rootgui = None,
                      !.fg[VTTY_ROOT_SLOT] = IF @ = t THEN None ELSE @])

(***************************************************************************)
(* Tasks.                                                                  *)
(***************************************************************************)
Idle(tk) == {t \in Pool : tk[t].st = "dead"}
Room == nextpid <= MaxPid /\ Idle(task) # {}
Fresh == CHOOSE t \in Idle(task) : \A u \in Idle(task) : t <= u

\* task_create and task_fork: the child inherits the terminal.
Child(p, prog, at) ==
    [NoTask EXCEPT !.st = "live", !.pid = nextpid, !.par = task[p].pid,
                   !.tty = task[p].tty, !.prog = prog, !.at = at]

\* The state a task ends in: a zombie if a ring-3 parent can wait for it.
Ended(tk, t) ==
    LET par == ByPid(tk, tk[t].par)
    IN IF par # None /\ tk[par].prog # "mak.sh0" THEN "zombie" ELSE "dead"

\* task_terminate(t), and task_exit's reaping of t's own zombies.
Terminated(tk, t) ==
    [u \in Pool |->
        IF u = t \/ (tk[u].st = "zombie" /\ tk[u].par = tk[t].pid)
        THEN IF u = t /\ Ended(tk, t) = "zombie"
             THEN [tk[t] EXCEPT !.st = "zombie", !.at = "none", !.asked = "cooked",
                                !.kids = {}, !.aim = 0]
             ELSE NoTask
        ELSE tk[u]]

ConsoleAfter(tk, c, t, p) == vtty_task_exited(tk, keyboard_release_task(c, t, p), t)

Is(p, prog, at) == task[p].st = "live" /\ task[p].prog \in prog /\ task[p].at = at

\* Nothing more is promised once the code has been taken by surprise.
Goes == flaws = {}

Note(cond, what) == flaws' = IF cond THEN flaws \cup {what} ELSE flaws

Background(p) == task[p].tty # Displayed(con)

\* p's drain paints p's terminal although another one is displayed.
Overpainted(p) ==
    IF con.pending = task[p].tty /\ Background(p) THEN {"repainted in the background"}
    ELSE {}

\* A switch went to a task that has ended: the focus, and a ring, are its.
ToTheDead(tk, c) ==
    IF c.focus # None /\ ~task_live(tk, c.focus) THEN {"switched to a task that has ended"}
    ELSE {}

\* A child is left with nobody to wait for it.
Orphans(tk, t) ==
    IF \E u \in Pool : tk[u].st = "live" /\ tk[u].par = tk[t].pid
    THEN {"a child outlives its parent"} ELSE {}

(***************************************************************************)
(* shell_login_loop and shell_exec_elf: mak.sh0 starts the login session   *)
(* and takes the console back when its task is dead.                       *)
(***************************************************************************)
shell_exec_elf ==
    /\ Goes /\ Is(Mak_sh0, {"mak.sh0"}, "ready") /\ Room
    /\ task' = [task EXCEPT ![Fresh] = Child(Mak_sh0, "sh", "ready"),
                            ![Mak_sh0].at = "wait", ![Mak_sh0].aim = Fresh]
    /\ nextpid' = nextpid + 1
    /\ con' = [keyboard_set_focus(con, Fresh)
               EXCEPT !.roottext = Fresh, !.fg[VTTY_ROOT_SLOT] = Fresh]
    /\ UNCHANGED flaws

vtty_drain_pending(tk, c, p) ==
    IF c.pending = NoTty \/ c.pending # tk[p].tty THEN c
    ELSE Painted([c EXCEPT !.pending = NoTty], c.pending)

SessionOver ==
    /\ Goes /\ Is(Mak_sh0, {"mak.sh0"}, "wait")
    /\ LET t == task[Mak_sh0].aim
           c1 == keyboard_release_task(con, t, Mak_sh0)
           c2 == keyboard_set_focus([c1 EXCEPT !.fg[VTTY_ROOT_SLOT] = None], Mak_sh0)
           c3 == vtty_drain_pending(task, SetInput(c2, Mak_sh0, "cooked"), Mak_sh0)
           c4 == slot_register(c3, Mak_sh0)
           i == slot_lookup(c4, Mak_sh0)
       IN /\ task[t].st = "dead"
          /\ con' = Painted(IF i = 0 THEN c4 ELSE [c4 EXCEPT !.slot[i].ring = <<>>],
                            VTTY_ROOT_SLOT)
    /\ task' = [task EXCEPT ![Mak_sh0].at = "ready", ![Mak_sh0].aim = 0]
    /\ UNCHANGED <<nextpid, flaws>>

(***************************************************************************)
(* Programs: the shell (sh.elf), full-screen programs, the desktop.        *)
(***************************************************************************)
\* sh.elf runs a command in the foreground: fork, then wait4 for it.
Fork(p, prog) ==
    /\ Goes /\ Is(p, {"sh"}, "ready") /\ Room
    /\ prog \in Does
    /\ prog \in {"mux", "gui"} => task[p].tty = VTTY_ROOT_SLOT
    /\ prog = "mux" => \A n \in Vts : vtty_owner(task, n) = None
    /\ task' = [task EXCEPT ![Fresh] = Child(p, prog, "exec"), ![p].at = "wait",
                            ![p].aim = nextpid]
    /\ nextpid' = nextpid + 1
    /\ UNCHANGED <<con, flaws>>

SYS_EXECVE(p) ==
    /\ Goes /\ task[p].st = "live" /\ task[p].at = "exec"
    /\ task' = [task EXCEPT ![p].at = IF task[p].prog = "mux" THEN "start" ELSE "ready"]
    /\ con' = LET c1 == IF task[p].prog = "gui" THEN vtty_register_root_gui(task, con, p)
                        ELSE con
              IN vtty_set_foreground(keyboard_set_focus(c1, p), task[p].tty, p)
    /\ Note(Background(p), "execve in the background")
    /\ UNCHANGED nextpid

\* The zombies SYS_WAIT4 would reap for p.
Zombies(p, pid) ==
    {z \in Pool : /\ task[z].st = "zombie" /\ task[z].par = task[p].pid
                  /\ pid = 0 \/ task[z].pid = pid}

\* wait4 hands the console to the waiting task; a child that drew on the
\* screen (drew) has the terminal repainted.
TakesBack(c, p, drew) ==
    LET c1 == vtty_set_foreground(keyboard_set_focus(c, p), task[p].tty, p)
    IN IF ~drew \/ task[p].tty \notin Ttys THEN c1
       ELSE vtty_request_repaint(IF task[p].tty = VTTY_ROOT_SLOT
                                 THEN Painted(c1, VTTY_ROOT_SLOT) ELSE c1, task[p].tty)

SYS_WAIT4(p) ==
    /\ Goes /\ Is(p, {"sh"}, "wait")
    /\ \E z \in Zombies(p, task[p].aim), drew \in BOOLEAN :
          /\ drew => task[z].prog # "sh"
          /\ task' = [task EXCEPT ![z] = NoTask, ![p].at = "ready", ![p].aim = 0]
          /\ con' = TakesBack(con, p, drew)
          /\ Note(Background(p), "wait4 in the background")
    /\ UNCHANGED nextpid

\* exit, or death by a signal
Exit(p) ==
    /\ Goes /\ p # Mak_sh0 /\ task[p].st = "live"
    /\ task[p].at = "ready" \/ (task[p].prog = "mux" /\ task[p].at = "done")
    /\ task' = Terminated(task, p)
    /\ con' = ConsoleAfter(task, con, p, p)
    /\ flaws' = flaws \cup Orphans(task, p)
    /\ UNCHANGED nextpid

\* SYS_KEYBOARD_RAW
SYS_KEYBOARD_RAW(p, m) ==
    /\ Goes /\ "raw" \in Does /\ Is(p, {"app", "gui"}, "ready") /\ task[p].asked # m
    /\ task' = [task EXCEPT ![p].asked = m]
    /\ con' = SetInput(con, p, m)
    /\ flaws' = flaws
         \cup (IF con.focus # p THEN {"mode set in the background"} ELSE {})
         \cup (IF slot_lookup(con, p) = 0 THEN {"mode set before the first read"} ELSE {})
    /\ UNCHANGED nextpid

\* keyboard_poll and one turn of keyboard_getchar's loop
keyboard_getchar(p) ==
    /\ Goes /\ Is(p, {"sh", "app", "gui", "mak.sh0"}, "ready")
    /\ ~(con.cad /\ con.mode = "text")
    /\ LET c1 == slot_register(vtty_drain_pending(task, con, p), p)
           i == slot_lookup(c1, p)
       IN /\ con' = IF i = 0 THEN [c1 EXCEPT !.global = IF @ = 0 THEN 0 ELSE @ - 1]
                    ELSE IF c1.slot[i].ring = <<>> THEN c1
                    ELSE [c1 EXCEPT !.slot[i].ring = Tail(@)]
          /\ flaws' = flaws \cup Overpainted(p)
               \cup (IF con.focus = None /\ c1.focus = p /\ Background(p)
                     THEN {"took the free focus in the background"} ELSE {})
    /\ con' # con
    /\ UNCHANGED <<task, nextpid>>

\* kb_service_cad and cad_menu: cancel, or log off
kb_service_cad(p) ==
    /\ Goes /\ Is(p, {"sh", "app", "gui", "mak.sh0"}, "ready")
    /\ con.cad /\ con.mode = "text"
    /\ LET c1 == [vtty_drain_pending(task, con, p) EXCEPT !.cad = FALSE]
       IN \/ con' = vtty_request_repaint(c1, VTTY_ROOT_SLOT) /\ UNCHANGED task
          \/ /\ p # Mak_sh0
             /\ task' = Terminated(task, p)
             /\ con' = ConsoleAfter(task, c1, p, p)
    /\ flaws' = flaws \cup Overpainted(p)
         \cup (IF Background(p) THEN {"menu on another terminal"} ELSE {})
    /\ UNCHANGED nextpid

\* The desktop draws a frame (SYS_FB_PRESENT), or closes (SYS_GUI_CLOSE).
SYS_FB_PRESENT(p) ==
    /\ Goes /\ Is(p, {"gui"}, "ready") /\ vtty_is_focused(task, con, p)
    /\ con.shown # NoTty
    /\ con' = Painted(con, NoTty)
    /\ Note(con.mode # "gui", "the desktop drew on the text console")
    /\ UNCHANGED <<task, nextpid>>

SYS_GUI_CLOSE(p) ==
    /\ Goes /\ Is(p, {"gui"}, "ready") /\ con.mode = "gui"
    /\ con' = vtty_switch_root_text(task, con)
    /\ UNCHANGED <<task, nextpid, flaws>>

\* SYS_LOGOUT: vtty_logout_root_session
SYS_LOGOUT(p) ==
    /\ Goes /\ "logout" \in Does /\ Is(p, {"sh", "gui"}, "ready")
    /\ LET session == con.roottext
           manager == vtty_owner(task, VTTY_ROOT_SLOT)
           c1 == ConsoleAfter(task, con, session, p)
           c2 == [c1 EXCEPT !.roottext = None, !.mode = "text",
                            !.fg[VTTY_ROOT_SLOT] = IF @ = session THEN None ELSE @]
       IN /\ task_live(task, session) /\ session # manager
          /\ task' = Terminated(task, session)
          /\ con' = vtty_request_repaint(
                       keyboard_send_to(task', keyboard_set_focus(c2, manager), manager),
                       VTTY_ROOT_SLOT)
          /\ flaws' = flaws \cup Orphans(task, session)
    /\ UNCHANGED nextpid

(***************************************************************************)
(* makmux and the tabs it opens.                                           *)
(***************************************************************************)
\* spawn_child and spawn_app: fork a child that takes a terminal, then execs.
Spawn(p, prog, left) ==
    \/ /\ Room
       /\ task' = [task EXCEPT ![Fresh] = Child(p, prog, "enter"),
                               ![p].kids = IF prog = "sh" THEN @ \cup {nextpid} ELSE @,
                               ![p].at = "loop", ![p].aim = left]
       /\ nextpid' = nextpid + 1
    \/ /\ Idle(task) = {}
       /\ task' = [task EXCEPT ![p].at = "loop", ![p].aim = left]
       /\ UNCHANGED nextpid

MuxStart(p) ==
    /\ Goes /\ Is(p, {"mux"}, "start") /\ Room
    /\ Spawn(p, "sh", 0)
    /\ UNCHANGED <<con, flaws>>

\* SYS_VT_OPEN_REQUEST, then one fork for each press of Alt+T
MuxOpen(p) ==
    /\ Goes /\ Is(p, {"mux"}, "loop")
    /\ \/ /\ task[p].aim = 0 /\ con.opens > 0
          /\ con' = [con EXCEPT !.opens = 0]
          /\ task' = [task EXCEPT ![p].aim = con.opens]
          /\ UNCHANGED nextpid
       \/ /\ task[p].aim > 0
          /\ Spawn(p, "sh", task[p].aim - 1)
          /\ UNCHANGED con
    /\ UNCHANGED flaws

\* SYS_VT_TAKE_APP, then spawn_app
MuxApp(p) ==
    /\ Goes /\ Is(p, {"mux"}, "loop") /\ task[p].aim = 0 /\ con.apps > 0
    /\ con' = [con EXCEPT !.apps = @ - 1]
    /\ Spawn(p, "app", 0)
    /\ UNCHANGED flaws

\* makmux's wait4(-1, WNOHANG).  The entry of a reaped child keeps its pid
\* and its terminal until it is used again.
MuxWait(p) ==
    /\ Goes /\ Is(p, {"mux"}, "loop") /\ task[p].aim = 0
    /\ \E z \in Zombies(p, 0), drew \in BOOLEAN :
          /\ drew => task[z].prog # "sh"
          /\ task' = [task EXCEPT ![z].st = "dead", ![p].at = "close",
                                  ![p].aim = task[z].pid]
          /\ con' = TakesBack(con, p, drew)
          /\ Note(task[z].tty # Displayed(con), "wait4 in the background")
    /\ UNCHANGED nextpid


\* The next live terminal after slot closed: the first above, else below.
NextAfter(tk, slot, n) ==
    LET up == {i \in Vts : slot <= i /\ i < n /\ vtty_owner(tk, i) # None}
        down == {i \in Vts : i < slot /\ vtty_owner(tk, i) # None}
    IN IF up # {} THEN CHOOSE i \in up : \A j \in up : i <= j
       ELSE IF down # {} THEN CHOOSE i \in down : \A j \in down : i >= j ELSE 0

\* vtty_close_pid's last part: tk is the pool after the terminal was emptied.
Closed(tk, c, slot, p) ==
    LET open == {i \in Vts : i < c.nslots /\ vtty_owner(tk, i) # None}
        n == IF open = {} THEN 0
             ELSE (CHOOSE i \in open : \A j \in open : i >= j) + 1
        c1 == [c EXCEPT !.fg[slot] = None, !.name[slot] = FALSE, !.nslots = n]
        root == vtty_owner(tk, VTTY_ROOT_SLOT)
        next == NextAfter(tk, slot, n)
        t == vtty_owner(tk, next)
    IN IF n = 0
       THEN vtty_request_repaint(
               keyboard_set_focus([c1 EXCEPT !.current = 0, !.mode = "text"],
                                  IF root # None THEN root ELSE p), VTTY_ROOT_SLOT)
       ELSE IF c.current # slot /\ c.current < n THEN c1
       ELSE IF t = None THEN keyboard_set_focus([c1 EXCEPT !.current = next], p)
       ELSE [keyboard_send_to(tk, keyboard_set_focus([c1 EXCEPT !.current = next], t), t)
             EXCEPT !.pending = next]

\* SYS_VT_CLOSE of the child just reaped
vtty_close_pid(p) ==
    /\ Goes /\ Is(p, {"mux"}, "close")
    /\ LET at == {t \in Pool : task[t].pid = task[p].aim}
           slot == IF at = {} THEN NoTty ELSE task[CHOOSE t \in at : TRUE].tty
           kids == task[p].kids \ {task[p].aim}
           rest == [t \in Pool |->
                      IF t = p THEN [task[p] EXCEPT !.kids = kids, !.aim = 0,
                                       !.at = IF kids = {} THEN "done" ELSE "loop"]
                      ELSE IF t \in at THEN NoTask
                      ELSE IF slot \in Vts /\ task[t].tty = slot
                           THEN [task[t] EXCEPT !.tty = NoTty] ELSE task[t]]
       IN /\ task' = rest
          /\ con' = IF slot \in Vts THEN Closed(rest, con, slot, p) ELSE con
          /\ flaws' = flaws
               \cup (IF at = {} THEN {"closed after the entry was reused"} ELSE {})
               \cup (IF slot \in Vts /\ vtty_owner(task, slot) # None
                     THEN {"closed under a new tab"} ELSE {})
               \cup (IF slot \in Vts /\ slot # Displayed(con)
                     THEN {"closed while another is displayed"} ELSE {})
               \cup ToTheDead(rest, con')
    /\ UNCHANGED nextpid

\* SYS_VT_ENTER: shell_enter_makmux_slot up to its wait for the focus.
shell_enter_makmux_slot(p) ==
    /\ Goes /\ task[p].st = "live" /\ task[p].at = "enter"
    /\ LET free == {n \in Vts : vtty_owner(task, n) = None}
           slot == CHOOSE n \in free : \A m \in free : n <= m
           c1 == [con EXCEPT !.nslots = IF slot >= @ THEN slot + 1 ELSE @, !.mode = "vt"]
           c2 == IF slot = 0 THEN keyboard_set_focus(c1, p) ELSE c1
       IN IF free = {}
          THEN task' = Terminated(task, p) /\ con' = ConsoleAfter(task, con, p, p)
          ELSE /\ task' = [task EXCEPT ![p].tty = slot, ![p].at = "entering"]
               /\ con' = vtty_switch(task', c2, slot)
    /\ UNCHANGED <<nextpid, flaws>>

Entered(p) ==
    /\ Goes /\ task[p].st = "live" /\ task[p].at = "entering"
    /\ vtty_is_focused(task, con, p)
    /\ task' = [task EXCEPT ![p].at = "exec"]
    /\ con' = [Painted(con, task[p].tty)
               EXCEPT !.name = IF task[p].prog = "app" THEN [@ EXCEPT ![task[p].tty] = TRUE]
                               ELSE @]
    /\ UNCHANGED <<nextpid, flaws>>

\* SYS_VT_OPEN_APP from the shell of a tab
vtty_open_app(p) ==
    /\ Goes /\ "apps" \in Does /\ Is(p, {"sh"}, "ready") /\ task[p].tty \in Vts
    /\ LET named == {n \in Vts : vtty_owner(task, n) # None /\ con.name[n]}
       IN con' = IF named # {}
                 THEN vtty_switch(task, con, CHOOSE n \in named : \A m \in named : n <= m)
                 ELSE IF con.apps = VTTY_APP_Q - 1 THEN con
                 ELSE [con EXCEPT !.apps = @ + 1]
    /\ con' # con
    /\ flaws' = flaws \cup ToTheDead(task, con')
    /\ UNCHANGED <<task, nextpid>>

(***************************************************************************)
(* The keyboard interrupt.                                                 *)
(***************************************************************************)
\* A key goes into the ring of the task with the focus, else into the global one.
kb_route ==
    /\ Goes /\ "keys" \in Does
    /\ LET i == IF con.focus = None THEN 0 ELSE slot_lookup(con, con.focus)
       IN con' = IF i # 0 THEN slot_push(con, i, task[con.focus].pid)
                 ELSE [con EXCEPT !.global = IF @ < KB_SLOT_BUF THEN @ + 1 ELSE @]
    /\ con' # con
    /\ UNCHANGED <<task, nextpid, flaws>>

AltFn(n) ==
    /\ Goes /\ con.input = "cooked"
    /\ con' = vtty_switch(task, con, n)
    /\ con' # con
    /\ flaws' = flaws \cup ToTheDead(task, con')
    /\ UNCHANGED <<task, nextpid>>

AltT ==
    /\ Goes /\ "tabs" \in Does /\ con.input = "cooked" /\ con.opens < MaxOpens
    /\ con' = [con EXCEPT !.opens = @ + 1]
    /\ UNCHANGED <<task, nextpid, flaws>>

AltF5 ==
    /\ Goes
    /\ con' = vtty_switch_root_text(task, con)
    /\ con' # con
    /\ UNCHANGED <<task, nextpid, flaws>>

AltF6 ==
    /\ Goes
    /\ con' = vtty_switch_root_gui(task, con)
    /\ con' # con
    /\ UNCHANGED <<task, nextpid, flaws>>

CtrlAltDel ==
    /\ Goes /\ "menu" \in Does /\ ~con.cad
    /\ con' = [con EXCEPT !.cad = TRUE]
    /\ UNCHANGED <<task, nextpid, flaws>>

(***************************************************************************)
(* The specification: mak.sh0 has registered the root console.             *)
(***************************************************************************)
Init ==
    /\ task = [t \in Pool |->
                 IF t = Mak_sh0
                 THEN [NoTask EXCEPT !.st = "live", !.pid = 1, !.tty = VTTY_ROOT_SLOT,
                                     !.prog = "mak.sh0", !.at = "ready"]
                 ELSE NoTask]
    /\ nextpid = 2
    /\ con = [nslots |-> 0, current |-> 0, mode |-> "text", fg |-> [n \in Ttys |-> None],
              name |-> [n \in Vts |-> FALSE], roottext |-> Mak_sh0, rootgui |-> None,
              launcher |-> None, pending |-> NoTty, shown |-> VTTY_ROOT_SLOT,
              opens |-> 0, apps |-> 0, cad |-> FALSE, focus |-> Mak_sh0,
              input |-> "cooked", slot |-> [i \in Slots |-> Free],
              global |-> 0]
    /\ flaws = {}

Next ==
    \/ shell_exec_elf \/ SessionOver
    \/ \E p \in Pool :
          \/ \E prog \in {"app", "mux", "gui"} : Fork(p, prog)
          \/ SYS_EXECVE(p) \/ SYS_WAIT4(p) \/ Exit(p)
          \/ \E m \in {"cooked", "raw"} : SYS_KEYBOARD_RAW(p, m)
          \/ keyboard_getchar(p) \/ kb_service_cad(p)
          \/ SYS_FB_PRESENT(p) \/ SYS_GUI_CLOSE(p) \/ SYS_LOGOUT(p)
          \/ MuxStart(p) \/ MuxOpen(p) \/ MuxApp(p) \/ MuxWait(p) \/ vtty_close_pid(p)
          \/ shell_enter_makmux_slot(p) \/ Entered(p) \/ vtty_open_app(p)
    \/ kb_route \/ \E n \in Vts : AltFn(n)
    \/ AltT \/ AltF5 \/ AltF6 \/ CtrlAltDel

Spec == Init /\ [][Next]_vars
(***************************************************************************)
(* Properties.                                                             *)
(***************************************************************************)
\* The tasks, the terminals and the keyboard keep their shapes.
TypeOK ==
    /\ \A t \in Pool : /\ task[t].st \in {"live", "zombie", "dead"}
                       /\ task[t].tty \in Ttys \cup {NoTty}
    /\ con.nslots \in 0 .. VTTY_SHELL_MAX /\ con.current \in Vts
    /\ con.mode \in {"text", "gui", "vt"}
    /\ con.focus \in Pool \cup {None}
    /\ con.apps < VTTY_APP_Q
    /\ \A i \in Slots : Len(con.slot[i].ring) <= KB_SLOT_BUF
    /\ \A i, j \in Slots : i # j /\ con.slot[i].owner # None =>
          con.slot[i].owner # con.slot[j].owner

\* p's next step gives the keyboard to somebody.
GivesFocus(p) ==
    \/ Is(p, {"sh"}, "wait") /\ Zombies(p, task[p].aim) # {}
    \/ Is(p, {"mux"}, "loop") /\ Zombies(p, 0) # {}
    \/ Is(p, {"mux"}, "close") \/ Is(p, {"mux"}, "done")
    \/ Is(p, {"mak.sh0"}, "wait") /\ task[task[p].aim].st = "dead"

Closing == \E p \in Pool : Is(p, {"mux"}, "close")

\* The keyboard is never stranded (s_focused, keyboard.c; vtty.c).  Whatever
\* ends, switches or opens, the focus belongs to a living task of the terminal
\* on the screen, or is free while a task is about to hand it on.
KeyboardReaches ==
    Goes => IF con.focus = None THEN \E p \in Pool : GivesFocus(p)
            ELSE /\ task_live(task, con.focus)
                 /\ task[con.focus].tty = Displayed(con) \/ Closing

\* What is on the screen is the terminal the keys go to (vtty_buf_focused,
\* vtty_drain_pending): it has been painted, or its repaint is on order, or
\* its new owner is about to clear it.
ScreenFollows ==
    (Goes /\ con.mode # "gui") =>
        \/ con.shown = Displayed(con) \/ con.pending = Displayed(con)
        \/ \E p \in Pool : Is(p, {"sh", "app"}, "entering") /\ task[p].tty = Displayed(con)
        \/ Closing

\* A keyboard ring (s_slots, keyboard.c) belongs to a living task, and a byte
\* in it was meant for the process that has the ring, although entries of the
\* task pool, and with them the pointers the rings are found by, are reused.
RingsPrivate ==
    Goes => \A i \in Slots : con.slot[i].owner # None =>
        /\ task_live(task, con.slot[i].owner)
        /\ \A k \in DOMAIN con.slot[i].ring :
              con.slot[i].ring[k] = task[con.slot[i].owner].pid

\* The input mode in force (raw or cooked) is the one the task with the focus
\* asked for, across switches, exits and logouts (keyboard_set_focus).
ModeFollows == (Goes /\ con.focus # None) => con.input = task[con.focus].asked

=============================================================================
