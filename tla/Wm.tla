--------------------------------- MODULE Wm ---------------------------------
(***************************************************************************)
(* The display server (userspace/wm.c) and its clients (userspace/makx.c): *)
(* window table, stacking order, focus, event queues, shared surfaces, and *)
(* the end of clients and of the session.                                  *)
(*                                                                         *)
(* The server runs frames: input, then client requests, then one look at   *)
(* every window for clients that have ended.  Clients run between any two  *)
(* steps.  A request and its reply are one step, as the IPC refinement     *)
(* justifies.  Windows have one dimension, of which the frame takes one    *)
(* unit; their position, and what is drawn, are left out.                  *)
(***************************************************************************)
EXTENDS Integers, Sequences, FiniteSets

CONSTANTS
    MAXWIN,         \* windows
    EVQ,            \* slots of an event queue; one stays empty
    SURFACE_MAX,    \* shared surfaces of the kernel
    Widths,         \* screen widths that SYS_SETMODE offers
    Native,         \* width of the surface a client asks for
    Does,           \* which of the operations are in play
    MaxPid,         \* bound: clients started in a session
    MaxInputs       \* bound: presses, keys and mode changes of a session

VARIABLES
    ses,    \* the server's memory and the kernel's surface table
    cl,     \* the clients
    flaws   \* what has happened that the code does not provide for

vars == <<ses, cl, flaws>>

Wins == 1 .. MAXWIN
Sids == 1 .. SURFACE_MAX
Pids == 1 .. MaxPid
None == 0
Server == 0
Nobody == -1

-----------------------------------------------------------------------------
(* Surfaces (proc/surface.c) *)

FreeSurface == [by |-> Nobody, maps |-> {}]

\* 0 when the table is full
NewSid(d) ==
    LET free == {s \in Sids : d.surf[s] = FreeSurface}
    IN IF free = {} THEN None ELSE CHOOSE s \in free : \A t \in free : s <= t

surface_create(d, s, who) == IF s = None THEN d ELSE [d EXCEPT !.surf[s].by = who]

surface_map(d, s, who) ==
    IF s = None \/ d.surf[s] = FreeSurface THEN d ELSE [d EXCEPT !.surf[s].maps = @ \cup {who}]

surface_unmap(d, s, who) ==
    IF s = None THEN d ELSE [d EXCEPT !.surf[s].maps = @ \ {who}]

surface_destroy(d, s, who) ==
    IF s = None \/ d.surf[s].by # who THEN d ELSE [d EXCEPT !.surf[s].by = Nobody]

surface_release_task(d, who) ==
    [d EXCEPT !.surf = [s \in Sids |->
        [by |-> IF @[s].by = who THEN Nobody ELSE @[s].by, maps |-> @[s].maps \ {who}]]]

-----------------------------------------------------------------------------
(* Windows *)

\* sv is sw and sh: the width of the surface, and the width to restore.
\* History: lost, an event was dropped; told, the size last asked for; odd, sv
\* had two meanings or the client was not told.
NoWin == [client |-> None, pipe |-> FALSE, icon |-> None, sid |-> None, min |-> FALSE,
          max |-> FALSE, flex |-> FALSE, raw |-> FALSE, dlg |-> FALSE, w |-> 0, sv |-> 0,
          ev |-> <<>>, asked |-> FALSE, told |-> 0, lost |-> FALSE, odd |-> FALSE]

in_use(d, i) == i # None /\ d.win[i].client # None

client_w(w) == w.w - 1

win_push(w, e) ==
    IF e[1] = "mouse" /\ w.ev # <<>> /\ w.ev[Len(w.ev)] = e THEN w
    ELSE IF Len(w.ev) = EVQ - 1
         THEN [w EXCEPT !.ev = Append(Tail(@), e), !.lost = TRUE]
         ELSE [w EXCEPT !.ev = Append(@, e)]

Push(d, i, e) == IF in_use(d, i) THEN [d EXCEPT !.win[i] = win_push(@, e)] ELSE d

z_remove(d, i) == [d EXCEPT !.z = SelectSeq(@, LAMBDA j : j # i)]

z_raise(d, i) == LET e == z_remove(d, i) IN [e EXCEPT !.z = Append(@, i)]

z_topmost(d) ==
    LET seen == {j \in DOMAIN d.z : in_use(d, d.z[j]) /\ ~d.win[d.z[j]].min}
    IN IF seen = {} THEN None ELSE d.z[CHOOSE j \in seen : \A k \in seen : k <= j]

set_focus(d, i) ==
    IF d.focus = i THEN d
    ELSE Push([Push(d, d.focus, <<"focus", FALSE>>) EXCEPT !.focus = i],
              i, <<"focus", TRUE>>)

refocus(d) == set_focus(d, z_topmost(d))


win_free(d, i) ==
    LET e == z_remove([surface_destroy(d, d.win[i].sid, Server) EXCEPT !.win[i] = NoWin], i)
    IN IF ~in_use(d, i) THEN d
       ELSE IF d.focus = i THEN refocus([e EXCEPT !.focus = None]) ELSE e

win_alloc(d) ==
    LET free == {i \in Wins : ~in_use(d, i)}
    IN IF free = {} THEN None ELSE CHOOSE i \in free : \A j \in free : i <= j

Raised(d, i) == set_focus(z_raise([d EXCEPT !.win[i].min = FALSE], i), i)

Asked(d, i, n) == Push([d EXCEPT !.win[i].told = n], i, <<"resize", n>>)

\* The client is asked for a size unless its surface has it.  A size asked
\* for before and not yet applied is not taken back.
maybe_send_resize(d, i) ==
    IF ~in_use(d, i) \/ (in_use(d, i) /\ ~d.win[i].flex) THEN d
    ELSE IF client_w(d.win[i]) # d.win[i].sv THEN Asked(d, i, client_w(d.win[i]))
    ELSE [d EXCEPT !.win[i].odd = @ \/ d.win[i].told # d.win[i].sv]

win_toggle_max(d, i) ==
    LET w == d.win[i]
        v == IF w.max THEN [w EXCEPT !.w = w.sv, !.max = FALSE, !.odd = TRUE]
             ELSE [w EXCEPT !.sv = w.w, !.w = d.fbw, !.max = TRUE, !.odd = TRUE]
    IN maybe_send_resize([d EXCEPT !.win[i] = v], i)

\* A launched client's slot is reserved before the client says HELLO.
Reserved(d, i, p, icon, pipe, w) ==
    [d EXCEPT !.win[i] = [NoWin EXCEPT !.client = p, !.pipe = pipe, !.icon = icon, !.w = w]]

-----------------------------------------------------------------------------
(* Clients *)

NoConn == [win |-> None, sid |-> None, w |-> 0, foc |-> FALSE, closed |-> FALSE, want |-> 0]
NoReq == <<"none", "main", 0>>
NoClient == [st |-> "none", mine |-> FALSE, flex |-> FALSE, raw |-> FALSE,
             conn |-> [k \in {"main", "dlg"} |-> NoConn], wp |-> None, req |-> NoReq]

Forked(c, p, mine) == [c EXCEPT ![p] = [NoClient EXCEPT !.st = "start", !.mine = mine]]

NextPid == CHOOSE p \in Pids : cl[p].st = "none" /\ \A q \in Pids : cl[q].st = "none" => p <= q
CanFork == \E p \in Pids : cl[p].st = "none"

\* wait4 with WNOHANG, by the server
Reapable(p) == cl[p].mine /\ cl[p].st = "zombie"

launch_cmd(d, icon) ==
    LET i == win_alloc(d)
    IN IF i = None THEN d
       ELSE set_focus(z_raise(Reserved(d, i, NextPid, icon, TRUE, Native + 1), i), i)

-----------------------------------------------------------------------------
(* Requests of a client and what it makes of the reply *)

Calls(p, r) == cl' = [cl EXCEPT ![p].st = "wait", ![p].req = r]

Conn(p) == IF cl[p].conn.dlg.win # None THEN "dlg" ELSE "main"

mx_connect(p) ==
    /\ cl[p].st = "start"
    /\ \E f \in {<<FALSE, FALSE>>} \cup (IF "flow" \in Does THEN {<<TRUE, FALSE>>} ELSE {})
                 \cup (IF "exec" \in Does THEN {<<FALSE, TRUE>>} ELSE {}) :
          cl' = [cl EXCEPT ![p].st = "wait", ![p].req = <<"HELLO", "main", Native>>,
                           ![p].flex = f[1], ![p].raw = f[2]]
    /\ UNCHANGED <<ses, flaws>>

Running(p) == cl[p].st = "idle" /\ ~cl[p].conn[Conn(p)].closed

mx_pump(p) ==
    /\ Running(p) \/ cl[p].st = "pump"
    /\ Calls(p, <<"POLL", Conn(p), 0>>)
    /\ UNCHANGED <<ses, flaws>>

mx_present(p) ==
    /\ Running(p)
    /\ Calls(p, <<"PRESENT", Conn(p), 0>>)
    /\ UNCHANGED <<ses, flaws>>

mx_open_window(p) ==
    /\ "dialog" \in Does
    /\ Running(p) /\ Conn(p) = "main"
    /\ Calls(p, <<"HELLO", "dlg", Native>>)
    /\ UNCHANGED <<ses, flaws>>

\* The path travels in a surface; without one nothing is sent.
mx_open(p) ==
    /\ "open" \in Does
    /\ Running(p) /\ Conn(p) = "main" /\ NewSid(ses) # None /\ CanFork
    /\ ses' = surface_map(surface_create(ses, NewSid(ses), p), NewSid(ses), p)
    /\ Calls(p, <<"OPEN", "main", NewSid(ses)>>)
    /\ UNCHANGED flaws

set_wallpaper(p) ==
    /\ "wallpaper" \in Does
    /\ Running(p) /\ Conn(p) = "main" /\ NewSid(ses) # None
    /\ ses' = surface_destroy(surface_create(ses, NewSid(ses), p), cl[p].wp, p)
    /\ cl' = [cl EXCEPT ![p].st = "wait", ![p].wp = NewSid(ses),
                        ![p].req = <<"WALLPAPER", "main", NewSid(ses)>>]
    /\ UNCHANGED flaws

\* A launcher becomes the program it launches: same pid, a second HELLO.
Becomes(p) ==
    /\ "exec" \in Does
    /\ Running(p) /\ Conn(p) = "main" /\ ~cl[p].raw
    /\ cl' = [cl EXCEPT ![p] = [NoClient EXCEPT !.st = "start", !.mine = cl[p].mine]]
    /\ UNCHANGED <<ses, flaws>>

\* The loop ends by itself or because the window was closed.
mx_close(p) ==
    /\ cl[p].st = "idle"
    /\ Calls(p, <<"BYE", Conn(p), 0>>)
    /\ UNCHANGED <<ses, flaws>>

\* A task ends: at the end of main, or by a signal unless it waits in IPC.
Ends(p) ==
    /\ cl[p].st \in {"start", "idle", "pump", "done"}
    /\ cl' = [cl EXCEPT ![p] = [NoClient EXCEPT !.st = "zombie", !.mine = cl[p].mine]]
    /\ ses' = surface_release_task(ses, p)
    /\ UNCHANGED flaws

\* The shell that started it collects a client the server did not fork.
Collected(p) ==
    /\ cl[p].st = "zombie" /\ (~cl[p].mine \/ ses.phase = "over")
    /\ cl' = [cl EXCEPT ![p].st = "gone"]
    /\ UNCHANGED <<ses, flaws>>

\* A client started from a terminal finds the server by sys_makx_server.
Outsider ==
    /\ "outsider" \in Does /\ CanFork /\ ses.phase = "run"
    /\ cl' = Forked(cl, NextPid, FALSE)
    /\ UNCHANGED <<ses, flaws>>

\* mx_apply
Applied(k, e) ==
    CASE e[1] = "focus" -> [k EXCEPT !.foc = e[2]]
      [] e[1] = "close" -> [k EXCEPT !.closed = TRUE]
      [] e[1] = "resize" -> [k EXCEPT !.want = e[2]]
      [] OTHER -> k

\* What the client does after a reply to POLL with n events still pending.
\* A size asked for is applied once the queue is drained.
Pumped(c, k, e, n) ==
    LET a == Applied(c.conn[k], e)
        flow == k = "main" /\ c.flex /\ a.want \notin {0, a.w}
    IN IF e[1] # "none" /\ n > 0 THEN [c EXCEPT !.st = "pump", !.conn[k] = a, !.req = NoReq]
       ELSE IF flow THEN [c EXCEPT !.st = "wait", !.conn[k] = [a EXCEPT !.want = 0],
                                   !.req = <<"RESIZE", k, a.want>>]
       ELSE [c EXCEPT !.st = "idle", !.req = NoReq,
                      !.conn[k] = IF k = "main" /\ c.flex THEN [a EXCEPT !.want = 0] ELSE a]

\* The reply to PRESENT
Acked(c, k, e) == [c EXCEPT !.st = "idle", !.req = NoReq, !.conn[k] = Applied(@, e)]

\* The reply to a HELLO: a window and a surface, or no window.
Connected(c, k, i, s, n) ==
    IF i # None THEN [c EXCEPT !.st = "idle", !.req = NoReq,
                               !.conn[k] = [NoConn EXCEPT !.win = i, !.sid = s, !.w = n]]
    ELSE [c EXCEPT !.st = IF k = "main" THEN "done" ELSE "idle", !.req = NoReq]

\* The reply to a RESIZE: the new surface, or 0.
Resized(c, k, s, n) ==
    IF s = None THEN [c EXCEPT !.st = "idle", !.req = NoReq]
    ELSE [c EXCEPT !.st = "idle", !.req = NoReq, !.conn[k].sid = s, !.conn[k].w = n]

\* The reply to a BYE: the dialog is over, or the program ends.
Closed(c, k) ==
    IF k = "dlg" THEN [c EXCEPT !.st = "idle", !.req = NoReq, !.conn.dlg = NoConn]
    ELSE [c EXCEPT !.st = "done", !.req = NoReq]

-----------------------------------------------------------------------------
(* serve_requests: one request and its reply *)

win_valid(d, i, p) == i # None /\ d.win[i].client = p

\* A fixed frame is enlarged by the largest factor that fits the screen.
Fitted(d, n, raw) ==
    IF ~raw THEN n + 1
    ELSE 1 + n * (CHOOSE k \in 1 .. d.fbw :
                    (k = 1 \/ n * k <= d.fbw - 1) /\ n * (k + 1) > d.fbw - 1)

\* The window a HELLO is about: the client's own, or a new one.
HelloWin(d, p, k) ==
    LET own == {i \in Wins : d.win[i].client = p /\ ~d.win[i].dlg}
    IN IF k = "main" /\ own # {} THEN CHOOSE i \in own : \A j \in own : i <= j
       ELSE win_alloc(d)

\* The table when the HELLO has its window and the old surface is dropped.
HelloFit(d, p, k, n) ==
    LET i == HelloWin(d, p, k)
        w == Fitted(d, n, k = "main" /\ cl[p].raw)
        old == d.win[i].sid
    IN IF ~in_use(d, i)
       THEN [Reserved(d, i, p, None, FALSE, w) EXCEPT !.win[i].dlg = (k = "dlg")]
       ELSE IF old = None THEN d
       ELSE [surface_destroy(surface_unmap(d, old, Server), old, Server) EXCEPT
                !.win[i].sid = None, !.win[i].w = w]

hello(p, k, n) ==
    LET i == HelloWin(ses, p, k)
        d == HelloFit(ses, p, k, n)
        s == NewSid(d)
        m == surface_map(surface_map(surface_create(d, s, Server), s, Server), s, p)
        e == [m EXCEPT !.win[i].sid = s, !.win[i].sv = n, !.win[i].told = n,
                       !.win[i].flex = (k = "main" /\ cl[p].flex),
                       !.win[i].raw = (k = "main" /\ cl[p].raw),
                       !.win[i].odd = @ \/ (ses.focus = i /\ ses.win[i].sid # None)]
    IN IF i = None
       THEN /\ cl' = [cl EXCEPT ![p] = Connected(@, k, None, None, n)]
            /\ UNCHANGED <<ses, flaws>>
       ELSE IF s = None
       THEN /\ ses' = d
            /\ cl' = [cl EXCEPT ![p] = Connected(@, k, None, None, n)]
            /\ UNCHANGED flaws
       ELSE /\ ses' = maybe_send_resize(set_focus(z_raise(e, i), i), i)
            /\ cl' = [cl EXCEPT ![p] = Connected(@, k, i, s, n)]
            /\ flaws' = IF ses.win[i].min THEN flaws \cup {"a minimised window took the focus"}
                        ELSE flaws

\* PRESENT and POLL take the oldest event along.
answer(p, k) ==
    LET i == cl[p].conn[k].win
        q == IF win_valid(ses, i, p) THEN ses.win[i].ev ELSE <<<<"close">>>>
        e == IF q = <<>> THEN <<"none">> ELSE q[1]
    IN /\ ses' = IF win_valid(ses, i, p) /\ q # <<>>
                 THEN [ses EXCEPT !.win[i].ev = Tail(@)] ELSE ses
       /\ cl' = [cl EXCEPT ![p] = IF cl[p].req[1] = "POLL" THEN Pumped(@, k, e, Len(q) - 1)
                                  ELSE Acked(@, k, e)]

resize(p, k, n) ==
    LET i == cl[p].conn[k].win
        s == NewSid(ses)
        old == ses.win[i].sid
        d == surface_destroy(surface_unmap(surface_map(surface_create(ses, s, Server),
                                                       s, Server), old, Server), old, Server)
    IN IF ~win_valid(ses, i, p) \/ s = None
       THEN /\ cl' = [cl EXCEPT ![p] = Resized(@, k, None, n)]
            /\ ses' = IF win_valid(ses, i, p) THEN [ses EXCEPT !.win[i].odd = TRUE] ELSE ses
       ELSE /\ ses' = surface_unmap(surface_map([d EXCEPT !.win[i].sid = s, !.win[i].sv = n],
                                                s, p), cl[p].conn[k].sid, p)
            /\ cl' = [cl EXCEPT ![p] = Resized(@, k, s, n)]

\* The surface of the last wallpaper is let go, whoever made it.
wallpaper(p, s) ==
    /\ ses' = IF ses.surf[s] = FreeSurface THEN ses
              ELSE [surface_unmap(surface_map(ses, s, Server),
                                  IF ses.wp = s THEN None ELSE ses.wp, Server) EXCEPT !.wp = s]
    /\ cl' = [cl EXCEPT ![p].st = "idle", ![p].req = NoReq]

\* wm_open_path launches the program for the file; the client then lets the
\* surface go.
open(p, s) ==
    LET d == IF CanFork THEN launch_cmd(ses, None) ELSE ses
    IN /\ ses' = surface_destroy(surface_unmap(d, s, p), s, p)
       /\ cl' = [(IF CanFork /\ win_alloc(ses) # None THEN Forked(cl, NextPid, TRUE) ELSE cl)
                    EXCEPT ![p].st = "idle", ![p].req = NoReq]

bye(p, k) ==
    LET i == cl[p].conn[k].win
    IN /\ ses' = IF win_valid(ses, i, p) /\ ses.win[i].dlg THEN win_free(ses, i) ELSE ses
       /\ cl' = [cl EXCEPT ![p] = Closed(@, k)]

serve_requests(p) ==
    LET t == cl[p].req[1]
        k == cl[p].req[2]
        n == cl[p].req[3]
    IN /\ ses.phase = "run" /\ ses.at = 1 /\ cl[p].st = "wait"
       /\ \/ t = "HELLO" /\ hello(p, k, n)
          \/ t \in {"POLL", "PRESENT"} /\ answer(p, k) /\ UNCHANGED flaws
          \/ t = "RESIZE" /\ resize(p, k, n) /\ UNCHANGED flaws
          \/ t = "WALLPAPER" /\ wallpaper(p, n) /\ UNCHANGED flaws
          \/ t = "OPEN" /\ open(p, n) /\ UNCHANGED flaws
          \/ t = "BYE" /\ bye(p, k) /\ UNCHANGED flaws

-----------------------------------------------------------------------------
(* A frame: the input of the user, requests, then ended clients *)

\* A frame with input; releases and motion are not counted.
Frame(d) == [d EXCEPT !.at = 1, !.left = @ - 1]

\* Input that no window handles goes to the focused window.
Forwarded(d, b) == Push(d, d.focus, <<"mouse", b>>)

Idle == ses.phase = "run" /\ ses.at = 0
InputOpen == Idle /\ ses.left > 0

NoInput ==
    /\ Idle
    /\ ses' = [ses EXCEPT !.at = 1]
    /\ UNCHANGED <<cl, flaws>>

Key ==
    /\ InputOpen /\ "keys" \in Does
    /\ ses' = Frame(Push(ses, ses.focus, <<"key">>))
    /\ UNCHANGED <<cl, flaws>>

\* A press on a part of a visible window
Press(i, where) ==
    LET d == set_focus(z_raise(ses, i), i)
        e == CASE where = "close" -> [Push(d, i, <<"close">>) EXCEPT !.win[i].asked = TRUE]
               [] where = "min" -> refocus([d EXCEPT !.win[i].min = TRUE, !.focus = None])
               [] where = "max" -> win_toggle_max(d, i)
               [] where = "corner" -> [d EXCEPT !.drag = i, !.win[i].max = FALSE]
               [] OTHER -> d
    IN /\ InputOpen /\ ~ses.down /\ in_use(ses, i) /\ ~ses.win[i].min
       /\ where \in Does \cup {"close", "min", "client"}
       /\ ses' = Frame([Forwarded(e, 1) EXCEPT !.down = TRUE])
       /\ UNCHANGED <<cl, flaws>>

\* A press on a window's dock button
PressDock(i) ==
    /\ InputOpen /\ ~ses.down /\ in_use(ses, i)
    /\ ses' = Frame([Forwarded(Raised(ses, i), 1) EXCEPT !.down = TRUE])
    /\ UNCHANGED <<cl, flaws>>

DragTo(w) ==
    /\ Idle /\ ses.down /\ ses.drag # None /\ in_use(ses, ses.drag)
    /\ ses' = [ses EXCEPT !.win[ses.drag].w = w, !.at = 1]
    /\ UNCHANGED <<cl, flaws>>

Release ==
    /\ Idle /\ ses.down
    /\ ses' = [Forwarded(maybe_send_resize(ses, ses.drag), 0) EXCEPT
                    !.at = 1, !.down = FALSE, !.drag = None]
    /\ UNCHANGED <<cl, flaws>>

\* A click on a desktop icon: press and release
launch_icon(ii) ==
    LET own == {i \in Wins : in_use(ses, i) /\ ses.win[i].icon = ii}
    IN /\ InputOpen /\ ~ses.down
       /\ \/ /\ own # {}
             /\ ses' = Frame(Forwarded(Raised(ses, CHOOSE i \in own : \A j \in own : i <= j), 0))
             /\ UNCHANGED cl
          \/ /\ own = {} /\ CanFork
             /\ ses' = Frame(Forwarded(launch_cmd(ses, ii), 0))
             /\ cl' = IF win_alloc(ses) = None THEN cl ELSE Forked(cl, NextPid, TRUE)
       /\ UNCHANGED flaws

\* SYS_SETMODE by some program, seen at the start of a frame.  Only maximised
\* windows are told; the others are cut to the screen.
wm_reinit_display(w) ==
    LET Refit(d, i) ==
            IF ~in_use(d, i) THEN d
            ELSE IF d.win[i].max
                 THEN maybe_send_resize([d EXCEPT !.win[i].w = w], i)
                 ELSE [d EXCEPT !.win[i].w = IF @ > w THEN w ELSE @,
                                !.win[i].odd = @ \/ d.win[i].w > w]
        f[i \in 0 .. MAXWIN] == IF i = 0 THEN [ses EXCEPT !.fbw = w, !.left = @ - 1] ELSE Refit(f[i - 1], i)
    IN /\ InputOpen /\ w \in Widths \ {ses.fbw}
       /\ ses' = f[MAXWIN]
       /\ UNCHANGED <<cl, flaws>>

\* The power menu: log off, which asks every client to close
LogOff ==
    /\ Idle /\ "logoff" \in Does
    /\ ses' = [ses EXCEPT !.phase = "closing", !.at = 0, !.down = FALSE, !.drag = None,
                          !.win = [i \in Wins |-> IF @[i].client = None THEN @[i]
                                                  ELSE win_push(@[i], <<"close">>)]]
    /\ UNCHANGED <<cl, flaws>>

\* Requests of this frame are over, by budget or because there are none.
Served ==
    /\ ses.phase = "run" /\ ses.at = 1
    /\ ses' = [ses EXCEPT !.at = 2]
    /\ UNCHANGED <<cl, flaws>>

\* reap_clients: one window.  A child is collected by wait4; a client without
\* a pipe, which need not be a child, is probed with kill(pid, 0).
reap_clients ==
    LET i == ses.at - 1
        p == ses.win[i].client
        dead == in_use(ses, i) /\ ~ses.win[i].pipe /\ cl[p].st = "gone"
        child == in_use(ses, i) /\ Reapable(p)
    IN /\ ses.phase = "run" /\ ses.at > 1
       /\ ses' = [(IF child \/ dead THEN win_free(ses, i) ELSE ses) EXCEPT
                    !.at = (@ + 1) % (MAXWIN + 2)]
       /\ cl' = IF child THEN [cl EXCEPT ![p].st = "gone"] ELSE cl
       /\ UNCHANGED flaws

-----------------------------------------------------------------------------
(* The end of the session *)

\* Every request is now answered with CLOSE and zeroes: to a HELLO and to a
\* RESIZE that reads as window 0 and surface 0.
AnswerClose(p) ==
    LET t == cl[p].req[1]
        k == cl[p].req[2]
        n == cl[p].req[3]
        got == ses.surf[1] # FreeSurface
    IN /\ ses.phase = "closing" /\ cl[p].st = "wait"
       /\ cl' = [cl EXCEPT ![p] =
            CASE t = "HELLO" -> Connected(@, k, IF got THEN 1 ELSE None, 1, n)
              [] t = "RESIZE" -> IF got THEN Resized(@, k, 1, n)
                                 ELSE [@ EXCEPT !.st = "idle", !.req = NoReq,
                                                !.conn[k].closed = TRUE]
              [] t = "BYE" -> Closed(@, k)
              [] t = "POLL" -> Pumped(@, k, <<"close">>, 0)
              [] t = "PRESENT" -> Acked(@, k, <<"close">>)
              [] OTHER -> [@ EXCEPT !.st = "idle", !.req = NoReq]]
       /\ ses' = CASE t = "HELLO" -> surface_map(ses, 1, p)
                   [] t = "RESIZE" /\ got ->
                        surface_unmap(surface_map(ses, 1, p), cl[p].conn[k].sid, p)
                   [] t = "OPEN" -> surface_destroy(surface_unmap(ses, n, p), n, p)
                   [] OTHER -> ses
       /\ flaws' = IF t \in {"HELLO", "RESIZE"}
                   THEN flaws \cup {"a closing server answered with surface 0"} ELSE flaws

ReapClosing(i) ==
    /\ ses.phase = "closing" /\ in_use(ses, i) /\ Reapable(ses.win[i].client)
    /\ cl' = [cl EXCEPT ![ses.win[i].client].st = "gone"]
    /\ ses' = win_free(ses, i)
    /\ UNCHANGED flaws

\* No window is left, or the spins have run out: SIGKILL, which a client that
\* waits in IPC does not take.  The server's exit releases its surfaces, and
\* init adopts its children.
ServerEnds ==
    LET told == {p \in Pids : \E i \in Wins : ses.win[i].client = p}
        hit == {p \in told : cl[p].st \in {"start", "idle", "pump", "done"}}
        f[n \in 0 .. MaxPid] ==
            IF n = 0 THEN surface_release_task(ses, Server)
            ELSE IF n \in hit THEN surface_release_task(f[n - 1], n) ELSE f[n - 1]
    IN /\ ses.phase = "closing"
       /\ ses' = [f[MaxPid] EXCEPT !.phase = "over", !.win = [i \in Wins |-> NoWin],
                                   !.z = <<>>, !.focus = None, !.wp = None]
       /\ cl' = [p \in Pids |-> IF p \in hit THEN [NoClient EXCEPT !.st = "zombie"] ELSE cl[p]]
       /\ UNCHANGED flaws

\* A request to a server that has ended fails.
Refused(p) ==
    LET k == cl[p].req[2]
        t == cl[p].req[1]
    IN /\ ses.phase = "over" /\ cl[p].st = "wait"
       /\ cl' = [cl EXCEPT ![p] = IF t \in {"HELLO", "BYE"} THEN Closed(@, k)
                                  ELSE [@ EXCEPT !.st = "idle", !.req = NoReq,
                                                 !.conn[k].closed = TRUE]]
       /\ ses' = IF t = "OPEN" THEN surface_destroy(surface_unmap(ses, cl[p].req[3], p), cl[p].req[3], p)
                 ELSE ses
       /\ UNCHANGED flaws

-----------------------------------------------------------------------------
Init ==
    /\ ses = [win |-> [i \in Wins |-> NoWin], z |-> <<>>, focus |-> None, drag |-> None,
              down |-> FALSE, fbw |-> CHOOSE w \in Widths : \A v \in Widths : v <= w,
              wp |-> None, at |-> 0, left |-> MaxInputs, phase |-> "run",
              surf |-> [s \in Sids |-> FreeSurface]]
    /\ cl = [p \in Pids |-> NoClient]
    /\ flaws = {}

Goes == flaws = {} /\ \A i \in Wins : ~ses.win[i].lost

Client(p) ==
    \/ mx_connect(p) \/ mx_pump(p) \/ mx_present(p) \/ mx_open_window(p) \/ mx_open(p)
    \/ set_wallpaper(p) \/ Becomes(p) \/ mx_close(p) \/ Ends(p) \/ Collected(p) \/ Refused(p)

Input ==
    \/ NoInput \/ Key \/ Release \/ LogOff
    \/ \E i \in Wins : PressDock(i) \/ \E w \in {"client", "close", "min", "max", "corner"} : Press(i, w)
    \/ \E w \in Native + 1 .. ses.fbw : DragTo(w)
    \/ \E ii \in {1} : launch_icon(ii)
    \/ \E w \in Widths : wm_reinit_display(w)

Next ==
    /\ Goes
    /\ \/ \E p \in Pids : Client(p) \/ serve_requests(p) \/ AnswerClose(p)
       \/ Input \/ Outsider \/ Served \/ reap_clients \/ ServerEnds
       \/ \E i \in Wins : ReapClosing(i)

Spec == Init /\ [][Next]_vars

-----------------------------------------------------------------------------
(* Properties *)

\* The stacking order lists the windows that have one, each once; focus and
\* drag are window numbers; no queue is fuller than EVQ allows.
TypeOK ==
    /\ \A i \in Wins :
          /\ ses.win[i].client \in Pids \cup {None}
          /\ ses.win[i].sid \in Sids \cup {None}
          /\ Len(ses.win[i].ev) < EVQ
    /\ \A j, k \in DOMAIN ses.z : in_use(ses, ses.z[j]) /\ (ses.z[j] = ses.z[k] => j = k)
    /\ ses.focus \in Wins \cup {None}
    /\ ses.drag \in Wins \cup {None}
    /\ ses.wp \in Sids \cup {None}
    /\ \A p \in Pids : cl[p].st \in
          {"none", "start", "idle", "pump", "wait", "done", "zombie", "gone"}

\* While the session runs the focus is on the topmost window that is not
\* minimised, whatever closed, opened or was minimised before: keys never go
\* to a window behind another one (z_topmost, refocus, win_free).
FocusOnTop == (ses.phase = "run" /\ flaws = {}) => ses.focus = z_topmost(ses)

Told(p, k) ==
    /\ ses.phase = "run" /\ Goes
    /\ cl[p].conn[k].win # None /\ cl[p].st \in {"idle", "pump", "wait"}
    /\ cl[p].req[1] # "BYE"

\* The last value that the client will have once it has read its queue
Latest(q, name, now) ==
    LET at == {j \in DOMAIN q : q[j][1] = name}
    IN IF at = {} THEN now ELSE q[CHOOSE j \in at : \A l \in at : l <= j][2]

\* A client that reads its queue to the end knows whether it has the focus,
\* and a press on its close button reaches it, however the events and its
\* polls interleave; a queue that overflowed and a minimised window are
\* exempt (win_push, win_pop, set_focus, mx_apply).
ClientCatchesUp ==
    \A p \in Pids, k \in {"main", "dlg"} :
        LET c == cl[p].conn[k]
            w == ses.win[c.win]
        IN (Told(p, k) /\ ~w.odd) =>
            /\ ~w.min => (Latest(w.ev, "focus", c.foc) <=> ses.focus = c.win)
            /\ w.asked => (c.closed \/ \E j \in DOMAIN w.ev : w.ev[j][1] = "close")

\* A client that re-flows ends up with a surface as large as its window's
\* client rectangle: a size that differs is on its way, in the queue, taken
\* or asked for (maybe_send_resize, mx_pump, mx_apply_resize).
ReflowSettles ==
    \A p \in Pids :
        LET c == cl[p].conn.main
            w == ses.win[c.win]
            asked == IF cl[p].req[1] = "RESIZE" THEN cl[p].req[3]
                     ELSE IF c.want # 0 THEN c.want ELSE c.w
        IN (Told(p, "main") /\ ~w.odd /\ cl[p].flex /\ ses.drag # c.win) =>
            Latest(w.ev, "resize", asked) = client_w(w)

\* A connected client draws on the surface that its window shows; that
\* surface is held and mapped by the server, mapped by the client, and no
\* other window's and not the wallpaper's (hello, resize, win_free,
\* mx_connect, mx_apply_resize).
DrawsOnOwn ==
    \A p \in Pids, k \in {"main", "dlg"} :
        LET c == cl[p].conn[k]
            w == ses.win[c.win]
        IN Told(p, k) =>
            /\ c.sid = w.sid /\ w.client = p
            /\ ses.surf[c.sid].by = Server /\ {Server, p} \subseteq ses.surf[c.sid].maps
            /\ \A j \in Wins \ {c.win} : ses.win[j].sid # c.sid
            /\ ses.wp # c.sid

\* The wallpaper shown is a surface that the server still has mapped, also
\* when the program that made it has ended or set another (wp_clear).
WallpaperHeld == ses.wp # None => Server \in ses.surf[ses.wp].maps

\* Once the server and all its clients have ended no surface is left, however
\* the session ended (surface_release_task, the teardown in main).
NothingLeft ==
    (ses.phase = "over" /\ \A p \in Pids : cl[p].st \in {"none", "zombie", "gone"}) =>
        \A s \in Sids : ses.surf[s] = FreeSurface
=============================================================================
