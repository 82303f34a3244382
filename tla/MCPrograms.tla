----------------------------- MODULE MCPrograms -----------------------------
(***************************************************************************)
(* The programs that the user sees, side by side: the window server with   *)
(* its clients, the interpreters of the two shells, their line editors,    *)
(* and the processes that the user shell makes.  Each behaviour moves one  *)
(* part, chosen at the start.                                              *)
(***************************************************************************)
EXTENDS Integers, Sequences, TLC

VARIABLES
    part, flaws,
    ses, cl,
    script, inline, n, ran,
    ed, hist, scr,
    proc, sh, seen, real, spent

wmVars == <<ses, cl>>
scriptVars == <<script, inline, n, ran>>
editVars == <<ed, hist, scr>>
shVars == <<proc, sh, seen, real, spent>>
allVars == <<part, flaws, wmVars, scriptVars, editVars, shVars>>

-----------------------------------------------------------------------------
(* Windows of clients started from a shell; a client that re-flows; a      *)
(* program that sets the wallpaper, and the end of the session; a client   *)
(* that becomes another program, and new resolutions; a client with a      *)
(* dialog.                                                                 *)
WOwn == INSTANCE Wm WITH
    MAXWIN <- 2, Native <- 2, EVQ <- 3, SURFACE_MAX <- 2, Widths <- {4},
    Does <- {"outsider"}, MaxPid <- 2, MaxInputs <- 1
WFlow == INSTANCE Wm WITH
    MAXWIN <- 2, Native <- 2, EVQ <- 6, SURFACE_MAX <- 3, Widths <- {5},
    Does <- {"flow", "corner"}, MaxPid <- 1, MaxInputs <- 3
WPaper == INSTANCE Wm WITH
    MAXWIN <- 2, Native <- 2, EVQ <- 4, SURFACE_MAX <- 3, Widths <- {4},
    Does <- {"wallpaper", "open", "logoff"}, MaxPid <- 2, MaxInputs <- 1
WExec == INSTANCE Wm WITH
    MAXWIN <- 2, Native <- 2, EVQ <- 4, SURFACE_MAX <- 3, Widths <- {4, 5},
    Does <- {"exec", "flow", "max", "keys"}, MaxPid <- 1, MaxInputs <- 2
WDlg == INSTANCE Wm WITH
    MAXWIN <- 2, Native <- 2, EVQ <- 4, SURFACE_MAX <- 3, Widths <- {4},
    Does <- {"dialog"}, MaxPid <- 1, MaxInputs <- 3

(* Scripts, as the user shell and as the kernel's shell run them. *)
SSh == INSTANCE ShScript WITH LOOP_MAX <- 4
SK == INSTANCE KScript WITH GUARD <- 4, GLUE <- 5

(* The line editors: with a history and without completion, and the other  *)
(* way round.                                                              *)
Name(s, isdir) == [name |-> s, dir |-> isdir]
Cmds == <<Name(<<"a", "b">>, FALSE), Name(<<"a", "a", "b">>, FALSE), Name(<<"b">>, FALSE)>>
Names == <<Name(<<"a", "a">>, TRUE), Name(<<"a", "a", "b">>, FALSE),
           Name(<<"b", "a", "a">>, FALSE), Name(<<"b", "a", "b">>, TRUE)>>
EUser == INSTANCE ShReadline WITH
    Typed <- {"a", "b"}, LINE_MAX <- 3, HIST_MAX <- 2, TAB_MAX <- 2, Commands <- <<>>,
    Files <- <<>>, Keys <- {"type", "erase", "move", "history", "enter", "focus"}
ETab == INSTANCE ShReadline WITH
    Typed <- {"a", "b", " ", "/"}, LINE_MAX <- 6, HIST_MAX <- 1, TAB_MAX <- 3,
    Commands <- Cmds, Files <- Names, Keys <- {"type", "erase", "tab", "move"}
EKernel == INSTANCE KReadline WITH
    Typed <- {"a", "b"}, SHELL_MAX_INPUT <- 3, SHELL_HISTORY_SIZE <- 2, TAB_MATCHES <- 2,
    Commands <- <<>>, Files <- <<>>, Keys <- {"type", "erase", "move", "history", "enter"}
EKTab == INSTANCE KReadline WITH
    Typed <- {"a", "b", " ", "/"}, SHELL_MAX_INPUT <- 6, SHELL_HISTORY_SIZE <- 1,
    TAB_MATCHES <- 3, Commands <- Cmds, Files <- Names, Keys <- {"type", "erase", "tab", "move"}

(* Lines the user types: lists and pipelines, also with a fork or a pipe   *)
(* that fails, Ctrl-C and a program that never ends; background jobs.      *)
Seg(do, sep) == [do |-> do, sep |-> sep]
Lists ==
    {<<Seg(<<"loop">>, "none")>>,
     <<Seg(<<"ext", "cat", "cat">>, "none")>>,
     <<Seg(<<"ext", "cat">>, "and"), Seg(<<"ext">>, "or"), Seg(<<"false">>, "none")>>,
     <<Seg(<<"false">>, "or"), Seg(<<"ext">>, "and"), Seg(<<"missing">>, "none")>>,
     <<Seg(<<"missing", "cat">>, "or"), Seg(<<"true">>, "none")>>,
     <<Seg(<<"ext">>, "bg"), Seg(<<"ext">>, "bg"), Seg(<<"wait1">>, "none")>>,
     <<Seg(<<"wait">>, "none")>>}
Jobs ==
    {<<Seg(<<"ext", "cat">>, "bg"), Seg(<<"ext">>, "bg")>>,
     <<Seg(<<"ext">>, "bg"), Seg(<<"ext">>, "none")>>,
     <<Seg(<<"ext">>, "bg"), Seg(<<"wait">>, "none")>>,
     <<Seg(<<"wait">>, "none")>>,
     <<Seg(<<"cat", "cat">>, "none")>>}
JList == INSTANCE ShJobs WITH
    MaxPid <- 5, Lines <- Lists, JOBS_MAX <- 1, MaxLines <- 2, MaxFaults <- 1, CtrlC <- TRUE
JBack == INSTANCE ShJobs WITH
    MaxPid <- 5, Lines <- Jobs, JOBS_MAX <- 1, MaxLines <- 2, MaxFaults <- 0, CtrlC <- FALSE

-----------------------------------------------------------------------------
\* The parts that do not move have no state.
NoWm == ses = 0 /\ cl = 0
NoScript == script = 0 /\ inline = 0 /\ n = 0 /\ ran = 0
NoEdit == ed = 0 /\ hist = 0 /\ scr = 0
NoSh == proc = 0 /\ sh = 0 /\ seen = 0 /\ real = 0 /\ spent = 0

MCInit ==
    \/ /\ \/ part = "own" /\ WOwn!Init
          \/ part = "flow" /\ WFlow!Init
          \/ part = "paper" /\ WPaper!Init
          \/ part = "becomes" /\ WExec!Init
          \/ part = "dialog" /\ WDlg!Init
       /\ NoScript /\ NoEdit /\ NoSh
    \/ /\ \/ part = "sh script" /\ SSh!ShInit
          \/ part = "kernel script" /\ SK!KInit
       /\ flaws = {} /\ NoWm /\ NoEdit /\ NoSh
    \/ /\ \/ part = "sh line" /\ EUser!EdInit
          \/ part = "sh tab" /\ ETab!EdInit
          \/ part = "kernel line" /\ EKernel!EdInit
          \/ part = "kernel tab" /\ EKTab!EdInit
       /\ NoWm /\ NoScript /\ NoSh
    \/ /\ \/ part = "lists" /\ JList!JobInit
          \/ part = "jobs" /\ JBack!JobInit
       /\ NoWm /\ NoScript /\ NoEdit

MCNext ==
    /\ UNCHANGED part
    /\ \/ /\ \/ part = "own" /\ WOwn!Next
             \/ part = "flow" /\ WFlow!Next
             \/ part = "paper" /\ WPaper!Next
             \/ part = "becomes" /\ WExec!Next
             \/ part = "dialog" /\ WDlg!Next
          /\ UNCHANGED <<scriptVars, editVars, shVars>>
       \/ /\ \/ part = "sh script" /\ SSh!ShNext
             \/ part = "kernel script" /\ SK!KNext
          /\ UNCHANGED <<flaws, wmVars, editVars, shVars>>
       \/ /\ \/ part = "sh line" /\ EUser!EdNext
             \/ part = "sh tab" /\ ETab!EdNext
             \/ part = "kernel line" /\ EKernel!EdNext
             \/ part = "kernel tab" /\ EKTab!EdNext
          /\ UNCHANGED <<wmVars, scriptVars, shVars>>
       \/ /\ \/ part = "lists" /\ JList!JobNext
             \/ part = "jobs" /\ JBack!JobNext
          /\ UNCHANGED <<wmVars, scriptVars, editVars>>

MCSpec == MCInit /\ [][MCNext]_allVars

-----------------------------------------------------------------------------
(* Properties: those of the modules, where they are explained *)

\* What holds of the desktop, of the editors and of the shells' processes.
Desktop(o, f, p, e, d) ==
    /\ part = "own" => o
    /\ part = "flow" => f
    /\ part = "paper" => p
    /\ part = "becomes" => e
    /\ part = "dialog" => d
Editors(u, t, k, c) ==
    /\ part = "sh line" => u
    /\ part = "sh tab" => t
    /\ part = "kernel line" => k
    /\ part = "kernel tab" => c
Shells(l, b) == (part = "lists" => l) /\ (part = "jobs" => b)

\* The topmost window has the focus (refocus, win_free).
FocusOnTop ==
    Desktop(WOwn!FocusOnTop, WFlow!FocusOnTop, WPaper!FocusOnTop, WExec!FocusOnTop, WDlg!FocusOnTop)
\* A client that reads its queue knows its focus and its close button (win_push, mx_apply).
ClientCatchesUp ==
    Desktop(WOwn!ClientCatchesUp, WFlow!ClientCatchesUp, WPaper!ClientCatchesUp,
            WExec!ClientCatchesUp, WDlg!ClientCatchesUp)
\* A client that re-flows gets the size of its window (maybe_send_resize, mx_apply_resize).
ReflowSettles ==
    Desktop(WOwn!ReflowSettles, WFlow!ReflowSettles, WPaper!ReflowSettles, WExec!ReflowSettles,
            WDlg!ReflowSettles)
\* A client draws on the surface its window shows (serve_requests, mx_connect).
DrawsOnOwn ==
    Desktop(WOwn!DrawsOnOwn, WFlow!DrawsOnOwn, WPaper!DrawsOnOwn, WExec!DrawsOnOwn, WDlg!DrawsOnOwn)
\* The wallpaper is a surface the server has mapped (apply_wallpaper, wp_clear).
WallpaperHeld ==
    Desktop(WOwn!WallpaperHeld, WFlow!WallpaperHeld, WPaper!WallpaperHeld, WExec!WallpaperHeld,
            WDlg!WallpaperHeld)
\* No surface outlives the session (surface_release_task).
NothingLeft ==
    Desktop(WOwn!NothingLeft, WFlow!NothingLeft, WPaper!NothingLeft, WExec!NothingLeft,
            WDlg!NothingLeft)

\* The user shell runs the commands a script says (run_block_until).
ScriptRuns == part = "sh script" => SSh!ScriptRuns
\* The kernel's shell runs the commands a file says (sh_run_file).
FileRuns == part = "kernel script" => SK!FileRuns

\* The screen shows the line that is edited (readline, readline_redraw).
ScreenShows ==
    Editors(EUser!ScreenShows, ETab!ScreenShows, EKernel!ScreenShows, EKTab!ScreenShows)
\* readline of sh.c and shell_readline are line editors.
Edits == Editors(EUser!Edits, ETab!Edits, EKernel!Edits, EKTab!Edits)
\* wait returns when the jobs have ended (jobs_wait_all).
WaitWaits == Shells(JList!WaitWaits, JBack!WaitWaits)

\* At the prompt the shell holds no pipe and knows its children (run_pipeline).
ShellClean == Shells(JList!ShellClean, JBack!ShellClean)
\* Only neighbours hold the ends of a pipe (run_pipeline, child_exec_external).
EndsPrivate == Shells(JList!EndsPrivate, JBack!EndsPrivate)
\* && and || follow how segments ended (run_line).
ListTrue == Shells(JList!ListTrue, JBack!ListTrue)
\* A line never hangs: somebody it waits for can go on (run_line, run_pipeline).
NoHang == Shells(JList!NoHang, JBack!NoHang)
\* Lists, pipelines and jobs of sh.c run to their end and leave nothing behind: the four
\* above.
JobsTrue ==
    /\ Shells(JList!JobTypeOK, JBack!JobTypeOK)
    /\ ShellClean /\ EndsPrivate /\ ListTrue /\ NoHang
=============================================================================
