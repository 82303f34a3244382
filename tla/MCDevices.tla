----------------------------- MODULE MCDevices ------------------------------
(***************************************************************************)
(* What stands between the kernel and the outside, side by side: terminals *)
(* and keyboard focus, the PS/2 keyboard and mouse, the IDE channel, the   *)
(* network cards and the socket layer over lwIP.  Each behaviour moves one *)
(* part, chosen at the start; some parts are there several times, with     *)
(* different programs, keys or calls in play.                              *)
(***************************************************************************)
EXTENDS Naturals, TLC

VARIABLES
    part,
    task, flaws, faults,
    nextpid, con,
    phys, last, kq, kb, rst, cur, caps_presses, forgot, odd,
    aq, ms, sent, whole, quiet, lost, losses,
    view, plat, chan, bounce, busy, dma, turn, made,
    driver, tx, rx, op, tried, accepted, wire, offered, arrived, up, seen,
    lock, ready, socks, pcb, dhcp, client, addr, query, calls

conVars == <<nextpid, con>>
ps2Vars == <<phys, last, kq, kb, rst, cur, caps_presses, forgot, odd,
             aq, ms, sent, whole, quiet, lost, losses>>
ideVars == <<view, plat, chan, bounce, busy, dma, turn, made>>
nicVars == <<driver, tx, rx, op, tried, accepted, wire, offered, arrived, up, seen>>
netVars == <<lock, ready, socks, pcb, dhcp, client, addr, query, calls>>
allVars == <<part, task, flaws, faults, conVars, ps2Vars, ideVars, nicVars, netVars>>

-----------------------------------------------------------------------------
(* Terminals: makmux with programs started from its shells; makmux with    *)
(* app tabs; the desktop with raw programs, the Ctrl+Alt+Del menu, logout. *)
B == INSTANCE Console WITH
        Pool <- 1..5, VTTY_SHELL_MAX <- 2, KB_TASK_SLOTS <- 3, KB_SLOT_BUF <- 1, VTTY_APP_Q <- 2,
        Does <- {"mux", "apps", "app"}, MaxPid <- 5, MaxOpens <- 1
C == INSTANCE Console WITH
        Pool <- 1..5, VTTY_SHELL_MAX <- 2, KB_TASK_SLOTS <- 2, KB_SLOT_BUF <- 1, VTTY_APP_Q <- 2,
        Does <- {"mux", "tabs"}, MaxPid <- 6, MaxOpens <- 1
G == INSTANCE Console WITH
        Pool <- 1..4, VTTY_SHELL_MAX <- 2, KB_TASK_SLOTS <- 3, KB_SLOT_BUF <- 1, VTTY_APP_Q <- 2,
        Does <- {"gui", "app", "raw", "menu", "logout", "keys"}, MaxPid <- 5, MaxOpens <- 1

(* Keyboards: shift and caps keys; the keys of the chords; keys with long  *)
(* codes on a line that loses bytes.  And the mouse.                       *)
K == INSTANCE Ps2 WITH
        Keys <- {"lshift", "rshift", "caps", "c"}, MaxHeld <- 2,
        MOUSE_RING <- 3, MaxPackets <- 0, MaxLosses <- 0
L == INSTANCE Ps2 WITH
        Keys <- {"lalt", "rctrl", "del", "f5", "c"}, MaxHeld <- 3,
        MOUSE_RING <- 3, MaxPackets <- 0, MaxLosses <- 0
E == INSTANCE Ps2 WITH
        Keys <- {"rctrl", "pause", "prtsc"}, MaxHeld <- 1,
        MOUSE_RING <- 3, MaxPackets <- 0, MaxLosses <- 1
M == INSTANCE Ps2 WITH
        Keys <- {}, MaxHeld <- 0, MOUSE_RING <- 3, MaxPackets <- 4, MaxLosses <- 1

I == INSTANCE Ide WITH
        Tasks <- {"p", "q"}, Sectors <- 2, Counts <- {2}, DMA_ATA_CHUNK_SECS <- 1,
        DMA_MAX_FAILS <- 2, MaxRequests <- 3, MaxFaults <- 2

N == INSTANCE Nic WITH
        Drivers <- {"virtio", "e1000", "pcnet", "rtl8139"}, TX_COUNT <- 3, RX_COUNT <- 3,
        RTL_RX_RING <- 12, Lengths <- {2, 3}, MaxFrames <- 5

(* Sockets of two tasks; one task that also sends; configuration and DNS. *)
S == INSTANCE NetLwip WITH
        Users <- {"p", "q"}, KSOCK_MAX <- 2, Does <- {"sockets"}, SND_BUF <- 1, MaxPcbs <- 2,
        MaxBytes <- 2, MaxCalls <- 0, MaxFaults <- 1, Follows <- {}
T == INSTANCE NetLwip WITH
        Users <- {"p"}, KSOCK_MAX <- 2, Does <- {"sockets", "send"}, SND_BUF <- 1, MaxPcbs <- 2,
        MaxBytes <- 2, MaxCalls <- 0, MaxFaults <- 1, Follows <- {}
D == INSTANCE NetLwip WITH
        Users <- {"p", "q"}, KSOCK_MAX <- 2, Does <- {"boot", "config", "dns"}, SND_BUF <- 1,
        MaxPcbs <- 0, MaxBytes <- 2, MaxCalls <- 3, MaxFaults <- 1, Follows <- {}

-----------------------------------------------------------------------------
\* The parts that do not move have no state.
NoCon == nextpid = 0 /\ con = 0
NoPs2 ==
    /\ phys = 0 /\ last = 0 /\ kq = 0 /\ kb = 0 /\ rst = 0 /\ cur = 0 /\ caps_presses = 0
    /\ forgot = 0 /\ odd = 0 /\ aq = 0 /\ ms = 0 /\ sent = 0 /\ whole = 0 /\ quiet = 0
    /\ lost = 0 /\ losses = 0
NoIde ==
    /\ view = 0 /\ plat = 0 /\ chan = 0 /\ bounce = 0 /\ busy = 0 /\ dma = 0 /\ turn = 0 /\ made = 0
NoNic ==
    /\ driver = 0 /\ tx = 0 /\ rx = 0 /\ op = 0 /\ tried = 0 /\ accepted = 0 /\ wire = 0
    /\ offered = 0 /\ arrived = 0 /\ up = 0 /\ seen = 0
NoNet ==
    /\ lock = 0 /\ ready = 0 /\ socks = 0 /\ pcb = 0 /\ dhcp = 0 /\ client = 0 /\ addr = 0
    /\ query = 0 /\ calls = 0

MCInit ==
    \/ /\ \/ part = "programs" /\ B!Init
          \/ part = "tabs" /\ C!Init
          \/ part = "desktop" /\ G!Init
       /\ faults = 0 /\ NoPs2 /\ NoIde /\ NoNic /\ NoNet
    \/ /\ \/ part = "shifts" /\ K!Init
          \/ part = "chords" /\ L!Init
          \/ part = "losses" /\ E!Init
          \/ part = "mouse" /\ M!Init
       /\ task = 0 /\ flaws = 0 /\ faults = 0 /\ NoCon /\ NoIde /\ NoNic /\ NoNet
    \/ part = "disk" /\ I!Init /\ NoCon /\ NoPs2 /\ NoNic /\ NoNet
    \/ part = "cards" /\ N!Init /\ task = 0 /\ faults = 0 /\ NoCon /\ NoPs2 /\ NoIde /\ NoNet
    \/ /\ \/ part = "sockets" /\ S!Init
          \/ part = "sending" /\ T!Init
          \/ part = "names" /\ D!Init
       /\ NoCon /\ NoPs2 /\ NoIde /\ NoNic

MCNext ==
    /\ UNCHANGED part
    /\ \/ /\ \/ part = "programs" /\ B!Next
             \/ part = "tabs" /\ C!Next
             \/ part = "desktop" /\ G!Next
          /\ UNCHANGED <<faults, ps2Vars, ideVars, nicVars, netVars>>
       \/ /\ \/ part = "shifts" /\ K!Next
             \/ part = "chords" /\ L!Next
             \/ part = "losses" /\ E!Next
             \/ part = "mouse" /\ M!Next
          /\ UNCHANGED <<task, flaws, faults, conVars, ideVars, nicVars, netVars>>
       \/ part = "disk" /\ I!Next /\ UNCHANGED <<conVars, ps2Vars, nicVars, netVars>>
       \/ part = "cards" /\ N!Next /\ UNCHANGED <<task, faults, conVars, ps2Vars, ideVars, netVars>>
       \/ /\ \/ part = "sockets" /\ S!Next
             \/ part = "sending" /\ T!Next
             \/ part = "names" /\ D!Next
          /\ UNCHANGED <<conVars, ps2Vars, ideVars, nicVars>>

MCSpec == MCInit /\ [][MCNext]_allVars

-----------------------------------------------------------------------------
(* Properties: those of the modules, where they are explained *)

\* What holds of the terminals, of the keyboards and of the sockets, in whichever part.
Console(b, c, g) == (part = "programs" => b) /\ (part = "tabs" => c) /\ (part = "desktop" => g)
Keyboard(k, l) == (part = "shifts" => k) /\ (part = "chords" => l)
Network(s, t, d) == (part = "sockets" => s) /\ (part = "sending" => t) /\ (part = "names" => d)

\* The keyboard focus is with a living task of the terminal on the screen (vtty.c).
KeyboardReaches == Console(B!KeyboardReaches, C!KeyboardReaches, G!KeyboardReaches)
\* The screen shows the terminal the keys go to (vtty_switch, vtty_drain_pending).
ScreenFollows == Console(B!ScreenFollows, C!ScreenFollows, G!ScreenFollows)
\* A keyboard ring holds only bytes meant for the process that has it (keyboard.c).
RingsPrivate == Console(B!RingsPrivate, C!RingsPrivate, G!RingsPrivate)
\* The input mode is that of the task with the focus (keyboard_set_focus).
ModeFollows == Console(B!ModeFollows, C!ModeFollows, G!ModeFollows)

\* No modifier sticks (apply_modifier, kb_reset_mods).
NeverStuck == Keyboard(K!NeverStuck, L!NeverStuck)
\* The modifiers in force are those of the keys held down (apply_modifier).
ModifiersTrue == Keyboard(K!ModifiersTrue, L!ModifiersTrue)
\* Caps Lock turns once for each press (deliver_kc).
CapsOnce == part = "shifts" => K!CapsOnce
\* Ctrl+Alt+Del and Ctrl+C are noticed exactly when their keys are down (on_make).
ChordsSeen == Keyboard(K!ChordsSeen, L!ChordsSeen)
\* The scancode decoder finds its way back after lost bytes (decoder_feed).
Resynchronises == part = "losses" => E!Resynchronises
\* The mouse ring hands out whole packets in order (mouse_pop_event).
PacketsTrue == part = "mouse" => M!PacketsTrue
\* The packet assembler finds its way back after lost bytes (mouse_feed_byte).
PacketsRealign == part = "mouse" => M!PacketsRealign
\* The bytes of the PS/2 port mean what keyboard.c and mouse.c take them for: the seven above.
InputTrue ==
    /\ Keyboard(K!TypeOK, L!TypeOK)
    /\ (part = "losses" => E!TypeOK) /\ (part = "mouse" => M!TypeOK)
    /\ NeverStuck /\ ModifiersTrue /\ CapsOnce /\ ChordsSeen /\ Resynchronises
    /\ PacketsTrue /\ PacketsRealign

\* The channel's lock is held exactly while a task is in the driver (ide_lock).
DiskLockHeld == part = "disk" => I!LockHeld
\* A successful read has what the drive holds (ide_read_sectors).
ReadsTrue == part = "disk" => I!ReadsTrue
\* A successful write survives a power cut (ide_write_sectors).
WritesLast == part = "disk" => I!WritesLast
\* A sector changes only while a write of it is under way (ide_access, ide_dma_ata).
WritesStay == part = "disk" => I!SectorsStay

\* Accepted frames go on the wire once each and in order (netdev_send).
SentInOrder == part = "cards" => N!SentInOrder
\* The card always knows of the frames it was given (e_send, pc_send, rtl_send).
NeverStalls == part = "cards" => N!NeverStalls
\* rx_poll returns the good frames in order (netdev_rx_poll).
ReceivedInOrder == part = "cards" => N!ReceivedInOrder
\* A completed frame is found by the next poll (netdev_rx_poll).
PollFinds == part = "cards" => N!PollFinds
\* No receive buffer is lost (virtio_net_rx_poll and the others).
BuffersComeBack == part = "cards" => N!BuffersComeBack
\* Driver and card agree about their rings: the five above.
RingsAgree ==
    /\ part = "cards" => N!TypeOK
    /\ SentInOrder /\ NeverStalls /\ ReceivedInOrder /\ PollFinds /\ BuffersComeBack

\* The network lock is held exactly while a call waits inside (net_lock, net_unlock).
NetLockHeld == Network(S!LockHeld, T!LockHeld, D!LockHeld)
\* What lwIP may still call back has a socket in use (ksock_close).
CallbacksKnown == Network(S!CallbacksKnown, T!CallbacksKnown, TRUE)
\* recv returns the peer's bytes in order and no other's (ksock_recv).
StreamTrue == Network(S!StreamTrue, T!StreamTrue, TRUE)
\* recv reports the end after the last byte only (ksock_recv).
EofTrue == Network(S!EofTrue, T!EofTrue, TRUE)
\* send reports the bytes it queued (ksock_send).
SendTrue == Network(TRUE, T!SendTrue, TRUE)
\* The flags of SYS_NET_INFO agree with the interface (net_lwip_init, DHCP, static).
StateTrue == Network(TRUE, TRUE, D!StateTrue)
=============================================================================
