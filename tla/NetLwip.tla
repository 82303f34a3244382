------------------------------ MODULE NetLwip ------------------------------
(***************************************************************************)
(* The kernel's network entry points (net/net_lwip.c): the net lock, the    *)
(* start of the stack and its DHCP state, name resolution, and the pool of  *)
(* TCP sockets behind SYS_SOCKET, SYS_CONNECT and read/write/close.         *)
(*                                                                         *)
(* lwIP itself is external: connections are answered, refused, fed, ended   *)
(* or reset, queries answered and leases granted by Pump, inside            *)
(* net_lwip_poll_ready, which is called by whoever waits holding the lock   *)
(* and, while it is free, by the net task.  A call that never yields while  *)
(* it holds the lock is one step; one that waits is a step to take the      *)
(* lock, pumps, and a step at the end of the wait, which a timeout may      *)
(* bring about at any moment.                                               *)
(***************************************************************************)
EXTENDS Integers, Sequences, SequencesExt, FiniteSets

CONSTANTS
    Users,      \* ring-3 tasks that use the network
    KSOCK_MAX,  \* sockets in the pool
    Does,       \* bound: what the tasks do ("boot", "sockets", "send",
                \* "config", "dns")
    SND_BUF,    \* bytes lwIP queues for one connection (TCP_SND_BUF)
    MaxPcbs,    \* bound: connections made
    MaxBytes,   \* bound: bytes a peer sends on one connection
    MaxCalls,   \* bound: configuration calls and queries
    MaxFaults,  \* bound: allocations that fail
    Follows     \* departures the exploration goes on after

VARIABLES
    lock,       \* s_net_busy, with its holder
    ready,      \* s_ready
    task,       \* what each task is doing, and its socket
    socks,      \* s_socks
    pcb,        \* lwIP's connections
    dhcp,       \* the s_dhcp flags
    client,     \* lwIP's DHCP client: "off", "asking" or "leased"
    addr,       \* the interface's address, by where it came from
    query,      \* the callback argument of the DNS query in flight
    calls, faults,
    flaws       \* known departures met: nothing is promised after one

vars == <<lock, ready, task, socks, pcb, dhcp, client, addr, query, calls, faults, flaws>>

None == "none"
Tasks == Users \cup {"net"}
Ids == 0..KSOCK_MAX - 1
Sound == flaws = {}
Goes == flaws \subseteq Follows
FreeSock == [used |-> FALSE, pcb |-> 0, rx |-> <<>>, connected |-> FALSE,
             closed_remote |-> FALSE, err |-> FALSE, aborted |-> FALSE]
NewPcb == [st |-> "connecting", arg |-> -1, recv |-> FALSE, said |-> 0, fin |-> FALSE,
           queued |-> 0, out |-> 0]
\* A task: what it is waiting in, its descriptor's sock_id, the connection
\* it last asked for, the bytes recv returned on it, bytes left to send, bytes
\* send has reported, and whether recv has reported the end.
Idle == [op |-> "idle", id |-> -1, conn |-> 0, got |-> <<>>, left |-> 0, sent |-> 0,
         eof |-> FALSE]

Init ==
    /\ lock = None
    /\ ready = ("boot" \notin Does)
    /\ task = [t \in Tasks |-> [Idle EXCEPT !.op = IF t = "net" /\ ~ready THEN "start" ELSE @]]
    /\ socks = [i \in Ids |-> FreeSock]
    /\ pcb = <<>>
    /\ dhcp = [attempted |-> ready, enabled |-> ready, bound |-> ready, fallback |-> FALSE,
               released |-> FALSE]
    /\ client = IF ready THEN "leased" ELSE "off"
    /\ addr = IF ready THEN "lease" ELSE "none"
    /\ query = None
    /\ calls = 0 /\ faults = 0
    /\ flaws = {}

\* A task inside net_lwip_init, in lwIP without the lock.
Starting == {t \in Tasks : task[t].op \in {"init", "init_dhcp"}}
Noted(t) ==
    IF Starting \ {t} # {} THEN {"lwIP was entered twice"} ELSE flaws
Enters(t) == lock = None /\ ready /\ Goes
\* The holder is in a loop that pumps lwIP.
Waiting(t) == task[t].op \in {"connect", "send", "recv", "resolve", "dhcp"}

(***************************************************************************)
(* Starting the stack, and its address.                                     *)
(***************************************************************************)

\* net_lwip_note_dhcp_off and net_lwip_set_static_slirp.
Off(d) == [d EXCEPT !.enabled = FALSE, !.bound = FALSE, !.fallback = TRUE]
set_static_slirp(d) == [Off(d) EXCEPT !.released = FALSE]

\* net_lwip_init up to s_ready: nothing keeps a second task out.
net_lwip_init(t) ==
    /\ ~ready /\ Goes
    /\ \/ /\ \/ task[t].op = "start"
             \/ t \in Users /\ task[t].op = "idle" /\ "boot" \in Does
          /\ task' = [task EXCEPT ![t].op = "init"]
          /\ flaws' = Noted(t)
          /\ UNCHANGED <<ready, addr>>
       \/ /\ task[t].op = "init"
          /\ ready' = TRUE /\ addr' = "slirp"
          /\ task' = [task EXCEPT ![t].op = "init_dhcp"]
          /\ UNCHANGED flaws
    /\ UNCHANGED <<lock, socks, pcb, dhcp, client, query, calls, faults>>

\* net_lwip_try_dhcp up to its loop; dhcp_start may fail.
DhcpStart(t, wait, done) ==
    \/ /\ dhcp' = [attempted |-> TRUE, enabled |-> TRUE, bound |-> FALSE, fallback |-> FALSE,
                   released |-> FALSE]
       /\ client' = "asking"
       /\ task' = [task EXCEPT ![t].op = wait]
       /\ UNCHANGED <<addr, faults>>
    \/ /\ faults < MaxFaults
       /\ faults' = faults + 1
       /\ dhcp' = set_static_slirp([dhcp EXCEPT !.attempted = TRUE])
       /\ client' = "off" /\ addr' = "slirp"
       /\ task' = [task EXCEPT ![t].op = done]

\* The end of the wait: bound, or the client is stopped and the fixed address
\* of the emulator's network taken.
GiveUp(d) == [dhcp |-> set_static_slirp(d), client |-> "off", addr |-> "slirp"]

DhcpEnd ==
    IF dhcp.bound THEN UNCHANGED <<dhcp, client, addr>>
    ELSE LET g == GiveUp(dhcp) IN
         dhcp' = g.dhcp /\ client' = g.client /\ addr' = g.addr

\* net_lwip_init's call of net_lwip_try_dhcp, without the lock.
InitDhcp(t) ==
    /\ task[t].op = "init_dhcp" /\ Goes
    /\ IF client = "off" /\ ~dhcp.attempted
       THEN DhcpStart(t, "init_dhcp", "idle")
       ELSE DhcpEnd /\ task' = [task EXCEPT ![t].op = "idle"] /\ UNCHANGED faults
    /\ UNCHANGED <<lock, ready, socks, pcb, query, calls, flaws>>

\* net_lwip_control and net_lwip_config, for a ring-3 task.
net_lwip_control(t) ==
    /\ t \in Users /\ "config" \in Does /\ calls < MaxCalls
    /\ task[t].op = "idle" /\ Enters(t)
    /\ calls' = calls + 1
    /\ flaws' = Noted(t)
    /\ \/ \* NET_CTL_DHCP_RELEASE
          /\ dhcp' = [attempted |-> TRUE, enabled |-> FALSE, bound |-> FALSE,
                      fallback |-> FALSE, released |-> TRUE]
          /\ client' = "off" /\ addr' = "none"
          /\ UNCHANGED <<lock, task, faults>>
       \/ \* NET_CTL_DHCP_RENEW and a DHCP configuration
          /\ DhcpStart(t, "dhcp", "idle")
          /\ lock' = IF task'[t].op = "dhcp" THEN t ELSE None
       \/ \* a static configuration
          /\ dhcp' = [Off(dhcp) EXCEPT !.released = FALSE]
          /\ client' = IF dhcp.enabled THEN "off" ELSE client
          /\ addr' = "user"
          /\ UNCHANGED <<lock, task, faults>>
    /\ UNCHANGED <<ready, socks, pcb, query>>

DhcpDone(t) ==
    /\ lock = t /\ task[t].op = "dhcp" /\ Goes
    /\ DhcpEnd
    /\ task' = [task EXCEPT ![t].op = "idle"]
    /\ lock' = None
    /\ UNCHANGED <<ready, socks, pcb, query, calls, faults, flaws>>

\* net_lwip_resolve: the record the answer is to be written to is on the
\* caller's stack.
net_lwip_resolve(t) ==
    /\ t \in Users /\ "dns" \in Does /\ Goes
    /\ \/ /\ task[t].op = "idle" /\ Enters(t) /\ calls < MaxCalls
          /\ calls' = calls + 1
          /\ query' = t
          /\ lock' = t /\ task' = [task EXCEPT ![t].op = "resolve"]
          /\ flaws' = Noted(t)
       \/ /\ lock = t /\ task[t].op = "resolve"
          /\ flaws' = IF query = None THEN flaws
                      ELSE {"a query outlived its caller"}
          /\ lock' = None /\ task' = [task EXCEPT ![t].op = "idle"]
          /\ UNCHANGED <<query, calls>>
    /\ UNCHANGED <<ready, socks, pcb, dhcp, client, addr, faults>>

(***************************************************************************)
(* Sockets.                                                                 *)
(***************************************************************************)

\* The first free entry of the pool.
TakesFree(i) == ~socks[i].used /\ \A j \in 0..i - 1 : socks[j].used

\* ksock_open.
ksock_open(t) ==
    /\ t \in Users /\ "sockets" \in Does
    /\ task[t].op = "idle" /\ task[t].id = -1 /\ Enters(t)
    /\ \E i \in Ids :
          /\ TakesFree(i)
          /\ socks' = [socks EXCEPT ![i] = [FreeSock EXCEPT !.used = TRUE]]
          /\ task' = [task EXCEPT ![t] = [Idle EXCEPT !.id = i]]
    /\ flaws' = Noted(t)
    /\ UNCHANGED <<lock, ready, pcb, dhcp, client, addr, query, calls, faults>>

\* tcp_abort of a socket's connection runs ksock_err_cb.
Aborted(s) == [s EXCEPT !.err = TRUE, !.aborted = TRUE, !.pcb = 0]

\* ksock_connect up to its loop: tcp_new, the callbacks, tcp_connect, which
\* may fail.
ConnectStart(t) ==
    /\ t \in Users /\ task[t].op = "idle" /\ task[t].id # -1 /\ Enters(t)
    /\ LET i == task[t].id IN
       /\ socks[i].pcb = 0
       /\ Len(pcb) < MaxPcbs
       /\ \/ /\ pcb' = Append(pcb, [NewPcb EXCEPT !.arg = i])
             /\ socks' = [socks EXCEPT ![i].pcb = Len(pcb')]
             /\ lock' = t
             /\ task' = [task EXCEPT ![t] = [Idle EXCEPT !.op = "connect", !.id = i,
                                                         !.conn = Len(pcb')]]
             /\ UNCHANGED faults
          \/ /\ faults < MaxFaults
             /\ faults' = faults + 1
             /\ socks' = [socks EXCEPT ![i] = Aborted(@)]
             /\ UNCHANGED <<lock, task, pcb>>
       /\ flaws' = IF socks[i].err THEN flaws \cup {"a failed socket was connected again"}
                   ELSE Noted(t)
    /\ UNCHANGED <<ready, dhcp, client, addr, query, calls>>

\* What a connect that failed does with its connection.  A socket that had
\* already failed once still has "aborted" set, and keeps the new one.
Failed(s) ==
    IF s.pcb # 0 /\ ~s.aborted THEN [sock |-> Aborted(s), drop |-> TRUE]
    ELSE [sock |-> s, drop |-> FALSE]

\* The end of ksock_connect: established, refused, or timed out.
ksock_connect(t) ==
    \/ ConnectStart(t)
    \/ /\ lock = t /\ task[t].op = "connect" /\ Goes
       /\ LET i == task[t].id
              s == socks[i]
              f == Failed(s)
          IN  IF s.connected /\ ~s.err
              THEN UNCHANGED <<socks, pcb>>
              ELSE /\ socks' = [socks EXCEPT ![i] = f.sock]
                   /\ pcb' = IF f.drop THEN [pcb EXCEPT ![s.pcb].st = "gone"] ELSE pcb
       /\ task' = [task EXCEPT ![t].op = "idle"]
       /\ lock' = None
       /\ UNCHANGED <<ready, dhcp, client, addr, query, calls, faults, flaws>>

Lesser(a, b) == IF a < b THEN a ELSE b

\* One round of ksock_send's loop with room in the connection's queue.
Written(t, i) ==
    LET k == socks[i].pcb
        n == Lesser(task[t].left, SND_BUF - pcb[k].queued)
    IN  /\ pcb' = [pcb EXCEPT ![k].queued = @ + n, ![k].out = @ + n]
        /\ task' = [task EXCEPT ![t].left = @ - n, ![t].sent = @ + n]

\* The loop goes on, and there is room.
CanWrite(t, s) ==
    /\ task[t].left > 0
    /\ ~s.err /\ ~s.aborted /\ s.pcb # 0
    /\ pcb[s.pcb].queued < SND_BUF

\* ksock_send of SND_BUF + 1 bytes: it queues what fits, waits for more room,
\* and on an error (tcp_write's included) or a timeout reports the bytes queued so far.
ksock_send(t) ==
    /\ t \in Users /\ "send" \in Does /\ Goes
    /\ LET i == task[t].id
           s == socks[i]
       IN  \/ /\ task[t].op = "idle" /\ Enters(t) /\ i # -1
              /\ s.pcb # 0 /\ s.connected /\ ~s.err /\ ~s.aborted
              /\ task[t].sent = 0
              /\ lock' = t
              /\ task' = [task EXCEPT ![t].op = "send", ![t].left = SND_BUF + 1]
              /\ flaws' = Noted(t)
              /\ UNCHANGED <<pcb, faults>>
           \/ /\ lock = t /\ task[t].op = "send" /\ CanWrite(t, s)
              /\ Written(t, i)
              /\ UNCHANGED <<lock, flaws, faults>>
           \/ /\ lock = t /\ task[t].op = "send"
              /\ \/ ~CanWrite(t, s) /\ UNCHANGED faults
                 \/ faults < MaxFaults /\ faults' = faults + 1
              /\ lock' = None
              /\ task' = [task EXCEPT ![t].op = "idle", ![t].left = 0]
              /\ UNCHANGED <<pcb, flaws>>
    /\ UNCHANGED <<ready, socks, dhcp, client, addr, query, calls>>


\* recv's test for the end of the stream.
Ends(s) == s.rx = <<>> /\ s.closed_remote

\* Every way out of recv gives up the lock.
Returning(t, eof) == None

\* ksock_recv of one byte: a byte, the end, or -1 for an error or a timeout.
ksock_recv(t) ==
    /\ t \in Users /\ "sockets" \in Does /\ Goes
    /\ LET i == task[t].id
           s == socks[i]
       IN  \/ /\ task[t].op = "idle" /\ Enters(t) /\ i # -1 /\ ~task[t].eof
              /\ lock' = t /\ task' = [task EXCEPT ![t].op = "recv"]
              /\ flaws' = Noted(t)
              /\ UNCHANGED socks
           \/ /\ lock = t /\ task[t].op = "recv"
              /\ IF Ends(s)
                 THEN /\ lock' = Returning(t, TRUE)
                      /\ task' = [task EXCEPT ![t].op = "idle", ![t].eof = TRUE]
                      /\ UNCHANGED socks
                 ELSE /\ lock' = Returning(t, FALSE)
                      /\ task' = [task EXCEPT ![t].op = "idle",
                                     ![t].got = IF s.rx = <<>> THEN @ ELSE Append(@, Head(s.rx))]
                      /\ socks' = [socks EXCEPT ![i].rx = IF @ = <<>> THEN @ ELSE Tail(@)]
              /\ UNCHANGED flaws
    /\ UNCHANGED <<ready, pcb, dhcp, client, addr, query, calls, faults>>

\* The connection a closed socket leaves behind: callbacks detached (and no
\* more is told of what it carried).
Detached(p) == [NewPcb EXCEPT !.st = "closing"]

\* ksock_close, from close and from the descriptors of a task that ends.
ksock_close(t) ==
    /\ t \in Users /\ task[t].op = "idle" /\ task[t].id # -1 /\ Enters(t)
    /\ LET i == task[t].id
           s == socks[i]
       IN  /\ pcb' = IF s.pcb # 0 /\ ~s.aborted THEN [pcb EXCEPT ![s.pcb] = Detached(@)]
                     ELSE pcb
           /\ socks' = [socks EXCEPT ![i] = FreeSock]
    /\ task' = [task EXCEPT ![t] = Idle]
    /\ flaws' = Noted(t)
    /\ UNCHANGED <<lock, ready, dhcp, client, addr, query, calls, faults>>

(***************************************************************************)
(* lwIP's callbacks, run by net_lwip_poll_ready.                            *)
(***************************************************************************)

Heard(k) == pcb[k].arg # -1

\* ksock_connected_cb.
ksock_connected_cb(k) ==
    /\ pcb[k].st \in {"connecting", "closing"} /\ ~pcb[k].recv /\ Heard(k)
    /\ socks' = [socks EXCEPT ![pcb[k].arg].connected = TRUE]
    /\ pcb' = [pcb EXCEPT ![k].st = "up", ![k].recv = TRUE]
    /\ UNCHANGED <<faults, flaws>>

\* ksock_err_cb: refused or reset by the peer.
ksock_err_cb(k) ==
    /\ pcb[k].st \in {"connecting", "up"}
    /\ pcb' = [pcb EXCEPT ![k].st = "gone"]
    /\ socks' = IF Heard(k) THEN [socks EXCEPT ![pcb[k].arg] = Aborted(@)] ELSE socks
    /\ UNCHANGED <<faults, flaws>>

\* ksock_recv_cb: bytes, appended by ksock_rx_push unless the buffer cannot
\* grow, or the peer's FIN.
ksock_recv_cb(k) ==
    /\ pcb[k].st = "up" /\ pcb[k].recv /\ ~pcb[k].fin
    /\ LET i == pcb[k].arg IN
       \/ /\ pcb[k].said < MaxBytes
          /\ pcb' = [pcb EXCEPT ![k].said = @ + 1]
          /\ \/ /\ socks' = [socks EXCEPT ![i].rx = Append(@, <<k, pcb'[k].said>>)]
                /\ UNCHANGED <<faults, flaws>>
             \/ /\ faults < MaxFaults
                /\ faults' = faults + 1
                /\ socks' = [socks EXCEPT ![i].err = TRUE]
                /\ flaws' = {"bytes were left out of the stream"}
       \/ /\ pcb' = [pcb EXCEPT ![k].fin = TRUE]
          /\ socks' = [socks EXCEPT ![i].closed_remote = TRUE]
          /\ UNCHANGED <<faults, flaws>>

\* The peer acknowledges what is queued.
Acknowledged(k) ==
    /\ pcb[k].st = "up" /\ pcb[k].queued > 0
    /\ pcb' = [pcb EXCEPT ![k].queued = 0]
    /\ UNCHANGED <<socks, faults, flaws>>

\* net_lwip_dns_found writes to the record of the call that asked.
net_lwip_dns_found ==
    /\ query # None
    /\ query' = None
    /\ UNCHANGED <<socks, pcb, dhcp, client, addr, faults, flaws>>

\* A lease arrives, and net_lwip_poll_ready notes it if DHCP is enabled; or
\* the lease ends, which it does not note.
LeaseArrives ==
    \/ /\ client = "asking"
       /\ client' = "leased" /\ addr' = "lease"
       /\ dhcp' = [dhcp EXCEPT !.bound = IF dhcp.enabled THEN TRUE ELSE @]
       /\ UNCHANGED flaws
    \/ /\ client = "leased" /\ "config" \in Does
       /\ client' = "asking" /\ addr' = "none"
       /\ flaws' = {"a lease ended unnoticed"}
       /\ UNCHANGED dhcp

\* net_lwip_poll_ready, called by the holder of the lock from its loop, by
\* the net task while the lock is free, or by net_lwip_init's DHCP wait.
net_lwip_poll_ready ==
    /\ ready /\ Goes
    /\ \/ lock # None /\ Waiting(lock)
       \/ lock = None /\ task["net"].op = "idle"
       \/ Starting # {}
    /\ \/ /\ \E k \in 1..Len(pcb) :
                \/ ksock_connected_cb(k) \/ ksock_err_cb(k) \/ ksock_recv_cb(k)
                \/ Acknowledged(k)
          /\ UNCHANGED <<query, dhcp, client, addr>>
       \/ net_lwip_dns_found
       \/ LeaseArrives /\ UNCHANGED <<socks, pcb, query, faults>>
    /\ UNCHANGED <<lock, ready, task, calls>>

\* A fatal signal is acted on where the task yields, which every wait does
\* with the lock held.
Killed(t) ==
    /\ t \in Users /\ lock = t /\ Waiting(t) /\ Goes
    /\ flaws' = {"the lock's holder was killed"}
    /\ UNCHANGED <<lock, ready, task, socks, pcb, dhcp, client, addr, query, calls, faults>>

Next ==
    \/ \E t \in Tasks :
          \/ net_lwip_init(t) \/ InitDhcp(t) \/ net_lwip_control(t) \/ DhcpDone(t)
          \/ net_lwip_resolve(t) \/ ksock_open(t) \/ ksock_connect(t)
          \/ ksock_send(t) \/ ksock_recv(t) \/ ksock_close(t) \/ Killed(t)
    \/ net_lwip_poll_ready

Spec == Init /\ [][Next]_vars

(***************************************************************************)
(* Properties.                                                              *)
(***************************************************************************)

\* The pool, the descriptors and the lock have the shapes the code gives them,
\* and a task's descriptor names a socket in use that is its alone.
TypeOK ==
    /\ lock \in Tasks \cup {None}
    /\ \A t \in Users : task[t].id # -1 => socks[task[t].id].used
    /\ \A t, u \in Users : t # u /\ task[t].id # -1 => task[t].id # task[u].id
    /\ \A i \in Ids : socks[i].pcb \in 0..Len(pcb)

\* The lock is held exactly while a call waits inside it: no way out of any
\* call, early or late, leaves it taken (net_lock, net_unlock).
LockHeld == Sound => \A t \in Users : (lock = t) <=> Waiting(t)

\* Whatever lwIP may still call back has somewhere to go: a connection that
\* still names a socket is the one that socket, in use, holds.  The comment
\* in ksock_close: "Detach callbacks first so a late pbuf can't reach a freed
\* slot" (net_lwip.c).
CallbacksLive ==
    \A k \in 1..Len(pcb) :
        pcb[k].st # "gone" /\ Heard(k) =>
            /\ socks[pcb[k].arg].used
            /\ socks[pcb[k].arg].pcb = k

\* The same, while no known departure has been met.
CallbacksKnown == Sound => CallbacksLive

\* What recv returns on a connection is what the peer sent on it, in order and
\* without gaps, whoever pumped lwIP when it came, and none of another
\* connection's bytes.
StreamTrue ==
    Sound => \A t \in Users : \A j \in 1..Len(task[t].got) :
                task[t].got[j] = <<task[t].conn, j>>

\* recv reports the end only after the peer's FIN, and only once it has
\* returned every byte sent before it.
EofTrue ==
    Sound => \A t \in Users : task[t].eof =>
                LET k == task[t].conn
                IN  pcb[k].fin /\ Len(task[t].got) = pcb[k].said

\* send reports exactly the bytes it queued, also when it breaks off.
SendTrue ==
    Sound => \A t \in Users : task[t].conn # 0 => task[t].sent = pcb[task[t].conn].out

\* Between calls the flags SYS_NET_INFO reports agree with the interface: a
\* lease is reported only while its address is set, a fixed address is not
\* replaced by an answer that comes after the wait was given up, a released
\* interface stays without one.
StateTrue ==
    Sound /\ lock = None /\ Starting = {} /\ ready =>
        /\ dhcp.released => addr = "none" /\ client = "off"
        /\ dhcp.bound => addr = "lease"
        /\ dhcp.fallback => addr \in {"slirp", "user"} /\ client = "off"
        /\ dhcp.enabled <=> client # "off"

=============================================================================
