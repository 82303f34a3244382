-------------------------------- MODULE Ipc --------------------------------
(***************************************************************************)
(* Synchronous message passing between tasks: src/kernel/arch/i386/proc/   *)
(* ipc.c, with the parts of task.c that create and end the tasks it links  *)
(* together.                                                               *)
(*                                                                         *)
(* A task is a slot of task_pool.  Slots are reused, pids never are, so    *)
(* ipc_partner (a pid) and a sender queue (slots) can disagree about who   *)
(* a task is.  READY stands for TASK_READY and TASK_RUNNING: the kernel    *)
(* is preemptible, so any READY task may take the next step.  DEAD stands  *)
(* for TASK_DEAD and TASK_ZOMBIE, which ipc.c treats alike; a zombie is a  *)
(* DEAD slot that has not been reused yet.                                 *)
(*                                                                         *)
(* One action is one stretch of code between two points where the timer    *)
(* may preempt it.  ipc_send copies the message into the staging buffer    *)
(* before it masks interrupts, and ipc_recv copies it out after it has     *)
(* unmasked them, so both copies are steps of their own.                   *)
(***************************************************************************)
EXTENDS Naturals, Sequences, FiniteSets

CONSTANTS
    NSlots,     \* slots of task_pool that take part (MAX_TASKS)
    MaxPid,     \* bound: the last pid next_pid hands out
    Msg,        \* message contents (type and data words)
    Syscalls,   \* the IPC system calls that programs make
    Deaths      \* the ways a task may end, a subset of DeathKinds

(***************************************************************************)
(* The three ways a slot becomes DEAD.  "terminate": task_terminate on a   *)
(* task that can run (task_exit, or sig_deliver, which schedule() applies  *)
(* to READY and RUNNING tasks only).  "logout": task_terminate called by   *)
(* vtty_logout_root_session on the login session, whatever its state.      *)
(* "sigreturn": SYS_SIGRETURN rejecting a signal frame, which assigns      *)
(* TASK_DEAD and skips task_terminate.                                     *)
(***************************************************************************)
DeathKinds == {"terminate", "logout", "sigreturn"}
SendKinds == {"send", "sendrec"}
RecvKinds == {"recv", "nbrecv"}

(***************************************************************************)
(* After a "sigreturn" death senders stay queued on a dead slot.  A        *)
(* "logout" of one of them would then leave a dead slot inside a queue,    *)
(* and the kernel's linked list is no longer a sequence, so the two are    *)
(* not modelled together.                                                  *)
(***************************************************************************)
ASSUME IpcAssumption ==
    /\ NSlots \in Nat
    /\ MaxPid \in Nat
    /\ Syscalls \subseteq SendKinds \cup RecvKinds
    /\ Deaths \subseteq DeathKinds
    /\ ~({"logout", "sigreturn"} \subseteq Deaths)

Slot == 1..NSlots
Pid == 1..MaxPid
IPC_ANY == 0            \* (-1) in ipc.h; no task has pid 0
NoPid == 0

OK == "0"
IPC_ESRCH == "ESRCH"

NoMsg == [src |-> NoPid, body |-> "none"]
Message == [src : Pid, body : Msg] \cup {NoMsg}

VARIABLES
    state,          \* task_t.state
    pid,            \* task_t.pid; 0 in a slot never used
    next_pid,       \* the pid counter of task.c
    ipc_state,
    ipc_partner,
    ipc_rc,
    ipc_sender_q,   \* the linked list, oldest sender first
    ipc_buf,        \* the staging buffer
    pc,             \* where the task is in the IPC code
    call            \* the system call it is in: kind and pid argument

ipcvars == <<ipc_state, ipc_partner, ipc_rc, ipc_sender_q, ipc_buf>>
taskvars == <<state, pid, next_pid>>
uservars == <<pc, call>>
vars == <<taskvars, ipcvars, uservars>>

SendCall == [kind : SendKinds, peer : Pid]
RecvCall == [kind : RecvKinds, peer : Pid \cup {IPC_ANY}]
NoCall == [kind |-> "none", peer |-> NoPid]

TypeOK ==
    /\ state \in [Slot -> {"READY", "BLOCKED", "DEAD"}]
    /\ pid \in [Slot -> Pid \cup {NoPid}]
    /\ next_pid \in 1..(MaxPid + 1)
    /\ ipc_state \in [Slot -> {"IDLE", "SENDING", "RECVING"}]
    /\ ipc_partner \in [Slot -> Pid \cup {IPC_ANY}]
    /\ ipc_rc \in [Slot -> {OK, IPC_ESRCH}]
    /\ ipc_sender_q \in [Slot -> Seq(Slot)]
    /\ ipc_buf \in [Slot -> Message]
    /\ pc \in [Slot -> {"user", "send", "sending", "recv", "recving", "copy"}]
    /\ call \in [Slot -> SendCall \cup RecvCall \cup {NoCall}]

(***************************************************************************)
(* At boot every slot is unused: zeroed memory, taken to be DEAD so that   *)
(* one rule covers reclaiming a slot and claiming a fresh one.             *)
(***************************************************************************)
Init ==
    /\ state = [s \in Slot |-> "DEAD"]
    /\ pid = [s \in Slot |-> NoPid]
    /\ next_pid = 1
    /\ ipc_state = [s \in Slot |-> "IDLE"]
    /\ ipc_partner = [s \in Slot |-> NoPid]
    /\ ipc_rc = [s \in Slot |-> OK]
    /\ ipc_sender_q = [s \in Slot |-> <<>>]
    /\ ipc_buf = [s \in Slot |-> NoMsg]
    /\ pc = [s \in Slot |-> "user"]
    /\ call = [s \in Slot |-> NoCall]

-----------------------------------------------------------------------------
(***************************************************************************)
(* Helpers.                                                                *)
(***************************************************************************)
IsTaskByPid(p, d) == pid[d] = p /\ state[d] # "DEAD"

Accepts(from, p) == from = IPC_ANY \/ from = p

(* The queue q without its k-th element (SequencesExt!RemoveAt, written as  *)
(* one function so that the provers see its elements).                      *)
Unlinked(q, k) ==
    [i \in 1..(Len(q) - 1) |-> IF i < k THEN q[i] ELSE q[i + 1]]

(* Faulty variants, here and below: each is one slip in the code it stands *)
(* for, and some property notices it.  No specification uses them.         *)
FirstRegardless(q, from, k) == k = 1 /\ Len(q) > 0

(* The position of the first queued sender that `from' accepts.             *)
IsFirstMatch(q, from, k) ==
    /\ k \in 1..Len(q)
    /\ Accepts(from, pid[q[k]])
    /\ \A i \in 1..(k - 1) : ~Accepts(from, pid[q[i]])

NoMatch(q, from) == \A k \in 1..Len(q) : ~Accepts(from, pid[q[k]])

Queued(s, d) == \E k \in 1..Len(ipc_sender_q[d]) : ipc_sender_q[d][k] = s

-----------------------------------------------------------------------------
(***************************************************************************)
(* The sending side.                                                       *)
(***************************************************************************)
(* The system call entry and ipc_send up to its irq save: the message is   *)
(* staged in the sender's own buffer with interrupts on.  A send to self   *)
(* (EINVAL) or of a NULL message (EFAULT) returns before anything changes. *)
SYS_IPC_SEND(s, kind, dst, m) ==
    /\ kind \in Syscalls
    /\ state[s] = "READY" /\ pc[s] = "user"
    /\ dst # pid[s]
    /\ ipc_buf' = [ipc_buf EXCEPT ![s] = [src |-> pid[s], body |-> m]]
    /\ pc' = [pc EXCEPT ![s] = "send"]
    /\ call' = [call EXCEPT ![s] = [kind |-> kind, peer |-> dst]]
    /\ UNCHANGED <<taskvars, ipc_state, ipc_partner, ipc_rc, ipc_sender_q>>

GoesOnRegardless(s, rc) ==
    LET goes_on == call[s].kind = "sendrec"
    IN  /\ pc' = [pc EXCEPT ![s] = IF goes_on THEN "recv" ELSE "user"]
        /\ call' = [call EXCEPT ![s] = IF goes_on THEN @ ELSE NoCall]

(* ipc_send returns rc: to user space, or into the second half of          *)
(* ipc_sendrec, which receives from the same peer.                         *)
ipc_send_returns(s, rc) ==
    LET goes_on == rc = OK /\ call[s].kind = "sendrec"
    IN  /\ pc' = [pc EXCEPT ![s] = IF goes_on THEN "recv" ELSE "user"]
        /\ call' = [call EXCEPT ![s] = IF goes_on THEN @ ELSE NoCall]

InSend(s) == state[s] = "READY" /\ pc[s] = "send"

ipc_send_esrch(s) ==
    /\ InSend(s)
    /\ \A d \in Slot : ~IsTaskByPid(call[s].peer, d)
    /\ ipc_send_returns(s, IPC_ESRCH)
    /\ UNCHANGED <<taskvars, ipcvars>>

(* The destination already waits for us: hand the message over, wake it.   *)
ipc_send_fast(s, d) ==
    /\ InSend(s)
    /\ IsTaskByPid(call[s].peer, d)
    /\ ipc_state[d] = "RECVING" /\ Accepts(ipc_partner[d], pid[s])
    /\ ipc_buf' = [ipc_buf EXCEPT ![d] = ipc_buf[s]]
    /\ ipc_state' = [ipc_state EXCEPT ![d] = "IDLE"]
    /\ ipc_partner' = [ipc_partner EXCEPT ![d] = NoPid]
    /\ ipc_rc' = [ipc_rc EXCEPT ![d] = OK]
    /\ state' = [state EXCEPT ![d] = IF @ = "BLOCKED" THEN "READY" ELSE @]
    /\ ipc_send_returns(s, OK)
    /\ UNCHANGED <<pid, next_pid, ipc_sender_q>>

SlowPath(s, d, rc, queue) ==
    /\ InSend(s)
    /\ IsTaskByPid(call[s].peer, d)
    /\ ~(ipc_state[d] = "RECVING" /\ Accepts(ipc_partner[d], pid[s]))
    /\ ipc_state' = [ipc_state EXCEPT ![s] = "SENDING"]
    /\ ipc_partner' = [ipc_partner EXCEPT ![s] = call[s].peer]
    /\ ipc_rc' = [ipc_rc EXCEPT ![s] = rc]
    /\ ipc_sender_q' = [ipc_sender_q EXCEPT ![d] = queue]
    /\ state' = [state EXCEPT ![s] = "BLOCKED"]
    /\ pc' = [pc EXCEPT ![s] = "sending"]
    /\ UNCHANGED <<pid, next_pid, ipc_buf, call>>

StaleResult(s, d) == SlowPath(s, d, ipc_rc[s], Append(ipc_sender_q[d], s))
PushedInFront(s, d) == SlowPath(s, d, OK, <<s>> \o ipc_sender_q[d])

(* It does not: queue behind the senders already there, and block.         *)
ipc_send_slow(s, d) ==
    /\ InSend(s)
    /\ IsTaskByPid(call[s].peer, d)
    /\ ~(ipc_state[d] = "RECVING" /\ Accepts(ipc_partner[d], pid[s]))
    /\ ipc_state' = [ipc_state EXCEPT ![s] = "SENDING"]
    /\ ipc_partner' = [ipc_partner EXCEPT ![s] = call[s].peer]
    /\ ipc_rc' = [ipc_rc EXCEPT ![s] = OK]
    /\ ipc_sender_q' = [ipc_sender_q EXCEPT ![d] = Append(@, s)]
    /\ state' = [state EXCEPT ![s] = "BLOCKED"]
    /\ pc' = [pc EXCEPT ![s] = "sending"]
    /\ UNCHANGED <<pid, next_pid, ipc_buf, call>>

(* Back from ipc_block: the result is whatever the waker left in ipc_rc.   *)
ipc_send_resume(s) ==
    /\ state[s] = "READY" /\ pc[s] = "sending"
    /\ ipc_state' = [ipc_state EXCEPT ![s] = "IDLE"]
    /\ ipc_send_returns(s, ipc_rc[s])
    /\ UNCHANGED <<taskvars, ipc_partner, ipc_rc, ipc_sender_q, ipc_buf>>

-----------------------------------------------------------------------------
(***************************************************************************)
(* The receiving side.                                                     *)
(***************************************************************************)
SYS_IPC_RECV(s, kind, from) ==
    /\ kind \in Syscalls
    /\ state[s] = "READY" /\ pc[s] = "user"
    /\ pc' = [pc EXCEPT ![s] = "recv"]
    /\ call' = [call EXCEPT ![s] = [kind |-> kind, peer |-> from]]
    /\ UNCHANGED <<taskvars, ipcvars>>

InRecv(s) == state[s] = "READY" /\ pc[s] = "recv"

(* A matching sender is queued: take the first one's message and wake it.  *)
(* The code of ipc_recv and ipc_nbrecv is the same up to here.             *)
ipc_recv_dequeue(s, k) ==
    LET q == ipc_sender_q[s]
        t == q[k]
    IN  /\ InRecv(s)
        /\ IsFirstMatch(q, call[s].peer, k)
        /\ ipc_sender_q' = [ipc_sender_q EXCEPT ![s] = Unlinked(q, k)]
        /\ ipc_buf' = [ipc_buf EXCEPT ![s] = ipc_buf[t]]
        /\ ipc_rc' = [ipc_rc EXCEPT ![t] = OK]
        /\ ipc_state' = [ipc_state EXCEPT ![t] = "IDLE"]
        /\ ipc_partner' = [ipc_partner EXCEPT ![t] = NoPid]
        /\ state' = [state EXCEPT ![t] = IF @ = "BLOCKED" THEN "READY" ELSE @]
        /\ pc' = [pc EXCEPT ![s] = "copy"]
        /\ UNCHANGED <<pid, next_pid, call>>

BlockUnscanned(s) ==
    /\ InRecv(s)
    /\ call[s].kind \in {"recv", "sendrec"}
    /\ ipc_state' = [ipc_state EXCEPT ![s] = "RECVING"]
    /\ ipc_partner' = [ipc_partner EXCEPT ![s] = call[s].peer]
    /\ ipc_rc' = [ipc_rc EXCEPT ![s] = OK]
    /\ state' = [state EXCEPT ![s] = "BLOCKED"]
    /\ pc' = [pc EXCEPT ![s] = "recving"]
    /\ UNCHANGED <<pid, next_pid, ipc_sender_q, ipc_buf, call>>

ipc_recv_block(s) ==
    /\ InRecv(s)
    /\ call[s].kind \in {"recv", "sendrec"}
    /\ NoMatch(ipc_sender_q[s], call[s].peer)
    /\ ipc_state' = [ipc_state EXCEPT ![s] = "RECVING"]
    /\ ipc_partner' = [ipc_partner EXCEPT ![s] = call[s].peer]
    /\ ipc_rc' = [ipc_rc EXCEPT ![s] = OK]
    /\ state' = [state EXCEPT ![s] = "BLOCKED"]
    /\ pc' = [pc EXCEPT ![s] = "recving"]
    /\ UNCHANGED <<pid, next_pid, ipc_sender_q, ipc_buf, call>>

ipc_nbrecv_eagain(s) ==
    /\ InRecv(s)
    /\ call[s].kind = "nbrecv"
    /\ NoMatch(ipc_sender_q[s], call[s].peer)
    /\ pc' = [pc EXCEPT ![s] = "user"]
    /\ call' = [call EXCEPT ![s] = NoCall]
    /\ UNCHANGED <<taskvars, ipcvars>>

ipc_recv_resume(s) ==
    /\ state[s] = "READY" /\ pc[s] = "recving"
    /\ ipc_state' = [ipc_state EXCEPT ![s] = "IDLE"]
    /\ pc' = [pc EXCEPT ![s] = IF ipc_rc[s] = OK THEN "copy" ELSE "user"]
    /\ call' = [call EXCEPT ![s] = IF ipc_rc[s] = OK THEN @ ELSE NoCall]
    /\ UNCHANGED <<taskvars, ipc_partner, ipc_rc, ipc_sender_q, ipc_buf>>

(* The copy into the caller's buffer, with interrupts on again: what the   *)
(* caller gets is the staging buffer as it is now.                         *)
ipc_copy_out(s) ==
    /\ state[s] = "READY" /\ pc[s] = "copy"
    /\ pc' = [pc EXCEPT ![s] = "user"]
    /\ call' = [call EXCEPT ![s] = NoCall]
    /\ UNCHANGED <<taskvars, ipcvars>>

-----------------------------------------------------------------------------
(***************************************************************************)
(* Tasks come and go.                                                      *)
(***************************************************************************)
(* The queues once a dying task s has left them: its own is emptied, and   *)
(* if it was sending it is unlinked from its destination's.                *)
ipc_detached_q(s) ==
    [d \in Slot |->
        IF d = s THEN <<>>
        ELSE IF ipc_state[s] = "SENDING" /\ IsTaskByPid(ipc_partner[s], d)
                /\ Queued(s, d)
             THEN Unlinked(ipc_sender_q[d],
                           CHOOSE k \in 1..Len(ipc_sender_q[d]) :
                               ipc_sender_q[d][k] = s)
             ELSE ipc_sender_q[d]]

(* Every sender still queued on s fails with ESRCH and can run again.      *)
ipc_task_cleanup(s) ==
    /\ ipc_sender_q' = ipc_detached_q(s)
    /\ ipc_rc' = [t \in Slot |-> IF Queued(t, s) THEN IPC_ESRCH ELSE ipc_rc[t]]
    /\ ipc_state' = [t \in Slot |-> IF Queued(t, s) \/ t = s THEN "IDLE"
                                    ELSE ipc_state[t]]
    /\ state' = [t \in Slot |->
                    IF t = s THEN "DEAD"
                    ELSE IF Queued(t, s) /\ state[t] = "BLOCKED" THEN "READY"
                    ELSE state[t]]
    /\ UNCHANGED <<ipc_partner, ipc_buf>>

(* The dead task's kernel stack is never resumed.                          *)
Forgotten(s) ==
    /\ pc' = [pc EXCEPT ![s] = "user"]
    /\ call' = [call EXCEPT ![s] = NoCall]

task_terminate(s) ==
    /\ \/ "terminate" \in Deaths /\ state[s] = "READY"
       \/ "logout" \in Deaths /\ state[s] # "DEAD"
    /\ ipc_task_cleanup(s)
    /\ Forgotten(s)
    /\ UNCHANGED <<pid, next_pid>>

(* SYS_SIGRETURN on a bad signal frame: the state alone changes.           *)
SYS_SIGRETURN_kill(s) ==
    /\ "sigreturn" \in Deaths
    /\ state[s] = "READY" /\ pc[s] = "user"
    /\ state' = [state EXCEPT ![s] = "DEAD"]
    /\ Forgotten(s)
    /\ UNCHANGED <<pid, next_pid, ipcvars>>

(* Both creators take the first TASK_DEAD slot, else the first one never   *)
(* used, and the next pid.  Any slot used before may be passed over: it    *)
(* may still be a zombie.                                                  *)
ClaimSlot(s) ==
    /\ state[s] = "DEAD"
    /\ \A t \in Slot : t < s => pid[t] # NoPid
    /\ next_pid <= MaxPid
    /\ state' = [state EXCEPT ![s] = "READY"]
    /\ pid' = [pid EXCEPT ![s] = next_pid]
    /\ next_pid' = next_pid + 1
    /\ UNCHANGED <<ipc_buf, uservars>>

task_create(s) ==
    /\ ClaimSlot(s)
    /\ ipc_state' = [ipc_state EXCEPT ![s] = "IDLE"]
    /\ ipc_partner' = [ipc_partner EXCEPT ![s] = NoPid]
    /\ ipc_rc' = [ipc_rc EXCEPT ![s] = OK]
    /\ ipc_sender_q' = [ipc_sender_q EXCEPT ![s] = <<>>]

(* task_fork does not call ipc_task_init: the slot keeps what it held.     *)
task_fork(s) ==
    /\ ClaimSlot(s)
    /\ UNCHANGED <<ipc_state, ipc_partner, ipc_rc, ipc_sender_q>>

Step(s) ==
    \/ \E c \in SendCall, m \in Msg : SYS_IPC_SEND(s, c.kind, c.peer, m)
    \/ \E c \in RecvCall : SYS_IPC_RECV(s, c.kind, c.peer)
    \/ ipc_send_esrch(s)
    \/ \E d \in Slot : ipc_send_fast(s, d)
    \/ \E d \in Slot : ipc_send_slow(s, d)
    \/ ipc_send_resume(s)
    \/ \E k \in 1..Len(ipc_sender_q[s]) : ipc_recv_dequeue(s, k)
    \/ ipc_recv_block(s)
    \/ ipc_nbrecv_eagain(s)
    \/ ipc_recv_resume(s)
    \/ ipc_copy_out(s)
    \/ task_terminate(s)
    \/ SYS_SIGRETURN_kill(s)
    \/ task_create(s)
    \/ task_fork(s)

Next == \E s \in Slot : Step(s)

Spec == Init /\ [][Next]_vars

-----------------------------------------------------------------------------
(***************************************************************************)
(* Properties.                                                             *)
(***************************************************************************)
(* A task linked in a sender queue is blocked in ipc_send, still marked    *)
(* SENDING, with its own message staged, and it is linked once: ipc_recv   *)
(* never wakes, or copies from, a task that is doing something else.       *)
QueueMembers ==
    \A d \in Slot : \A k \in 1..Len(ipc_sender_q[d]) :
        LET t == ipc_sender_q[d][k]
        IN  /\ state[t] = "BLOCKED" /\ pc[t] = "sending"
            /\ ipc_state[t] = "SENDING"
            /\ ipc_buf[t].src = pid[t]

LinkedOnce ==
    \A d, e \in Slot :
        \A j \in 1..Len(ipc_sender_q[d]), k \in 1..Len(ipc_sender_q[e]) :
            ipc_sender_q[d][j] = ipc_sender_q[e][k] => d = e /\ j = k

QueueSound == QueueMembers /\ LinkedOnce

(* No lost wakeup: a task blocked in ipc_send is queued on a live task,    *)
(* the one whose pid it sends to.  Whoever receives from that queue, or    *)
(* the cleanup when that task ends, will wake it.                          *)
NoLostSender ==
    \A s \in Slot : state[s] = "BLOCKED" /\ pc[s] = "sending" =>
        \E d \in Slot : IsTaskByPid(ipc_partner[s], d) /\ Queued(s, d)

(* No missed rendezvous: a task blocked in ipc_recv has no sender in its   *)
(* queue that its filter accepts; one of the two would have seen the other *)
(* inside its critical section.                                            *)
NoMissedRendezvous ==
    \A s \in Slot : ipc_state[s] = "RECVING" =>
        NoMatch(ipc_sender_q[s], ipc_partner[s])

(* What ipc_recv is about to copy out came from a sender its caller        *)
(* accepts, although interrupts are on and the staging buffer is shared    *)
(* with every later sender.                                                *)
CopyMatchesFilter ==
    \A s \in Slot : pc[s] = "copy" =>
        ipc_buf[s] # NoMsg /\ Accepts(call[s].peer, ipc_buf[s].src)

(* A sender is told ESRCH only if no live task has the pid it sent to, and *)
(* as pids are not reused none ever will.                                  *)
EsrchMeansDead ==
    \A s \in Slot : pc[s] = "sending" /\ ipc_rc[s] = IPC_ESRCH =>
        \A d \in Slot : ~IsTaskByPid(call[s].peer, d)

(* "Detach from the IPC graph before the slot can be reused" (task.c:684): *)
(* no sender is left queued on a dead task.                                *)
DeadDetached ==
    \A s \in Slot : state[s] = "DEAD" => ipc_sender_q[s] = <<>>

(* The queue is FIFO, so that a client which re-sends at once cannot       *)
(* starve an older one: a sender that stays queued stays ahead of those    *)
(* that were behind it and of those that join.                             *)
QueueOrder ==
    [][\A d \in Slot :
        \A i \in 1..Len(ipc_sender_q[d]), m, n \in 1..Len(ipc_sender_q'[d]) :
            /\ ipc_sender_q[d][i] = ipc_sender_q'[d][m]
            /\ \A j \in 1..i : ipc_sender_q[d][j] # ipc_sender_q'[d][n]
            => m < n]_vars

-----------------------------------------------------------------------------
(***************************************************************************)
(* The inductive invariant behind these properties.                        *)
(***************************************************************************)
(* One live slot per pid, and pids are handed out in order.                *)
PidsUnique ==
    /\ \A s \in Slot : pid[s] < next_pid
    /\ \A s \in Slot : state[s] # "DEAD" => pid[s] # NoPid
    /\ \A s, t \in Slot : pid[s] = pid[t] /\ pid[s] # NoPid => s = t

(* A task's IPC fields agree with where it is in the code.                 *)
TaskPhase(s) ==
    /\ state[s] = "BLOCKED" <=> ipc_state[s] # "IDLE"
    /\ state[s] = "DEAD" => pc[s] = "user"
    /\ ipc_state[s] = "SENDING" =>
          pc[s] = "sending" /\ ipc_partner[s] = call[s].peer
    /\ ipc_state[s] = "RECVING" =>
          /\ pc[s] = "recving" /\ ipc_partner[s] = call[s].peer
          /\ ipc_rc[s] = OK
    /\ pc[s] \in {"send", "sending"} =>
          call[s] \in SendCall /\ ipc_buf[s].src = pid[s]
    /\ pc[s] \in {"recv", "recving", "copy"} =>
          call[s].kind \in {"sendrec", "recv", "nbrecv"}
    /\ pc[s] = "recving" /\ state[s] = "READY" =>
          /\ ipc_rc[s] = OK /\ ipc_buf[s] # NoMsg
          /\ Accepts(call[s].peer, ipc_buf[s].src)

PhaseOK == \A s \in Slot : TaskPhase(s)

Gone(p) == \A d \in Slot : ~IsTaskByPid(p, d)

(* Whoever is queued on a slot is sending to the live task in it.  A death *)
(* by sigreturn leaves queued senders behind, and task_fork hands them on  *)
(* to the next task in the slot; then nobody has the pid they send to.     *)
QueueHome ==
    \A d \in Slot : \A k \in 1..Len(ipc_sender_q[d]) :
        LET to == ipc_partner[ipc_sender_q[d][k]]
        IN  \/ state[d] # "DEAD" /\ to = pid[d]
            \/ "sigreturn" \in Deaths /\ Gone(to)

(* The pid a blocked sender waits for has been handed out, so that once it *)
(* is dead it stays dead.                                                  *)
PeerKnown ==
    \A s \in Slot : pc[s] = "sending" => call[s].peer < next_pid

IpcInv ==
    /\ TypeOK /\ PidsUnique /\ PhaseOK
    /\ QueueSound /\ QueueHome
    /\ "sigreturn" \in Deaths \/ NoLostSender
    /\ NoMissedRendezvous /\ CopyMatchesFilter
    /\ PeerKnown /\ EsrchMeansDead

-----------------------------------------------------------------------------
(***************************************************************************)
(* Ipc implements Rendezvous.  What a pid is doing is read off the slot    *)
(* that runs it: the phase from the program counter, the message from the  *)
(* staging buffer.  A sender that has been woken is past the exchange if   *)
(* ipc_rc is 0, and before a failure if it is ESRCH.                       *)
(***************************************************************************)

(* The receive that a call makes, or that a sendrec goes on to make.       *)
AbsReceiving(s) == [is |-> "recv", from |-> call[s].peer,
                    nb |-> call[s].kind = "nbrecv"]

AbsSending(s) == [is |-> "send", dst |-> call[s].peer,
                  msg |-> ipc_buf[s].body,
                  rpc |-> call[s].kind = "sendrec",
                  offered |-> pc[s] = "sending"]

AbsGot(s) == [is |-> "got", src |-> ipc_buf[s].src, msg |-> ipc_buf[s].body]

AbsTask(s) ==
    CASE pc[s] = "user" -> [is |-> "idle"]
      [] pc[s] = "send" -> AbsSending(s)
      [] pc[s] = "sending" /\ (state[s] = "BLOCKED" \/ ipc_rc[s] = IPC_ESRCH)
            -> AbsSending(s)
      [] pc[s] = "sending" /\ state[s] = "READY" /\ ipc_rc[s] = OK
            -> IF call[s].kind = "sendrec" THEN AbsReceiving(s)
               ELSE [is |-> "sent"]
      [] pc[s] = "recv" -> AbsReceiving(s)
      [] pc[s] = "recving" /\ state[s] = "BLOCKED" -> AbsReceiving(s)
      [] OTHER -> AbsGot(s)

taskOf ==
    [p \in Pid |->
        IF \E s \in Slot : IsTaskByPid(p, s)
        THEN AbsTask(CHOOSE s \in Slot : IsTaskByPid(p, s))
        ELSE IF p < next_pid THEN [is |-> "dead"] ELSE [is |-> "unborn"]]

Abs == INSTANCE Rendezvous WITH ANY <- IPC_ANY, task <- taskOf

(***************************************************************************)
(* Fairness.  schedule() walks the ring of tasks round-robin and the timer *)
(* preempts whoever runs, so a READY task inside the kernel goes on.  What *)
(* a program calls, and whether a task ends, is not promised.              *)
(***************************************************************************)
KernelStep(s) ==
    \/ ipc_send_esrch(s)
    \/ \E d \in Slot : ipc_send_fast(s, d)
    \/ \E d \in Slot : ipc_send_slow(s, d)
    \/ ipc_send_resume(s)
    \/ \E k \in 1..Len(ipc_sender_q[s]) : ipc_recv_dequeue(s, k)
    \/ ipc_recv_block(s)
    \/ ipc_nbrecv_eagain(s)
    \/ ipc_recv_resume(s)
    \/ ipc_copy_out(s)

FairSpec == Spec /\ \A s \in Slot : WF_vars(KernelStep(s))

(* Every IPC system call behaves as the one-step exchange of Rendezvous,   *)
(* across preemption, task deaths and slot reuse: no message is lost,      *)
(* duplicated, altered in the staging buffer or handed to another task,    *)
(* and 0 or ESRCH tells the sender which of the two happened.  It also     *)
(* makes the progress that Rendezvous promises: no wakeup of ipc_send,     *)
(* ipc_recv or ipc_task_cleanup is missing.                                *)
ImplementsRendezvous == Abs!AbsSpec

=============================================================================
