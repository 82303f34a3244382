----------------------------- MODULE Rendezvous -----------------------------
(***************************************************************************)
(* What the IPC of ipc.h promises, with no buffers, queues or slots:       *)
(* tasks are pids, a message passes from one sender to one receiver in a   *)
(* single step (Exchange), a send that cannot be delivered because its     *)
(* destination is gone fails, and sendrec is a send whose exchange leaves  *)
(* the sender receiving from the same peer ("an atomic send-then-await-    *)
(* reply", ipc.h:13).  Ipc is shown to implement this.                     *)
(***************************************************************************)
EXTENDS Naturals

CONSTANTS
    Pid,    \* pids, each used by one task at most
    ANY,    \* the wildcard of a receive; not a pid
    Msg

VARIABLE task   \* what each pid is doing

Unborn == [is |-> "unborn"]
Dead == [is |-> "dead"]
Idle == [is |-> "idle"]
Sent == [is |-> "sent"]         \* the message is gone, the call not back yet

(* Sending: `offered' once the message is there for the taking.            *)
Sending == [is : {"send"}, dst : Pid, msg : Msg, rpc : BOOLEAN,
            offered : BOOLEAN]
Receiving == [is : {"recv"}, from : Pid \cup {ANY}, nb : BOOLEAN]
Got == [is : {"got"}, src : Pid, msg : Msg]

AbsTypeOK ==
    task \in [Pid -> {Unborn, Dead, Idle, Sent} \cup Sending \cup Receiving
                        \cup Got]

Live(p) == task[p].is \notin {"unborn", "dead"}

AbsInit == task = [p \in Pid |-> Unborn]

Becomes(p, t) == task' = [task EXCEPT ![p] = t]

Spawn(p) == task[p] = Unborn /\ Becomes(p, Idle)

Die(p) == Live(p) /\ Becomes(p, Dead)

CallSend(p, dst, m, rpc) ==
    /\ dst # p
    /\ Becomes(p, [is |-> "send", dst |-> dst, msg |-> m, rpc |-> rpc,
                   offered |-> FALSE])

(* Nobody takes the message at once: the sender waits.                     *)
Offer(p) ==
    /\ task[p].is = "send" /\ ~task[p].offered /\ Live(task[p].dst)
    /\ Becomes(p, [task[p] EXCEPT !.offered = TRUE])

CallRecv(p, from, nb) == Becomes(p, [is |-> "recv", from |-> from, nb |-> nb])

(* Only a task that is in no call makes one.                               *)
Call(p) ==
    /\ task[p] = Idle
    /\ \/ \E dst \in Pid, m \in Msg, rpc \in BOOLEAN : CallSend(p, dst, m, rpc)
       \/ \E from \in Pid \cup {ANY}, nb \in BOOLEAN : CallRecv(p, from, nb)

Meets(p, r) ==
    /\ task[p].is = "send" /\ task[p].dst = r
    /\ task[r].is = "recv" /\ task[r].from \in {ANY, p}

(* The rendezvous: one message, one sender, one receiver.  A sender that   *)
(* was kept waiting has yet to return from the call.                       *)
Exchange(p, r) ==
    /\ Meets(p, r)
    /\ \E next \in IF task[p].rpc
                   THEN {[is |-> "recv", from |-> r, nb |-> FALSE]}
                   ELSE IF task[p].offered THEN {Sent} ELSE {Idle} :
        task' = [task EXCEPT
                    ![p] = next,
                    ![r] = [is |-> "got", src |-> p, msg |-> task[p].msg]]

(* The destination does not exist, or no longer does.                      *)
Fail(p) ==
    /\ task[p].is = "send" /\ ~Live(task[p].dst)
    /\ Becomes(p, Idle)

(* A non-blocking receive comes back empty-handed: nothing is on offer.    *)
Refuse(p) ==
    /\ task[p].is = "recv" /\ task[p].nb
    /\ \A q \in Pid : Meets(q, p) => ~task[q].offered
    /\ Becomes(p, Idle)

Return(p) == task[p].is \in {"sent", "got"} /\ Becomes(p, Idle)

AbsNext ==
    \E p \in Pid :
        \/ Spawn(p) \/ Die(p) \/ Call(p) \/ Offer(p) \/ Fail(p) \/ Refuse(p)
        \/ Return(p)
        \/ \E r \in Pid : Exchange(p, r)

AbsSafe == AbsInit /\ [][AbsNext]_task

(* A send to a task that is gone comes back, so does a call that is done,  *)
(* and a sender and a receiver that want each other do not wait for ever:  *)
(* they meet, or one of them meets somebody else or ends.                  *)
AbsFair ==
    \A p \in Pid :
        /\ WF_task(Fail(p)) /\ WF_task(Return(p))
        /\ \A r \in Pid : WF_task(Exchange(p, r))

AbsSpec == AbsSafe /\ AbsFair

=============================================================================
