---------------------------- MODULE Ipc_proofs ----------------------------
(***************************************************************************)
(* Proofs about Ipc.  IpcInv is inductive, and the properties follow.      *)
(* There is one lemma per action, and one step per conjunct it disturbs:   *)
(* first the steps that change a sender queue, then the others.  Then      *)
(* every step is mapped to a step of Rendezvous.                           *)
(***************************************************************************)
EXTENDS Ipc, TLAPS

\* A leaf is given up after this many seconds.
USE ZenonT(60)

-----------------------------------------------------------------------------
(* Steps that change a sender queue *)

(* After the step, no live task has pid p.                                 *)
StillGone(p) == \A d \in Slot : ~(pid'[d] = p /\ state'[d] # "DEAD")

(* Unlinking the k-th sender, as ipc_recv and ipc_task_cleanup do, leaves  *)
(* a queue one shorter with the others in their order.                     *)
LEMMA UnlinkedFacts ==
    ASSUME NEW q \in Seq(Slot), NEW k \in 1..Len(q)
    PROVE  /\ Unlinked(q, k) \in Seq(Slot)
           /\ Len(Unlinked(q, k)) = Len(q) - 1
           /\ \A i \in 1..(Len(q) - 1) :
                 Unlinked(q, k)[i] = IF i < k THEN q[i] ELSE q[i + 1]
<1>1. Len(q) - 1 \in Nat
  BY SMTT(60)
<1>. QED BY <1>1, SMTT(60) DEF Unlinked

(* Every sender but the unlinked one is still in the queue.                *)
LEMMA UnlinkedKeeps ==
    ASSUME NEW q \in Seq(Slot), NEW k \in 1..Len(q), NEW j \in 1..Len(q), j # k
    PROVE  \E i \in 1..Len(Unlinked(q, k)) : Unlinked(q, k)[i] = q[j]
<1>1. CASE j < k
  <2>1. j \in 1..(Len(q) - 1)
    BY <1>1, SMTT(60)
  <2>. QED BY <1>1, <2>1, UnlinkedFacts
<1>2. CASE j > k
  <2>1. j - 1 \in 1..(Len(q) - 1) /\ ~(j - 1 < k) /\ (j - 1) + 1 = j
    BY <1>2, SMTT(60)
  <2>. QED BY <2>1, UnlinkedFacts
<1>. QED BY <1>1, <1>2, SMTT(60)

(* Queueing at the tail, as the slow path of ipc_send does.                *)
LEMMA AppendFacts ==
    ASSUME NEW q \in Seq(Slot), NEW e \in Slot
    PROVE  /\ Append(q, e) \in Seq(Slot)
           /\ Len(Append(q, e)) = Len(q) + 1
           /\ \A i \in 1..Len(q) : Append(q, e)[i] = q[i]
           /\ Append(q, e)[Len(q) + 1] = e
  BY SMTT(60)

(* The slow path of ipc_send keeps the invariant.                          *)
LEMMA ipc_send_slow_Inv ==
    ASSUME IpcInv, NEW s \in Slot, NEW d \in Slot, ipc_send_slow(s, d)
    PROVE  IpcInv'
<1>. DEFINE q == ipc_sender_q
<1>. USE DEF InSend
<1>1. TypeOK'
  BY AppendFacts
  DEF IpcInv, TypeOK, PhaseOK, TaskPhase, ipc_send_slow, SendCall, IPC_ANY, OK
<1>2. PidsUnique'
  BY DEF IpcInv, TypeOK, PidsUnique, ipc_send_slow
<1>3. PhaseOK'
  BY SMTT(60) DEF IpcInv, TypeOK, PhaseOK, TaskPhase, ipc_send_slow
(* The new queue is the old one with s, which was in none, at its end.     *)
<1>4. /\ \A e \in Slot : \A i \in 1..Len(q[e]) : q[e][i] \in Slot /\ q[e][i] # s
      /\ \A e \in Slot : Len(q[e]) \in Nat
  BY SMTT(60) DEF IpcInv, TypeOK, QueueSound, QueueMembers, ipc_send_slow
<1>5. /\ Len(q'[d]) = Len(q[d]) + 1
      /\ \A i \in 1..Len(q[d]) : q'[d][i] = q[d][i]
      /\ q'[d][Len(q[d]) + 1] = s
      /\ \A e \in Slot \ {d} : q'[e] = q[e]
  BY AppendFacts, SMTT(60) DEF IpcInv, TypeOK, ipc_send_slow
<1>6. \A e \in Slot : \A i \in 1..Len(q'[e]) :
        \/ i \in 1..Len(q[e]) /\ q'[e][i] = q[e][i]
        \/ e = d /\ i = Len(q[d]) + 1 /\ q'[e][i] = s
  BY <1>4, <1>5, SMTT(60)
<1>7. QueueMembers'
  BY <1>4, <1>6, SMTT(60) DEF IpcInv, TypeOK, QueueSound, QueueMembers, PhaseOK, TaskPhase, ipc_send_slow
<1>8. LinkedOnce'
  <2>. SUFFICES ASSUME NEW a \in Slot, NEW e \in Slot,
                       NEW i \in 1..Len(q'[a]), NEW j \in 1..Len(q'[e]),
                       q'[a][i] = q'[e][j]
                PROVE  a = e /\ i = j
    BY DEF LinkedOnce
  <2>1. CASE i \in 1..Len(q[a]) /\ q'[a][i] = q[a][i] /\ j \in 1..Len(q[e]) /\ q'[e][j] = q[e][j]
    <3>1. LinkedOnce
      BY DEF IpcInv, QueueSound
    <3>2. q[a][i] = q[e][j]
      BY <2>1
    <3>. QED BY <2>1, <3>1, <3>2, SMTT(60) DEF LinkedOnce
  <2>2. CASE q'[a][i] = s \/ q'[e][j] = s
    <3>1. q'[a][i] = s /\ q'[e][j] = s
      BY <2>2
    <3>2. a = d /\ i = Len(q[d]) + 1
      BY <1>4, <1>6, <3>1
    <3>3. e = d /\ j = Len(q[d]) + 1
      BY <1>4, <1>6, <3>1
    <3>. QED BY <3>2, <3>3
  <2>. QED BY <1>6, <2>1, <2>2
<1>9. QueueHome'
  <2>1. state'[d] # "DEAD" /\ pid'[d] = ipc_partner'[s] /\ pid' = pid
    BY DEF IpcInv, TypeOK, IsTaskByPid, ipc_send_slow
  <2>2. \A t \in Slot \ {s} : ipc_partner'[t] = ipc_partner[t] /\ state'[t] = state[t]
    BY DEF IpcInv, TypeOK, ipc_send_slow
  <2>3. state'[s] # "DEAD" /\ state[s] # "DEAD"
    BY DEF IpcInv, TypeOK, ipc_send_slow
  <2>4. \A p : Gone(p) => StillGone(p)
    BY <2>1, <2>2, <2>3 DEF Gone, StillGone, IsTaskByPid
  <2>. SUFFICES ASSUME NEW e \in Slot, NEW i \in 1..Len(q'[e])
                PROVE  \/ state'[e] # "DEAD" /\ ipc_partner'[q'[e][i]] = pid'[e]
                       \/ "sigreturn" \in Deaths /\ StillGone(ipc_partner'[q'[e][i]])
    BY DEF QueueHome, Gone, StillGone, IsTaskByPid
  <2>5. CASE i \in 1..Len(q[e]) /\ q'[e][i] = q[e][i]
    <3>1. q[e][i] \in Slot \ {s}
      BY <1>4, <2>5
    <3>2. \/ state[e] # "DEAD" /\ ipc_partner[q[e][i]] = pid[e]
          \/ "sigreturn" \in Deaths /\ Gone(ipc_partner[q[e][i]])
      BY <2>5 DEF IpcInv, QueueHome
    <3>. QED BY <2>1, <2>2, <2>3, <2>4, <2>5, <3>1, <3>2
  <2>6. CASE e = d /\ q'[e][i] = s
    BY <2>1, <2>6
  <2>. QED BY <1>6, <2>5, <2>6
<1>10. "sigreturn" \in Deaths \/ NoLostSender'
  <2>. SUFFICES ASSUME "sigreturn" \notin Deaths, NEW t \in Slot, state'[t] = "BLOCKED", pc'[t] = "sending"
                PROVE  \E e \in Slot : IsTaskByPid(ipc_partner[t], e)' /\ Queued(t, e)'
    BY DEF NoLostSender
  <2>1. CASE t = s
    <3>1. IsTaskByPid(ipc_partner[s], d)'
      BY DEF IpcInv, TypeOK, IsTaskByPid, ipc_send_slow
    <3>2. Queued(s, d)'
      BY <1>4, <1>5, SMTT(60) DEF Queued
    <3>. QED BY <2>1, <3>1, <3>2
  <2>2. CASE t # s
    <3>1. state[t] = "BLOCKED" /\ pc[t] = "sending" /\ ipc_partner'[t] = ipc_partner[t]
      BY <2>2 DEF IpcInv, TypeOK, ipc_send_slow
    <3>2. PICK e \in Slot : IsTaskByPid(ipc_partner[t], e) /\ Queued(t, e)
      BY <3>1 DEF IpcInv, NoLostSender
    <3>3. IsTaskByPid(ipc_partner[t], e)'
      BY <3>1, <3>2 DEF IpcInv, TypeOK, IsTaskByPid, ipc_send_slow
    <3>4. Queued(t, e)'
      BY <1>4, <1>5, <3>2, SMTT(60) DEF Queued
    <3>. QED BY <3>3, <3>4
  <2>. QED BY <2>1, <2>2
<1>11. NoMissedRendezvous'
  <2>1. \A e \in Slot : ipc_state'[e] = "RECVING" =>
            ipc_state[e] = "RECVING" /\ ipc_partner'[e] = ipc_partner[e]
    BY DEF IpcInv, TypeOK, ipc_send_slow
  <2>2. ~(ipc_state[d] = "RECVING" /\ Accepts(ipc_partner[d], pid[s])) /\ pid' = pid
    BY DEF ipc_send_slow
  <2>. QED BY <1>4, <1>6, <2>1, <2>2, SMTT(60) DEF IpcInv, NoMissedRendezvous, NoMatch, Accepts
<1>12. CopyMatchesFilter'
  BY DEF IpcInv, TypeOK, CopyMatchesFilter, Accepts, ipc_send_slow
<1>13. PeerKnown'
  BY DEF IpcInv, TypeOK, PeerKnown, PidsUnique, IsTaskByPid, ipc_send_slow
<1>14. EsrchMeansDead'
  BY DEF IpcInv, TypeOK, EsrchMeansDead, IsTaskByPid, ipc_send_slow, OK, IPC_ESRCH
<1>. QED
  BY <1>1, <1>2, <1>3, <1>7, <1>8, <1>9, <1>10, <1>11, <1>12, <1>13, <1>14
  DEF IpcInv, QueueSound

(* Taking the first matching sender in ipc_recv keeps the invariant.       *)
LEMMA ipc_recv_dequeue_Inv ==
    ASSUME IpcInv, NEW s \in Slot, NEW k \in 1..Len(ipc_sender_q[s]),
           ipc_recv_dequeue(s, k)
    PROVE  IpcInv'
<1>. DEFINE q == ipc_sender_q
            t == q[s][k]
<1>. USE DEF InRecv
<1>1. t \in Slot /\ q[s] \in Seq(Slot) /\ t # s
  <2>1. q[s] \in Seq(Slot)
    BY DEF IpcInv, TypeOK
  <2>2. t \in Slot
    BY <2>1, SMTT(60)
  <2>3. pc[t] = "sending" /\ pc[s] = "recv"
    BY DEF IpcInv, QueueSound, QueueMembers, ipc_recv_dequeue
  <2>. QED BY <2>1, <2>2, <2>3
<1>2. TypeOK'
  BY <1>1, UnlinkedFacts DEF IpcInv, TypeOK, ipc_recv_dequeue, IPC_ANY, NoPid, OK
<1>3. PidsUnique'
  BY <1>1 DEF IpcInv, TypeOK, PidsUnique, ipc_recv_dequeue, QueueSound, QueueMembers
<1>4. PhaseOK'
  BY <1>1, SMTT(60) DEF IpcInv, TypeOK, PhaseOK, TaskPhase, ipc_recv_dequeue, QueueSound, QueueMembers
(* The new queue is the old one without t, and t was linked there only.    *)
<1>5. /\ \A e \in Slot \ {s} : q'[e] = q[e]
      /\ Len(q'[s]) = Len(q[s]) - 1
      /\ \A i \in 1..(Len(q[s]) - 1) : q'[s][i] = IF i < k THEN q[s][i] ELSE q[s][i + 1]
      /\ \A j \in 1..Len(q[s]) : j # k => \E i \in 1..Len(q'[s]) : q'[s][i] = q[s][j]
      /\ \A e \in Slot : Len(q[e]) \in Nat /\ \A i \in 1..Len(q[e]) : q[e][i] \in Slot
  <2>1. q'[s] = Unlinked(q[s], k) /\ \A e \in Slot \ {s} : q'[e] = q[e]
    BY DEF IpcInv, TypeOK, ipc_recv_dequeue
  <2>2. /\ Len(q'[s]) = Len(q[s]) - 1
        /\ \A i \in 1..(Len(q[s]) - 1) : q'[s][i] = IF i < k THEN q[s][i] ELSE q[s][i + 1]
    BY <1>1, <2>1, UnlinkedFacts
  <2>3. \A e \in Slot : Len(q[e]) \in Nat /\ \A i \in 1..Len(q[e]) : q[e][i] \in Slot
    BY SMTT(60) DEF IpcInv, TypeOK
  <2>4. \A j \in 1..Len(q[s]) : j # k => \E i \in 1..Len(q'[s]) : q'[s][i] = q[s][j]
    <3>1. \A j \in 1..Len(q[s]) : j # k =>
            \E i \in 1..Len(Unlinked(q[s], k)) : Unlinked(q[s], k)[i] = q[s][j]
      BY <1>1, UnlinkedKeeps
    <3>. QED BY <2>1, <3>1
  <2>. QED BY <2>1, <2>2, <2>3, <2>4
<1>. DEFINE old(c, n) == IF c = s /\ ~(n < k) THEN n + 1 ELSE n
<1>6. \A e \in Slot : \A i \in 1..Len(q'[e]) :
        /\ old(e, i) \in 1..Len(q[e])
        /\ q'[e][i] = q[e][old(e, i)]
        /\ q[e][old(e, i)] # t
  <2>. TAKE e \in Slot
  <2>. TAKE i \in 1..Len(q'[e])
  <2>. DEFINE j == old(e, i)
  <2>1. j \in 1..Len(q[e]) /\ q'[e][i] = q[e][j] /\ (e # s \/ j # k)
    <3>1. CASE e = s
      <4>1. i \in 1..(Len(q[s]) - 1) /\ Len(q[s]) \in Nat /\ k \in 1..Len(q[s])
        BY <1>5, <3>1
      <4>2. q'[s][i] = IF i < k THEN q[s][i] ELSE q[s][i + 1]
        BY <1>5, <4>1
      <4>3. j = (IF i < k THEN i ELSE i + 1) /\ j \in 1..Len(q[s]) /\ j # k
        BY <3>1, <4>1, SMTT(60)
      <4>. QED BY <3>1, <4>2, <4>3
    <3>2. CASE e # s
      BY <1>5, <3>2
    <3>. QED BY <3>1, <3>2
  <2>2. q[e][j] # t
    BY <2>1 DEF IpcInv, QueueSound, LinkedOnce
  <2>. QED BY <2>1, <2>2
<1>. HIDE DEF old
<1>7. QueueMembers'
  <2>1. \A u \in Slot \ {t} : /\ state'[u] = state[u] /\ ipc_state'[u] = ipc_state[u]
                              /\ ipc_partner'[u] = ipc_partner[u]
    BY <1>1 DEF IpcInv, TypeOK, ipc_recv_dequeue
  <2>2. \A u \in Slot \ {s} : pc'[u] = pc[u] /\ ipc_buf'[u] = ipc_buf[u]
    BY <1>1 DEF IpcInv, TypeOK, ipc_recv_dequeue
  <2>3. pid' = pid /\ pc[s] # "sending"
    BY DEF ipc_recv_dequeue
  <2>. SUFFICES ASSUME NEW e \in Slot, NEW i \in 1..Len(q'[e])
                PROVE  LET u == q'[e][i]
                       IN  /\ state'[u] = "BLOCKED" /\ pc'[u] = "sending"
                           /\ ipc_state'[u] = "SENDING"
                           /\ ipc_buf'[u].src = pid'[u]
    BY DEF QueueMembers
  <2>4. PICK j \in 1..Len(q[e]) : q'[e][i] = q[e][j] /\ q[e][j] # t
    BY <1>6
  <2>5. q[e][j] \in Slot \ {t, s}
    BY <1>5, <2>3, <2>4, SMTT(60) DEF IpcInv, QueueSound, QueueMembers
  <2>6. /\ state[q[e][j]] = "BLOCKED" /\ pc[q[e][j]] = "sending"
        /\ ipc_state[q[e][j]] = "SENDING" /\ ipc_buf[q[e][j]].src = pid[q[e][j]]
    BY DEF IpcInv, QueueSound, QueueMembers
  <2>. QED BY <2>1, <2>2, <2>3, <2>4, <2>5, <2>6
<1>8. LinkedOnce'
  <2>. SUFFICES ASSUME NEW d \in Slot, NEW e \in Slot,
                       NEW i \in 1..Len(q'[d]), NEW j \in 1..Len(q'[e]),
                       q'[d][i] = q'[e][j]
                PROVE  d = e /\ i = j
    BY DEF LinkedOnce
  <2>1. /\ old(d, i) \in 1..Len(q[d]) /\ old(e, j) \in 1..Len(q[e])
        /\ q[d][old(d, i)] = q[e][old(e, j)]
    BY <1>6
  <2>2. d = e /\ old(d, i) = old(e, j)
    BY <2>1, SMTT(60) DEF IpcInv, QueueSound, LinkedOnce
  <2>3. i = j
    BY <2>2, SMTT(60) DEF old
  <2>. QED BY <2>2, <2>3
<1>9. QueueHome'
  <2>1. \A u \in Slot \ {t} : ipc_partner'[u] = ipc_partner[u]
    BY <1>1 DEF IpcInv, TypeOK, ipc_recv_dequeue
  <2>2. \A u \in Slot : state[u] # "DEAD" <=> state'[u] # "DEAD"
    BY <1>1 DEF IpcInv, TypeOK, ipc_recv_dequeue
  <2>3. pid' = pid
    BY DEF ipc_recv_dequeue
  <2>4. \A p : Gone(p) => StillGone(p)
    BY <2>2, <2>3 DEF Gone, StillGone, IsTaskByPid
  <2>. SUFFICES ASSUME NEW e \in Slot, NEW i \in 1..Len(q'[e])
                PROVE  \/ state'[e] # "DEAD" /\ ipc_partner'[q'[e][i]] = pid'[e]
                       \/ "sigreturn" \in Deaths /\ StillGone(ipc_partner'[q'[e][i]])
    BY DEF QueueHome, Gone, StillGone, IsTaskByPid
  <2>5. PICK j \in 1..Len(q[e]) : q'[e][i] = q[e][j] /\ q[e][j] # t
    BY <1>6
  <2>6. \/ state[e] # "DEAD" /\ ipc_partner[q[e][j]] = pid[e]
        \/ "sigreturn" \in Deaths /\ Gone(ipc_partner[q[e][j]])
    BY DEF IpcInv, QueueHome
  <2>7. q[e][j] \in Slot \ {t}
    BY <1>5, <2>5
  <2>. QED BY <2>1, <2>2, <2>3, <2>4, <2>5, <2>6, <2>7
<1>10. "sigreturn" \in Deaths \/ NoLostSender'
  <2>. SUFFICES ASSUME "sigreturn" \notin Deaths, NEW u \in Slot, state'[u] = "BLOCKED", pc'[u] = "sending"
                PROVE  \E e \in Slot : IsTaskByPid(ipc_partner[u], e)' /\ Queued(u, e)'
    BY DEF NoLostSender
  <2>1. u # t /\ u # s
    BY <1>1 DEF IpcInv, TypeOK, ipc_recv_dequeue
  <2>2. state[u] = "BLOCKED" /\ pc[u] = "sending" /\ ipc_partner'[u] = ipc_partner[u]
    BY <1>1, <2>1 DEF IpcInv, TypeOK, ipc_recv_dequeue
  <2>3. PICK e \in Slot : IsTaskByPid(ipc_partner[u], e) /\ Queued(u, e)
    BY <2>2 DEF IpcInv, NoLostSender
  <2>4. IsTaskByPid(ipc_partner[u], e)'
    BY <1>1, <2>2, <2>3 DEF IpcInv, TypeOK, IsTaskByPid, ipc_recv_dequeue
  <2>5. PICK j \in 1..Len(q[e]) : q[e][j] = u
    BY <2>3 DEF Queued
  <2>6. Queued(u, e)'
    <3>1. CASE e = s
      BY <1>5, <2>1, <2>5, <3>1 DEF Queued
    <3>2. CASE e # s
      BY <1>5, <2>5, <3>2 DEF Queued
    <3>. QED BY <3>1, <3>2
  <2>. QED BY <2>4, <2>6
<1>11. NoMissedRendezvous'
  <2>1. \A e \in Slot : ipc_state'[e] = "RECVING" =>
            e # s /\ ipc_state[e] = "RECVING" /\ ipc_partner'[e] = ipc_partner[e]
    BY <1>1 DEF IpcInv, TypeOK, PhaseOK, TaskPhase, ipc_recv_dequeue
  <2>2. pid' = pid
    BY DEF ipc_recv_dequeue
  <2>. QED BY <1>5, <2>1, <2>2, SMTT(60) DEF IpcInv, NoMissedRendezvous, NoMatch, Accepts
<1>12. CopyMatchesFilter'
  <2>1. ipc_buf'[s] = ipc_buf[t] /\ ipc_buf[t].src = pid[t] /\ pid[t] # NoPid
        /\ Accepts(call[s].peer, pid[t]) /\ call' = call
    BY <1>1 DEF IpcInv, TypeOK, ipc_recv_dequeue, IsFirstMatch, QueueSound, QueueMembers, PidsUnique
  <2>2. \A u \in Slot \ {s} : pc'[u] = pc[u] /\ ipc_buf'[u] = ipc_buf[u]
    BY DEF IpcInv, TypeOK, ipc_recv_dequeue
  <2>. QED BY <2>1, <2>2, SMTT(60) DEF IpcInv, CopyMatchesFilter, NoMsg, Accepts
<1>13. PeerKnown'
  BY DEF IpcInv, TypeOK, PeerKnown, ipc_recv_dequeue
<1>14. EsrchMeansDead'
  BY <1>1, SMTT(60) DEF IpcInv, TypeOK, EsrchMeansDead, IsTaskByPid, ipc_recv_dequeue, OK, IPC_ESRCH
<1>. QED
  BY <1>2, <1>3, <1>4, <1>7, <1>8, <1>9, <1>10, <1>11, <1>12, <1>13, <1>14
  DEF IpcInv, QueueSound

(* task_terminate, with the whole of ipc_task_cleanup, keeps it.           *)
LEMMA task_terminate_Inv ==
    ASSUME IpcInv, NEW s \in Slot, task_terminate(s)
    PROVE  IpcInv'
<1>. DEFINE q == ipc_sender_q
            hit(e) == ipc_state[s] = "SENDING" /\ IsTaskByPid(ipc_partner[s], e)
                      /\ Queued(s, e)
            pos(e) == CHOOSE k \in 1..Len(q[e]) : q[e][k] = s
            old(e, i) == IF hit(e) /\ ~(i < pos(e)) THEN i + 1 ELSE i
<1>1. /\ pid' = pid /\ next_pid' = next_pid
      /\ ipc_partner' = ipc_partner /\ ipc_buf' = ipc_buf
      /\ state' = [u \in Slot |->
                     IF u = s THEN "DEAD"
                     ELSE IF Queued(u, s) /\ state[u] = "BLOCKED" THEN "READY"
                     ELSE state[u]]
      /\ ipc_state' = [u \in Slot |-> IF Queued(u, s) \/ u = s THEN "IDLE"
                                      ELSE ipc_state[u]]
      /\ ipc_rc' = [u \in Slot |-> IF Queued(u, s) THEN IPC_ESRCH ELSE ipc_rc[u]]
      /\ pc' = [pc EXCEPT ![s] = "user"] /\ call' = [call EXCEPT ![s] = NoCall]
  BY DEF task_terminate, ipc_task_cleanup, Forgotten
<1>2. \A e \in Slot : q'[e] = IF e = s THEN <<>>
                              ELSE IF hit(e) THEN Unlinked(q[e], pos(e)) ELSE q[e]
  BY DEF task_terminate, ipc_task_cleanup, ipc_detached_q
<1>3. \A e \in Slot : hit(e) => pos(e) \in 1..Len(q[e]) /\ q[e][pos(e)] = s
  BY DEF Queued
<1>4. \A e \in Slot : /\ q[e] \in Seq(Slot) /\ Len(q[e]) \in Nat
                      /\ \A i \in 1..Len(q[e]) : q[e][i] \in Slot
  BY SMTT(60) DEF IpcInv, TypeOK
<1>. HIDE DEF hit, pos
<1>5. q' \in [Slot -> Seq(Slot)]
  <2>1. \A e \in Slot : hit(e) => Unlinked(q[e], pos(e)) \in Seq(Slot)
    BY <1>3, <1>4, UnlinkedFacts
  <2>2. ASSUME NEW e \in Slot PROVE q'[e] \in Seq(Slot)
    <3>1. CASE e = s
      <4>1. q'[e] = <<>>
        BY <1>2, <3>1
      <4>2. <<>> \in Seq(Slot)
        BY SMTT(60)
      <4>. QED BY <4>1, <4>2
    <3>2. CASE e # s /\ hit(e)
      BY <1>2, <2>1, <3>2
    <3>3. CASE e # s /\ ~hit(e)
      BY <1>2, <1>4, <3>3
    <3>. QED BY <3>1, <3>2, <3>3
  <2>3. q' = [e \in Slot |-> q'[e]]
    BY SMTT(60) DEF task_terminate, ipc_task_cleanup, ipc_detached_q
  <2>. QED BY <2>2, <2>3
(* What is left in the queues was there before, and is neither s nor one   *)
(* of the senders s had.                                                   *)
<1>6. \A e \in Slot : \A i \in 1..Len(q'[e]) :
        /\ e # s
        /\ old(e, i) \in 1..Len(q[e])
        /\ q'[e][i] = q[e][old(e, i)]
        /\ q[e][old(e, i)] # s
  <2>. SUFFICES ASSUME NEW e \in Slot, NEW i \in 1..Len(q'[e])
                PROVE  /\ e # s
                       /\ old(e, i) \in 1..Len(q[e])
                       /\ q'[e][i] = q[e][old(e, i)]
                       /\ q[e][old(e, i)] # s
    OBVIOUS
  <2>1. e # s
    BY <1>2, SMTT(60)
  <2>2. CASE hit(e)
    <3>1. /\ q'[e] = Unlinked(q[e], pos(e)) /\ pos(e) \in 1..Len(q[e])
          /\ q[e][pos(e)] = s
      BY <1>2, <1>3, <2>1, <2>2
    <3>. DEFINE U == Unlinked(q[e], pos(e))
    <3>5. /\ Len(U) = Len(q[e]) - 1
          /\ \A n \in 1..(Len(q[e]) - 1) :
                U[n] = IF n < pos(e) THEN q[e][n] ELSE q[e][n + 1]
      BY <1>4, <3>1, UnlinkedFacts
    <3>. HIDE DEF U
    <3>2. /\ Len(q'[e]) = Len(q[e]) - 1
          /\ q'[e][i] = IF i < pos(e) THEN q[e][i] ELSE q[e][i + 1]
      <4>1. q'[e] = U
        BY <3>1 DEF U
      <4>. QED BY <3>5, <4>1
    <3>3. /\ old(e, i) \in 1..Len(q[e]) /\ q'[e][i] = q[e][old(e, i)]
          /\ old(e, i) # pos(e)
      BY <1>4, <2>2, <3>1, <3>2, SMTT(60)
    <3>4. q[e][old(e, i)] # s
      BY <3>1, <3>3, SMTT(60) DEF IpcInv, QueueSound, LinkedOnce
    <3>. QED BY <2>1, <3>3, <3>4
  <2>3. CASE ~hit(e)
    <3>1. q'[e] = q[e] /\ old(e, i) = i
      BY <1>2, <2>1, <2>3
    <3>2. q[e][i] # s
      <4>. SUFFICES ASSUME q[e][i] = s PROVE FALSE
        OBVIOUS
      <4>1. i \in 1..Len(q[e]) /\ Queued(s, e)
        BY <3>1 DEF Queued
      <4>2. state[s] = "BLOCKED" /\ ipc_state[s] = "SENDING"
        BY <4>1 DEF IpcInv, QueueSound, QueueMembers
      <4>3. "sigreturn" \notin Deaths
        BY <4>2, IpcAssumption DEF task_terminate
      <4>4. IsTaskByPid(ipc_partner[s], e)
        BY <4>1, <4>3 DEF IpcInv, QueueHome, IsTaskByPid
      <4>. QED BY <2>3, <4>1, <4>2, <4>4 DEF hit
    <3>. QED BY <2>1, <3>1, <3>2
  <2>. QED BY <2>2, <2>3
<1>. HIDE DEF old
<1>7. \A e \in Slot : \A i \in 1..Len(q'[e]) : ~Queued(q'[e][i], s)
  <2>. SUFFICES ASSUME NEW e \in Slot, NEW i \in 1..Len(q'[e]),
                       NEW j \in 1..Len(q[s]), q[s][j] = q'[e][i]
                PROVE  FALSE
    BY DEF Queued
  <2>. QED BY <1>6, SMTT(60) DEF IpcInv, QueueSound, LinkedOnce
<1>8. \A e \in Slot \ {s} : \A j \in 1..Len(q[e]) : q[e][j] # s =>
        \E i \in 1..Len(q'[e]) : q'[e][i] = q[e][j]
  <2>. SUFFICES ASSUME NEW e \in Slot \ {s}, NEW j \in 1..Len(q[e]), q[e][j] # s
                PROVE  \E i \in 1..Len(q'[e]) : q'[e][i] = q[e][j]
    OBVIOUS
  <2>1. CASE hit(e)
    <3>1. q'[e] = Unlinked(q[e], pos(e))
      BY <1>2, <2>1
    <3>2. \E i \in 1..Len(Unlinked(q[e], pos(e))) : Unlinked(q[e], pos(e))[i] = q[e][j]
      BY <1>3, <1>4, <2>1, UnlinkedKeeps
    <3>. QED BY <3>1, <3>2
  <2>2. CASE ~hit(e)
    BY <1>2, <2>2
  <2>. QED BY <2>1, <2>2
<1>9. TypeOK'
  BY <1>1, <1>5 DEF IpcInv, TypeOK, IPC_ESRCH, OK
<1>10. PidsUnique'
  BY <1>1 DEF IpcInv, TypeOK, PidsUnique
<1>11. \A u \in Slot : Queued(u, s) =>
        /\ state[u] = "BLOCKED" /\ pc[u] = "sending" /\ ipc_state[u] = "SENDING"
        /\ ipc_partner[u] = pid[s] \/ Gone(ipc_partner[u])
        /\ state[s] # "DEAD" /\ call[u].peer = ipc_partner[u]
  <2>1. state[s] # "DEAD"
    BY DEF task_terminate
  <2>. QED
    BY <2>1, SMTT(60) DEF IpcInv, QueueSound, QueueMembers, QueueHome, Queued, PhaseOK, TaskPhase
<1>12. PhaseOK'
  <2>. SUFFICES ASSUME NEW u \in Slot PROVE TaskPhase(u)'
    BY DEF PhaseOK
  <2>1. TaskPhase(u) /\ TypeOK
    BY DEF IpcInv, PhaseOK
  <2>2. CASE u = s
    BY <1>1, <2>1, <2>2 DEF TaskPhase, TypeOK
  <2>3. CASE u # s /\ Queued(u, s)
    BY <1>1, <1>11, <2>1, <2>3 DEF TaskPhase, TypeOK
  <2>4. CASE u # s /\ ~Queued(u, s)
    BY <1>1, <2>1, <2>4 DEF TaskPhase, TypeOK
  <2>. QED BY <2>2, <2>3, <2>4
<1>13. QueueMembers'
  <2>. SUFFICES ASSUME NEW e \in Slot, NEW i \in 1..Len(q'[e])
                PROVE  LET u == q'[e][i]
                       IN  /\ state'[u] = "BLOCKED" /\ pc'[u] = "sending"
                           /\ ipc_state'[u] = "SENDING"
                           /\ ipc_buf'[u].src = pid'[u]
    BY DEF QueueMembers
  <2>1. PICK j \in 1..Len(q[e]) : q'[e][i] = q[e][j] /\ q[e][j] # s
    BY <1>6
  <2>2. q[e][j] \in Slot /\ ~Queued(q[e][j], s)
    BY <1>4, <1>7, <2>1
  <2>3. /\ state[q[e][j]] = "BLOCKED" /\ pc[q[e][j]] = "sending"
        /\ ipc_state[q[e][j]] = "SENDING" /\ ipc_buf[q[e][j]].src = pid[q[e][j]]
    BY DEF IpcInv, QueueSound, QueueMembers
  <2>. QED BY <1>1, <2>1, <2>2, <2>3 DEF IpcInv, TypeOK
<1>14. LinkedOnce'
  <2>. SUFFICES ASSUME NEW d \in Slot, NEW e \in Slot,
                       NEW i \in 1..Len(q'[d]), NEW j \in 1..Len(q'[e]),
                       q'[d][i] = q'[e][j]
                PROVE  d = e /\ i = j
    BY DEF LinkedOnce
  <2>1. /\ old(d, i) \in 1..Len(q[d]) /\ old(e, j) \in 1..Len(q[e])
        /\ q[d][old(d, i)] = q[e][old(e, j)]
    BY <1>6
  <2>2. d = e /\ old(d, i) = old(e, j)
    BY <2>1 DEF IpcInv, QueueSound, LinkedOnce
  <2>3. i = j
    BY <1>3, <2>2, SMTT(60) DEF old
  <2>. QED BY <2>2, <2>3
<1>15. QueueHome'
  <2>1. \A u \in Slot : /\ state'[u] # "DEAD" => state[u] # "DEAD"
                        /\ u # s /\ state[u] # "DEAD" => state'[u] # "DEAD"
    BY <1>1 DEF IpcInv, TypeOK
  <2>2. \A p : Gone(p) => StillGone(p)
    BY <1>1, <2>1 DEF Gone, StillGone, IsTaskByPid
  <2>. SUFFICES ASSUME NEW e \in Slot, NEW i \in 1..Len(q'[e])
                PROVE  \/ state'[e] # "DEAD" /\ ipc_partner'[q'[e][i]] = pid'[e]
                       \/ "sigreturn" \in Deaths /\ StillGone(ipc_partner'[q'[e][i]])
    BY DEF QueueHome, Gone, StillGone, IsTaskByPid
  <2>3. PICK j \in 1..Len(q[e]) : q'[e][i] = q[e][j] /\ e # s
    BY <1>6
  <2>4. \/ state[e] # "DEAD" /\ ipc_partner[q[e][j]] = pid[e]
        \/ "sigreturn" \in Deaths /\ Gone(ipc_partner[q[e][j]])
    BY DEF IpcInv, QueueHome
  <2>. QED BY <1>1, <2>1, <2>2, <2>3, <2>4
<1>16. "sigreturn" \in Deaths \/ NoLostSender'
  <2>. SUFFICES ASSUME "sigreturn" \notin Deaths, NEW u \in Slot, state'[u] = "BLOCKED", pc'[u] = "sending"
                PROVE  \E e \in Slot : IsTaskByPid(ipc_partner[u], e)' /\ Queued(u, e)'
    BY DEF NoLostSender
  <2>1. u # s /\ ~Queued(u, s) /\ state[u] = "BLOCKED" /\ pc[u] = "sending"
    BY <1>1, <1>11 DEF IpcInv, TypeOK
  <2>2. PICK e \in Slot : IsTaskByPid(ipc_partner[u], e) /\ Queued(u, e)
    BY <2>1 DEF IpcInv, NoLostSender
  <2>3. e # s
    BY <2>1, <2>2
  <2>4. IsTaskByPid(ipc_partner[u], e)'
    BY <1>1, <2>2, <2>3 DEF IsTaskByPid
  <2>5. Queued(u, e)'
    BY <1>8, <2>1, <2>2, <2>3 DEF Queued
  <2>. QED BY <2>4, <2>5
<1>17. NoMissedRendezvous'
  <2>. SUFFICES ASSUME NEW e \in Slot, ipc_state'[e] = "RECVING",
                       NEW i \in 1..Len(q'[e])
                PROVE  ~Accepts(ipc_partner'[e], pid'[q'[e][i]])
    BY DEF NoMissedRendezvous, NoMatch, Accepts
  <2>1. ipc_state[e] = "RECVING"
    BY <1>1
  <2>2. PICK j \in 1..Len(q[e]) : q'[e][i] = q[e][j]
    BY <1>6
  <2>. QED BY <1>1, <2>1, <2>2 DEF IpcInv, NoMissedRendezvous, NoMatch
<1>18. CopyMatchesFilter'
  BY <1>1 DEF IpcInv, TypeOK, CopyMatchesFilter, Accepts
<1>19. PeerKnown'
  BY <1>1 DEF IpcInv, TypeOK, PeerKnown
<1>20. EsrchMeansDead'
  <2>. SUFFICES ASSUME NEW u \in Slot, pc'[u] = "sending", ipc_rc'[u] = IPC_ESRCH,
                       NEW d \in Slot, IsTaskByPid(call[u].peer, d)'
                PROVE  FALSE
    BY DEF EsrchMeansDead, IsTaskByPid
  <2>1. u # s /\ pc[u] = "sending" /\ call'[u] = call[u]
    BY <1>1 DEF IpcInv, TypeOK
  <2>2. d # s /\ IsTaskByPid(call[u].peer, d)
    BY <1>1, <2>1 DEF IsTaskByPid
  <2>3. CASE Queued(u, s)
    BY <1>11, <2>2, <2>3 DEF IpcInv, PidsUnique, IsTaskByPid, Gone
  <2>4. CASE ~Queued(u, s)
    BY <1>1, <2>1, <2>2, <2>4 DEF IpcInv, EsrchMeansDead
  <2>. QED BY <2>3, <2>4
<1>. QED
  BY <1>9, <1>10, <1>12, <1>13, <1>14, <1>15, <1>16, <1>17, <1>18, <1>19, <1>20
  DEF IpcInv, QueueSound

-----------------------------------------------------------------------------
(* The other steps *)

(* A queue that only lost its tail, or everything, links nobody twice.     *)
LEMMA ShrunkLinkedOnce ==
    ASSUME LinkedOnce,
           \A d \in Slot : \A k \in 1..Len(ipc_sender_q'[d]) :
             k \in 1..Len(ipc_sender_q[d]) /\ ipc_sender_q'[d][k] = ipc_sender_q[d][k]
    PROVE  LinkedOnce'
<1>. SUFFICES ASSUME NEW d \in Slot, NEW e \in Slot,
                     NEW j \in 1..Len(ipc_sender_q'[d]), NEW k \in 1..Len(ipc_sender_q'[e]),
                     ipc_sender_q'[d][j] = ipc_sender_q'[e][k]
              PROVE  d = e /\ j = k
  BY DEF LinkedOnce
<1>1. j \in 1..Len(ipc_sender_q[d]) /\ ipc_sender_q'[d][j] = ipc_sender_q[d][j]
  OBVIOUS
<1>2. k \in 1..Len(ipc_sender_q[e]) /\ ipc_sender_q'[e][k] = ipc_sender_q[e][k]
  OBVIOUS
<1>3. ipc_sender_q[d][j] = ipc_sender_q[e][k]
  BY <1>1, <1>2
<1>4. \A a \in 1..Len(ipc_sender_q[d]), b \in 1..Len(ipc_sender_q[e]) :
        ipc_sender_q[d][a] = ipc_sender_q[e][b] => d = e /\ a = b
  BY DEF LinkedOnce
<1>. QED BY <1>1, <1>2, <1>3, <1>4

(* Reusing a slot keeps it, with the queue it held or an empty one.  When  *)
(* every death goes through task_terminate the queue is empty already.     *)
LEMMA Claimed_Inv ==
    ASSUME IpcInv, NEW s \in Slot, ClaimSlot(s),
           ipc_sender_q' \in [Slot -> Seq(Slot)],
           \A d \in Slot : \A k \in 1..Len(ipc_sender_q'[d]) :
             k \in 1..Len(ipc_sender_q[d]) /\ ipc_sender_q'[d][k] = ipc_sender_q[d][k],
           \A d \in Slot \ {s} : ipc_sender_q'[d] = ipc_sender_q[d],
           ipc_state' = ipc_state,
           ipc_rc' \in [Slot -> {OK, IPC_ESRCH}],
           ipc_partner' \in [Slot -> Pid \cup {IPC_ANY}],
           \A t \in Slot \ {s} : /\ ipc_partner'[t] = ipc_partner[t]
                                 /\ ipc_rc'[t] = ipc_rc[t]
    PROVE  IpcInv'
<1>. DEFINE q == ipc_sender_q
<1>. USE DEF ClaimSlot, uservars
<1>1. /\ pc[s] = "user" /\ ipc_state[s] = "IDLE" /\ state[s] = "DEAD"
      /\ \A t \in Slot : state[t] # "DEAD" => t # s
  BY DEF IpcInv, TypeOK, PhaseOK, TaskPhase
<1>2. \A t \in Slot \ {s} : pid'[t] = pid[t] /\ state'[t] = state[t]
  BY DEF IpcInv, TypeOK
<1>3. /\ pid'[s] = next_pid /\ state'[s] = "READY"
      /\ next_pid \in Pid /\ next_pid' = next_pid + 1
      /\ next_pid' \in 1..(MaxPid + 1)
  BY IpcAssumption, SMTT(60) DEF IpcInv, TypeOK, Pid
<1>4. \A d \in Slot : \A k \in 1..Len(q'[d]) :
        k \in 1..Len(q[d]) /\ q'[d][k] = q[d][k] /\ q[d][k] \in Slot \ {s}
  BY <1>1, SMTT(60) DEF IpcInv, TypeOK, QueueSound, QueueMembers
<1>5. TypeOK'
  BY <1>3 DEF IpcInv, TypeOK
<1>6. PidsUnique'
  <2>1. \A t \in Slot : pid[t] < next_pid /\ pid[t] \in Nat /\ next_pid \in Nat
    BY SMTT(60) DEF IpcInv, TypeOK, PidsUnique, Pid, NoPid
  <2>2. \A t \in Slot : pid'[t] < next_pid'
    BY <1>2, <1>3, <2>1, SMTT(60)
  <2>3. \A t \in Slot : state'[t] # "DEAD" => pid'[t] # NoPid
    BY <1>2, <1>3, SMTT(60) DEF IpcInv, PidsUnique, NoPid, Pid
  <2>4. \A t, u \in Slot : pid'[t] = pid'[u] /\ pid'[t] # NoPid => t = u
    <3>. SUFFICES ASSUME NEW t \in Slot, NEW u \in Slot,
                         pid'[t] = pid'[u], pid'[t] # NoPid
                  PROVE  t = u
      OBVIOUS
    <3>1. CASE t # s /\ u # s
      BY <1>2, <3>1, SMTT(60) DEF IpcInv, PidsUnique
    <3>2. CASE t = s \/ u = s
      BY <1>2, <1>3, <2>1, <3>2, SMTT(60)
    <3>. QED BY <3>1, <3>2
  <2>. QED BY <2>2, <2>3, <2>4 DEF PidsUnique
<1>7. PhaseOK'
  <2>. SUFFICES ASSUME NEW t \in Slot PROVE TaskPhase(t)'
    BY DEF PhaseOK
  <2>1. TaskPhase(t)
    BY DEF IpcInv, PhaseOK
  <2>2. CASE t = s
    BY <1>1, <1>3, <2>2 DEF TaskPhase
  <2>3. CASE t # s
    <3>1. /\ pid'[t] = pid[t] /\ state'[t] = state[t] /\ ipc_partner'[t] = ipc_partner[t]
          /\ ipc_rc'[t] = ipc_rc[t]
      BY <1>2, <2>3
    <3>. QED BY <2>1, <3>1 DEF TaskPhase, Accepts
  <2>. QED BY <2>2, <2>3
<1>8. QueueMembers'
  <2>1. QueueMembers
    BY DEF IpcInv, QueueSound
  <2>2. \A t \in Slot \ {s} : pid'[t] = pid[t] /\ state'[t] = state[t] /\ ipc_state'[t] = ipc_state[t]
                             /\ pc'[t] = pc[t] /\ ipc_buf'[t] = ipc_buf[t]
    BY <1>2
  <2>. SUFFICES ASSUME NEW d \in Slot, NEW k \in 1..Len(q'[d])
                PROVE  LET t == q'[d][k]
                       IN  /\ state'[t] = "BLOCKED" /\ pc'[t] = "sending"
                           /\ ipc_state'[t] = "SENDING" /\ ipc_buf'[t].src = pid'[t]
    BY DEF QueueMembers
  <2>3. k \in 1..Len(q[d]) /\ q'[d][k] = q[d][k] /\ q[d][k] \in Slot \ {s}
    BY <1>4
  <2>4. /\ state[q[d][k]] = "BLOCKED" /\ pc[q[d][k]] = "sending"
        /\ ipc_state[q[d][k]] = "SENDING" /\ ipc_buf[q[d][k]].src = pid[q[d][k]]
    BY <2>1, <2>3 DEF QueueMembers
  <2>. QED BY <2>2, <2>3, <2>4
<1>9. LinkedOnce'
  <2>1. LinkedOnce
    BY DEF IpcInv, QueueSound
  <2>. QED BY <1>4, <2>1, ShrunkLinkedOnce
<1>10. \A t \in Slot : pc[t] = "sending" =>
        /\ call[t].peer < next_pid /\ call[t].peer \in Nat /\ next_pid \in Nat
        /\ t # s
  BY <1>1, SMTT(60) DEF IpcInv, TypeOK, PeerKnown, PhaseOK, TaskPhase, SendCall, Pid
(* The new pid is nobody's peer yet.                                       *)
<1>11. QueueHome'
  <2>. SUFFICES ASSUME NEW d \in Slot, NEW k \in 1..Len(q'[d])
                PROVE  \/ state'[d] # "DEAD" /\ ipc_partner'[q'[d][k]] = pid'[d]
                       \/ "sigreturn" \in Deaths /\ StillGone(ipc_partner'[q'[d][k]])
    BY DEF QueueHome, Gone, StillGone, IsTaskByPid
  <2>1. /\ k \in 1..Len(q[d]) /\ q'[d][k] = q[d][k] /\ q[d][k] \in Slot \ {s}
        /\ ipc_partner'[q[d][k]] = ipc_partner[q[d][k]]
    BY <1>4
  <2>2. ipc_partner[q[d][k]] = call[q[d][k]].peer /\ pc[q[d][k]] = "sending"
    <3>1. ipc_state[q[d][k]] = "SENDING"
      BY <2>1 DEF IpcInv, QueueSound, QueueMembers
    <3>2. TaskPhase(q[d][k])
      BY <2>1 DEF IpcInv, PhaseOK
    <3>. QED BY <3>1, <3>2 DEF TaskPhase
  <2>3. CASE state[d] # "DEAD" /\ ipc_partner[q[d][k]] = pid[d]
    BY <1>1, <1>2, <2>1, <2>3
  <2>4. CASE "sigreturn" \in Deaths /\ Gone(ipc_partner[q[d][k]])
    <3>1. ipc_partner[q[d][k]] # next_pid
      BY <1>10, <2>1, <2>2, SMTT(60)
    <3>. QED BY <1>2, <1>3, <2>1, <2>4, <3>1, SMTT(60) DEF Gone, StillGone, IsTaskByPid
  <2>. QED BY <2>1, <2>3, <2>4 DEF IpcInv, QueueHome
<1>12. "sigreturn" \in Deaths \/ NoLostSender'
  <2>. SUFFICES ASSUME "sigreturn" \notin Deaths,
                       NEW t \in Slot, state'[t] = "BLOCKED", pc'[t] = "sending"
                PROVE  \E e \in Slot : IsTaskByPid(ipc_partner[t], e)' /\ Queued(t, e)'
    BY DEF NoLostSender
  <2>1. t # s /\ state[t] = "BLOCKED" /\ pc[t] = "sending"
    BY <1>2, <1>3
  <2>2. PICK e \in Slot : IsTaskByPid(ipc_partner[t], e) /\ Queued(t, e)
    BY <2>1 DEF IpcInv, NoLostSender
  <2>3. IsTaskByPid(ipc_partner[t], e)' /\ Queued(t, e)'
    BY <1>1, <1>2, <2>1, <2>2 DEF IsTaskByPid, Queued
  <2>. QED BY <2>3
<1>13. NoMissedRendezvous'
  <2>. SUFFICES ASSUME NEW d \in Slot, ipc_state[d] = "RECVING", NEW k \in 1..Len(q'[d])
                PROVE  ~Accepts(ipc_partner'[d], pid'[q'[d][k]])
    BY DEF NoMissedRendezvous, NoMatch, Accepts
  <2>1. d # s /\ ipc_partner'[d] = ipc_partner[d]
    BY <1>1
  <2>2. k \in 1..Len(q[d]) /\ q'[d][k] = q[d][k] /\ pid'[q[d][k]] = pid[q[d][k]]
    BY <1>2, <1>4
  <2>3. ~Accepts(ipc_partner[d], pid[q[d][k]])
    BY <2>2 DEF IpcInv, NoMissedRendezvous, NoMatch
  <2>. QED BY <2>1, <2>2, <2>3
<1>14. CopyMatchesFilter'
  BY DEF IpcInv, CopyMatchesFilter, Accepts
<1>15. PeerKnown'
  <2>1. \A p, n \in Nat : p < n => p < n + 1
    BY SMTT(60)
  <2>2. \A t \in Slot : pc[t] = "sending" => call[t].peer < next_pid + 1
    BY <1>10, <2>1
  <2>. QED BY <1>3, <2>2 DEF PeerKnown
<1>16. EsrchMeansDead'
  <2>. SUFFICES ASSUME NEW t \in Slot, pc[t] = "sending", ipc_rc'[t] = IPC_ESRCH,
                       NEW d \in Slot, IsTaskByPid(call[t].peer, d)'
                PROVE  FALSE
    BY DEF EsrchMeansDead
  <2>1. d # s
    BY <1>3, <1>10, SMTT(60) DEF IsTaskByPid
  <2>2. t # s /\ ipc_rc[t] = IPC_ESRCH /\ IsTaskByPid(call[t].peer, d)
    BY <1>2, <1>10, <2>1 DEF IsTaskByPid
  <2>3. EsrchMeansDead
    BY DEF IpcInv
  <2>. QED BY <2>2, <2>3 DEF EsrchMeansDead
<1>. QED
  BY <1>5, <1>6, <1>7, <1>8, <1>9, <1>11, <1>12, <1>13, <1>14, <1>15, <1>16
  DEF IpcInv, QueueSound

(* task_create resets the slot itself (ipc_task_init).                     *)
LEMMA task_create_Inv ==
    ASSUME IpcInv, NEW s \in Slot, task_create(s)
    PROVE  IpcInv'
<1>1. ClaimSlot(s)
  BY DEF task_create
<1>2. ipc_state[s] = "IDLE"
  BY <1>1 DEF IpcInv, TypeOK, PhaseOK, TaskPhase, ClaimSlot
<1>3. ipc_state' = ipc_state
  BY <1>2 DEF task_create, IpcInv, TypeOK
<1>4. /\ ipc_rc' \in [Slot -> {OK, IPC_ESRCH}]
      /\ ipc_partner' \in [Slot -> Pid \cup {IPC_ANY}]
      /\ \A t \in Slot \ {s} : /\ ipc_partner'[t] = ipc_partner[t]
                               /\ ipc_rc'[t] = ipc_rc[t]
  BY DEF task_create, IpcInv, TypeOK, NoPid, IPC_ANY
<1>5. /\ ipc_sender_q' \in [Slot -> Seq(Slot)] /\ ipc_sender_q'[s] = <<>>
      /\ \A t \in Slot \ {s} : ipc_sender_q'[t] = ipc_sender_q[t]
  BY SMTT(60) DEF task_create, IpcInv, TypeOK
<1>6. \A d \in Slot : \A k \in 1..Len(ipc_sender_q'[d]) :
        k \in 1..Len(ipc_sender_q[d]) /\ ipc_sender_q'[d][k] = ipc_sender_q[d][k]
  <2>1. Len(ipc_sender_q'[s]) = 0
    BY <1>5, SMTT(60)
  <2>2. \A k \in 1..Len(ipc_sender_q'[s]) : FALSE
    BY <2>1, SMTT(60)
  <2>. QED BY <1>5, <2>2
<1>. QED BY <1>1, <1>3, <1>4, <1>5, <1>6, Claimed_Inv

(* task_fork does not: the new task inherits what the slot held.           *)
LEMMA task_fork_Inv ==
    ASSUME IpcInv, NEW s \in Slot, task_fork(s)
    PROVE  IpcInv'
<1>1. /\ ClaimSlot(s) /\ UNCHANGED <<ipc_state, ipc_partner, ipc_rc, ipc_sender_q>>
  BY DEF task_fork
<1>2. /\ ipc_sender_q \in [Slot -> Seq(Slot)] /\ ipc_rc \in [Slot -> {OK, IPC_ESRCH}]
      /\ ipc_partner \in [Slot -> Pid \cup {IPC_ANY}]
  BY DEF IpcInv, TypeOK
<1>. QED BY <1>1, <1>2, Claimed_Inv

(* SYS_SIGRETURN's way of ending a task leaves its senders queued; from    *)
(* then on nobody has the pid they send to.                                *)
LEMMA SYS_SIGRETURN_kill_Inv ==
    ASSUME IpcInv, NEW s \in Slot, SYS_SIGRETURN_kill(s)
    PROVE  IpcInv'
<1>. USE DEF SYS_SIGRETURN_kill, Forgotten, ipcvars
<1>1. TypeOK'
  BY DEF IpcInv, TypeOK
<1>2. PidsUnique'
  BY DEF IpcInv, TypeOK, PidsUnique
<1>3. PhaseOK'
  BY SMTT(60) DEF IpcInv, TypeOK, PhaseOK, TaskPhase, Accepts
<1>4. \A t \in Slot \ {s} : state'[t] = state[t] /\ pc'[t] = pc[t] /\ call'[t] = call[t]
  BY DEF IpcInv, TypeOK
<1>5. state'[s] = "DEAD" /\ pc'[s] = "user"
  BY DEF IpcInv, TypeOK
<1>6. \A d \in Slot : \A k \in 1..Len(ipc_sender_q[d]) : ipc_sender_q[d][k] \in Slot \ {s}
  BY SMTT(60) DEF IpcInv, TypeOK, QueueSound, QueueMembers
<1>7. QueueMembers'
  <2>1. QueueMembers
    BY DEF IpcInv, QueueSound
  <2>. QED BY <1>4, <1>6, <2>1, SMTT(60) DEF QueueMembers
<1>8. LinkedOnce'
  <2>1. LinkedOnce
    BY DEF IpcInv, QueueSound
  <2>. QED BY <2>1, SMTT(60) DEF LinkedOnce
<1>9. QueueHome'
  <2>. SUFFICES ASSUME NEW d \in Slot, NEW k \in 1..Len(ipc_sender_q[d])
                PROVE  \/ state'[d] # "DEAD" /\ ipc_partner[ipc_sender_q[d][k]] = pid[d]
                       \/ "sigreturn" \in Deaths /\ StillGone(ipc_partner[ipc_sender_q[d][k]])
    BY DEF QueueHome, Gone, StillGone, IsTaskByPid
  <2>. DEFINE to == ipc_partner[ipc_sender_q[d][k]]
  <2>1. \/ state[d] # "DEAD" /\ to = pid[d]
        \/ "sigreturn" \in Deaths /\ Gone(to)
    BY DEF IpcInv, QueueHome
  <2>2. Gone(to) => StillGone(to)
    BY <1>4, <1>5 DEF Gone, StillGone, IsTaskByPid
  <2>3. state[d] # "DEAD" /\ to = pid[d] /\ d # s => state'[d] # "DEAD"
    BY <1>4
  <2>4. d = s /\ to = pid[d] => StillGone(to)
    <3>1. pid[s] # NoPid /\ \A u \in Slot : pid[u] = pid[s] => u = s
      BY DEF IpcInv, PidsUnique
    <3>. QED BY <1>5, <3>1 DEF StillGone
  <2>. HIDE DEF to
  <2>. QED BY <2>1, <2>2, <2>3, <2>4 DEF to
<1>10. NoMissedRendezvous'
  BY DEF IpcInv, NoMissedRendezvous, NoMatch
<1>11. CopyMatchesFilter' /\ PeerKnown'
  BY <1>4, <1>5 DEF IpcInv, CopyMatchesFilter, PeerKnown, Accepts
<1>12. EsrchMeansDead'
  BY <1>4, <1>5, SMTT(60) DEF IpcInv, EsrchMeansDead, IsTaskByPid
<1>. QED
  BY <1>1, <1>2, <1>3, <1>7, <1>8, <1>9, <1>10, <1>11, <1>12 DEF IpcInv, QueueSound

(* What a slot holds, and that a step leaves it alone.                     *)
Same(t) ==
    /\ state'[t] = state[t] /\ pc'[t] = pc[t] /\ call'[t] = call[t]
    /\ ipc_state'[t] = ipc_state[t] /\ ipc_partner'[t] = ipc_partner[t]
    /\ ipc_rc'[t] = ipc_rc[t] /\ ipc_buf'[t] = ipc_buf[t]

(* The parts of the invariant that are about one slot and its own queue.   *)
LocalOK(t) ==
    /\ TaskPhase(t)
    /\ ipc_state[t] = "RECVING" => NoMatch(ipc_sender_q[t], ipc_partner[t])
    /\ pc[t] = "copy" => ipc_buf[t] # NoMsg /\ Accepts(call[t].peer, ipc_buf[t].src)

(* A slot that is neither a blocked sender nor becomes one.                *)
NotSending(t) ==
    /\ pc[t] = "sending" => state[t] # "BLOCKED"
    /\ pc'[t] # "sending"
    /\ state'[t] = "DEAD" <=> state[t] = "DEAD"

(* A step that leaves the queues alone, and changes only slots that are no *)
(* blocked senders and that are locally right again, keeps the invariant.  *)
LEMMA Frame_Inv ==
    ASSUME IpcInv, TypeOK', UNCHANGED <<pid, next_pid, ipc_sender_q>>,
           \A t \in Slot : Same(t) \/ (NotSending(t) /\ LocalOK(t)')
    PROVE  IpcInv'
<1>1. ASSUME NEW t \in Slot PROVE LocalOK(t)'
  <2>1. CASE Same(t)
    <3>1. LocalOK(t)
      BY DEF IpcInv, PhaseOK, NoMissedRendezvous, CopyMatchesFilter, LocalOK
    <3>2. TaskPhase(t)'
      BY <2>1, <3>1 DEF LocalOK, TaskPhase, Same
    <3>. QED BY <2>1, <3>1, <3>2 DEF LocalOK, NoMatch, Same
  <2>. QED BY <2>1
<1>2. PhaseOK' /\ NoMissedRendezvous' /\ CopyMatchesFilter'
  BY <1>1 DEF LocalOK, PhaseOK, NoMissedRendezvous, CopyMatchesFilter
<1>3. \A t \in Slot : state'[t] = "DEAD" <=> state[t] = "DEAD"
  BY DEF Same, NotSending
<1>4. \A t \in Slot : pc'[t] = "sending" \/ (pc[t] = "sending" /\ state[t] = "BLOCKED")
                      => Same(t)
  BY DEF NotSending
<1>5. PidsUnique'
  BY <1>3 DEF IpcInv, PidsUnique
<1>6. \A d \in Slot : \A k \in 1..Len(ipc_sender_q[d]) :
         /\ ipc_sender_q[d][k] \in Slot
         /\ pc[ipc_sender_q[d][k]] = "sending"
         /\ state[ipc_sender_q[d][k]] = "BLOCKED"
  BY SMTT(60) DEF IpcInv, TypeOK, QueueSound, QueueMembers
<1>7. \A d \in Slot : \A k \in 1..Len(ipc_sender_q[d]) : Same(ipc_sender_q[d][k])
  BY <1>4, <1>6
<1>8. QueueMembers'
  BY <1>7, SMTT(60) DEF IpcInv, QueueSound, QueueMembers, Same
<1>9. LinkedOnce'
  <2>1. LinkedOnce
    BY DEF IpcInv, QueueSound
  <2>. QED BY <2>1 DEF LinkedOnce
<1>10. QueueHome'
  <2>1. QueueHome
    BY DEF IpcInv
  <2>2. \A p : Gone(p) => StillGone(p)
    BY <1>3 DEF Gone, StillGone, IsTaskByPid
  <2>. SUFFICES ASSUME NEW d \in Slot, NEW k \in 1..Len(ipc_sender_q[d])
                PROVE  \/ state'[d] # "DEAD" /\ ipc_partner'[ipc_sender_q[d][k]] = pid[d]
                       \/ "sigreturn" \in Deaths /\ StillGone(ipc_partner'[ipc_sender_q[d][k]])
    BY DEF QueueHome, Gone, StillGone, IsTaskByPid
  <2>3. ipc_partner'[ipc_sender_q[d][k]] = ipc_partner[ipc_sender_q[d][k]]
    BY <1>7 DEF Same
  <2>. QED BY <1>3, <2>1, <2>2, <2>3 DEF QueueHome
<1>11. "sigreturn" \in Deaths \/ NoLostSender'
  <2>. SUFFICES ASSUME "sigreturn" \notin Deaths,
                       NEW t \in Slot, state'[t] = "BLOCKED", pc'[t] = "sending"
                PROVE  \E e \in Slot : IsTaskByPid(ipc_partner[t], e)' /\ Queued(t, e)'
    BY DEF NoLostSender
  <2>1. Same(t)
    BY <1>4
  <2>2. PICK e \in Slot : IsTaskByPid(ipc_partner[t], e) /\ Queued(t, e)
    BY <2>1 DEF IpcInv, NoLostSender, Same
  <2>3. IsTaskByPid(ipc_partner[t], e)' /\ Queued(t, e)'
    BY <1>3, <2>1, <2>2 DEF IsTaskByPid, Queued, Same
  <2>. QED BY <2>3
<1>12. PeerKnown'
  BY <1>4 DEF IpcInv, PeerKnown, Same
<1>13. EsrchMeansDead'
  <2>1. EsrchMeansDead
    BY DEF IpcInv
  <2>. QED BY <1>3, <1>4, <2>1, SMTT(60) DEF EsrchMeansDead, IsTaskByPid, Same
<1>. QED
  BY <1>2, <1>5, <1>8, <1>9, <1>10, <1>11, <1>12, <1>13 DEF IpcInv, QueueSound

(* Staging a message at the start of ipc_send keeps the invariant.         *)
LEMMA SYS_IPC_SEND_Inv ==
    ASSUME IpcInv, NEW s \in Slot, NEW c \in SendCall, NEW m \in Msg, SYS_IPC_SEND(s, c.kind, c.peer, m)
    PROVE  IpcInv'
<1>. USE DEF SYS_IPC_SEND, taskvars, ipcvars, uservars
<1>0. TypeOK /\ \A t \in Slot : LocalOK(t)
  BY DEF IpcInv, PhaseOK, NoMissedRendezvous, CopyMatchesFilter, LocalOK
<1>1. TypeOK'
  <2>1. [kind |-> c.kind, peer |-> c.peer] \in SendCall
    BY DEF SendCall
  <2>2. pid[s] \in Pid
    BY DEF IpcInv, TypeOK, PidsUnique
  <2>3. [src |-> pid[s], body |-> m] \in Message
    BY <2>2 DEF Message
  <2>. QED BY <1>0, <2>1, <2>3 DEF TypeOK
<1>2. UNCHANGED <<pid, next_pid, ipc_sender_q>>
  OBVIOUS
<1>3. \A t \in Slot \ {s} : Same(t)
  BY <1>0 DEF TypeOK, Same
<1>4. NotSending(s) /\ LocalOK(s)'
  BY <1>0 DEF NotSending, LocalOK, TaskPhase, TypeOK, NoMatch, SendCall, RecvCall,
     SendKinds, RecvKinds
<1>. QED
  BY <1>1, <1>2, <1>3, <1>4, Frame_Inv

(* Entering ipc_recv or ipc_nbrecv keeps it.                               *)
LEMMA SYS_IPC_RECV_Inv ==
    ASSUME IpcInv, NEW s \in Slot, NEW c \in RecvCall, SYS_IPC_RECV(s, c.kind, c.peer)
    PROVE  IpcInv'
<1>. USE DEF SYS_IPC_RECV, taskvars, ipcvars, uservars
<1>0. TypeOK /\ \A t \in Slot : LocalOK(t)
  BY DEF IpcInv, PhaseOK, NoMissedRendezvous, CopyMatchesFilter, LocalOK
<1>1. TypeOK'
  BY <1>0 DEF TypeOK, LocalOK, TaskPhase, SendCall, RecvCall, NoCall, Message, NoPid, IPC_ANY, OK
<1>2. UNCHANGED <<pid, next_pid, ipc_sender_q>>
  OBVIOUS
<1>3. \A t \in Slot \ {s} : Same(t)
  BY <1>0 DEF TypeOK, Same
<1>4. NotSending(s) /\ LocalOK(s)'
  BY <1>0 DEF NotSending, LocalOK, TaskPhase, TypeOK, NoMatch, SendCall, RecvCall,
     SendKinds, RecvKinds
<1>. QED
  BY <1>1, <1>2, <1>3, <1>4, Frame_Inv

(* Failing with ESRCH at once keeps it.                                    *)
LEMMA ipc_send_esrch_Inv ==
    ASSUME IpcInv, NEW s \in Slot, ipc_send_esrch(s)
    PROVE  IpcInv'
<1>. USE DEF ipc_send_esrch, ipc_send_returns, InSend, taskvars, ipcvars, uservars
<1>0. TypeOK /\ \A t \in Slot : LocalOK(t)
  BY DEF IpcInv, PhaseOK, NoMissedRendezvous, CopyMatchesFilter, LocalOK
<1>1. TypeOK'
  BY <1>0 DEF TypeOK
<1>2. UNCHANGED <<pid, next_pid, ipc_sender_q>>
  OBVIOUS
<1>3. \A t \in Slot \ {s} : Same(t)
  BY <1>0 DEF TypeOK, Same
<1>4. NotSending(s) /\ LocalOK(s)'
  BY <1>0 DEF NotSending, LocalOK, TaskPhase, TypeOK, NoMatch, OK, IPC_ESRCH
<1>. QED
  BY <1>1, <1>2, <1>3, <1>4, Frame_Inv

(* Handing the message to a waiting receiver keeps it.                     *)
LEMMA ipc_send_fast_Inv ==
    ASSUME IpcInv, NEW s \in Slot, NEW d \in Slot, ipc_send_fast(s, d)
    PROVE  IpcInv'
<1>. USE DEF ipc_send_fast, ipc_send_returns, InSend, taskvars, ipcvars, uservars
<1>0. TypeOK /\ \A t \in Slot : LocalOK(t)
  BY DEF IpcInv, PhaseOK, NoMissedRendezvous, CopyMatchesFilter, LocalOK
<1>1. TypeOK'
  BY <1>0 DEF TypeOK, NoPid, IPC_ANY, OK
<1>2. UNCHANGED <<pid, next_pid, ipc_sender_q>>
  OBVIOUS
<1>3. \A t \in Slot \ {s, d} : Same(t)
  BY <1>0 DEF TypeOK, Same
<1>4. NotSending(s) /\ LocalOK(s)'
  BY <1>0, SMTT(60) DEF NotSending, LocalOK, TaskPhase, TypeOK, NoMatch, OK, IPC_ESRCH
<1>5. NotSending(d) /\ LocalOK(d)'
  <2>1. /\ d # s /\ pc[d] = "recving" /\ ipc_partner[d] = call[d].peer
        /\ state[d] = "BLOCKED" /\ call[d].kind \in {"sendrec", "recv", "nbrecv"}
    BY <1>0 DEF LocalOK, TaskPhase
  <2>2. ipc_buf[s].src = pid[s] /\ pid[s] # NoPid
    BY <1>0 DEF LocalOK, TaskPhase, IpcInv, PidsUnique
  <2>3. /\ state'[d] = "READY" /\ pc'[d] = "recving" /\ call'[d] = call[d]
        /\ ipc_state'[d] = "IDLE" /\ ipc_rc'[d] = OK /\ ipc_buf'[d] = ipc_buf[s]
    BY <1>0, <2>1 DEF TypeOK
  <2>. QED BY <2>1, <2>2, <2>3, SMTT(60) DEF NotSending, LocalOK, TaskPhase, Accepts, NoMsg
<1>. QED
  BY <1>1, <1>2, <1>3, <1>4, <1>5, Frame_Inv

(* Returning from a blocked ipc_send keeps it.                             *)
LEMMA ipc_send_resume_Inv ==
    ASSUME IpcInv, NEW s \in Slot, ipc_send_resume(s)
    PROVE  IpcInv'
<1>. USE DEF ipc_send_resume, ipc_send_returns, taskvars, ipcvars, uservars
<1>0. TypeOK /\ \A t \in Slot : LocalOK(t)
  BY DEF IpcInv, PhaseOK, NoMissedRendezvous, CopyMatchesFilter, LocalOK
<1>1. TypeOK'
  BY <1>0 DEF TypeOK
<1>2. UNCHANGED <<pid, next_pid, ipc_sender_q>>
  OBVIOUS
<1>3. \A t \in Slot \ {s} : Same(t)
  BY <1>0 DEF TypeOK, Same
<1>4. NotSending(s) /\ LocalOK(s)'
  BY <1>0, SMTT(60) DEF NotSending, LocalOK, TaskPhase, TypeOK, NoMatch, OK, IPC_ESRCH
<1>. QED
  BY <1>1, <1>2, <1>3, <1>4, Frame_Inv

(* Blocking in ipc_recv keeps it.                                          *)
LEMMA ipc_recv_block_Inv ==
    ASSUME IpcInv, NEW s \in Slot, ipc_recv_block(s)
    PROVE  IpcInv'
<1>. USE DEF ipc_recv_block, InRecv, taskvars, ipcvars, uservars
<1>0. TypeOK /\ \A t \in Slot : LocalOK(t)
  BY DEF IpcInv, PhaseOK, NoMissedRendezvous, CopyMatchesFilter, LocalOK
<1>1. TypeOK'
  BY <1>0, SMTT(60) DEF TypeOK, SendCall, RecvCall, NoCall, NoPid, IPC_ANY, OK
<1>2. UNCHANGED <<pid, next_pid, ipc_sender_q>>
  OBVIOUS
<1>3. \A t \in Slot \ {s} : Same(t)
  BY <1>0 DEF TypeOK, Same
<1>4. NotSending(s) /\ LocalOK(s)'
  BY <1>0, SMTT(60) DEF NotSending, LocalOK, TaskPhase, TypeOK, NoMatch, OK, IPC_ESRCH
<1>. QED
  BY <1>1, <1>2, <1>3, <1>4, Frame_Inv

(* The empty-handed return of ipc_nbrecv keeps it.                         *)
LEMMA ipc_nbrecv_eagain_Inv ==
    ASSUME IpcInv, NEW s \in Slot, ipc_nbrecv_eagain(s)
    PROVE  IpcInv'
<1>. USE DEF ipc_nbrecv_eagain, InRecv, taskvars, ipcvars, uservars
<1>0. TypeOK /\ \A t \in Slot : LocalOK(t)
  BY DEF IpcInv, PhaseOK, NoMissedRendezvous, CopyMatchesFilter, LocalOK
<1>1. TypeOK'
  BY <1>0 DEF TypeOK
<1>2. UNCHANGED <<pid, next_pid, ipc_sender_q>>
  OBVIOUS
<1>3. \A t \in Slot \ {s} : Same(t)
  BY <1>0 DEF TypeOK, Same
<1>4. NotSending(s) /\ LocalOK(s)'
  BY <1>0 DEF NotSending, LocalOK, TaskPhase, TypeOK, NoMatch, OK, IPC_ESRCH
<1>. QED
  BY <1>1, <1>2, <1>3, <1>4, Frame_Inv

(* Returning from a blocked ipc_recv keeps it.                             *)
LEMMA ipc_recv_resume_Inv ==
    ASSUME IpcInv, NEW s \in Slot, ipc_recv_resume(s)
    PROVE  IpcInv'
<1>. USE DEF ipc_recv_resume, taskvars, ipcvars, uservars
<1>0. TypeOK /\ \A t \in Slot : LocalOK(t)
  BY DEF IpcInv, PhaseOK, NoMissedRendezvous, CopyMatchesFilter, LocalOK
<1>1. TypeOK'
  BY <1>0 DEF TypeOK
<1>2. UNCHANGED <<pid, next_pid, ipc_sender_q>>
  OBVIOUS
<1>3. \A t \in Slot \ {s} : Same(t)
  BY <1>0 DEF TypeOK, Same
<1>4. NotSending(s) /\ LocalOK(s)'
  BY <1>0, SMTT(60) DEF NotSending, LocalOK, TaskPhase, TypeOK, NoMatch, OK, IPC_ESRCH
<1>. QED
  BY <1>1, <1>2, <1>3, <1>4, Frame_Inv

(* Copying the message out to the caller keeps it.                         *)
LEMMA ipc_copy_out_Inv ==
    ASSUME IpcInv, NEW s \in Slot, ipc_copy_out(s)
    PROVE  IpcInv'
<1>. USE DEF ipc_copy_out, taskvars, ipcvars, uservars
<1>0. TypeOK /\ \A t \in Slot : LocalOK(t)
  BY DEF IpcInv, PhaseOK, NoMissedRendezvous, CopyMatchesFilter, LocalOK
<1>1. TypeOK'
  BY <1>0 DEF TypeOK
<1>2. UNCHANGED <<pid, next_pid, ipc_sender_q>>
  OBVIOUS
<1>3. \A t \in Slot \ {s} : Same(t)
  BY <1>0 DEF TypeOK, Same
<1>4. NotSending(s) /\ LocalOK(s)'
  BY <1>0 DEF NotSending, LocalOK, TaskPhase, TypeOK, NoMatch, OK, IPC_ESRCH
<1>. QED
  BY <1>1, <1>2, <1>3, <1>4, Frame_Inv

(* The inductive invariant holds of every behaviour, for any number of     *)
(* slots, pids and messages and however tasks end.                         *)
THEOREM IpcInvariant == Spec => []IpcInv
<1>1. Init => IpcInv
  <2>. SUFFICES ASSUME Init PROVE IpcInv
    OBVIOUS
  <2>. USE DEF Init
  <2>1. TypeOK
    BY IpcAssumption, SMTT(60) DEF TypeOK, Message, NoPid, IPC_ANY
  <2>2. \A d \in Slot : Len(ipc_sender_q[d]) = 0
    OBVIOUS
  <2>3. PidsUnique /\ PhaseOK /\ NoLostSender /\ CopyMatchesFilter /\ PeerKnown
        /\ EsrchMeansDead
    BY SMTT(60) DEF PidsUnique, PhaseOK, TaskPhase, NoLostSender, CopyMatchesFilter, PeerKnown,
           EsrchMeansDead, NoPid
  <2>4. QueueMembers /\ LinkedOnce /\ QueueHome /\ NoMissedRendezvous
    BY <2>2, SMTT(60) DEF QueueMembers, LinkedOnce, QueueHome, NoMissedRendezvous, NoMatch
  <2>. QED BY <2>1, <2>3, <2>4 DEF IpcInv, QueueSound
<1>2. IpcInv /\ [Next]_vars => IpcInv'
  <2>. SUFFICES ASSUME IpcInv, [Next]_vars PROVE IpcInv'
    OBVIOUS
  <2>1. CASE UNCHANGED vars
    <3>. USE <2>1 DEF vars, taskvars, ipcvars, uservars
    <3>1. TypeOK'
      BY DEF IpcInv, TypeOK
    <3>2. \A t \in Slot : Same(t)
      BY DEF Same
    <3>. QED BY <3>1, <3>2, Frame_Inv
  <2>2. CASE Next
    <3>1. PICK s \in Slot : Step(s)
      BY <2>2 DEF Next
    <3>. QED
      BY <3>1, SYS_IPC_SEND_Inv, SYS_IPC_RECV_Inv, ipc_send_esrch_Inv,
         ipc_send_fast_Inv, ipc_send_slow_Inv, ipc_send_resume_Inv,
         ipc_recv_dequeue_Inv, ipc_recv_block_Inv, ipc_nbrecv_eagain_Inv,
         ipc_recv_resume_Inv, ipc_copy_out_Inv, task_terminate_Inv,
         SYS_SIGRETURN_kill_Inv, task_create_Inv, task_fork_Inv
      DEF Step
  <2>. QED BY <2>1, <2>2
<1>. QED BY <1>1, <1>2, PTL DEF Spec

(* No task sleeps in ipc_recv with a sender that it accepts in its queue:  *)
(* of ipc_send and ipc_recv, the later one finds the other.                *)
THEOREM RendezvousNotMissed == Spec => []NoMissedRendezvous
<1>1. IpcInv => NoMissedRendezvous
  BY DEF IpcInv
<1>. QED BY <1>1, IpcInvariant, PTL

(* ipc_recv copies out a message of a sender that its caller asked for,    *)
(* although it copies with interrupts on.                                  *)
THEOREM CopiedMatchesFilter == Spec => []CopyMatchesFilter
<1>1. IpcInv => CopyMatchesFilter
  BY DEF IpcInv
<1>. QED BY <1>1, IpcInvariant, PTL

(* ipc_send fails with ESRCH only when nobody has the pid it was given,    *)
(* senders left in the queue of a reused slot included.                    *)
THEOREM EsrchIsTrue == Spec => []EsrchMeansDead
<1>1. IpcInv => EsrchMeansDead
  BY DEF IpcInv
<1>. QED BY <1>1, IpcInvariant, PTL

(* When every death goes through task_terminate, ipc_task_cleanup leaves   *)
(* nobody queued on the dead, and no blocked sender is in no queue.        *)
THEOREM SendersNotLost ==
    ASSUME "sigreturn" \notin Deaths
    PROVE  Spec => [](QueueSound /\ NoLostSender /\ DeadDetached)
<1>1. IpcInv => DeadDetached
  <2>. SUFFICES ASSUME IpcInv, NEW s \in Slot, state[s] = "DEAD"
                PROVE  ipc_sender_q[s] = <<>>
    BY DEF DeadDetached
  <2>1. ipc_sender_q[s] \in Seq(Slot)
    BY DEF IpcInv, TypeOK
  <2>2. 1 \notin 1..Len(ipc_sender_q[s])
    BY DEF IpcInv, QueueHome
  <2>3. Len(ipc_sender_q[s]) = 0
    BY <2>1, <2>2, SMTT(60)
  <2>. QED BY <2>1, <2>3, SMTT(60)
<1>2. IpcInv => QueueSound /\ NoLostSender
  BY DEF IpcInv
<1>. QED BY <1>1, <1>2, IpcInvariant, PTL

(* No task occurs twice in a queue.                                        *)
Distinct(q) == \A i, j \in 1..Len(q) : q[i] = q[j] => i = j

(* Who is in q and still in r is ahead of those that were behind it in q   *)
(* and of those that were not in q.                                        *)
Ordered(q, r) ==
    \A i \in 1..Len(q), m, n \in 1..Len(r) :
        q[i] = r[m] /\ (\A j \in 1..i : q[j] # r[n]) => m < n

(* What the code does to a queue, leave it, unlink one sender, empty it or *)
(* queue a new one at its tail, keeps the order of those that stay.        *)
LEMMA OrderKept ==
    ASSUME NEW q \in Seq(Slot), Distinct(q)
    PROVE  /\ Ordered(q, q) /\ Ordered(q, <<>>)
           /\ \A k \in 1..Len(q) : Ordered(q, Unlinked(q, k))
           /\ \A e \in Slot : (\A i \in 1..Len(q) : q[i] # e) => Ordered(q, Append(q, e))
<1>0. Len(q) \in Nat
  BY SMTT(60)
<1>1. Ordered(q, q)
  <2>. SUFFICES ASSUME NEW i \in 1..Len(q), NEW m \in 1..Len(q), NEW n \in 1..Len(q),
                       q[i] = q[m], \A j \in 1..i : q[j] # q[n]
                PROVE  m < n
    BY DEF Ordered
  <2>1. i = m
    BY DEF Distinct
  <2>2. n \notin 1..i
    OBVIOUS
  <2>. QED BY <1>0, <2>1, <2>2, SMTT(60)
<1>2. Ordered(q, <<>>)
  BY SMTT(60) DEF Ordered
<1>3. ASSUME NEW k \in 1..Len(q) PROVE Ordered(q, Unlinked(q, k))
  <2>. DEFINE r == Unlinked(q, k)
              old(x) == IF x < k THEN x ELSE x + 1
  <2>. SUFFICES ASSUME NEW i \in 1..Len(q), NEW m \in 1..Len(r), NEW n \in 1..Len(r),
                       q[i] = r[m], \A j \in 1..i : q[j] # r[n]
                PROVE  m < n
    BY DEF Ordered
  <2>1. Len(r) = Len(q) - 1 /\ r[m] = q[old(m)] /\ r[n] = q[old(n)]
    <3>1. Len(r) = Len(q) - 1
      BY UnlinkedFacts
    <3>2. \A x \in 1..(Len(q) - 1) : r[x] = q[old(x)]
      BY UnlinkedFacts
    <3>. HIDE DEF r, old
    <3>. QED BY <3>1, <3>2
  <2>2. old(m) \in 1..Len(q) /\ old(n) \in 1..Len(q)
    BY <1>0, <2>1, SMTT(60)
  <2>. HIDE DEF r, old
  <2>3. i = old(m) /\ old(n) \notin 1..i
    BY <2>1, <2>2 DEF Distinct
  <2>. QED BY <1>0, <2>1, <2>2, <2>3, SMTT(60) DEF old
<1>4. ASSUME NEW e \in Slot, \A i \in 1..Len(q) : q[i] # e
      PROVE  Ordered(q, Append(q, e))
  <2>. DEFINE r == Append(q, e)
  <2>. SUFFICES ASSUME NEW i \in 1..Len(q), NEW m \in 1..Len(r), NEW n \in 1..Len(r),
                       q[i] = r[m], \A j \in 1..i : q[j] # r[n]
                PROVE  m < n
    BY DEF Ordered
  <2>1. /\ Len(r) = Len(q) + 1 /\ r[Len(q) + 1] = e
        /\ \A x \in 1..Len(q) : r[x] = q[x]
    BY AppendFacts
  <2>. HIDE DEF r
  <2>2. m \in 1..Len(q) /\ i = m
    BY <1>0, <1>4, <2>1, SMTT(60) DEF Distinct
  <2>3. n \notin 1..i
    BY <1>0, <2>1, SMTT(60)
  <2>. QED BY <1>0, <2>1, <2>2, <2>3, SMTT(60)
<1>. QED BY <1>1, <1>2, <1>3, <1>4

(* Sender queues are FIFO: no step lets a sender get ahead of an older one *)
(* that stays queued.                                                      *)
THEOREM IpcQueueOrder == Spec => QueueOrder
<1>1. ASSUME IpcInv, [Next]_vars, NEW d \in Slot
      PROVE  Ordered(ipc_sender_q[d], ipc_sender_q'[d])
  <2>. DEFINE q == ipc_sender_q
  <2>1. q \in [Slot -> Seq(Slot)] /\ q[d] \in Seq(Slot) /\ Distinct(q[d])
    BY <1>1 DEF IpcInv, TypeOK, QueueSound, LinkedOnce, Distinct
  <2>2. CASE q' = q
    BY <2>1, <2>2, OrderKept
  <2>3. ASSUME NEW s \in Slot, NEW e \in Slot, ipc_send_slow(s, e)
        PROVE  Ordered(q[d], q'[d])
    <3>1. \A i \in 1..Len(q[d]) : q[d][i] # s
      BY <1>1, <2>3 DEF ipc_send_slow, InSend, IpcInv, QueueSound, QueueMembers
    <3>2. q'[d] = q[d] \/ q'[d] = Append(q[d], s)
      BY <2>1, <2>3 DEF ipc_send_slow
    <3>. QED BY <2>1, <3>1, <3>2, OrderKept
  <2>4. ASSUME NEW s \in Slot, NEW k \in 1..Len(q[s]), ipc_recv_dequeue(s, k)
        PROVE  Ordered(q[d], q'[d])
    <3>1. q'[d] = q[d] \/ (d = s /\ q'[d] = Unlinked(q[d], k))
      BY <2>1, <2>4 DEF ipc_recv_dequeue
    <3>. QED BY <2>1, <2>4, <3>1, OrderKept
  <2>5. ASSUME NEW s \in Slot, task_terminate(s)
        PROVE  Ordered(q[d], q'[d])
    <3>. DEFINE pos == CHOOSE k \in 1..Len(q[d]) : q[d][k] = s
    <3>1. \/ q'[d] = q[d] \/ q'[d] = <<>>
          \/ Queued(s, d) /\ q'[d] = Unlinked(q[d], pos)
      BY <2>5 DEF task_terminate, ipc_task_cleanup, ipc_detached_q
    <3>2. Queued(s, d) => pos \in 1..Len(q[d])
      BY DEF Queued
    <3>. HIDE DEF pos
    <3>. QED BY <2>1, <3>1, <3>2, OrderKept
  <2>6. ASSUME NEW s \in Slot, task_create(s)
        PROVE  Ordered(q[d], q'[d])
    <3>1. q'[d] = q[d] \/ q'[d] = <<>>
      BY <2>1, <2>6 DEF task_create
    <3>. QED BY <2>1, <3>1, OrderKept
  <2>7. CASE UNCHANGED vars
    BY <2>2, <2>7 DEF vars, ipcvars
  <2>8. CASE Next
    <3>1. PICK s \in Slot : Step(s)
      BY <2>8 DEF Next
    <3>. QED
      BY <2>2, <2>3, <2>4, <2>5, <2>6, <3>1
      DEF Step, SYS_SIGRETURN_kill, SYS_IPC_SEND, SYS_IPC_RECV, ipc_send_esrch, ipc_send_fast,
          ipc_send_resume, ipc_recv_block, ipc_nbrecv_eagain, ipc_recv_resume,
          ipc_copy_out, task_fork, ipcvars
  <2>. QED BY <1>1, <2>7, <2>8
<1>2. IpcInv /\ [Next]_vars =>
        [\A d \in Slot :
          \A i \in 1..Len(ipc_sender_q[d]), m, n \in 1..Len(ipc_sender_q'[d]) :
            /\ ipc_sender_q[d][i] = ipc_sender_q'[d][m]
            /\ \A j \in 1..i : ipc_sender_q[d][j] # ipc_sender_q'[d][n]
            => m < n]_vars
  BY <1>1 DEF Ordered
<1>. QED BY <1>2, IpcInvariant, PTL DEF Spec, QueueOrder

-----------------------------------------------------------------------------
(* Ipc implements the safety part of Rendezvous, for any number of slots,  *)
(* pids and messages: every step is a step of Rendezvous, or none, under   *)
(* the mapping of Ipc.  IpcInv carries the argument: that a queued         *)
(* sender's peer is the task that takes its message, that a woken receiver *)
(* holds what was sent, and that ESRCH is true.                            *)

(* A pid has one slot at most, so a live task is mapped by its own fields. *)
LEMMA LiveMapped ==
    ASSUME IpcInv, NEW s \in Slot, state[s] # "DEAD"
    PROVE  pid[s] \in Pid /\ taskOf[pid[s]] = AbsTask(s)
<1>1. pid[s] \in Pid
  BY DEF IpcInv, TypeOK, PidsUnique
<1>2. IsTaskByPid(pid[s], s) /\ \A u \in Slot : IsTaskByPid(pid[s], u) => u = s
  BY DEF IpcInv, PidsUnique, IsTaskByPid
<1>3. (CHOOSE u \in Slot : IsTaskByPid(pid[s], u)) = s
  BY <1>2
<1>. QED BY <1>1, <1>2, <1>3 DEF taskOf

(* A pid without a live task is dead if it was handed out, else unborn.    *)
LEMMA GoneMapped ==
    ASSUME NEW p \in Pid, \A u \in Slot : ~IsTaskByPid(p, u)
    PROVE  taskOf[p] = IF p < next_pid THEN [is |-> "dead"] ELSE [is |-> "unborn"]
  BY DEF taskOf

(* The same two facts about the state after a step.                        *)
LEMMA LiveMappedNext ==
    ASSUME IpcInv', NEW s \in Slot, state'[s] # "DEAD"
    PROVE  pid'[s] \in Pid /\ taskOf'[pid'[s]] = AbsTask(s)'
<1>1. pid'[s] \in Pid
  BY DEF IpcInv, TypeOK, PidsUnique
<1>2. IsTaskByPid(pid[s], s)' /\ \A u \in Slot : IsTaskByPid(pid[s], u)' => u = s
  BY DEF IpcInv, PidsUnique, IsTaskByPid
<1>3. (CHOOSE u \in Slot : IsTaskByPid(pid[s], u)') = s
  BY <1>2
<1>4. taskOf'[pid'[s]] = IF \E u \in Slot : IsTaskByPid(pid[s], u)'
                         THEN AbsTask(CHOOSE u \in Slot : IsTaskByPid(pid[s], u))'
                         ELSE IF pid'[s] < next_pid' THEN [is |-> "dead"] ELSE [is |-> "unborn"]
  BY <1>1 DEF taskOf, IsTaskByPid
<1>. QED BY <1>1, <1>2, <1>3, <1>4

LEMMA GoneMappedNext ==
    ASSUME NEW p \in Pid, StillGone(p)
    PROVE  taskOf'[p] = IF p < next_pid' THEN [is |-> "dead"] ELSE [is |-> "unborn"]
  BY DEF taskOf, StillGone, IsTaskByPid

(* What a task is mapped to, by where it is.                               *)
LEMMA AbsTaskIs ==
    ASSUME NEW s \in Slot
    PROVE  /\ pc[s] = "user" => AbsTask(s) = [is |-> "idle"]
           /\ pc[s] = "send" => AbsTask(s) = AbsSending(s)
           /\ pc[s] = "sending" /\ (state[s] = "BLOCKED" \/ ipc_rc[s] = IPC_ESRCH)
                => AbsTask(s) = AbsSending(s)
           /\ pc[s] = "sending" /\ state[s] = "READY" /\ ipc_rc[s] = OK
                => AbsTask(s) = IF call[s].kind = "sendrec" THEN AbsReceiving(s) ELSE [is |-> "sent"]
           /\ pc[s] = "recv" => AbsTask(s) = AbsReceiving(s)
           /\ pc[s] = "recving" /\ state[s] = "BLOCKED" => AbsTask(s) = AbsReceiving(s)
           /\ pc[s] = "recving" /\ state[s] = "READY" => AbsTask(s) = AbsGot(s)
           /\ pc[s] = "copy" => AbsTask(s) = AbsGot(s)
  BY DEF AbsTask, OK, IPC_ESRCH

LEMMA AbsTaskWillBe ==
    ASSUME NEW s \in Slot
    PROVE  /\ pc'[s] = "user" => AbsTask(s)' = [is |-> "idle"]
           /\ pc'[s] = "send" => AbsTask(s)' = AbsSending(s)'
           /\ pc'[s] = "sending" /\ (state'[s] = "BLOCKED" \/ ipc_rc'[s] = IPC_ESRCH)
                => AbsTask(s)' = AbsSending(s)'
           /\ pc'[s] = "sending" /\ state'[s] = "READY" /\ ipc_rc'[s] = OK
                => AbsTask(s)' = IF call'[s].kind = "sendrec" THEN AbsReceiving(s)' ELSE [is |-> "sent"]
           /\ pc'[s] = "recv" => AbsTask(s)' = AbsReceiving(s)'
           /\ pc'[s] = "recving" /\ state'[s] = "BLOCKED" => AbsTask(s)' = AbsReceiving(s)'
           /\ pc'[s] = "recving" /\ state'[s] = "READY" => AbsTask(s)' = AbsGot(s)'
           /\ pc'[s] = "copy" => AbsTask(s)' = AbsGot(s)'
  BY DEF AbsTask, OK, IPC_ESRCH

(* A step that leaves a task's fields alone leaves its mapping alone.      *)
LEMMA SameMapped ==
    ASSUME NEW s \in Slot, Same(s)
    PROVE  AbsTask(s)' = AbsTask(s)
  BY DEF Same, AbsTask, AbsSending, AbsReceiving, AbsGot

(* A step that neither starts nor ends a task changes the mapping at the   *)
(* pids of the slots whose mapping it changes.                             *)
LEMMA Pointwise ==
    ASSUME IpcInv, IpcInv', UNCHANGED <<pid, next_pid>>,
           \A u \in Slot : state'[u] = "DEAD" <=> state[u] = "DEAD",
           NEW S \in SUBSET Slot, \A u \in Slot \ S : state[u] # "DEAD" => AbsTask(u)' = AbsTask(u),
           NEW p \in Pid, \A u \in S : pid[u] # p
    PROVE  taskOf'[p] = taskOf[p]
<1>1. CASE \E u \in Slot : IsTaskByPid(p, u)
  <2>1. PICK u \in Slot : pid[u] = p /\ state[u] # "DEAD"
    BY <1>1 DEF IsTaskByPid
  <2>2. taskOf[p] = AbsTask(u)
    BY <2>1, LiveMapped
  <2>3. taskOf'[p] = AbsTask(u)'
    BY <2>1, LiveMappedNext
  <2>. QED BY <2>1, <2>2, <2>3
<1>2. CASE \A u \in Slot : ~IsTaskByPid(p, u)
  <2>1. StillGone(p)
    BY <1>2 DEF StillGone, IsTaskByPid
  <2>. QED BY <1>2, <2>1, GoneMapped, GoneMappedNext
<1>. QED BY <1>1, <1>2

(* The mapping is a function on pids.                                      *)
LEMMA MapIs == taskOf = [p \in Pid |-> taskOf[p]] /\ taskOf' = [p \in Pid |-> taskOf'[p]]
<1>1. taskOf = [p \in Pid |-> taskOf[p]]
  BY DEF taskOf
<1>2. taskOf' = [p \in Pid |-> taskOf'[p]]
  BY DEF taskOf
<1>. QED BY <1>1, <1>2

(* A mapping that changes at one pid only.                                 *)
LEMMA Updated ==
    ASSUME NEW p \in Pid, NEW a, taskOf'[p] = a, \A q \in Pid : q # p => taskOf'[q] = taskOf[q]
    PROVE  taskOf' = [taskOf EXCEPT ![p] = a]
<1>1. [q \in Pid |-> taskOf'[q]] = [q \in Pid |-> IF q = p THEN a ELSE taskOf[q]]
  OBVIOUS
<1>2. [taskOf EXCEPT ![p] = a] = [q \in Pid |-> IF q = p THEN a ELSE taskOf[q]]
  <2>1. taskOf = [q \in Pid |-> taskOf[q]]
    BY MapIs
  <2>. QED BY <2>1
<1>. QED BY <1>1, <1>2, MapIs

(* No pid, one pid, or two change.                                         *)
LEMMA NoneChanged ==
    ASSUME IpcInv, IpcInv', UNCHANGED <<pid, next_pid>>,
           \A u \in Slot : state'[u] = "DEAD" <=> state[u] = "DEAD",
           \A u \in Slot : state[u] # "DEAD" => AbsTask(u)' = AbsTask(u)
    PROVE  taskOf' = taskOf
<1>1. ASSUME NEW p \in Pid PROVE taskOf'[p] = taskOf[p]
  <2>1. {} \in SUBSET Slot /\ (\A u \in Slot \ {} : state[u] # "DEAD" => AbsTask(u)' = AbsTask(u))
    OBVIOUS
  <2>2. \A u \in {} : pid[u] # p
    BY <1>1
  <2>. QED BY <2>1, <2>2, Pointwise
<1>2. [p \in Pid |-> taskOf'[p]] = [p \in Pid |-> taskOf[p]]
  BY <1>1
<1>. QED BY <1>2, MapIs

LEMMA OneChanged ==
    ASSUME IpcInv, IpcInv', UNCHANGED <<pid, next_pid>>,
           \A u \in Slot : state'[u] = "DEAD" <=> state[u] = "DEAD",
           NEW s \in Slot, state[s] # "DEAD",
           \A u \in Slot \ {s} : state[u] # "DEAD" => AbsTask(u)' = AbsTask(u)
    PROVE  taskOf' = [taskOf EXCEPT ![pid[s]] = AbsTask(s)']
<1>1. ASSUME NEW p \in Pid, pid[s] # p PROVE taskOf'[p] = taskOf[p]
  <2>1. {s} \in SUBSET Slot /\ (\A u \in Slot \ {s} : state[u] # "DEAD" => AbsTask(u)' = AbsTask(u))
    OBVIOUS
  <2>2. \A u \in {s} : pid[u] # p
    BY <1>1
  <2>. QED BY <2>1, <2>2, Pointwise
<1>2. pid[s] \in Pid /\ taskOf'[pid[s]] = AbsTask(s)'
  BY LiveMappedNext
<1>. QED BY <1>1, <1>2, Updated

LEMMA TwoChanged ==
    ASSUME IpcInv, IpcInv', UNCHANGED <<pid, next_pid>>,
           \A u \in Slot : state'[u] = "DEAD" <=> state[u] = "DEAD",
           NEW s \in Slot, NEW t \in Slot, s # t, state[s] # "DEAD", state[t] # "DEAD",
           \A u \in Slot \ {s, t} : state[u] # "DEAD" => AbsTask(u)' = AbsTask(u)
    PROVE  taskOf' = [taskOf EXCEPT ![pid[s]] = AbsTask(s)', ![pid[t]] = AbsTask(t)']
<1>1. ASSUME NEW p \in Pid, pid[s] # p, pid[t] # p PROVE taskOf'[p] = taskOf[p]
  <2>1. {s, t} \in SUBSET Slot /\ (\A u \in Slot \ {s, t} : state[u] # "DEAD" => AbsTask(u)' = AbsTask(u))
    OBVIOUS
  <2>2. \A u \in {s, t} : pid[u] # p
    BY <1>1
  <2>. QED BY <2>1, <2>2, Pointwise
<1>2. /\ pid[s] \in Pid /\ taskOf'[pid[s]] = AbsTask(s)'
      /\ pid[t] \in Pid /\ taskOf'[pid[t]] = AbsTask(t)'
  BY LiveMappedNext
<1>3. pid[s] # pid[t]
  BY <1>2 DEF IpcInv, PidsUnique
<1>4. \A p \in Pid : taskOf'[p] = IF p = pid[s] THEN AbsTask(s)'
                                  ELSE IF p = pid[t] THEN AbsTask(t)' ELSE taskOf[p]
  BY <1>1, <1>2
<1>5. [p \in Pid |-> taskOf'[p]] = [p \in Pid |-> IF p = pid[s] THEN AbsTask(s)'
                                                  ELSE IF p = pid[t] THEN AbsTask(t)' ELSE taskOf[p]]
  BY <1>4
<1>6. [taskOf EXCEPT ![pid[s]] = AbsTask(s)', ![pid[t]] = AbsTask(t)']
        = [p \in Pid |-> IF p = pid[s] THEN AbsTask(s)' ELSE IF p = pid[t] THEN AbsTask(t)' ELSE taskOf[p]]
  <2>1. taskOf = [p \in Pid |-> taskOf[p]]
    BY MapIs
  <2>. QED BY <1>2, <1>3, <2>1
<1>. QED BY <1>5, <1>6, MapIs

-----------------------------------------------------------------------------
(* Step by step *)

(* A pid that no live task has is not live in Rendezvous either; one that  *)
(* a live task has is.                                                     *)
LEMMA NotLive ==
    ASSUME NEW p \in Pid, \A u \in Slot : ~IsTaskByPid(p, u)
    PROVE  ~Abs!Live(p)
<1>1. taskOf[p] = [is |-> "dead"] \/ taskOf[p] = [is |-> "unborn"]
  BY GoneMapped
<1>. QED BY <1>1, SMTT(60) DEF Abs!Live

(* A live task is mapped to a phase of a live one.                         *)
LEMMA AbsTaskLive ==
    ASSUME IpcInv, NEW s \in Slot, state[s] # "DEAD"
    PROVE  AbsTask(s).is \in {"idle", "send", "sent", "recv", "got"}
<1>1. /\ state[s] \in {"READY", "BLOCKED"} /\ ipc_rc[s] \in {OK, IPC_ESRCH}
      /\ pc[s] \in {"user", "send", "sending", "recv", "recving", "copy"}
  BY DEF IpcInv, TypeOK
<1>2. /\ [is |-> "idle"].is = "idle" /\ [is |-> "sent"].is = "sent"
      /\ AbsSending(s).is = "send" /\ AbsReceiving(s).is = "recv" /\ AbsGot(s).is = "got"
  BY DEF AbsSending, AbsReceiving, AbsGot
<1>. QED BY <1>1, <1>2, AbsTaskIs

LEMMA IsLive ==
    ASSUME IpcInv, NEW s \in Slot, state[s] # "DEAD"
    PROVE  Abs!Live(pid[s])
  BY LiveMapped, AbsTaskLive DEF Abs!Live

(* The fields of a sending task.                                           *)
LEMMA SendFields ==
    ASSUME NEW s \in Slot
    PROVE  /\ AbsSending(s).is = "send" /\ AbsSending(s).dst = call[s].peer
           /\ AbsSending(s).msg = ipc_buf[s].body
           /\ AbsSending(s).rpc = (call[s].kind = "sendrec")
           /\ AbsSending(s).offered = (pc[s] = "sending")
<1>1. ASSUME NEW a, NEW b, NEW c, NEW e
      PROVE  LET r == [is |-> "send", dst |-> a, msg |-> b, rpc |-> c, offered |-> e]
             IN  r.is = "send" /\ r.dst = a /\ r.msg = b /\ r.rpc = c /\ r.offered = e
  OBVIOUS
<1>. QED BY <1>1 DEF AbsSending

(* The fields of a task that receives, has received or has sent.           *)
LEMMA RecvFields ==
    ASSUME NEW s \in Slot
    PROVE  /\ AbsReceiving(s).is = "recv" /\ AbsReceiving(s).from = call[s].peer
           /\ AbsGot(s).is = "got" /\ [is |-> "sent"].is = "sent"
<1>1. ASSUME NEW a, NEW b
      PROVE  /\ [is |-> "recv", from |-> a, nb |-> b].is = "recv"
             /\ [is |-> "recv", from |-> a, nb |-> b].from = a
             /\ [is |-> "got", src |-> a, msg |-> b].is = "got"
             /\ [is |-> "sent"].is = "sent"
  OBVIOUS
<1>. QED BY <1>1 DEF AbsReceiving, AbsGot

(* Entering ipc_send or ipc_sendrec is CallSend.                           *)
LEMMA SYS_IPC_SEND_Maps ==
    ASSUME IpcInv, IpcInv', NEW s \in Slot, NEW c \in SendCall, NEW m \in Msg,
           SYS_IPC_SEND(s, c.kind, c.peer, m)
    PROVE  Abs!AbsNext
<1>1. /\ state[s] = "READY" /\ pc[s] = "user" /\ c.peer \in Pid /\ c.peer # pid[s]
      /\ pc'[s] = "send" /\ call'[s].kind = c.kind /\ call'[s].peer = c.peer
      /\ ipc_buf'[s].body = m
      /\ UNCHANGED <<pid, next_pid, state>>
      /\ \A u \in Slot \ {s} : Same(u)
  BY SMTT(60) DEF IpcInv, TypeOK, SYS_IPC_SEND, taskvars, SendCall, Same
<1>2. taskOf' = [taskOf EXCEPT ![pid[s]] = AbsTask(s)']
  BY <1>1, SameMapped, OneChanged
<1>3. AbsTask(s)' = [is |-> "send", dst |-> c.peer, msg |-> m,
                     rpc |-> c.kind = "sendrec", offered |-> FALSE]
  BY <1>1, AbsTaskWillBe DEF AbsSending
<1>4. pid[s] \in Pid /\ taskOf[pid[s]] = [is |-> "idle"]
  BY <1>1, LiveMapped, AbsTaskIs
<1>5. Abs!CallSend(pid[s], c.peer, m, c.kind = "sendrec")
  BY <1>1, <1>2, <1>3 DEF Abs!CallSend, Abs!Becomes
<1>. QED BY <1>1, <1>4, <1>5 DEF Abs!AbsNext, Abs!Call, Abs!Idle

(* Entering ipc_recv or ipc_nbrecv is CallRecv.                            *)
LEMMA SYS_IPC_RECV_Maps ==
    ASSUME IpcInv, IpcInv', NEW s \in Slot, NEW c \in RecvCall, SYS_IPC_RECV(s, c.kind, c.peer)
    PROVE  Abs!AbsNext
<1>1. /\ state[s] = "READY" /\ pc[s] = "user" /\ c.peer \in Pid \cup {IPC_ANY}
      /\ pc'[s] = "recv" /\ call'[s].kind = c.kind /\ call'[s].peer = c.peer
      /\ UNCHANGED <<pid, next_pid, state>>
      /\ \A u \in Slot \ {s} : Same(u)
  BY SMTT(60) DEF IpcInv, TypeOK, SYS_IPC_RECV, taskvars, ipcvars, RecvCall, Same
<1>2. taskOf' = [taskOf EXCEPT ![pid[s]] = AbsTask(s)']
  BY <1>1, SameMapped, OneChanged
<1>3. AbsTask(s)' = [is |-> "recv", from |-> c.peer, nb |-> c.kind = "nbrecv"]
  BY <1>1, AbsTaskWillBe DEF AbsReceiving
<1>4. pid[s] \in Pid /\ taskOf[pid[s]] = [is |-> "idle"]
  BY <1>1, LiveMapped, AbsTaskIs
<1>5. Abs!CallRecv(pid[s], c.peer, c.kind = "nbrecv")
  BY <1>1, <1>2, <1>3 DEF Abs!CallRecv, Abs!Becomes
<1>. QED BY <1>1, <1>4, <1>5 DEF Abs!AbsNext, Abs!Call, Abs!Idle

(* A call that returns to user space leaves the task idle, and nobody else *)
(* changes.                                                                *)
LEMMA Returns ==
    ASSUME IpcInv, IpcInv', NEW s \in Slot, state[s] = "READY", pc'[s] = "user",
           UNCHANGED <<pid, next_pid, state>>, \A u \in Slot \ {s} : Same(u)
    PROVE  pid[s] \in Pid /\ Abs!Becomes(pid[s], Abs!Idle)
<1>1. taskOf' = [taskOf EXCEPT ![pid[s]] = AbsTask(s)']
  BY SameMapped, OneChanged
<1>2. AbsTask(s)' = [is |-> "idle"]
  BY AbsTaskWillBe
<1>. QED BY <1>1, <1>2, LiveMapped DEF Abs!Becomes, Abs!Idle

(* A send to a pid without a task is Fail.                                 *)
LEMMA ipc_send_esrch_Maps ==
    ASSUME IpcInv, IpcInv', NEW s \in Slot, ipc_send_esrch(s)
    PROVE  Abs!AbsNext
<1>1. /\ state[s] = "READY" /\ pc[s] = "send" /\ pc'[s] = "user"
      /\ UNCHANGED <<pid, next_pid, state>>
      /\ \A u \in Slot \ {s} : Same(u)
  BY SMTT(60) DEF IpcInv, TypeOK, ipc_send_esrch, InSend, ipc_send_returns, taskvars, ipcvars, Same, OK, IPC_ESRCH
<1>2. call[s].peer \in Pid
  BY <1>1 DEF IpcInv, PhaseOK, TaskPhase, SendCall
<1>3. taskOf[pid[s]].is = "send" /\ taskOf[pid[s]].dst = call[s].peer
  <2>1. taskOf[pid[s]] = AbsSending(s)
    BY <1>1, LiveMapped, AbsTaskIs
  <2>. QED BY <2>1, SendFields
<1>4. ~Abs!Live(call[s].peer)
  BY <1>2, NotLive DEF ipc_send_esrch
<1>5. Abs!Fail(pid[s])
  BY <1>1, <1>3, <1>4, Returns DEF Abs!Fail
<1>. QED BY <1>1, <1>5, Returns DEF Abs!AbsNext

(* The fast path, straight into a waiting receiver's buffer, is Exchange.  *)
LEMMA ipc_send_fast_Maps ==
    ASSUME IpcInv, IpcInv', NEW s \in Slot, NEW d \in Slot, ipc_send_fast(s, d)
    PROVE  Abs!AbsNext
<1>1. /\ state[s] = "READY" /\ pc[s] = "send" /\ call[s] \in SendCall
      /\ ipc_buf[s].src = pid[s]
      /\ pid[d] = call[s].peer /\ state[d] = "BLOCKED" /\ pc[d] = "recving"
      /\ ipc_partner[d] = call[d].peer /\ Accepts(call[d].peer, pid[s])
  BY DEF IpcInv, TypeOK, PhaseOK, TaskPhase, ipc_send_fast, InSend, IsTaskByPid
<1>2. s # d
  BY <1>1
<1>3. /\ UNCHANGED <<pid, next_pid>> /\ state'[d] = "READY" /\ state'[s] = "READY"
      /\ pc'[d] = "recving" /\ ipc_buf'[d] = ipc_buf[s]
      /\ pc'[s] = IF call[s].kind = "sendrec" THEN "recv" ELSE "user"
      /\ call[s].kind = "sendrec" => call'[s] = call[s]
      /\ \A u \in Slot \ {s, d} : Same(u)
  BY <1>1, <1>2, SMTT(60) DEF IpcInv, TypeOK, ipc_send_fast, ipc_send_returns, Same, OK
<1>4. \A u \in Slot : state'[u] = "DEAD" <=> state[u] = "DEAD"
  BY <1>1, <1>3 DEF Same
<1>5. taskOf' = [taskOf EXCEPT ![pid[s]] = AbsTask(s)', ![pid[d]] = AbsTask(d)']
  BY <1>1, <1>2, <1>3, <1>4, SameMapped, TwoChanged
<1>6. /\ pid[s] \in Pid /\ taskOf[pid[s]].is = "send" /\ taskOf[pid[s]].dst = pid[d]
      /\ taskOf[pid[s]].msg = ipc_buf[s].body /\ taskOf[pid[s]].offered = FALSE
      /\ taskOf[pid[s]].rpc = (call[s].kind = "sendrec")
  <2>1. pid[s] \in Pid /\ taskOf[pid[s]] = AbsSending(s) /\ (pc[s] = "sending") = FALSE
    BY <1>1, LiveMapped, AbsTaskIs
  <2>. QED BY <1>1, <2>1, SendFields
<1>7. pid[d] \in Pid /\ taskOf[pid[d]].is = "recv" /\ taskOf[pid[d]].from = call[d].peer
  <2>1. pid[d] \in Pid /\ taskOf[pid[d]] = AbsReceiving(d)
    BY <1>1, LiveMapped, AbsTaskIs
  <2>. QED BY <2>1, RecvFields
<1>8. AbsTask(d)' = [is |-> "got", src |-> pid[s], msg |-> taskOf[pid[s]].msg]
  BY <1>1, <1>3, <1>6, AbsTaskWillBe DEF AbsGot
<1>9. AbsTask(s)' = IF call[s].kind = "sendrec" THEN [is |-> "recv", from |-> pid[d], nb |-> FALSE]
                    ELSE [is |-> "idle"]
  BY <1>1, <1>3, AbsTaskWillBe DEF AbsReceiving
<1>10. Abs!Meets(pid[s], pid[d])
  BY <1>1, <1>6, <1>7 DEF Abs!Meets, Accepts
<1>11. AbsTask(s)' \in IF taskOf[pid[s]].rpc THEN {[is |-> "recv", from |-> pid[d], nb |-> FALSE]}
                       ELSE IF taskOf[pid[s]].offered THEN {Abs!Sent} ELSE {Abs!Idle}
  BY <1>6, <1>9 DEF Abs!Idle
<1>12. Abs!Exchange(pid[s], pid[d])
  BY <1>5, <1>8, <1>10, <1>11 DEF Abs!Exchange
<1>. QED BY <1>6, <1>7, <1>12 DEF Abs!AbsNext

(* Queueing is Offer.                                                      *)
LEMMA ipc_send_slow_Maps ==
    ASSUME IpcInv, IpcInv', NEW s \in Slot, NEW d \in Slot, ipc_send_slow(s, d)
    PROVE  Abs!AbsNext
<1>1. /\ state[s] = "READY" /\ pc[s] = "send" /\ state'[s] = "BLOCKED" /\ pc'[s] = "sending"
      /\ call' = call /\ ipc_buf' = ipc_buf
      /\ pid[d] = call[s].peer /\ state[d] # "DEAD"
      /\ UNCHANGED <<pid, next_pid>>
      /\ \A u \in Slot : state'[u] = "DEAD" <=> state[u] = "DEAD"
      /\ \A u \in Slot \ {s} : AbsTask(u)' = AbsTask(u)
  BY SMTT(60) DEF IpcInv, TypeOK, ipc_send_slow, InSend, IsTaskByPid, AbsTask, AbsSending, AbsReceiving, AbsGot
<1>2. taskOf' = [taskOf EXCEPT ![pid[s]] = AbsTask(s)']
  BY <1>1, OneChanged
<1>3. pid[s] \in Pid /\ taskOf[pid[s]] = [is |-> "send", dst |-> call[s].peer, msg |-> ipc_buf[s].body,
                                          rpc |-> call[s].kind = "sendrec", offered |-> FALSE]
  BY <1>1, LiveMapped, AbsTaskIs DEF AbsSending
<1>4. AbsTask(s)' = [is |-> "send", dst |-> call[s].peer, msg |-> ipc_buf[s].body,
                     rpc |-> call[s].kind = "sendrec", offered |-> TRUE]
  BY <1>1, AbsTaskWillBe DEF AbsSending
<1>5. AbsTask(s)' = [taskOf[pid[s]] EXCEPT !.offered = TRUE]
  <2>1. PICK to, b, rpc, no, yes :
            /\ to = call[s].peer /\ b = ipc_buf[s].body /\ rpc = (call[s].kind = "sendrec")
            /\ no = FALSE /\ yes = TRUE
    OBVIOUS
  <2>2. taskOf[pid[s]] = [is |-> "send", dst |-> to, msg |-> b, rpc |-> rpc, offered |-> no]
    BY <1>3, <2>1
  <2>3. AbsTask(s)' = [is |-> "send", dst |-> to, msg |-> b, rpc |-> rpc, offered |-> yes]
    BY <1>4, <2>1
  <2>4. [[is |-> "send", dst |-> to, msg |-> b, rpc |-> rpc, offered |-> no] EXCEPT !.offered = yes]
          = [is |-> "send", dst |-> to, msg |-> b, rpc |-> rpc, offered |-> yes]
    BY SMTT(60)
  <2>. QED BY <2>1, <2>2, <2>3, <2>4
<1>6. Abs!Live(taskOf[pid[s]].dst)
  BY <1>1, <1>3, IsLive, SMTT(60)
<1>7. Abs!Offer(pid[s])
  BY <1>2, <1>3, <1>5, <1>6, SMTT(60) DEF Abs!Offer, Abs!Becomes
<1>. QED BY <1>3, <1>7 DEF Abs!AbsNext

(* A woken sender returns, goes on to the receive of its sendrec, or fails *)
(* with ESRCH.                                                             *)
LEMMA ipc_send_resume_Maps ==
    ASSUME IpcInv, IpcInv', NEW s \in Slot, ipc_send_resume(s)
    PROVE  Abs!AbsNext \/ taskOf' = taskOf
<1>1. /\ state[s] = "READY" /\ pc[s] = "sending"
      /\ UNCHANGED <<pid, next_pid, state>>
      /\ \A u \in Slot \ {s} : Same(u)
      /\ ipc_rc[s] \in {OK, IPC_ESRCH}
  BY SMTT(60) DEF IpcInv, TypeOK, ipc_send_resume, ipc_send_returns, taskvars, Same
<1>2. CASE ipc_rc[s] = OK /\ call[s].kind = "sendrec"
  <2>1. pc'[s] = "recv" /\ call'[s] = call[s]
    BY <1>2, SMTT(60) DEF IpcInv, TypeOK, ipc_send_resume, ipc_send_returns
  <2>2. AbsTask(s)' = AbsTask(s)
    BY <1>1, <1>2, <2>1, AbsTaskIs, AbsTaskWillBe DEF AbsReceiving
  <2>. QED BY <1>1, <2>2, SameMapped, NoneChanged
<1>3. CASE ipc_rc[s] = OK /\ call[s].kind # "sendrec"
  <2>1. pc'[s] = "user"
    BY <1>3, SMTT(60) DEF IpcInv, TypeOK, ipc_send_resume, ipc_send_returns
  <2>2. taskOf[pid[s]].is = "sent"
    <3>1. taskOf[pid[s]] = [is |-> "sent"]
      BY <1>1, <1>3, LiveMapped, AbsTaskIs
    <3>. QED BY <3>1, RecvFields
  <2>3. pid[s] \in Pid /\ Abs!Return(pid[s])
    BY <1>1, <2>1, <2>2, Returns DEF Abs!Return
  <2>. QED BY <2>3 DEF Abs!AbsNext
<1>4. CASE ipc_rc[s] = IPC_ESRCH
  <2>1. pc'[s] = "user"
    BY <1>4, SMTT(60) DEF IpcInv, TypeOK, ipc_send_resume, ipc_send_returns, OK, IPC_ESRCH
  <2>2. call[s].peer \in Pid
    BY <1>1 DEF IpcInv, PhaseOK, TaskPhase, SendCall
  <2>3. taskOf[pid[s]].is = "send" /\ taskOf[pid[s]].dst = call[s].peer
    <3>1. taskOf[pid[s]] = AbsSending(s)
      BY <1>1, <1>4, LiveMapped, AbsTaskIs
    <3>. QED BY <3>1, SendFields
  <2>4. ~Abs!Live(call[s].peer)
    BY <1>1, <1>4, <2>2, NotLive DEF IpcInv, EsrchMeansDead
  <2>5. pid[s] \in Pid /\ Abs!Fail(pid[s])
    BY <1>1, <2>1, <2>3, <2>4, Returns DEF Abs!Fail
  <2>. QED BY <2>5 DEF Abs!AbsNext
<1>. QED BY <1>1, <1>2, <1>3, <1>4

(* Taking a queued sender's message is Exchange: without a sigreturn       *)
(* death, whoever is queued on a slot sends to the task in it.             *)
LEMMA ipc_recv_dequeue_Maps ==
    ASSUME "sigreturn" \notin Deaths, IpcInv, IpcInv', NEW s \in Slot,
           NEW k \in 1..Len(ipc_sender_q[s]), ipc_recv_dequeue(s, k)
    PROVE  Abs!AbsNext
<1>0. PICK t \in Slot : t = ipc_sender_q[s][k]
  BY SMTT(60) DEF IpcInv, TypeOK
<1>1. state[s] = "READY" /\ pc[s] = "recv" /\ Accepts(call[s].peer, pid[t])
  BY <1>0 DEF IpcInv, TypeOK, ipc_recv_dequeue, InRecv, IsFirstMatch
<1>2. state[t] = "BLOCKED" /\ pc[t] = "sending" /\ ipc_state[t] = "SENDING" /\ ipc_buf[t].src = pid[t]
  BY <1>0, SMTT(60) DEF IpcInv, QueueSound, QueueMembers
<1>3. ipc_partner[t] = pid[s] /\ ipc_partner[t] = call[t].peer
  BY <1>0, <1>1, <1>2 DEF IpcInv, QueueHome, PhaseOK, TaskPhase
<1>4. s # t
  BY <1>1, <1>2
<1>5. /\ UNCHANGED <<pid, next_pid, call>> /\ state'[t] = "READY" /\ state'[s] = "READY"
      /\ pc'[s] = "copy" /\ pc'[t] = "sending" /\ ipc_buf'[s] = ipc_buf[t] /\ ipc_rc'[t] = OK
      /\ \A u \in Slot \ {s, t} : /\ state'[u] = state[u] /\ pc'[u] = pc[u] /\ ipc_rc'[u] = ipc_rc[u]
                                  /\ ipc_buf'[u] = ipc_buf[u]
  BY <1>0, <1>1, <1>2, <1>4, SMTT(60) DEF IpcInv, TypeOK, ipc_recv_dequeue
<1>6. \A u \in Slot : state'[u] = "DEAD" <=> state[u] = "DEAD"
  BY <1>1, <1>2, <1>5
<1>7. \A u \in Slot \ {s, t} : AbsTask(u)' = AbsTask(u)
  BY <1>5 DEF AbsTask, AbsSending, AbsReceiving, AbsGot
<1>8. taskOf' = [taskOf EXCEPT ![pid[t]] = AbsTask(t)', ![pid[s]] = AbsTask(s)']
  <2>1. t # s /\ state[t] # "DEAD" /\ state[s] # "DEAD" /\ UNCHANGED <<pid, next_pid>>
    BY <1>1, <1>2, <1>4, <1>5
  <2>2. \A u \in Slot \ {t, s} : state[u] # "DEAD" => AbsTask(u)' = AbsTask(u)
    BY <1>7
  <2> QED
    BY <1>6, <2>1, <2>2, TwoChanged
<1>9. /\ pid[t] \in Pid /\ taskOf[pid[t]].is = "send" /\ taskOf[pid[t]].dst = pid[s]
      /\ taskOf[pid[t]].msg = ipc_buf[t].body /\ taskOf[pid[t]].offered = TRUE
      /\ taskOf[pid[t]].rpc = (call[t].kind = "sendrec")
  <2>1. pid[t] \in Pid /\ taskOf[pid[t]] = AbsSending(t) /\ (pc[t] = "sending") = TRUE
    BY <1>1, <1>2, LiveMapped, AbsTaskIs
  <2>. QED BY <1>1, <1>3, <2>1, SendFields
<1>10. pid[s] \in Pid /\ taskOf[pid[s]].is = "recv" /\ taskOf[pid[s]].from = call[s].peer
  <2>1. pid[s] \in Pid /\ taskOf[pid[s]] = AbsReceiving(s)
    BY <1>1, LiveMapped, AbsTaskIs
  <2>. QED BY <2>1, RecvFields
<1>11. AbsTask(s)' = [is |-> "got", src |-> pid[t], msg |-> taskOf[pid[t]].msg]
  <2>1. AbsTask(s)' = AbsGot(s)'
    BY <1>5, AbsTaskWillBe
  <2>2. ipc_buf'[s].src = pid[t] /\ ipc_buf'[s].body = taskOf[pid[t]].msg
    BY <1>2, <1>5, <1>9
  <2>. QED BY <2>1, <2>2 DEF AbsGot
<1>12. AbsTask(t)' = IF call[t].kind = "sendrec" THEN [is |-> "recv", from |-> pid[s], nb |-> FALSE]
                     ELSE [is |-> "sent"]
  BY <1>1, <1>3, <1>5, AbsTaskWillBe DEF AbsReceiving
<1>13. Abs!Meets(pid[t], pid[s])
  BY <1>1, <1>9, <1>10 DEF Abs!Meets, Accepts
<1>14. AbsTask(t)' \in IF taskOf[pid[t]].rpc THEN {[is |-> "recv", from |-> pid[s], nb |-> FALSE]}
                       ELSE IF taskOf[pid[t]].offered THEN {Abs!Sent} ELSE {Abs!Idle}
  BY <1>9, <1>12 DEF Abs!Sent
<1>15. Abs!Exchange(pid[t], pid[s])
  BY <1>8, <1>11, <1>13, <1>14 DEF Abs!Exchange
<1>. QED BY <1>9, <1>10, <1>15 DEF Abs!AbsNext

(* Going to sleep in ipc_recv changes nothing: the task was receiving.     *)
LEMMA ipc_recv_block_Maps ==
    ASSUME IpcInv, IpcInv', NEW s \in Slot, ipc_recv_block(s)
    PROVE  taskOf' = taskOf
<1>1. /\ state[s] = "READY" /\ pc[s] = "recv" /\ state'[s] = "BLOCKED" /\ pc'[s] = "recving"
      /\ UNCHANGED <<pid, next_pid, call, ipc_buf>>
      /\ \A u \in Slot \ {s} : state'[u] = state[u] /\ pc'[u] = pc[u] /\ ipc_rc'[u] = ipc_rc[u]
  BY SMTT(60) DEF IpcInv, TypeOK, ipc_recv_block, InRecv
<1>2. AbsTask(s)' = AbsTask(s)
  BY <1>1, AbsTaskIs, AbsTaskWillBe DEF AbsReceiving
<1>3. \A u \in Slot \ {s} : AbsTask(u)' = AbsTask(u)
  BY <1>1 DEF AbsTask, AbsSending, AbsReceiving, AbsGot
<1>4. \A u \in Slot : state'[u] = "DEAD" <=> state[u] = "DEAD"
  BY <1>1
<1>. QED BY <1>1, <1>2, <1>3, <1>4, NoneChanged

(* EAGAIN is Refuse: a sender whose message is on offer to this task is in *)
(* its queue, and the scan has just passed over it.                        *)
LEMMA ipc_nbrecv_eagain_Maps ==
    ASSUME "sigreturn" \notin Deaths, IpcInv, IpcInv', NEW s \in Slot, ipc_nbrecv_eagain(s)
    PROVE  Abs!AbsNext
<1>1. /\ state[s] = "READY" /\ pc[s] = "recv" /\ pc'[s] = "user" /\ call[s].kind = "nbrecv"
      /\ UNCHANGED <<pid, next_pid, state>>
      /\ \A u \in Slot \ {s} : Same(u)
  BY SMTT(60) DEF IpcInv, TypeOK, ipc_nbrecv_eagain, InRecv, taskvars, ipcvars, Same
<1>2. taskOf[pid[s]] = [is |-> "recv", from |-> call[s].peer, nb |-> TRUE]
  BY <1>1, LiveMapped, AbsTaskIs DEF AbsReceiving
<1>3. ASSUME NEW q \in Pid, Abs!Meets(q, pid[s]), taskOf[q].offered PROVE FALSE
  <2>1. taskOf[q].is = "send" /\ taskOf[q].dst = pid[s] /\ Accepts(call[s].peer, q)
    BY <1>2, <1>3, SMTT(60) DEF Abs!Meets, Accepts
  <2>2. PICK u \in Slot : pid[u] = q /\ state[u] # "DEAD"
    <3>1. CASE \A u \in Slot : ~IsTaskByPid(q, u)
      <4>1. taskOf[q] = [is |-> "dead"] \/ taskOf[q] = [is |-> "unborn"]
        BY <3>1, GoneMapped
      <4>. QED BY <2>1, <4>1, SMTT(60)
    <3>. QED BY <3>1 DEF IsTaskByPid
  <2>3. taskOf[q] = AbsTask(u)
    BY <2>2, LiveMapped
  <2>4. pc[u] = "sending" /\ (state[u] = "BLOCKED" \/ ipc_rc[u] = IPC_ESRCH) /\ taskOf[q] = AbsSending(u)
    <3>1. /\ state[u] \in {"READY", "BLOCKED"} /\ ipc_rc[u] \in {OK, IPC_ESRCH}
          /\ pc[u] \in {"user", "send", "sending", "recv", "recving", "copy"}
      BY <2>2 DEF IpcInv, TypeOK
    <3>2. /\ [is |-> "idle"].is # "send" /\ [is |-> "sent"].is # "send"
          /\ AbsReceiving(u).is # "send" /\ AbsGot(u).is # "send"
      BY DEF AbsReceiving, AbsGot
    <3>3. pc[u] = "send" => ~AbsSending(u).offered
      BY SendFields
    <3>. QED BY <1>3, <2>1, <2>3, <3>1, <3>2, <3>3, AbsTaskIs
  <2>5. call[u].peer = pid[s]
    BY <2>1, <2>4, SendFields
  <2>6. CASE ipc_rc[u] = IPC_ESRCH
    BY <1>1, <2>4, <2>5, <2>6 DEF IpcInv, EsrchMeansDead, IsTaskByPid
  <2>7. CASE state[u] = "BLOCKED"
    <3>1. ipc_partner[u] = pid[s]
      BY <2>4, <2>5, <2>7 DEF IpcInv, TypeOK, PhaseOK, TaskPhase
    <3>2. PICK e \in Slot : IsTaskByPid(ipc_partner[u], e) /\ Queued(u, e)
      BY <2>4, <2>7 DEF IpcInv, NoLostSender
    <3>3. e = s
      BY <1>1, <3>1, <3>2 DEF IpcInv, PidsUnique, IsTaskByPid
    <3>4. NoMatch(ipc_sender_q[s], call[s].peer)
      BY DEF ipc_nbrecv_eagain
    <3>. QED BY <2>1, <2>2, <3>2, <3>3, <3>4 DEF NoMatch, Queued
  <2>. QED BY <2>4, <2>6, <2>7
<1>4. Abs!Refuse(pid[s])
  BY <1>1, <1>2, <1>3, Returns, SMTT(60) DEF Abs!Refuse
<1>. QED BY <1>1, <1>4, Returns DEF Abs!AbsNext

(* Waking from ipc_recv changes nothing: the exchange was the sender's     *)
(* step.                                                                   *)
LEMMA ipc_recv_resume_Maps ==
    ASSUME IpcInv, IpcInv', NEW s \in Slot, ipc_recv_resume(s)
    PROVE  taskOf' = taskOf
<1>1. /\ state[s] = "READY" /\ pc[s] = "recving" /\ ipc_rc[s] = OK
  BY DEF IpcInv, PhaseOK, TaskPhase, ipc_recv_resume
<1>2. /\ pc'[s] = "copy" /\ UNCHANGED <<pid, next_pid, state, ipc_buf>>
      /\ \A u \in Slot \ {s} : Same(u)
  BY <1>1, SMTT(60) DEF IpcInv, TypeOK, ipc_recv_resume, taskvars, Same
<1>3. AbsTask(s)' = AbsTask(s)
  BY <1>1, <1>2, AbsTaskIs, AbsTaskWillBe DEF AbsGot
<1>. QED BY <1>2, <1>3, SameMapped, NoneChanged

(* The copy into the caller's message is the receiver's Return.            *)
LEMMA ipc_copy_out_Maps ==
    ASSUME IpcInv, IpcInv', NEW s \in Slot, ipc_copy_out(s)
    PROVE  Abs!AbsNext
<1>1. /\ state[s] = "READY" /\ pc[s] = "copy" /\ pc'[s] = "user"
      /\ UNCHANGED <<pid, next_pid, state>>
      /\ \A u \in Slot \ {s} : Same(u)
  BY SMTT(60) DEF IpcInv, TypeOK, ipc_copy_out, taskvars, ipcvars, Same
<1>2. taskOf[pid[s]].is = "got"
  <2>1. taskOf[pid[s]] = AbsGot(s)
    BY <1>1, LiveMapped, AbsTaskIs
  <2>. QED BY <2>1, RecvFields
<1>3. pid[s] \in Pid /\ Abs!Return(pid[s])
  BY <1>1, <1>2, Returns DEF Abs!Return
<1>. QED BY <1>3 DEF Abs!AbsNext

(* The senders that a dying task wakes with ESRCH go on being senders:     *)
(* they fail in a later step.                                              *)
LEMMA task_terminate_Maps ==
    ASSUME IpcInv, IpcInv', NEW s \in Slot, task_terminate(s)
    PROVE  Abs!AbsNext
<1>1. /\ state[s] # "DEAD" /\ state'[s] = "DEAD" /\ UNCHANGED <<pid, next_pid, ipc_buf>>
      /\ \A u \in Slot \ {s} : /\ pc'[u] = pc[u] /\ call'[u] = call[u]
                               /\ state'[u] = "DEAD" <=> state[u] = "DEAD"
      /\ \A u \in Slot \ {s} : ~Queued(u, s) => state'[u] = state[u] /\ ipc_rc'[u] = ipc_rc[u]
      /\ \A u \in Slot \ {s} : Queued(u, s) => ipc_rc'[u] = IPC_ESRCH
  BY SMTT(60) DEF IpcInv, TypeOK, task_terminate, ipc_task_cleanup, Forgotten
<1>2. \A u \in Slot : Queued(u, s) => pc[u] = "sending" /\ state[u] = "BLOCKED"
  BY SMTT(60) DEF IpcInv, QueueSound, QueueMembers, Queued
<1>3. ASSUME NEW u \in Slot \ {s} PROVE AbsTask(u)' = AbsTask(u)
  <2>1. CASE Queued(u, s)
    <3>1. /\ pc[u] = "sending" /\ state[u] = "BLOCKED"
          /\ pc'[u] = pc[u] /\ call'[u] = call[u] /\ ipc_buf' = ipc_buf /\ ipc_rc'[u] = IPC_ESRCH
      BY <1>1, <1>2, <2>1
    <3>2. AbsTask(u) = AbsSending(u)
      BY <3>1, AbsTaskIs
    <3>3. AbsTask(u)' = AbsSending(u)'
      BY <3>1, AbsTaskWillBe
    <3> QED
      BY <3>1, <3>2, <3>3 DEF AbsSending
  <2>2. CASE ~Queued(u, s)
    BY <1>1, <2>2 DEF AbsTask, AbsSending, AbsReceiving, AbsGot
  <2>. QED BY <2>1, <2>2
<1>4. pid[s] \in Pid /\ pid[s] < next_pid
  BY <1>1, LiveMapped DEF IpcInv, PidsUnique
<1>5. taskOf'[pid[s]] = [is |-> "dead"]
  <2>1. StillGone(pid[s])
    BY <1>1, <1>4 DEF IpcInv, PidsUnique, StillGone, NoPid, Pid
  <2>. QED BY <1>1, <1>4, <2>1, GoneMappedNext
<1>6. ASSUME NEW p \in Pid, p # pid[s] PROVE taskOf'[p] = taskOf[p]
  <2>1. CASE \E u \in Slot : IsTaskByPid(p, u)
    <3>1. PICK u \in Slot : pid[u] = p /\ state[u] # "DEAD"
      BY <2>1 DEF IsTaskByPid
    <3>2. u # s
      BY <1>6, <3>1
    <3>3. taskOf[p] = AbsTask(u)
      BY <3>1, LiveMapped
    <3>4. taskOf'[p] = AbsTask(u)'
      BY <1>1, <3>1, <3>2, LiveMappedNext
    <3>. QED BY <1>3, <3>2, <3>3, <3>4
  <2>2. CASE \A u \in Slot : ~IsTaskByPid(p, u)
    <3>1. StillGone(p)
      BY <1>1, <2>2 DEF StillGone, IsTaskByPid
    <3>. QED BY <1>1, <2>2, <3>1, GoneMapped, GoneMappedNext
  <2>. QED BY <2>1, <2>2
<1>7. Abs!Becomes(pid[s], Abs!Dead)
  BY <1>4, <1>5, <1>6, Updated DEF Abs!Becomes, Abs!Dead
<1>8. Abs!Die(pid[s])
  BY <1>1, <1>7, IsLive DEF Abs!Die
<1>. QED BY <1>4, <1>8 DEF Abs!AbsNext

(* A new task is Spawn of the next pid, whatever the slot held before.     *)
LEMMA ClaimSlot_Maps ==
    ASSUME IpcInv, IpcInv', NEW s \in Slot, ClaimSlot(s),
           \A u \in Slot \ {s} : ipc_rc'[u] = ipc_rc[u]
    PROVE  Abs!AbsNext
<1>1. /\ state[s] = "DEAD" /\ state'[s] = "READY" /\ pc[s] = "user" /\ UNCHANGED <<ipc_buf, pc, call>>
      /\ next_pid' = next_pid + 1 /\ next_pid \in Pid /\ pid'[s] = next_pid
      /\ \A u \in Slot \ {s} : state'[u] = state[u] /\ pid'[u] = pid[u]
  BY IpcAssumption, SMTT(60) DEF IpcInv, TypeOK, PhaseOK, TaskPhase, ClaimSlot, uservars, Pid
<1>2. \A u \in Slot \ {s} : AbsTask(u)' = AbsTask(u)
  BY <1>1 DEF AbsTask, AbsSending, AbsReceiving, AbsGot
<1>3. taskOf'[next_pid] = [is |-> "idle"]
  BY <1>1, LiveMappedNext, AbsTaskWillBe
<1>4. taskOf[next_pid] = [is |-> "unborn"]
  <2>1. \A u \in Slot : ~IsTaskByPid(next_pid, u)
    BY <1>1, SMTT(60) DEF IpcInv, TypeOK, PidsUnique, IsTaskByPid, Pid
  <2>2. ~(next_pid < next_pid)
    BY <1>1, SMTT(60) DEF Pid
  <2>. QED BY <1>1, <2>1, <2>2, GoneMapped
<1>5. ASSUME NEW p \in Pid, p # next_pid PROVE taskOf'[p] = taskOf[p]
  <2>1. CASE \E u \in Slot : IsTaskByPid(p, u)
    <3>1. PICK u \in Slot : pid[u] = p /\ state[u] # "DEAD"
      BY <2>1 DEF IsTaskByPid
    <3>2. u # s
      BY <1>1, <3>1
    <3>3. taskOf[p] = AbsTask(u)
      BY <3>1, LiveMapped
    <3>4. taskOf'[p] = AbsTask(u)'
      BY <1>1, <3>1, <3>2, LiveMappedNext
    <3>. QED BY <1>2, <3>2, <3>3, <3>4
  <2>2. CASE \A u \in Slot : ~IsTaskByPid(p, u)
    <3>1. StillGone(p)
      BY <1>1, <1>5, <2>2 DEF StillGone, IsTaskByPid
    <3>2. p < next_pid' <=> p < next_pid
      BY <1>1, <1>5, SMTT(60) DEF Pid
    <3>. QED BY <2>2, <3>1, <3>2, GoneMapped, GoneMappedNext
  <2>. QED BY <2>1, <2>2
<1>6. Abs!Becomes(next_pid, Abs!Idle)
  BY <1>1, <1>3, <1>5, Updated DEF Abs!Becomes, Abs!Idle
<1>7. Abs!Spawn(next_pid)
  BY <1>4, <1>6 DEF Abs!Spawn, Abs!Unborn
<1>. QED BY <1>1, <1>7 DEF Abs!AbsNext

-----------------------------------------------------------------------------
(* Every behaviour of the IPC code is one of Rendezvous when each death    *)
(* goes through task_terminate: each message passes from its sender to a   *)
(* receiver that asked for it, in one step and unaltered, and a sender     *)
(* fails only if its peer is gone.                                         *)
THEOREM IpcRefined ==
    ASSUME "sigreturn" \notin Deaths
    PROVE  Spec => Abs!AbsSafe
<1>1. Init => Abs!AbsInit
  <2>. SUFFICES ASSUME Init PROVE taskOf = [p \in Pid |-> [is |-> "unborn"]]
    BY DEF Abs!AbsInit, Abs!Unborn
  <2>1. \A p \in Pid : taskOf[p] = [is |-> "unborn"]
    <3>1. \A p \in Pid : \A u \in Slot : ~IsTaskByPid(p, u)
      BY DEF Init, IsTaskByPid
    <3>2. \A p \in Pid : ~(p < next_pid)
      BY SMTT(60) DEF Init, Pid
    <3>. QED BY <3>1, <3>2, GoneMapped
  <2>2. [p \in Pid |-> taskOf[p]] = [p \in Pid |-> [is |-> "unborn"]]
    BY <2>1
  <2>. QED BY <2>2, MapIs
<1>2. IpcInv /\ IpcInv' /\ [Next]_vars => [Abs!AbsNext]_taskOf
  <2>. SUFFICES ASSUME IpcInv, IpcInv', [Next]_vars PROVE Abs!AbsNext \/ taskOf' = taskOf
    OBVIOUS
  <2>1. CASE UNCHANGED vars
    <3>1. UNCHANGED <<pid, next_pid, state>> /\ \A u \in Slot : Same(u)
      BY <2>1 DEF vars, taskvars, ipcvars, uservars, Same
    <3>. QED BY <3>1, SameMapped, NoneChanged
  <2>2. CASE Next
    <3>1. PICK s \in Slot : Step(s)
      BY <2>2 DEF Next
    <3>2. CASE task_create(s)
      <4>1. ClaimSlot(s) /\ \A u \in Slot \ {s} : ipc_rc'[u] = ipc_rc[u]
        BY <3>2, SMTT(60) DEF IpcInv, TypeOK, task_create
      <4>. QED BY <4>1, ClaimSlot_Maps
    <3>3. CASE task_fork(s)
      <4>1. ClaimSlot(s) /\ \A u \in Slot \ {s} : ipc_rc'[u] = ipc_rc[u]
        BY <3>3 DEF task_fork
      <4>. QED BY <4>1, ClaimSlot_Maps
    <3>4. ~SYS_SIGRETURN_kill(s)
      BY DEF SYS_SIGRETURN_kill
    <3>. QED
      BY <3>1, <3>2, <3>3, <3>4, SYS_IPC_SEND_Maps, SYS_IPC_RECV_Maps, ipc_send_esrch_Maps,
         ipc_send_fast_Maps, ipc_send_slow_Maps, ipc_send_resume_Maps, ipc_recv_dequeue_Maps,
         ipc_recv_block_Maps, ipc_nbrecv_eagain_Maps, ipc_recv_resume_Maps, ipc_copy_out_Maps,
         task_terminate_Maps
      DEF Step
  <2>. QED BY <2>1, <2>2
<1>. QED BY <1>1, <1>2, IpcInvariant, PTL DEF Spec, Abs!AbsSafe

=============================================================================
