--------------------------- MODULE SchedRun_proofs -------------------------
(***************************************************************************)
(* What schedule() and wait4 promise, from the inductive invariant RunInv: *)
(* the run list is one cycle, a walk that leaves an ended task finds       *)
(* another, a pending SIGKILL is honoured before a task is resumed, and a  *)
(* status that wait4 hands out is true.                                    *)
(***************************************************************************)
EXTENDS Sched_proofs

\* A leaf is given up after this many seconds.
USE ZenonT(60)

-----------------------------------------------------------------------------
(* The run list *)

\* Unlinking a slot other than the idle task's leaves a round through the others.
LEMMA RoundWithout ==
    ASSUME NEW n \in Nat, NEW U, NEW nxt, NEW f \in [0..n -> U], IsRound(f, n, nxt, U),
           NEW t \in U, t # Idle,
           NEW m, \A s \in U : m[s] = IF nxt[s] = t THEN nxt[t] ELSE nxt[s]
    PROVE  n - 1 \in Nat /\ \E g \in [0..n - 1 -> U \ {t}] : IsRound(g, n - 1, m, U \ {t})
<1>1. PICK j \in 0..n - 1 : f[j] = t
    BY DEF IsRound
<1>2. /\ f[0] = Idle /\ f[n] = Idle /\ 0 < j
      /\ \A k \in 0..n - 1 : nxt[f[k]] = f[k + 1]
      /\ \A i, k \in 0..n - 1 : f[i] = f[k] => i = k
      /\ \A s \in U : \E k \in 0..n - 1 : f[k] = s
    BY <1>1, SMTT(60) DEF IsRound
<1>3. \A k \in 0..n : k # j => f[k] # t
    BY <1>1, <1>2, SMTT(60)
<1>i. \A i, k \in 0..n - 1 : f[i] = f[k] => i = k
    BY <1>2
<1> DEFINE g == [i \in 0..n - 1 |-> IF i < j THEN f[i] ELSE f[i + 1]]
<1>4. g \in [0..n - 1 -> U \ {t}]
    BY <1>1, <1>3, SMTT(60)
<1>g. /\ \A i \in 0..n - 1 : i < j => g[i] = f[i]
      /\ \A i \in 0..n - 1 : i >= j => g[i] = f[i + 1]
      /\ \A i \in 0..n : f[i] \in U
    BY <1>1, SMTT(60)
<1> HIDE DEF g
<1>5. g[0] = Idle /\ g[n - 1] = Idle
    BY <1>1, <1>2, <1>g, SMTT(60)
<1>6. ASSUME NEW k \in 0..(n - 1) - 1 PROVE m[g[k]] = g[k + 1]
  <2>1. k \in 0..n - 1 /\ k + 1 \in 0..n - 1 /\ (k + 1) + 1 \in 0..n
    BY <1>1, SMTT(60)
  <2>2. CASE k + 1 < j
    <3>1. g[k] = f[k] /\ g[k + 1] = f[k + 1] /\ f[k + 1] # t /\ f[k] \in U
        BY <1>3, <1>g, <2>1, <2>2, SMTT(60)
    <3>2. nxt[f[k]] = f[k + 1]
        BY <1>2, <2>1
    <3> QED
        BY <3>1, <3>2
  <2>3. CASE k + 1 = j
    <3>1. g[k] = f[k] /\ g[k + 1] = f[j + 1] /\ f[k] \in U
        BY <1>g, <2>1, <2>3, SMTT(60)
    <3>2. nxt[f[k]] = t /\ nxt[t] = f[j + 1]
        BY <1>1, <1>2, <2>1, <2>3
    <3> QED
        BY <3>1, <3>2
  <2>4. CASE k + 1 > j
    <3>1. g[k] = f[k + 1] /\ g[k + 1] = f[(k + 1) + 1] /\ f[(k + 1) + 1] # t /\ f[k + 1] \in U
        BY <1>1, <1>3, <1>g, <2>1, <2>4, SMTT(60)
    <3>2. nxt[f[k + 1]] = f[(k + 1) + 1]
        BY <1>2, <2>1
    <3> QED
        BY <3>1, <3>2
  <2> QED
    BY <1>1, <2>2, <2>3, <2>4, SMTT(60)
<1>7. ASSUME NEW i \in 0..(n - 1) - 1, NEW k \in 0..(n - 1) - 1, g[i] = g[k] PROVE i = k
  <2>2. \/ i < j /\ i \in 0..n - 1 /\ g[i] = f[i]
        \/ i >= j /\ i + 1 \in 0..n - 1 /\ g[i] = f[i + 1]
    BY <1>1, <1>g, SMTT(60)
  <2>3. \/ k < j /\ k \in 0..n - 1 /\ g[k] = f[k]
        \/ k >= j /\ k + 1 \in 0..n - 1 /\ g[k] = f[k + 1]
    BY <1>1, <1>g, SMTT(60)
  <2> QED
    BY <1>i, <1>7, <2>2, <2>3, SMTT(60)
<1>8. ASSUME NEW s \in U \ {t} PROVE \E k \in 0..(n - 1) - 1 : g[k] = s
  <2>1. PICK k \in 0..n - 1 : f[k] = s
    BY <1>2
  <2>2. CASE k < j
    BY <1>1, <1>g, <2>1, <2>2, SMTT(60)
  <2>3. CASE k > j
    <3>1. k - 1 \in 0..(n - 1) - 1 /\ k - 1 \in 0..n - 1 /\ ~(k - 1 < j) /\ (k - 1) + 1 = k
        BY <1>1, <2>1, <2>3, SMTT(60)
    <3>2. g[k - 1] = f[k]
        BY <1>g, <3>1, SMTT(60)
    <3> QED
        BY <2>1, <3>1, <3>2
  <2>4. k # j
    BY <1>1, <1>8, <2>1
  <2> QED
    BY <1>1, <2>1, <2>2, <2>3, <2>4, SMTT(60)
<1>9. n - 1 \in Nat
    BY <1>1, SMTT(60)
<1> QED
    BY <1>4, <1>5, <1>6, <1>7, <1>8, <1>9 DEF IsRound

\* Linking a slot in behind another makes a round through all of them.
LEMMA RoundWith ==
    ASSUME NEW n \in Nat, NEW U, NEW nxt, NEW f \in [0..n -> U], IsRound(f, n, nxt, U),
           NEW c \in U, NEW t, t \notin U,
           NEW m, m[t] = nxt[c], m[c] = t, \A s \in U \ {c} : m[s] = nxt[s]
    PROVE  \E g \in [0..n + 1 -> U \cup {t}] : IsRound(g, n + 1, m, U \cup {t})
<1>1. PICK j \in 0..n - 1 : f[j] = c
    BY DEF IsRound
<1>2. /\ f[0] = Idle /\ f[n] = Idle
      /\ \A k \in 0..n - 1 : nxt[f[k]] = f[k + 1]
      /\ \A i, k \in 0..n - 1 : f[i] = f[k] => i = k
      /\ \A s \in U : \E k \in 0..n - 1 : f[k] = s
    BY DEF IsRound
<1>i. \A i, k \in 0..n - 1 : f[i] = f[k] => i = k
    BY <1>2
<1> DEFINE g == [i \in 0..n + 1 |-> IF i <= j THEN f[i] ELSE IF i = j + 1 THEN t ELSE f[i - 1]]
<1>4. g \in [0..n + 1 -> U \cup {t}]
    BY <1>1, SMTT(60)
<1>g. /\ \A i \in 0..n + 1 : i <= j => g[i] = f[i]
      /\ g[j + 1] = t
      /\ \A i \in 0..n + 1 : i > j + 1 => g[i] = f[i - 1]
      /\ \A i \in 0..n : f[i] \in U
    BY <1>1, SMTT(60)
<1> HIDE DEF g
<1>5. g[0] = Idle /\ g[n + 1] = Idle
    BY <1>1, <1>2, <1>g, SMTT(60)
<1>6. ASSUME NEW k \in 0..(n + 1) - 1 PROVE m[g[k]] = g[k + 1]
  <2>1. CASE k < j
    <3>1. k \in 0..n - 1 /\ k + 1 \in 0..n + 1 /\ g[k] = f[k] /\ g[k + 1] = f[k + 1] /\ f[k] \in U
        BY <1>1, <1>g, <2>1, SMTT(60)
    <3>2. f[k] # c
        BY <1>1, <1>i, <2>1, <3>1, SMTT(60)
    <3>3. nxt[f[k]] = f[k + 1]
        BY <1>2, <3>1
    <3> QED
        BY <3>1, <3>2, <3>3
  <2>2. CASE k = j
    BY <1>1, <1>g, <2>2, SMTT(60)
  <2>3. CASE k = j + 1
    <3>1. g[k] = t /\ g[k + 1] = f[j + 1]
        BY <1>1, <1>g, <2>3, SMTT(60)
    <3> QED
        BY <1>1, <1>2, <3>1
  <2>4. CASE k > j + 1
    <3>1. k - 1 \in 0..n - 1 /\ g[k] = f[k - 1] /\ g[k + 1] = f[k] /\ (k - 1) + 1 = k
        BY <1>1, <1>g, <2>4, SMTT(60)
    <3>2. f[k - 1] \in U /\ f[k - 1] # c
        BY <1>1, <1>i, <1>g, <2>4, <3>1, SMTT(60)
    <3>3. nxt[f[k - 1]] = f[(k - 1) + 1]
        BY <1>2, <3>1
    <3> QED
        BY <3>1, <3>2, <3>3
  <2> QED
    BY <1>1, <2>1, <2>2, <2>3, <2>4, SMTT(60)
<1>7. ASSUME NEW i \in 0..(n + 1) - 1, NEW k \in 0..(n + 1) - 1, g[i] = g[k] PROVE i = k
  <2>1. ASSUME NEW a \in 0..(n + 1) - 1
        PROVE  \/ a <= j /\ a \in 0..n - 1 /\ g[a] = f[a] /\ g[a] \in U
               \/ a = j + 1 /\ g[a] = t
               \/ a > j + 1 /\ a - 1 \in 0..n - 1 /\ g[a] = f[a - 1] /\ g[a] \in U
    BY <1>1, <1>g, SMTT(60)
  <2>2. \/ i <= j /\ i \in 0..n - 1 /\ g[i] = f[i] /\ g[i] \in U
        \/ i = j + 1 /\ g[i] = t
        \/ i > j + 1 /\ i - 1 \in 0..n - 1 /\ g[i] = f[i - 1] /\ g[i] \in U
    BY <2>1
  <2>3. \/ k <= j /\ k \in 0..n - 1 /\ g[k] = f[k] /\ g[k] \in U
        \/ k = j + 1 /\ g[k] = t
        \/ k > j + 1 /\ k - 1 \in 0..n - 1 /\ g[k] = f[k - 1] /\ g[k] \in U
    BY <2>1
  <2> QED
    BY <1>1, <1>i, <1>7, <2>2, <2>3, SMTT(60)
<1>8. ASSUME NEW s \in U \cup {t} PROVE \E k \in 0..(n + 1) - 1 : g[k] = s
  <2>1. CASE s = t
    <3>1. j + 1 \in 0..(n + 1) - 1 /\ g[j + 1] = t
        BY <1>1, <1>g, SMTT(60)
    <3> QED
        BY <2>1, <3>1
  <2>2. CASE s \in U
    <3>1. PICK k \in 0..n - 1 : f[k] = s
        BY <1>2, <2>2
    <3>2. CASE k <= j
        BY <1>1, <1>g, <3>1, <3>2, SMTT(60)
    <3>3. CASE k > j
      <4>1. k + 1 \in 0..(n + 1) - 1 /\ g[k + 1] = f[k]
        BY <1>1, <1>g, <3>1, <3>3, SMTT(60)
      <4> QED
        BY <3>1, <4>1
    <3> QED
        BY <1>1, <3>1, <3>2, <3>3, SMTT(60)
  <2> QED
    BY <2>1, <2>2
<1> QED
    BY <1>4, <1>5, <1>6, <1>7, <1>8 DEF IsRound

\* task_create and task_fork: a reclaimed slot leaves the list, and the new task
\* is linked in behind the current one.
LEMMA NewTask_Ring ==
    ASSUME SchedInv, RingSound, NEW c \in Slot, NEW t \in Slot, NEW ring3 \in BOOLEAN,
           Runs(c), NewTask(c, t, ring3)
    PROVE  RingSound'
<1>0. /\ next \in [Slot -> Slot] /\ task_pool_count \in Nat /\ Used \subseteq Slot
      /\ \A s \in Used : next[s] \in Used
    BY Types, SMTT(60) DEF SchedInv, TypeOK, WalkInPool
<1>1. c \in Used /\ t # c /\ t # Idle
    BY Types, NewIsOther, NewSlot DEF Runs, NewTask
<1>2. /\ next' = [Unlinked(t) EXCEPT ![t] = Unlinked(t)[c], ![c] = t]
      /\ task_pool_count' = IF t = task_pool_count THEN task_pool_count + 1 ELSE task_pool_count
    BY DEF NewTask, LinkedAfter
<1>3. PICK f \in [0..task_pool_count -> Used] : IsRound(f, task_pool_count, next, Used)
    BY DEF RingSound
<1> DEFINE m == Unlinked(t)
<1>4. \A s \in Slot : m[s] = IF next[s] = t THEN next[t] ELSE next[s]
    BY DEF Unlinked
<1>5. m \in [Slot -> Slot]
    BY <1>0 DEF Unlinked
<1>6. next'[t] = m[c] /\ next'[c] = t /\ \A s \in Slot \ {t, c} : next'[s] = m[s]
    BY <1>1, <1>2, <1>5
<1> HIDE DEF m
<1>7. CASE t \in Used
  <2>1. task_pool_count' = task_pool_count /\ Used' = Used
    BY <1>0, <1>2, <1>7, SMTT(60) DEF Used
  <2>2. \A s \in Used : m[s] = IF next[s] = t THEN next[t] ELSE next[s]
    BY <1>0, <1>4
  <2>3. /\ task_pool_count - 1 \in Nat
        /\ \E g \in [0..task_pool_count - 1 -> Used \ {t}] : IsRound(g, task_pool_count - 1, m, Used \ {t})
    BY <1>0, <1>1, <1>3, <1>7, <2>2, RoundWithout
  <2>4. PICK g \in [0..task_pool_count - 1 -> Used \ {t}] : IsRound(g, task_pool_count - 1, m, Used \ {t})
    BY <2>3
  <2>5. c \in Used \ {t} /\ t \notin Used \ {t} /\ \A s \in (Used \ {t}) \ {c} : next'[s] = m[s]
    BY <1>0, <1>1, <1>6
  <2>6. \E h \in [0..(task_pool_count - 1) + 1 -> (Used \ {t}) \cup {t}] :
            IsRound(h, (task_pool_count - 1) + 1, next', (Used \ {t}) \cup {t})
    BY <1>6, <2>3, <2>4, <2>5, RoundWith
  <2>7. (task_pool_count - 1) + 1 = task_pool_count /\ (Used \ {t}) \cup {t} = Used
    BY <1>0, <1>7, SMTT(60)
  <2>8. \E h \in [0..task_pool_count -> Used] : IsRound(h, task_pool_count, next', Used)
    BY <2>6, <2>7
  <2> QED
    BY <2>1, <2>8 DEF RingSound
<1>8. CASE t \notin Used
  <2>0. IsNewSlot(t)
    BY DEF NewTask
  <2>1. t = task_pool_count
    BY <1>8, <2>0, NewSlot
  <2>2. task_pool_count' = task_pool_count + 1 /\ Used' = Used \cup {t}
    BY <1>0, <1>2, <2>1, SMTT(60) DEF Used
  <2>3. \A s \in Used : m[s] = next[s]
    BY <1>0, <1>4, <1>8
  <2>4. next'[t] = next[c] /\ next'[c] = t /\ \A s \in Used \ {c} : next'[s] = next[s]
    BY <1>0, <1>1, <1>6, <1>8, <2>3
  <2>5. \E h \in [0..task_pool_count + 1 -> Used \cup {t}] :
            IsRound(h, task_pool_count + 1, next', Used \cup {t})
    BY <1>0, <1>1, <1>3, <1>8, <2>4, RoundWith
  <2> QED
    BY <2>2, <2>5 DEF RingSound
<1> QED
    BY <1>7, <1>8

\* Only the creation of a task relinks the list.
LEMMA ListSteps ==
    ASSUME [Next]_vars
    PROVE  \/ \E c, t \in Slot, ring3 \in BOOLEAN : Runs(c) /\ NewTask(c, t, ring3)
           \/ UNCHANGED <<next, task_pool_count>>
<1> USE DEF slotVars
<1>1. CASE Schedule
    BY <1>1 DEF Schedule, schedule_enter, schedule_visit, schedule_switch
<1>2. CASE SignalStep
    BY <1>2 DEF SignalStep, SYS_KILL, keyboard_ctrl_c, sig_send, SYS_SIGNAL, shell_enter, signal_check_user
<1>3. CASE EndStep
    BY <1>3 DEF EndStep, SYS_EXIT, kill_userspace_fault, kernel_task_returns, SYS_SIGRETURN_kill,
                exec_task_entry_fails, task_exit
<1>4. CASE WaitStep
    BY <1>4 DEF WaitStep, ipc_block, ipc_wake, SYS_WAIT4, SYS_WAIT4_reap, SYS_WAIT4_return
<1>5. CASE BirthStep
  <2>1. ASSUME NEW c \in Slot, NEW t \in Slot, task_fork(c, t) \/ shell_exec_elf(c, t)
        PROVE  \E ring3 \in BOOLEAN : Runs(c) /\ NewTask(c, t, ring3)
    BY <2>1 DEF task_fork, shell_exec_elf, InRing3
  <2>2. ASSUME NEW c \in Slot, NEW login \in BOOLEAN, shell_exec_hand(c, login)
        PROVE  UNCHANGED <<next, task_pool_count>>
    BY <2>2 DEF shell_exec_hand
  <2>3. ASSUME NEW c \in Slot, \/ shell_exec_wait(c) \/ shell_exec_status(c)
                               \/ exec_task_entry(c) \/ SYS_EXECVE(c)
        PROVE  UNCHANGED <<next, task_pool_count>>
    BY <2>3 DEF shell_exec_wait, shell_exec_status, exec_task_entry, SYS_EXECVE
  <2> QED
    BY <1>5, <2>1, <2>2, <2>3 DEF BirthStep
<1>6. CASE UNCHANGED vars
    BY <1>6 DEF vars
<1> QED
    BY <1>1, <1>2, <1>3, <1>4, <1>5, <1>6 DEF Next

\* The list stays one cycle.
LEMMA RingKept ==
    ASSUME SchedInv, RingSound, [Next]_vars
    PROVE  RingSound'
<1>1. CASE UNCHANGED <<next, task_pool_count>>
    BY <1>1 DEF RingSound, Used
<1>2. ASSUME NEW c \in Slot, NEW t \in Slot, NEW ring3 \in BOOLEAN, Runs(c), NewTask(c, t, ring3)
      PROVE  RingSound'
    BY <1>2, NewTask_Ring
<1> QED
    BY <1>1, <1>2, ListSteps

\* The boot tasks were linked in one after the other behind the idle task.
LEMMA Init_Ring == Init => RingSound
<1> SUFFICES ASSUME Init PROVE RingSound
    OBVIOUS
<1>0. BootTasks \in Nat /\ MAX_TASKS \in Nat /\ 1 <= BootTasks /\ BootTasks < MAX_TASKS
    BY SchedAssumption
<1>1. /\ task_pool_count = BootTasks + 1 /\ Used = 0..BootTasks
      /\ next = [s \in Slot |-> IF s = Idle THEN BootTasks ELSE IF s <= BootTasks THEN s - 1 ELSE s]
    BY <1>0, SMTT(60) DEF Init, Used
<1> DEFINE f == [k \in 0..BootTasks + 1 |-> IF k = 0 THEN Idle ELSE BootTasks + 1 - k]
<1>2. f \in [0..BootTasks + 1 -> 0..BootTasks]
    BY <1>0, SMTT(60) DEF Idle
<1>3. f[0] = Idle /\ f[BootTasks + 1] = Idle
    BY <1>0, SMTT(60) DEF Idle
<1>4. ASSUME NEW k \in 0..(BootTasks + 1) - 1 PROVE next[f[k]] = f[k + 1]
    BY <1>0, <1>1, SMTT(60) DEF Idle, Slot
<1>5. ASSUME NEW j \in 0..(BootTasks + 1) - 1, NEW k \in 0..(BootTasks + 1) - 1, f[j] = f[k]
      PROVE  j = k
    BY <1>0, <1>5, SMTT(60) DEF Idle
<1>6. ASSUME NEW s \in 0..BootTasks PROVE \E k \in 0..(BootTasks + 1) - 1 : f[k] = s
  <2>1. CASE s = 0
    BY <1>0, <2>1, SMTT(60) DEF Idle
  <2>2. CASE s # 0
    <3>1. BootTasks + 1 - s \in 0..(BootTasks + 1) - 1 /\ f[BootTasks + 1 - s] = s
        BY <1>0, <2>2, SMTT(60)
    <3> QED
        BY <3>1
  <2> QED
    BY <2>1, <2>2
<1> HIDE DEF f
<1>7. IsRound(f, BootTasks + 1, next, 0..BootTasks)
    BY <1>3, <1>4, <1>5, <1>6 DEF IsRound
<1> QED
    BY <1>1, <1>2, <1>7 DEF RingSound

-----------------------------------------------------------------------------
(* The walk *)

\* While schedule() has interrupts off, nothing else happens but the wakeups of
\* the deaths it brings about.
LEMMA WalkSteps ==
    ASSUME [Next]_vars, in_schedule'.on
    PROVE  schedule_enter \/ schedule_visit \/ (\E t \in Slot : ipc_wake(t)) \/ UNCHANGED vars
<1>1. CASE Schedule
    BY <1>1, SMTT(60) DEF Schedule, schedule_switch, NotWalking
<1>2. ASSUME NEW c, Runs(c), UNCHANGED in_schedule PROVE FALSE
    BY <1>2 DEF Runs
<1>3. CASE SignalStep
    BY <1>3, <1>2 DEF SignalStep, SYS_KILL, keyboard_ctrl_c, sig_send, SYS_SIGNAL, shell_enter,
                      signal_check_user, InRing3
<1>4. CASE EndStep
    BY <1>4, <1>2 DEF EndStep, SYS_EXIT, kill_userspace_fault, kernel_task_returns, SYS_SIGRETURN_kill,
                      exec_task_entry_fails, task_exit, InRing3
<1>5. CASE WaitStep
    BY <1>5, <1>2 DEF WaitStep, ipc_block, SYS_WAIT4, SYS_WAIT4_reap, SYS_WAIT4_return, InWait4, InRing3
<1>6. CASE BirthStep
  <2>1. ASSUME NEW c \in Slot, NEW t \in Slot, task_fork(c, t) \/ shell_exec_elf(c, t) PROVE FALSE
    BY <1>2, <2>1 DEF task_fork, shell_exec_elf, NewTask, InRing3
  <2>2. ASSUME NEW c \in Slot, NEW login \in BOOLEAN, shell_exec_hand(c, login) PROVE FALSE
    BY <1>2, <2>2 DEF shell_exec_hand
  <2>3. ASSUME NEW c \in Slot, \/ shell_exec_wait(c) \/ shell_exec_status(c)
                               \/ exec_task_entry(c) \/ SYS_EXECVE(c)
        PROVE  FALSE
    BY <1>2, <2>3 DEF shell_exec_wait, shell_exec_status, exec_task_entry, SYS_EXECVE, InRing3
  <2> QED
    BY <1>6, <2>1, <2>2, <2>3 DEF BirthStep
<1> QED
    BY <1>1, <1>3, <1>4, <1>5, <1>6 DEF Next

\* The walk starts behind the current task.
LEMMA Enter_Walk ==
    ASSUME SchedInv, RingSound, schedule_enter
    PROVE  WalkSound'
<1>1. /\ in_schedule' = [on |-> TRUE, hit |-> FALSE, at |-> next[current_task], i |-> 0]
      /\ UNCHANGED <<next, task_pool_count, current_task>>
    BY DEF schedule_enter, slotVars
<1>2. in_schedule'.hit = FALSE /\ in_schedule'.at = next[current_task] /\ in_schedule'.i = 0
    BY <1>1
<1>3. Used' = Used
    BY <1>1 DEF Used
<1>4. ASSUME current_task # Idle
      PROVE  \E f \in [0..task_pool_count -> Used], k \in 1..task_pool_count - 1 :
                /\ IsRound(f, task_pool_count, next, Used)
                /\ f[k] = current_task /\ k + 1 + 0 <= task_pool_count
                /\ f[k + 1 + 0] = next[current_task]
  <2>0. task_pool_count \in Nat /\ current_task \in Used
    BY Types, SMTT(60)
  <2>1. PICK f \in [0..task_pool_count -> Used] : IsRound(f, task_pool_count, next, Used)
    BY DEF RingSound
  <2>2. PICK k \in 0..task_pool_count - 1 : f[k] = current_task
    BY <2>0, <2>1 DEF IsRound
  <2>3. f[0] = Idle /\ next[f[k]] = f[k + 1]
    BY <2>1 DEF IsRound
  <2>4. k \in 1..task_pool_count - 1 /\ k + 1 + 0 = k + 1 /\ k + 1 <= task_pool_count
    BY <1>4, <2>0, <2>2, <2>3, SMTT(60)
  <2> QED
    BY <2>1, <2>2, <2>3, <2>4
<1> QED
    BY <1>1, <1>2, <1>3, <1>4 DEF WalkSound

\* An iteration ends the walk, or moves on; the idle task always ends it.
LEMMA Visit_Walk ==
    ASSUME SchedInv, WalkSound, schedule_visit
    PROVE  WalkSound'
<1>0. /\ in_schedule \in [on : BOOLEAN, hit : BOOLEAN, at : Slot, i : 0..MAX_TASKS]
      /\ task_pool_count \in Nat /\ in_schedule.at \in Slot
      /\ OneRunning /\ IdleRunnable /\ unkillable[Idle] /\ Idle \in Used /\ Idle \in Slot
      /\ MAX_TASKS \in Nat
    BY Types, SchedAssumption, SMTT(60) DEF SchedInv, TypeOK, IdleProtected
<1>1. /\ in_schedule.on /\ ~in_schedule.hit
      /\ UNCHANGED <<next, task_pool_count, current_task>>
    BY DEF schedule_visit, slotVars
<1>2. Used' = Used
    BY <1>1 DEF Used
<1>3. CASE state'[in_schedule.at] = "READY"
  <2>1. in_schedule' = [in_schedule EXCEPT !.hit = TRUE]
    BY <1>3 DEF schedule_visit
  <2>2. in_schedule'.hit /\ in_schedule'.at = in_schedule.at
    BY <1>0, <2>1
  <2> QED
    BY <1>3, <2>2 DEF WalkSound
<1>4. CASE state'[in_schedule.at] # "READY"
  <2>1. in_schedule' = [in_schedule EXCEPT !.at = next[in_schedule.at], !.i = @ + 1]
    BY <1>4 DEF schedule_visit
  <2>2. ~in_schedule'.hit /\ in_schedule'.at = next[in_schedule.at] /\ in_schedule'.i = in_schedule.i + 1
    BY <1>0, <1>1, <2>1
  <2>3. ASSUME current_task # Idle
        PROVE  \E f \in [0..task_pool_count -> Used], k \in 1..task_pool_count - 1 :
                  /\ IsRound(f, task_pool_count, next, Used)
                  /\ f[k] = current_task /\ k + 1 + (in_schedule.i + 1) <= task_pool_count
                  /\ f[k + 1 + (in_schedule.i + 1)] = next[in_schedule.at]
    <3>1. PICK f \in [0..task_pool_count -> Used], k \in 1..task_pool_count - 1 :
                  /\ IsRound(f, task_pool_count, next, Used)
                  /\ f[k] = current_task /\ k + 1 + in_schedule.i <= task_pool_count
                  /\ f[k + 1 + in_schedule.i] = in_schedule.at
        BY <1>1, <2>3 DEF WalkSound
    <3>2. in_schedule.at # Idle
      <4> SUFFICES ASSUME in_schedule.at = Idle PROVE FALSE
        OBVIOUS
      <4>1. state[Idle] = "READY"
        BY <1>0, <2>3 DEF OneRunning, IdleRunnable
      <4>2. sig_deliver(in_schedule.at)
        BY <4>1 DEF schedule_visit
      <4>3. state'[Idle] = state[Idle]
        BY <1>0, <4>2, Delivered
      <4> QED
        BY <1>4, <4>1, <4>3
    <3>3. f[task_pool_count] = Idle
        BY <3>1 DEF IsRound
    <3>4. /\ k + 1 + in_schedule.i \in 0..task_pool_count - 1
          /\ k + 1 + (in_schedule.i + 1) <= task_pool_count
          /\ k + 1 + (in_schedule.i + 1) = (k + 1 + in_schedule.i) + 1
        BY <1>0, <3>1, <3>2, <3>3, SMTT(60)
    <3>5. next[f[k + 1 + in_schedule.i]] = f[(k + 1 + in_schedule.i) + 1]
        BY <3>1, <3>4 DEF IsRound
    <3> QED
        BY <3>1, <3>4, <3>5
  <2> QED
    BY <1>1, <1>2, <2>2, <2>3 DEF WalkSound
<1> QED
    BY <1>3, <1>4

LEMMA WalkKept ==
    ASSUME SchedInv, RingSound, WalkSound, [Next]_vars
    PROVE  WalkSound'
<1>1. CASE ~in_schedule'.on
    BY <1>1 DEF WalkSound
<1>2. ASSUME NEW t \in Slot, ipc_wake(t) PROVE WalkSound'
  <2>1. /\ state[t] = "BLOCKED" /\ state' = [state EXCEPT ![t] = "READY"]
        /\ UNCHANGED <<next, task_pool_count, current_task, in_schedule>>
    BY <1>2 DEF ipc_wake, slotVars
  <2>2. \A s \in Slot : state[s] = "READY" => state'[s] = "READY"
    BY <2>1, Types
  <2>3. in_schedule.at \in Slot
    BY Types DEF SchedInv, TypeOK
  <2> QED
    BY <2>1, <2>2, <2>3 DEF WalkSound, Used
<1>3. CASE UNCHANGED vars
    BY <1>3 DEF WalkSound, Used, vars, slotVars, lifeVars
<1> QED
    BY <1>1, <1>2, <1>3, WalkSteps, Enter_Walk, Visit_Walk

\* A walk that is over and leaves an ended task has stopped at a READY one: it
\* cannot have gone past the idle task.
LEMMA WalkFinds == SchedInv /\ WalkSound => NeverStranded
<1> SUFFICES ASSUME SchedInv, WalkSound, WalkOver, state[current_task] \in Ended
             PROVE  state[in_schedule.at] = "READY"
    BY DEF NeverStranded
<1>0. /\ in_schedule.i \in Nat /\ task_pool_count \in Nat /\ IdleRunnable /\ in_schedule.hit \in BOOLEAN
    BY Types, SchedAssumption, SMTT(60) DEF SchedInv, TypeOK, IdleProtected
<1>1. current_task # Idle
    BY <1>0 DEF IdleRunnable, Ended
<1>2. CASE ~in_schedule.hit
  <2>1. in_schedule.on /\ in_schedule.i = task_pool_count
    BY <1>2 DEF WalkOver
  <2>2. PICK k \in 1..task_pool_count - 1 : k + 1 + in_schedule.i <= task_pool_count
    BY <1>1, <1>2, <2>1 DEF WalkSound
  <2> QED
    BY <1>0, <2>1, <2>2, SMTT(60)
<1> QED
    BY <1>2 DEF WalkSound, WalkOver

-----------------------------------------------------------------------------
(* SIGKILL *)

\* sig_deliver leaves a SIGKILL pending for a task that goes on only behind a
\* signal that the task's program catches.
LEMMA Delivered_Kill ==
    ASSUME SchedInv, NEW t \in Slot, sig_deliver(t), UNCHANGED s_handlers,
           state'[t] \notin Ended, SIGKILL \in sig_pending'[t]
    PROVE  \E g \in Caught(t)' : g < SIGKILL
<1> DEFINE stops == {g \in sig_pending[t] : Ends(t, g) \/ Held(t, g)}
<1> DEFINE first == Min(stops)
<1>0. /\ sig_pending \in [Slot -> SUBSET Signals] /\ state \in [Slot -> Live \cup Ended]
      /\ Signals \subseteq Nat
    BY Types, SignalsNat
<1>1. stops # {}
  <2> SUFFICES ASSUME stops = {} PROVE FALSE
    OBVIOUS
  <2>1. sig_pending' = [sig_pending EXCEPT ![t] = {}]
    BY DEF sig_deliver
  <2> QED
    BY <1>0, <2>1
<1>2. stops \in SUBSET Nat
    BY <1>0
<1>3. first \in stops /\ \A y \in stops : first <= y
    BY <1>1, <1>2, MinFact
<1>4. ~Ends(t, first)
  <2> SUFFICES ASSUME Ends(t, first) PROVE FALSE
    OBVIOUS
  <2>1. task_terminate(t, 128 + first)
    BY <1>1 DEF sig_deliver
  <2>2. state' = [state EXCEPT ![t] = Remains(t)]
    BY <2>1 DEF task_terminate
  <2>3. Remains(t) \in Ended
    BY DEF Remains, Ended
  <2> QED
    BY <1>0, <2>2, <2>3
<1>5. sig_pending' = [sig_pending EXCEPT ![t] = {g \in @ : g >= first}]
    BY <1>1, <1>4 DEF sig_deliver
<1>6. sig_pending'[t] = {g \in sig_pending[t] : g >= first}
    BY <1>0, <1>5
<1>7. Held(t, first) /\ first \in Nat
    BY <1>2, <1>3, <1>4
<1>8. first < SIGKILL
    BY <1>6, <1>7, SMTT(60) DEF Held, SIGKILL
<1>9. first \in Caught(t)'
    BY <1>3, <1>6, <1>7 DEF Caught, Held
<1> QED
    BY <1>8, <1>9

LEMMA HonouredKept ==
    ASSUME SchedInv, KillHonoured, [Next]_vars
    PROVE  KillHonoured'
<1>0. /\ in_schedule \in [on : BOOLEAN, hit : BOOLEAN, at : Slot, i : 0..MAX_TASKS]
      /\ in_schedule.at \in Slot
    BY Types DEF SchedInv, TypeOK
<1>1. SUFFICES ASSUME in_schedule'.on, in_schedule'.hit, SIGKILL \in sig_pending'[in_schedule'.at]
               PROVE  \E g \in Caught(in_schedule.at)' : g < SIGKILL
    BY DEF KillHonoured
<1>2. CASE schedule_enter
    BY <1>1, <1>2 DEF schedule_enter
<1>3. CASE schedule_visit
  <2>1. PICK t \in Slot : t = in_schedule.at
    BY <1>0
  <2>2. state'[t] = "READY"
    <3> SUFFICES ASSUME state'[t] # "READY" PROVE FALSE
        OBVIOUS
    <3>1. in_schedule' = [in_schedule EXCEPT !.at = next[in_schedule.at], !.i = @ + 1]
        BY <1>3, <2>1 DEF schedule_visit
    <3>2. ~in_schedule.hit
        BY <1>3 DEF schedule_visit
    <3> QED
        BY <1>0, <1>1, <3>1, <3>2
  <2>3. in_schedule' = [in_schedule EXCEPT !.hit = TRUE]
    BY <1>3, <2>1, <2>2 DEF schedule_visit
  <2>4. in_schedule'.at = t
    BY <1>0, <2>1, <2>3
  <2>5. sig_deliver(t) /\ UNCHANGED s_handlers
    BY <1>3, <2>1, <2>2 DEF schedule_visit, lifeVars
  <2>6. \E g \in Caught(t)' : g < SIGKILL
    BY <1>1, <2>2, <2>4, <2>5, Delivered_Kill DEF Ended
  <2> QED
    BY <2>4, <2>6 DEF Caught
<1>4. CASE (\E t \in Slot : ipc_wake(t)) \/ UNCHANGED vars
  <2>1. UNCHANGED <<in_schedule, sig_pending, s_handlers>>
    BY <1>4 DEF ipc_wake, vars, sigVars
  <2> QED
    BY <1>1, <2>1 DEF KillHonoured, Caught
<1> QED
    BY <1>1, <1>2, <1>3, <1>4, WalkSteps

-----------------------------------------------------------------------------
(* wait4 *)

InProgram == {"user", "wait4", "wnohang"}

LEMMA GotPid ==
    ASSUME SchedInv, NEW s \in Used
    PROVE  got[s].pid \in Pid \cup {NoPid}
<1>1. s \in Slot
    BY Types
<1>2. got \in [Slot -> [pid : Pid \cup {NoPid}, status : Status]]
    BY DEF SchedInv, TypeOK
<1> QED
    BY <1>1, <1>2, SMTT(60)

\* What a step that creates no task must respect: a DEAD slot stays DEAD, the
\* status of a pid is settled by the end of its task, and what is newly
\* collected is true.
LEMMA WaitFrame ==
    ASSUME SchedInv, WaitSound, UNCHANGED <<pid, task_pool_count, next_pid>>,
           \A s \in Used : user'[s] => pc'[s] \in InProgram,
           \A s \in Used : pc'[s] = "entry" => got'[s].pid = NoPid,
           \A s \in Used : state'[s] = "ZOMBIE" => obituary'[pid[s]] = exit_status'[s],
           \A s \in Used : state[s] = "DEAD" => state'[s] = "DEAD",
           \A p \in Pid : obituary'[p] # obituary[p] => \E s \in Used : pid[s] = p /\ state[s] # "DEAD",
           \A s \in Used : user'[s] /\ got'[s].pid # NoPid =>
              \/ user[s] /\ got'[s] = got[s]
              \/ /\ got'[s].pid < next_pid /\ obituary'[got'[s].pid] = got'[s].status
                 /\ \A t \in Used : pid[t] = got'[s].pid => state'[t] = "DEAD"
    PROVE  WaitSound'
<1>1. Used' = Used
    BY DEF Used
<1>2. ASSUME NEW s \in Used, user'[s], got'[s].pid # NoPid
      PROVE  /\ got'[s].pid < next_pid /\ obituary'[got'[s].pid] = got'[s].status
             /\ \A t \in Used : pid[t] = got'[s].pid => state'[t] = "DEAD"
  <2>1. CASE user[s] /\ got'[s] = got[s]
    <3>1. /\ got[s].pid < next_pid /\ obituary[got[s].pid] = got[s].status
          /\ \A t \in Used : pid[t] = got[s].pid => state[t] = "DEAD"
        BY <1>2, <2>1 DEF WaitSound
    <3>2. got[s].pid \in Pid
        BY <1>2, <2>1, GotPid
    <3>3. obituary'[got[s].pid] = obituary[got[s].pid]
        BY <3>1, <3>2
    <3> QED
        BY <2>1, <3>1, <3>3
  <2> QED
    BY <1>2, <2>1
<1> QED
    BY <1>1, <1>2, SMTT(60) DEF WaitSound, InProgram

\* Steps that end no task, collect none and create none.
LEMMA WaitUntouched ==
    ASSUME SchedInv, WaitSound,
           UNCHANGED <<pid, task_pool_count, next_pid, user, got, exit_status, obituary>>,
           \A s \in Used : state[s] \in Ended \/ state'[s] \in Ended => state'[s] = state[s],
           \A s \in Used : pc[s] \in InProgram => pc'[s] \in InProgram,
           \A s \in Used : pc'[s] = "entry" => pc[s] = "entry"
    PROVE  WaitSound'
<1>1. /\ \A s \in Used : user'[s] => pc'[s] \in InProgram
      /\ \A s \in Used : pc'[s] = "entry" => got'[s].pid = NoPid
    BY DEF WaitSound, InProgram
<1>2. /\ \A s \in Used : state'[s] = "ZOMBIE" => obituary'[pid[s]] = exit_status'[s]
      /\ \A s \in Used : state[s] = "DEAD" => state'[s] = "DEAD"
    BY DEF WaitSound, Ended
<1>3. /\ \A p \in Pid : obituary'[p] = obituary[p]
      /\ \A s \in Used : user'[s] => user[s] /\ got'[s] = got[s]
    OBVIOUS
<1> QED
    BY <1>1, <1>2, <1>3, WaitFrame

\* Steps that end tasks: the status of each is recorded, and none of them was
\* collected before.
LEMMA WaitEnds ==
    ASSUME SchedInv, WaitSound, UNCHANGED <<pid, task_pool_count, next_pid, user, pc, got>>,
           NEW c \in Used, state[c] # "DEAD",
           \A s \in Slot \ {c} : state'[s] = state[s] \/ state'[s] = "DEAD",
           \A s \in Slot \ {c} : exit_status'[s] = exit_status[s],
           \A p \in Pid : p # pid[c] => obituary'[p] = obituary[p],
           state'[c] = "ZOMBIE" => obituary'[pid[c]] = exit_status'[c]
    PROVE  WaitSound'
<1>0. Used \subseteq Slot /\ \A s, t \in Used : pid[s] = pid[t] => s = t
    BY Types DEF SchedInv, PidsFresh
<1>1. /\ \A s \in Used : user'[s] => pc'[s] \in InProgram
      /\ \A s \in Used : pc'[s] = "entry" => got'[s].pid = NoPid
    BY DEF WaitSound, InProgram
<1>2. ASSUME NEW s \in Used, state'[s] = "ZOMBIE" PROVE obituary'[pid[s]] = exit_status'[s]
  <2>1. CASE s = c
    BY <1>2, <2>1
  <2>2. CASE s # c
    <3>1. state[s] = "ZOMBIE" /\ exit_status'[s] = exit_status[s] /\ pid[s] # pid[c]
        BY <1>0, <1>2, <2>2
    <3>2. pid[s] \in Pid
        BY PidOfUsed
    <3> QED
        BY <3>1, <3>2 DEF WaitSound
  <2> QED
    BY <2>1, <2>2
<1>3. \A s \in Used : state[s] = "DEAD" => state'[s] = "DEAD"
    BY <1>0
<1>4. /\ \A p \in Pid : obituary'[p] # obituary[p] => \E s \in Used : pid[s] = p /\ state[s] # "DEAD"
      /\ \A s \in Used : user'[s] => user[s] /\ got'[s] = got[s]
    OBVIOUS
<1> QED
    BY <1>1, <1>2, <1>3, <1>4, WaitFrame

LEMMA Delivery_Wait ==
    ASSUME SchedInv, WaitSound, NEW t \in Used, state[t] # "DEAD",
           sig_deliver(t) \/ UNCHANGED <<sig_pending, lifeVars>>,
           UNCHANGED <<slotVars, progVars>>
    PROVE  WaitSound'
<1>0. /\ state \in [Slot -> Live \cup Ended] /\ exit_status \in [Slot -> Status]
      /\ obituary \in [Pid -> Status \cup {NoStatus}] /\ Used \subseteq Slot /\ pid[t] \in Pid
    BY Types, PidOfUsed
<1>1. UNCHANGED <<pid, task_pool_count, next_pid, user, pc, got>>
    BY DEF slotVars, progVars
<1>2. CASE UNCHANGED lifeVars
    BY <1>1, <1>2, WaitUntouched DEF lifeVars
<1>3. CASE ~UNCHANGED lifeVars
  <2>1. PICK st : task_terminate(t, st)
    BY <1>3 DEF sig_deliver
  <2>2. /\ state' = [state EXCEPT ![t] = Remains(t)]
        /\ exit_status' = [exit_status EXCEPT ![t] = st]
        /\ obituary' = [obituary EXCEPT ![pid[t]] = st]
    BY <2>1 DEF task_terminate
  <2>3. /\ \A s \in Slot \ {t} : state'[s] = state[s] /\ exit_status'[s] = exit_status[s]
        /\ \A p \in Pid : p # pid[t] => obituary'[p] = obituary[p]
        /\ obituary'[pid[t]] = exit_status'[t]
    BY <1>0, <2>2
  <2> QED
    BY <1>1, <2>3, WaitEnds
<1> QED
    BY <1>2, <1>3

LEMMA Schedule_Wait ==
    ASSUME SchedInv, WaitSound, Schedule
    PROVE  WaitSound'
<1>0. /\ state \in [Slot -> Live \cup Ended] /\ Used \subseteq Slot /\ current_task \in Used
      /\ in_schedule.at \in Used
    BY Types DEF SchedInv, WalkInPool
<1>1. CASE schedule_enter
  <2>1. CASE state[current_task] = "RUNNING"
    BY <1>0, <1>1, <2>1, Delivery_Wait DEF schedule_enter
  <2>2. CASE state[current_task] # "RUNNING"
    BY <1>1, <2>2, WaitUntouched DEF schedule_enter, slotVars, lifeVars, progVars
  <2> QED
    BY <2>1, <2>2
<1>2. CASE schedule_visit
  <2>1. CASE state[in_schedule.at] = "READY"
    BY <1>0, <1>2, <2>1, Delivery_Wait DEF schedule_visit
  <2>2. CASE state[in_schedule.at] # "READY"
    BY <1>2, <2>2, WaitUntouched DEF schedule_visit, slotVars, lifeVars, progVars
  <2> QED
    BY <2>1, <2>2
<1>3. CASE schedule_switch
  <2>1. UNCHANGED <<pid, task_pool_count, next_pid, user, pc, got, exit_status, obituary>>
    BY <1>3 DEF schedule_switch, slotVars, progVars
  <2>2. \A s \in Slot : state[s] \in Ended \/ state'[s] \in Ended => state'[s] = state[s]
    BY <1>0, <1>3 DEF schedule_switch, Ended
  <2>3. \A s \in Used : state[s] \in Ended \/ state'[s] \in Ended => state'[s] = state[s]
    BY <1>0, <2>2
  <2> QED
    BY <2>1, <2>3, WaitUntouched
<1> QED
    BY <1>1, <1>2, <1>3 DEF Schedule

LEMMA SignalStep_Wait ==
    ASSUME SchedInv, WaitSound, SignalStep
    PROVE  WaitSound'
<1>1. UNCHANGED <<pid, task_pool_count, next_pid, user, pc, got, lifeVars>>
    BY DEF SignalStep, SYS_KILL, keyboard_ctrl_c, sig_send, SYS_SIGNAL, shell_enter, signal_check_user,
           slotVars, progVars, lifeVars
<1> QED
    BY <1>1, WaitUntouched DEF lifeVars

LEMMA task_exit_Wait ==
    ASSUME SchedInv, WaitSound, NEW c \in Slot, NEW st \in Status, Runs(c), task_exit(c, st)
    PROVE  WaitSound'
<1>0. /\ state \in [Slot -> Live \cup Ended] /\ exit_status \in [Slot -> Status]
      /\ obituary \in [Pid -> Status \cup {NoStatus}] /\ Used \subseteq Slot
    BY Types
<1>1. c \in Used /\ state[c] = "RUNNING" /\ pid[c] \in Pid
    BY Types, PidOfUsed DEF Runs
<1>2. UNCHANGED <<pid, task_pool_count, next_pid, user, pc, got>>
    BY DEF task_exit, slotVars, progVars
<1>3. \A s \in Slot \ {c} : state'[s] = state[s] \/ state'[s] = "DEAD"
    BY DEF task_exit
<1>4. exit_status' = [exit_status EXCEPT ![c] = st] /\ obituary' = [obituary EXCEPT ![pid[c]] = st]
    BY DEF task_exit
<1>5. /\ \A s \in Slot \ {c} : exit_status'[s] = exit_status[s]
      /\ \A p \in Pid : p # pid[c] => obituary'[p] = obituary[p]
      /\ obituary'[pid[c]] = exit_status'[c]
    BY <1>0, <1>1, <1>4
<1> QED
    BY <1>1, <1>2, <1>3, <1>5, WaitEnds

LEMMA EndStep_Wait ==
    ASSUME SchedInv, WaitSound, EndStep
    PROVE  WaitSound'
<1>0. /\ state \in [Slot -> Live \cup Ended] /\ exit_status \in [Slot -> Status]
      /\ obituary \in [Pid -> Status \cup {NoStatus}] /\ Used \subseteq Slot
    BY Types
<1>1. ASSUME NEW c \in Slot, NEW st \in ExitCodes, SYS_EXIT(c, st) PROVE WaitSound'
  <2>1. st \in Status
    BY SchedAssumption, SMTT(60) DEF Status
  <2> QED
    BY <1>1, <2>1, task_exit_Wait DEF SYS_EXIT, InRing3
<1>2. ASSUME NEW c \in Slot, kill_userspace_fault(c) PROVE WaitSound'
    BY <1>2, task_exit_Wait, SMTT(60) DEF kill_userspace_fault, InRing3, SIGSEGV, Status
<1>3. ASSUME NEW c \in Slot, kernel_task_returns(c) \/ exec_task_entry_fails(c) PROVE WaitSound'
    BY <1>0, <1>3, task_exit_Wait DEF kernel_task_returns, exec_task_entry_fails
<1>4. ASSUME NEW c \in Slot, SYS_SIGRETURN_kill(c) PROVE WaitSound'
  <2>1. c \in Used /\ state[c] = "RUNNING" /\ pid[c] \in Pid
    BY <1>4, Types, PidOfUsed DEF SYS_SIGRETURN_kill, InRing3, Runs
  <2>2. /\ state' = [state EXCEPT ![c] = "DEAD"]
        /\ obituary' = [obituary EXCEPT ![pid[c]] = exit_status[c]]
        /\ UNCHANGED <<pid, task_pool_count, next_pid, user, pc, got, exit_status>>
    BY <1>4 DEF SYS_SIGRETURN_kill, slotVars, progVars
  <2>3. /\ \A s \in Slot \ {c} : state'[s] = state[s]
        /\ state'[c] = "DEAD"
        /\ \A p \in Pid : p # pid[c] => obituary'[p] = obituary[p]
    BY <1>0, <2>1, <2>2
  <2> QED
    BY <2>1, <2>2, <2>3, WaitEnds
<1> QED
    BY <1>1, <1>2, <1>3, <1>4 DEF EndStep

\* The child that wait4 collects is a zombie: its status is still in its slot,
\* and no other task has its pid.
LEMMA SYS_WAIT4_reap_Wait ==
    ASSUME SchedInv, WaitSound, NEW c \in Slot, SYS_WAIT4_reap(c)
    PROVE  WaitSound'
<1>0. /\ state \in [Slot -> Live \cup Ended] /\ pc \in [Slot -> PCs] /\ Used \subseteq Slot
      /\ got \in [Slot -> [pid : Pid \cup {NoPid}, status : Status]]
      /\ \A s, t \in Used : pid[s] = pid[t] => s = t
    BY Types DEF SchedInv, TypeOK, PidsFresh
<1>1. c \in Used /\ pc[c] \in InProgram /\ user[c]
    BY Types DEF SYS_WAIT4_reap, InWait4, Runs, InProgram, SchedInv, ProgramsOwn
<1>2. PICK z \in Used : z = Min(Reapable(c)) /\ state[z] = "ZOMBIE"
  <2>1. Reapable(c) \in SUBSET Used /\ Reapable(c) # {}
    BY DEF SYS_WAIT4_reap, Reapable, Children
  <2>2. Min(Reapable(c)) \in Reapable(c)
    BY <2>1, FirstUsed
  <2> QED
    BY <2>1, <2>2 DEF Reapable
<1>3. /\ got' = [got EXCEPT ![c] = [pid |-> pid[z], status |-> exit_status[z]]]
      /\ state' = [state EXCEPT ![z] = "DEAD"]
      /\ pc' = [pc EXCEPT ![c] = "user"]
      /\ UNCHANGED <<pid, task_pool_count, next_pid, user, exit_status, obituary>>
    BY <1>2 DEF SYS_WAIT4_reap, slotVars
<1>4. /\ got'[c].pid = pid[z] /\ got'[c].status = exit_status[z]
      /\ \A s \in Slot \ {c} : got'[s] = got[s]
    BY <1>0, <1>3
<1>5. state'[z] = "DEAD" /\ \A s \in Slot \ {z} : state'[s] = state[s]
    BY <1>0, <1>2, <1>3
<1>6. pc'[c] = "user" /\ \A s \in Slot \ {c} : pc'[s] = pc[s]
    BY <1>0, <1>3
<1>7. /\ \A s \in Used : user'[s] => pc'[s] \in InProgram
      /\ \A s \in Used : pc'[s] = "entry" => got'[s].pid = NoPid
    BY <1>0, <1>3, <1>4, <1>6 DEF WaitSound, InProgram
<1>8. /\ \A s \in Used : state'[s] = "ZOMBIE" => obituary'[pid[s]] = exit_status'[s]
      /\ \A s \in Used : state[s] = "DEAD" => state'[s] = "DEAD"
    BY <1>0, <1>3, <1>5 DEF WaitSound
<1>9. /\ pid[z] < next_pid /\ obituary[pid[z]] = exit_status[z]
      /\ \A t \in Used : pid[t] = pid[z] => state'[t] = "DEAD"
  <2>1. pid[z] \in 1..next_pid - 1 /\ next_pid \in Int
    BY Types, SMTT(60) DEF SchedInv, PidsFresh
  <2>2. obituary[pid[z]] = exit_status[z]
    BY <1>2 DEF WaitSound
  <2> QED
    BY <1>0, <1>5, <2>1, <2>2, SMTT(60)
<1>10. ASSUME NEW s \in Used, user'[s]
       PROVE  \/ user[s] /\ got'[s] = got[s]
              \/ /\ got'[s].pid < next_pid /\ obituary'[got'[s].pid] = got'[s].status
                 /\ \A t \in Used : pid[t] = got'[s].pid => state'[t] = "DEAD"
  <2>1. CASE s = c
    BY <1>3, <1>4, <1>9, <2>1
  <2>2. CASE s # c
    BY <1>0, <1>3, <1>4, <1>10, <2>2
  <2> QED
    BY <2>1, <2>2
<1>11. \A p \in Pid : obituary'[p] = obituary[p]
    BY <1>3
<1>12. UNCHANGED <<pid, task_pool_count, next_pid>>
    BY <1>3
<1> QED
    BY <1>7, <1>8, <1>10, <1>11, <1>12, WaitFrame

LEMMA WaitStep_Wait ==
    ASSUME SchedInv, WaitSound, WaitStep
    PROVE  WaitSound'
<1>0. /\ state \in [Slot -> Live \cup Ended] /\ pc \in [Slot -> PCs] /\ Used \subseteq Slot
    BY Types DEF SchedInv, TypeOK
<1>1. ASSUME NEW c \in Slot, ipc_block(c) \/ ipc_wake(c) PROVE WaitSound'
  <2>1. /\ state[c] \notin Ended
        /\ state' = [state EXCEPT ![c] = "BLOCKED"] \/ state' = [state EXCEPT ![c] = "READY"]
        /\ UNCHANGED <<pid, task_pool_count, next_pid, user, pc, got, exit_status, obituary>>
    BY <1>1 DEF ipc_block, ipc_wake, InRing3, Runs, Ended, slotVars, progVars
  <2>2. \A s \in Slot : state[s] \in Ended \/ state'[s] \in Ended => state'[s] = state[s]
    BY <1>0, <2>1 DEF Ended
  <2>3. \A s \in Used : state[s] \in Ended \/ state'[s] \in Ended => state'[s] = state[s]
    BY <1>0, <2>2
  <2> QED
    BY <2>1, <2>3, WaitUntouched
<1>2. ASSUME NEW c \in Slot, SYS_WAIT4_return(c) \/ (\E p, o : o \in {"wait4", "wnohang"} /\ SYS_WAIT4(c, p, o))
      PROVE  WaitSound'
  <2>1. /\ \E o \in InProgram : pc' = [pc EXCEPT ![c] = o]
        /\ UNCHANGED <<pid, task_pool_count, next_pid, user, got, lifeVars>>
    BY <1>2 DEF SYS_WAIT4_return, SYS_WAIT4, slotVars, InProgram
  <2>2. /\ \A s \in Used : pc[s] \in InProgram => pc'[s] \in InProgram
        /\ \A s \in Used : pc'[s] = "entry" => pc[s] = "entry"
    BY <1>0, <2>1 DEF InProgram
  <2> QED
    BY <2>1, <2>2, WaitUntouched DEF lifeVars
<1> QED
    BY <1>1, <1>2, SYS_WAIT4_reap_Wait DEF WaitStep

\* A new task takes the place of a DEAD one, with a pid that nobody collected.
LEMMA NewTask_Wait ==
    ASSUME SchedInv, WaitSound, NEW c \in Slot, NEW t \in Slot, NEW ring3 \in BOOLEAN,
           NewTask(c, t, ring3),
           ring3 => pc'[t] \in InProgram,
           \A s \in Used \ {t} : pc[s] \in InProgram => pc'[s] \in InProgram,
           \A s \in Used \ {t} : pc'[s] = "entry" => pc[s] = "entry"
    PROVE  WaitSound'
<1>0. /\ state \in [Slot -> Live \cup Ended] /\ Used \subseteq Slot /\ next_pid \in Int
      /\ pid \in [Slot -> Pid \cup {NoPid}] /\ user \in [Slot -> BOOLEAN]
      /\ exit_status \in [Slot -> Status]
      /\ got \in [Slot -> [pid : Pid \cup {NoPid}, status : Status]]
    BY Types, SMTT(60) DEF SchedInv, TypeOK
<1>1. Used' = Used \cup {t}
    BY NewTask_Facts
<1>2. /\ state' = [state EXCEPT ![t] = "READY"] /\ pid' = [pid EXCEPT ![t] = next_pid]
      /\ exit_status' = [exit_status EXCEPT ![t] = 0] /\ user' = [user EXCEPT ![t] = ring3]
      /\ got' = [got EXCEPT ![t] = NobodyGot]
      /\ next_pid' = next_pid + 1 /\ UNCHANGED obituary
    BY DEF NewTask
<1>3. /\ state'[t] = "READY" /\ pid'[t] = next_pid /\ user'[t] = ring3 /\ got'[t].pid = NoPid
    BY <1>0, <1>2 DEF NobodyGot
<1>4. \A s \in Slot \ {t} : state'[s] = state[s] /\ pid'[s] = pid[s] /\ exit_status'[s] = exit_status[s]
    BY <1>2, SMTT(60)
<1>5. \A s \in Slot \ {t} : user'[s] = user[s] /\ got'[s] = got[s]
    BY <1>2, SMTT(60)
<1>6. ASSUME NEW s \in Used' PROVE /\ user'[s] => pc'[s] \in InProgram
                                   /\ pc'[s] = "entry" => got'[s].pid = NoPid
  <2>1. CASE s = t
    BY <1>3, <2>1
  <2>2. CASE s # t
    BY <1>0, <1>1, <1>5, <2>2, SMTT(60) DEF WaitSound, InProgram
  <2> QED
    BY <2>1, <2>2
<1>7. ASSUME NEW s \in Used', state'[s] = "ZOMBIE" PROVE obituary'[pid'[s]] = exit_status'[s]
    BY <1>0, <1>1, <1>2, <1>3, <1>4, <1>7 DEF WaitSound
<1>8. ASSUME NEW s \in Used', user'[s], got'[s].pid # NoPid
      PROVE  /\ got'[s].pid < next_pid' /\ obituary'[got'[s].pid] = got'[s].status
             /\ \A r \in Used' : pid'[r] = got'[s].pid => state'[r] = "DEAD"
  <2>1. s # t /\ s \in Used /\ user[s] /\ got'[s] = got[s]
    BY <1>0, <1>1, <1>3, <1>5, <1>8
  <2>2. /\ got[s].pid < next_pid /\ obituary[got[s].pid] = got[s].status
        /\ \A r \in Used : pid[r] = got[s].pid => state[r] = "DEAD"
    BY <1>8, <2>1 DEF WaitSound
  <2>3. got[s].pid \in Int /\ got[s].pid < next_pid'
    BY <1>0, <1>2, <2>1, <2>2, SMTT(60) DEF Pid, NoPid
  <2>4. ASSUME NEW r \in Used', pid'[r] = got[s].pid PROVE state'[r] = "DEAD"
    <3>1. r # t
        BY <1>0, <1>3, <2>2, <2>3, <2>4, SMTT(60)
    <3>2. r \in Used /\ pid[r] = got[s].pid /\ state'[r] = state[r]
        BY <1>0, <1>1, <1>4, <2>4, <3>1
    <3> QED
        BY <2>2, <3>2
  <2> QED
    BY <1>2, <2>1, <2>2, <2>3, <2>4
<1> QED
    BY <1>6, <1>7, <1>8 DEF WaitSound, InProgram

LEMMA BirthStep_Wait ==
    ASSUME SchedInv, WaitSound, BirthStep
    PROVE  WaitSound'
<1>0. /\ pc \in [Slot -> PCs] /\ Used \subseteq Slot /\ user \in [Slot -> BOOLEAN]
      /\ got \in [Slot -> [pid : Pid \cup {NoPid}, status : Status]]
    BY Types DEF SchedInv, TypeOK
<1>r. \A c \in Slot : Runs(c) => c \in Used
    BY Types DEF Runs
<1>1. ASSUME NEW c \in Slot, NEW t \in Slot, task_fork(c, t) PROVE WaitSound'
  <2>1. NewTask(c, t, TRUE) /\ pc' = [pc EXCEPT ![t] = "user"]
    BY <1>1 DEF task_fork
  <2>2. pc'[t] = "user" /\ \A s \in Used \ {t} : pc'[s] = pc[s]
    BY <1>0, <2>1
  <2> QED
    BY <2>1, <2>2, NewTask_Wait DEF InProgram
<1>2. ASSUME NEW c \in Slot, NEW t \in Slot, shell_exec_elf(c, t) PROVE WaitSound'
  <2>1. NewTask(c, t, FALSE) /\ pc[c] = "kernel" /\ pc' = [pc EXCEPT ![t] = "entry", ![c] = "handing"]
    BY <1>2 DEF shell_exec_elf
  <2>2. /\ \A s \in Used \ {t} : pc[s] \in InProgram => pc'[s] \in InProgram
        /\ \A s \in Used \ {t} : pc'[s] = "entry" => pc[s] = "entry"
    BY <1>0, <2>1 DEF InProgram
  <2> QED
    BY <2>1, <2>2, NewTask_Wait
<1>3. ASSUME NEW c \in Slot, NEW login \in BOOLEAN, shell_exec_hand(c, login) PROVE WaitSound'
  <2>1. /\ pc[c] = "handing" /\ pc' = [pc EXCEPT ![c] = "execwait"]
        /\ UNCHANGED <<pid, task_pool_count, next_pid, user, got, lifeVars>>
    BY <1>3 DEF shell_exec_hand
  <2>2. /\ \A s \in Used : pc[s] \in InProgram => pc'[s] \in InProgram
        /\ \A s \in Used : pc'[s] = "entry" => pc[s] = "entry"
    BY <1>0, <2>1 DEF InProgram
  <2> QED
    BY <2>1, <2>2, WaitUntouched DEF lifeVars
<1>4. ASSUME NEW c \in Slot, shell_exec_wait(c) PROVE WaitSound'
  <2>1. /\ pc[c] = "execwait" /\ pc' = [pc EXCEPT ![c] = "execdone"]
        /\ UNCHANGED <<pid, task_pool_count, next_pid, user, got, lifeVars>>
    BY <1>4 DEF shell_exec_wait, slotVars
  <2>2. /\ \A s \in Used : pc[s] \in InProgram => pc'[s] \in InProgram
        /\ \A s \in Used : pc'[s] = "entry" => pc[s] = "entry"
    BY <1>0, <2>1 DEF InProgram
  <2> QED
    BY <2>1, <2>2, WaitUntouched DEF lifeVars
<1>5. ASSUME NEW c \in Slot, shell_exec_status(c) PROVE WaitSound'
  <2>1. /\ c \in Used /\ pc[c] = "execdone" /\ pc' = [pc EXCEPT ![c] = "kernel"]
        /\ \A s \in Slot \ {c} : got'[s] = got[s]
        /\ UNCHANGED <<pid, task_pool_count, next_pid, user, lifeVars>>
    BY <1>0, <1>r, <1>5 DEF shell_exec_status, slotVars
  <2>2. ~user[c]
    BY <2>1 DEF WaitSound
  <2>3. pc'[c] = "kernel" /\ \A s \in Used \ {c} : pc'[s] = pc[s] /\ got'[s] = got[s]
    BY <1>0, <2>1
  <2>4. /\ \A s \in Used : user'[s] => pc'[s] \in InProgram
        /\ \A s \in Used : pc'[s] = "entry" => got'[s].pid = NoPid
    BY <2>1, <2>2, <2>3, SMTT(60) DEF WaitSound, InProgram
  <2>5. /\ \A s \in Used : state'[s] = "ZOMBIE" => obituary'[pid[s]] = exit_status'[s]
        /\ \A s \in Used : state[s] = "DEAD" => state'[s] = "DEAD"
        /\ \A p \in Pid : obituary'[p] = obituary[p]
    BY <2>1 DEF WaitSound, lifeVars
  <2>6. \A s \in Used : user'[s] => user[s] /\ got'[s] = got[s]
    BY <2>1, <2>2, <2>3
  <2> QED
    BY <2>1, <2>4, <2>5, <2>6, WaitFrame
<1>6. ASSUME NEW c \in Slot, exec_task_entry(c) PROVE WaitSound'
  <2>1. /\ c \in Used /\ pc[c] = "entry" /\ pc' = [pc EXCEPT ![c] = "user"]
        /\ user' = [user EXCEPT ![c] = TRUE]
        /\ UNCHANGED <<pid, task_pool_count, next_pid, got, lifeVars>>
    BY <1>r, <1>6 DEF exec_task_entry
  <2>2. got[c].pid = NoPid
    BY <2>1 DEF WaitSound
  <2>3. pc'[c] = "user" /\ \A s \in Used \ {c} : pc'[s] = pc[s] /\ user'[s] = user[s]
    BY <1>0, <2>1
  <2>4. /\ \A s \in Used : user'[s] => pc'[s] \in InProgram
        /\ \A s \in Used : pc'[s] = "entry" => got'[s].pid = NoPid
    BY <2>1, <2>3 DEF WaitSound, InProgram
  <2>5. /\ \A s \in Used : state'[s] = "ZOMBIE" => obituary'[pid[s]] = exit_status'[s]
        /\ \A s \in Used : state[s] = "DEAD" => state'[s] = "DEAD"
        /\ \A p \in Pid : obituary'[p] = obituary[p]
    BY <2>1 DEF WaitSound, lifeVars
  <2>6. \A s \in Used : user'[s] /\ got'[s].pid # NoPid => user[s] /\ got'[s] = got[s]
    BY <2>1, <2>2, <2>3
  <2> QED
    BY <2>1, <2>4, <2>5, <2>6, WaitFrame
<1>7. ASSUME NEW c \in Slot, SYS_EXECVE(c) PROVE WaitSound'
  <2>1. UNCHANGED <<pid, task_pool_count, next_pid, user, pc, got, lifeVars>>
    BY <1>7 DEF SYS_EXECVE, slotVars, progVars, lifeVars
  <2> QED
    BY <2>1, WaitUntouched DEF lifeVars
<1> QED
    BY <1>1, <1>2, <1>3, <1>4, <1>5, <1>6, <1>7 DEF BirthStep

LEMMA WaitKept ==
    ASSUME SchedInv, WaitSound, [Next]_vars
    PROVE  WaitSound'
<1>1. CASE UNCHANGED vars
  <2>1. UNCHANGED <<pid, task_pool_count, next_pid, user, pc, got, lifeVars>>
    BY <1>1 DEF vars, slotVars, progVars, lifeVars
  <2> QED
    BY <2>1, WaitUntouched DEF lifeVars
<1> QED
    BY <1>1, Schedule_Wait, SignalStep_Wait, EndStep_Wait, WaitStep_Wait, BirthStep_Wait DEF Next

LEMMA Init_Wait == Init => WalkSound /\ WaitSound
<1> SUFFICES ASSUME Init PROVE WalkSound /\ WaitSound
    OBVIOUS
<1>1. ~in_schedule.on
    BY DEF Init, NotWalking
<1>2. Used \subseteq Slot
    BY Init_Inv, Types
<1>3. \A s \in Slot : ~user[s] /\ pc[s] = "kernel" /\ state[s] # "ZOMBIE"
    BY DEF Init
<1> QED
    BY <1>1, <1>2, <1>3 DEF WalkSound, WaitSound

-----------------------------------------------------------------------------
(* The theorems *)

\* The inductive invariant of the scheduler: the task table, the run list, the
\* walk of schedule() and the statuses that wait4 collects stay sound.
THEOREM RunInvariant == Spec => []RunInv
<1>1. Init => RunInv
    BY Init_Inv, Init_Ring, Init_Wait DEF RunInv
<1>2. RunInv /\ [Next]_vars => RunInv'
    BY Next_Inv, RingKept, WalkKept, WaitKept DEF RunInv
<1> QED
    BY <1>1, <1>2, PTL DEF Spec

\* Whatever task_create and task_fork reclaim and relink, the run list is one
\* cycle through every slot in use.
THEOREM RingIsSound == Spec => []RingSound
<1>1. RunInv => RingSound
    BY DEF RunInv
<1> QED
    BY <1>1, RunInvariant, PTL

\* schedule() never stays on an ended task: when its walk is over it has found a
\* READY one.
THEOREM NotStranded == Spec => []NeverStranded
<1>1. RunInv => NeverStranded
    BY WalkFinds DEF RunInv
<1> QED
    BY <1>1, RunInvariant, PTL

\* What SYS_WAIT4 hands to a program is a task that ended, with its status, for
\* good: the slot may be reused, the pid and the status stay true.
THEOREM ReapIsTrue == Spec => []ReapTrue
<1>1. RunInv => ReapTrue
    BY DEF RunInv, WaitSound, ReapTrue
<1> QED
    BY <1>1, RunInvariant, PTL

\* schedule() picks no task with a SIGKILL pending, save behind a signal that the
\* task's program catches.
THEOREM KillIsHonoured == Spec => []KillHonoured
<1>1. Init => KillHonoured
    BY SMTT(60) DEF Init, NotWalking, KillHonoured
<1>2. SchedInv /\ KillHonoured /\ [Next]_vars => KillHonoured'
    BY HonouredKept
<1> QED
    BY <1>1, <1>2, SchedInvariant, PTL DEF Spec

============================================================================
