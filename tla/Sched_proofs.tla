--------------------------- MODULE Sched_proofs ---------------------------
(***************************************************************************)
(* Proofs about Sched, for every number of tasks, pids and signals.  The   *)
(* inductive invariant is SchedInv: one lemma for every signal, wait and   *)
(* end of a task, for new tasks and for schedule(), then the theorems.     *)
(***************************************************************************)
EXTENDS Sched, WellFoundedInduction, TLAPS

\* A leaf is given up after this many seconds.
USE ZenonT(60)

-----------------------------------------------------------------------------
(* Helpers *)

\* A set of naturals that is not empty has a least element, which Min returns.
\* sig_deliver, wait4 and task_create all take the first of a set.
LEMMA MinFact ==
    ASSUME NEW S \in SUBSET Nat, S # {}
    PROVE  Min(S) \in S /\ \A y \in S : Min(S) <= y
<1> DEFINE R == OpToRel(<, Nat)
<1>1. \E x \in S : \A y \in S : ~(<<y, x>> \in R)
    BY NatLessThanWellFounded, WFMin
<1>2. PICK x \in S : \A y \in S : ~(<<y, x>> \in R)
    BY <1>1
<1>3. ASSUME NEW y \in S, y < x PROVE FALSE
  <2>1. y \in Nat /\ x \in Nat
    OBVIOUS
  <2>2. <<y, x>> \in R
    BY <2>1, <1>3 DEF OpToRel
  <2> QED
    BY <1>2, <2>2
<1>4. \A y \in S : x <= y
    BY <1>3, SMTT(60)
<1> QED
    BY <1>4 DEF Min

\* The types of the variables the other conjuncts of SchedInv are about.
LEMMA Types ==
    ASSUME SchedInv
    PROVE  /\ state \in [Slot -> Live \cup Ended] /\ pid \in [Slot -> Pid \cup {NoPid}]
           /\ user \in [Slot -> BOOLEAN] /\ unkillable \in [Slot -> BOOLEAN]
           /\ exit_status \in [Slot -> Status]
           /\ obituary \in [Pid -> Status \cup {NoStatus}]
           /\ s_handlers \in [Slot -> [Signals -> {SIG_DFL, SIG_IGN, SIG_USER}]]
           /\ sig_pending \in [Slot -> SUBSET Signals]
           /\ pc \in [Slot -> PCs] /\ child \in [Slot -> Slot]
           /\ task_pool_count \in 1..MAX_TASKS /\ next_pid \in 2..MaxPid + 1
           /\ current_task \in Used /\ Used \subseteq Slot /\ Idle \in Used
<1>1. TypeOK
    BY DEF SchedInv
<1>2. task_pool_count \in 1..MAX_TASKS
    BY <1>1 DEF TypeOK
<1>3. Used \subseteq Slot /\ Idle \in Used
    BY <1>2, SchedAssumption, SMTT(60) DEF Used, Slot, Idle
<1> QED
    BY <1>1, <1>3 DEF TypeOK

\* Every task in use has a pid.
LEMMA PidOfUsed ==
    ASSUME SchedInv, NEW s \in Used
    PROVE  pid[s] \in Pid
<1>1. pid[s] \in 1..next_pid - 1 /\ next_pid \in 2..MaxPid + 1
    BY Types DEF SchedInv, PidsFresh
<1> QED
    BY <1>1, SchedAssumption, SMTT(60) DEF Pid

\* The first of a set of slots in use is one of them.
LEMMA FirstUsed ==
    ASSUME SchedInv, NEW S \in SUBSET Used, S # {}
    PROVE  Min(S) \in S
<1>1. S \in SUBSET Nat
    BY Types, SMTT(60) DEF Used
<1> QED
    BY <1>1, MinFact

\* The signals are natural numbers, and SIGINT is one of them if it can be sent.
LEMMA SignalsNat ==
    /\ Signals \subseteq Nat
    /\ "ctrl-c" \in Calls \/ "shell" \in Calls => SIGINT \in Signals
    BY SchedAssumption, SMTT(60)

-----------------------------------------------------------------------------
(* Signals and waiting *)

\* SchedInv survives posting a signal.
LEMMA sig_send_Inv ==
    ASSUME SchedInv, NEW t \in Used, NEW g \in Signals,
           sig_send(t, g)
    PROVE  SchedInv'
<1> USE DEF slotVars, lifeVars, sigVars, progVars
<1>0. /\ TypeOK /\ OneRunning /\ PidsFresh /\ IdleProtected /\ ProgramsOwn
      /\ HandlersOwn /\ WalkInPool
    BY DEF SchedInv
<1>a. sig_pending' \in [Slot -> SUBSET Signals]
    BY Types DEF sig_send
<1>b. condemned' \subseteq Pid
    BY <1>0, PidOfUsed DEF sig_send, TypeOK
<1>1. TypeOK'
    BY <1>0, <1>a, <1>b DEF TypeOK, Used, sig_send
<1>2. OneRunning'
    BY <1>0, <1>a, <1>b, Types DEF OneRunning, Used, sig_send
<1>3. PidsFresh'
    BY <1>0 DEF PidsFresh, Used, sig_send
<1>4. IdleProtected'
    BY <1>0, <1>a, <1>b, Types DEF IdleProtected, IdleRunnable, Used, sig_send
<1>5. ProgramsOwn'
    BY <1>0, <1>a, <1>b, Types DEF ProgramsOwn, Used, sig_send
<1>6. HandlersOwn'
    BY <1>0, <1>a, <1>b, Types DEF HandlersOwn, ProgramsOwn, SIG_IGN, SIG_USER, SIG_DFL, Used, sig_send
<1>7. WalkInPool'
    BY <1>0 DEF WalkInPool, Used, sig_send
<1> QED
    BY <1>1, <1>2, <1>3, <1>4, <1>5, <1>6, <1>7 DEF SchedInv

\* SchedInv survives installing a handler.
LEMMA SYS_SIGNAL_Inv ==
    ASSUME SchedInv, NEW c \in Slot, NEW g \in Signals, NEW h \in {SIG_DFL, SIG_IGN, SIG_USER},
           SYS_SIGNAL(c, g, h)
    PROVE  SchedInv'
<1> USE DEF slotVars, lifeVars, sigVars, progVars
<1>0. /\ TypeOK /\ OneRunning /\ PidsFresh /\ IdleProtected /\ ProgramsOwn
      /\ HandlersOwn /\ WalkInPool
    BY DEF SchedInv
<1>a. s_handlers' \in [Slot -> [Signals -> {SIG_DFL, SIG_IGN, SIG_USER}]]
    BY Types DEF SYS_SIGNAL
<1>1. TypeOK'
    BY <1>0, <1>a DEF TypeOK, Used, SYS_SIGNAL, InRing3, Runs
<1>2. OneRunning'
    BY <1>0, <1>a, Types DEF OneRunning, Used, SYS_SIGNAL, InRing3, Runs
<1>3. PidsFresh'
    BY <1>0 DEF PidsFresh, Used, SYS_SIGNAL, InRing3, Runs
<1>4. IdleProtected'
    BY <1>0, <1>a, Types DEF IdleProtected, IdleRunnable, Used, SYS_SIGNAL, InRing3, Runs
<1>5. ProgramsOwn'
    BY <1>0, <1>a, Types DEF ProgramsOwn, Used, SYS_SIGNAL, InRing3, Runs
<1>6. HandlersOwn'
    BY <1>0, <1>a, Types, SMTT(60) DEF HandlersOwn, ProgramsOwn, SIG_IGN, SIG_USER, SIG_DFL, Used, SYS_SIGNAL, InRing3, Runs
<1>7. WalkInPool'
    BY <1>0 DEF WalkInPool, Used, SYS_SIGNAL, InRing3, Runs
<1> QED
    BY <1>1, <1>2, <1>3, <1>4, <1>5, <1>6, <1>7 DEF SchedInv

\* SchedInv survives a shell protecting itself.
LEMMA shell_enter_Inv ==
    ASSUME SchedInv, NEW c \in Slot,
           shell_enter(c)
    PROVE  SchedInv'
<1> USE DEF slotVars, lifeVars, sigVars, progVars
<1>0. /\ TypeOK /\ OneRunning /\ PidsFresh /\ IdleProtected /\ ProgramsOwn
      /\ HandlersOwn /\ WalkInPool
    BY DEF SchedInv
<1>a. s_handlers' \in [Slot -> [Signals -> {SIG_DFL, SIG_IGN, SIG_USER}]]
    BY Types, SignalsNat DEF shell_enter
<1>b. unkillable' \in [Slot -> BOOLEAN]
    BY Types DEF shell_enter
<1>1. TypeOK'
    BY <1>0, <1>a, <1>b DEF TypeOK, Used, shell_enter, Runs
<1>2. OneRunning'
    BY <1>0, <1>a, <1>b, Types DEF OneRunning, Used, shell_enter, Runs
<1>3. PidsFresh'
    BY <1>0 DEF PidsFresh, Used, shell_enter, Runs
<1>4. IdleProtected'
    BY <1>0, <1>a, <1>b, Types DEF IdleProtected, IdleRunnable, Used, shell_enter, Runs
<1>5. ProgramsOwn'
    BY <1>0, <1>a, <1>b, Types DEF ProgramsOwn, Used, shell_enter, Runs
<1>6. HandlersOwn'
    BY <1>0, <1>a, <1>b, Types, SMTT(60) DEF HandlersOwn, ProgramsOwn, SIG_IGN, SIG_USER, SIG_DFL, Used, shell_enter, Runs
<1>7. WalkInPool'
    BY <1>0 DEF WalkInPool, Used, shell_enter, Runs
<1> QED
    BY <1>1, <1>2, <1>3, <1>4, <1>5, <1>6, <1>7 DEF SchedInv

\* SchedInv survives delivery to a ring-3 handler.
LEMMA signal_check_user_Inv ==
    ASSUME SchedInv, NEW c \in Slot,
           signal_check_user(c)
    PROVE  SchedInv'
<1> USE DEF slotVars, lifeVars, sigVars, progVars
<1>0. /\ TypeOK /\ OneRunning /\ PidsFresh /\ IdleProtected /\ ProgramsOwn
      /\ HandlersOwn /\ WalkInPool
    BY DEF SchedInv
<1>a. sig_pending' \in [Slot -> SUBSET Signals]
    BY Types DEF signal_check_user
<1>1. TypeOK'
    BY <1>0, <1>a DEF TypeOK, Used, signal_check_user, Runs
<1>2. OneRunning'
    BY <1>0, <1>a, Types DEF OneRunning, Used, signal_check_user, Runs
<1>3. PidsFresh'
    BY <1>0 DEF PidsFresh, Used, signal_check_user, Runs
<1>4. IdleProtected'
    BY <1>0, <1>a, Types DEF IdleProtected, IdleRunnable, Used, signal_check_user, Runs
<1>5. ProgramsOwn'
    BY <1>0, <1>a, Types DEF ProgramsOwn, Used, signal_check_user, Runs
<1>6. HandlersOwn'
    BY <1>0, <1>a, Types DEF HandlersOwn, ProgramsOwn, SIG_IGN, SIG_USER, SIG_DFL, Used, signal_check_user, Runs
<1>7. WalkInPool'
    BY <1>0 DEF WalkInPool, Used, signal_check_user, Runs
<1> QED
    BY <1>1, <1>2, <1>3, <1>4, <1>5, <1>6, <1>7 DEF SchedInv

\* SchedInv survives blocking in IPC.
LEMMA ipc_block_Inv ==
    ASSUME SchedInv, NEW c \in Slot,
           ipc_block(c)
    PROVE  SchedInv'
<1> USE DEF slotVars, lifeVars, sigVars, progVars
<1>0. /\ TypeOK /\ OneRunning /\ PidsFresh /\ IdleProtected /\ ProgramsOwn
      /\ HandlersOwn /\ WalkInPool
    BY DEF SchedInv
<1>a. state' \in [Slot -> Live \cup Ended]
    BY Types DEF ipc_block, Live
<1>1. TypeOK'
    BY <1>0, <1>a DEF TypeOK, Used, ipc_block, InRing3, Runs
<1>2. OneRunning'
    BY <1>0, <1>a, Types DEF OneRunning, Used, ipc_block, InRing3, Runs
<1>3. PidsFresh'
    BY <1>0 DEF PidsFresh, Used, ipc_block, InRing3, Runs
<1>4. IdleProtected'
    BY <1>0, <1>a, Types DEF IdleProtected, IdleRunnable, Used, ipc_block, InRing3, Runs
<1>5. ProgramsOwn'
    BY <1>0, <1>a, Types DEF ProgramsOwn, Used, ipc_block, InRing3, Runs
<1>6. HandlersOwn'
    BY <1>0, <1>a, Types DEF HandlersOwn, ProgramsOwn, SIG_IGN, SIG_USER, SIG_DFL, Used, ipc_block, InRing3, Runs
<1>7. WalkInPool'
    BY <1>0 DEF WalkInPool, Used, ipc_block, InRing3, Runs
<1> QED
    BY <1>1, <1>2, <1>3, <1>4, <1>5, <1>6, <1>7 DEF SchedInv

\* SchedInv survives a wakeup.
LEMMA ipc_wake_Inv ==
    ASSUME SchedInv, NEW c \in Slot,
           ipc_wake(c)
    PROVE  SchedInv'
<1> USE DEF slotVars, lifeVars, sigVars, progVars
<1>0. /\ TypeOK /\ OneRunning /\ PidsFresh /\ IdleProtected /\ ProgramsOwn
      /\ HandlersOwn /\ WalkInPool
    BY DEF SchedInv
<1>a. state' \in [Slot -> Live \cup Ended]
    BY Types DEF ipc_wake, Live
<1>1. TypeOK'
    BY <1>0, <1>a DEF TypeOK, Used, ipc_wake
<1>2. OneRunning'
    BY <1>0, <1>a, Types DEF OneRunning, Used, ipc_wake
<1>3. PidsFresh'
    BY <1>0 DEF PidsFresh, Used, ipc_wake
<1>4. IdleProtected'
    BY <1>0, <1>a, Types DEF IdleProtected, IdleRunnable, Used, ipc_wake
<1>5. ProgramsOwn'
    BY <1>0, <1>a, Types DEF ProgramsOwn, Used, ipc_wake
<1>6. HandlersOwn'
    BY <1>0, <1>a, Types DEF HandlersOwn, ProgramsOwn, SIG_IGN, SIG_USER, SIG_DFL, Used, ipc_wake
<1>7. WalkInPool'
    BY <1>0 DEF WalkInPool, Used, ipc_wake
<1> QED
    BY <1>1, <1>2, <1>3, <1>4, <1>5, <1>6, <1>7 DEF SchedInv

\* SchedInv survives the start of a wait4.
LEMMA SYS_WAIT4_Inv ==
    ASSUME SchedInv, NEW c \in Slot, NEW p \in {AnyChild} \cup 1..next_pid - 1,
           NEW o \in {"wait4", "wnohang"},
           SYS_WAIT4(c, p, o)
    PROVE  SchedInv'
<1> USE DEF slotVars, lifeVars, sigVars, progVars
<1>0. /\ TypeOK /\ OneRunning /\ PidsFresh /\ IdleProtected /\ ProgramsOwn
      /\ HandlersOwn /\ WalkInPool
    BY DEF SchedInv
<1>a. pc' \in [Slot -> PCs]
    BY Types DEF SYS_WAIT4, PCs
<1>b. p \in Pid \cup {AnyChild}
    BY Types, SchedAssumption, SMTT(60) DEF Pid
<1>c. want_pid' \in [Slot -> Pid \cup {AnyChild}]
    BY <1>0, <1>b DEF SYS_WAIT4, TypeOK
<1>1. TypeOK'
    BY <1>0, <1>a, <1>b, <1>c DEF TypeOK, Used, SYS_WAIT4, InRing3, Runs
<1>2. OneRunning'
    BY <1>0, <1>a, <1>b, <1>c, Types DEF OneRunning, Used, SYS_WAIT4, InRing3, Runs
<1>3. PidsFresh'
    BY <1>0 DEF PidsFresh, Used, SYS_WAIT4, InRing3, Runs
<1>4. IdleProtected'
    BY <1>0, <1>a, <1>b, <1>c, Types DEF IdleProtected, IdleRunnable, Used, SYS_WAIT4, InRing3, Runs
<1>5. ProgramsOwn'
    BY <1>0, <1>a, <1>b, <1>c, Types DEF ProgramsOwn, Used, SYS_WAIT4, InRing3, Runs
<1>6. HandlersOwn'
    BY <1>0, <1>a, <1>b, <1>c, Types, SMTT(60) DEF HandlersOwn, ProgramsOwn, SIG_IGN, SIG_USER, SIG_DFL, Used, SYS_WAIT4, InRing3, Runs
<1>7. WalkInPool'
    BY <1>0 DEF WalkInPool, Used, SYS_WAIT4, InRing3, Runs
<1> QED
    BY <1>1, <1>2, <1>3, <1>4, <1>5, <1>6, <1>7 DEF SchedInv

\* SchedInv survives wait4 collecting a zombie.
LEMMA SYS_WAIT4_reap_Inv ==
    ASSUME SchedInv, NEW c \in Slot,
           SYS_WAIT4_reap(c)
    PROVE  SchedInv'
<1> USE DEF slotVars, lifeVars, sigVars, progVars
<1>0. /\ TypeOK /\ OneRunning /\ PidsFresh /\ IdleProtected /\ ProgramsOwn
      /\ HandlersOwn /\ WalkInPool
    BY DEF SchedInv
<1>a. PICK z \in Used : z = Min(Reapable(c)) /\ state[z] = "ZOMBIE"
    BY FirstUsed DEF SYS_WAIT4_reap, Reapable, Children
<1>b. state' = [state EXCEPT ![z] = "DEAD"] /\ state' \in [Slot -> Live \cup Ended]
    BY <1>a, Types DEF SYS_WAIT4_reap, Ended
<1>c. pc' \in [Slot -> PCs]
    BY Types DEF SYS_WAIT4_reap, PCs
<1>d. want_pid' \in [Slot -> Pid \cup {AnyChild}]
    BY <1>0 DEF SYS_WAIT4_reap, TypeOK
<1>e. z \in Slot
    BY Types
<1>f. got' \in [Slot -> [pid : Pid \cup {NoPid}, status : Status]]
    BY <1>0, <1>a, <1>e DEF SYS_WAIT4_reap, TypeOK
<1>1. TypeOK'
    BY <1>0, <1>a, <1>b, <1>c, <1>d, <1>e, <1>f DEF TypeOK, Used, SYS_WAIT4_reap, InWait4, Runs
<1>2. OneRunning'
    BY <1>0, <1>a, <1>b, <1>c, <1>d, <1>e, <1>f, Types, SMTT(60) DEF OneRunning, Used, SYS_WAIT4_reap, InWait4, Runs
<1>3. PidsFresh'
    BY <1>0 DEF PidsFresh, Used, SYS_WAIT4_reap, InWait4, Runs
<1>4. IdleProtected'
    BY <1>0, <1>a, <1>b, <1>c, <1>d, <1>e, <1>f, Types DEF IdleProtected, IdleRunnable, Used, SYS_WAIT4_reap, InWait4, Runs
<1>5. ProgramsOwn'
    BY <1>0, <1>a, <1>b, <1>c, <1>d, <1>e, <1>f, Types DEF ProgramsOwn, Used, SYS_WAIT4_reap, InWait4, Runs
<1>6. HandlersOwn'
    BY <1>0, <1>a, <1>b, <1>c, <1>d, <1>e, <1>f, Types, SMTT(60) DEF HandlersOwn, ProgramsOwn, SIG_IGN, SIG_USER, SIG_DFL, Used, SYS_WAIT4_reap, InWait4, Runs
<1>7. WalkInPool'
    BY <1>0 DEF WalkInPool, Used, SYS_WAIT4_reap, InWait4, Runs
<1> QED
    BY <1>1, <1>2, <1>3, <1>4, <1>5, <1>6, <1>7 DEF SchedInv

\* SchedInv survives a wait4 that collects nothing.
LEMMA SYS_WAIT4_return_Inv ==
    ASSUME SchedInv, NEW c \in Slot,
           SYS_WAIT4_return(c)
    PROVE  SchedInv'
<1> USE DEF slotVars, lifeVars, sigVars, progVars
<1>0. /\ TypeOK /\ OneRunning /\ PidsFresh /\ IdleProtected /\ ProgramsOwn
      /\ HandlersOwn /\ WalkInPool
    BY DEF SchedInv
<1>c. pc' \in [Slot -> PCs]
    BY Types DEF SYS_WAIT4_return, PCs
<1>d. want_pid' \in [Slot -> Pid \cup {AnyChild}]
    BY <1>0 DEF SYS_WAIT4_return, TypeOK
<1>1. TypeOK'
    BY <1>0, <1>c, <1>d DEF TypeOK, Used, SYS_WAIT4_return, InWait4, Runs
<1>2. OneRunning'
    BY <1>0, <1>c, <1>d, Types DEF OneRunning, Used, SYS_WAIT4_return, InWait4, Runs
<1>3. PidsFresh'
    BY <1>0 DEF PidsFresh, Used, SYS_WAIT4_return, InWait4, Runs
<1>4. IdleProtected'
    BY <1>0, <1>c, <1>d, Types DEF IdleProtected, IdleRunnable, Used, SYS_WAIT4_return, InWait4, Runs
<1>5. ProgramsOwn'
    BY <1>0, <1>c, <1>d, Types DEF ProgramsOwn, Used, SYS_WAIT4_return, InWait4, Runs
<1>6. HandlersOwn'
    BY <1>0, <1>c, <1>d, Types, SMTT(60) DEF HandlersOwn, ProgramsOwn, SIG_IGN, SIG_USER, SIG_DFL, Used, SYS_WAIT4_return, InWait4, Runs
<1>7. WalkInPool'
    BY <1>0 DEF WalkInPool, Used, SYS_WAIT4_return, InWait4, Runs
<1> QED
    BY <1>1, <1>2, <1>3, <1>4, <1>5, <1>6, <1>7 DEF SchedInv

-----------------------------------------------------------------------------
(* The end of a task *)

\* What sig_deliver does to a task: it leaves the state or ends a task that is
\* not unkillable, and SIGKILL stays pending unless it ends the task.
LEMMA Delivered ==
    ASSUME SchedInv, NEW t \in Slot, sig_deliver(t)
    PROVE  /\ sig_pending' \in [Slot -> SUBSET Signals]
           /\ state' \in [Slot -> Live \cup Ended]
           /\ exit_status' \in [Slot -> Status]
           /\ obituary' \in [Pid -> Status \cup {NoStatus}]
           /\ \A s \in Slot : s # t => state'[s] = state[s] /\ sig_pending'[s] = sig_pending[s]
           /\ state'[t] = state[t] \/ (state'[t] \in Ended /\ ~unkillable[t])
           /\ SIGKILL \in sig_pending[t] /\ ~unkillable[t]
                => SIGKILL \in sig_pending'[t] \/ state'[t] \in Ended
<1> DEFINE stops == {g \in sig_pending[t] : Ends(t, g) \/ Held(t, g)}
           first == Min(stops)
<1>0. /\ state \in [Slot -> Live \cup Ended] /\ exit_status \in [Slot -> Status]
      /\ obituary \in [Pid -> Status \cup {NoStatus}]
    BY Types
<1>1. stops \in SUBSET Nat /\ stops \subseteq Signals
    BY Types, SignalsNat
<1>2. SIGKILL \in sig_pending[t] /\ ~unkillable[t] => SIGKILL \in stops
    BY DEF Ends
<1>3. CASE stops = {}
  <2>1. sig_pending' = [sig_pending EXCEPT ![t] = {}] /\ UNCHANGED lifeVars
    BY <1>3 DEF sig_deliver
  <2>2. SIGKILL \in sig_pending[t] => unkillable[t]
    BY <1>2, <1>3
  <2>3. sig_pending' \in [Slot -> SUBSET Signals] /\ \A s \in Slot : s # t => sig_pending'[s] = sig_pending[s]
    BY <2>1, Types
  <2>4. state' = state /\ exit_status' = exit_status /\ obituary' = obituary
    BY <2>1 DEF lifeVars
  <2> QED
    BY <1>0, <2>2, <2>3, <2>4
<1>4. CASE stops # {}
  <2>1. first \in stops /\ \A g \in stops : first <= g
    BY <1>1, <1>4, MinFact
  <2>2. CASE Ends(t, first)
    <3>1. /\ sig_pending' = [sig_pending EXCEPT ![t] = {g \in @ : g > first}]
          /\ task_terminate(t, 128 + first)
        BY <1>4, <2>2 DEF sig_deliver
    <3>2. 128 + first \in Status
        BY <2>1, <1>1, SchedAssumption, SMTT(60) DEF Status
    <3>3. Remains(t) \in Ended
        BY DEF Remains, Ended
    <3>4. state' = [state EXCEPT ![t] = Remains(t)]
        BY <3>1 DEF task_terminate
    <3>5. sig_pending' \in [Slot -> SUBSET Signals] /\ \A s \in Slot : s # t => sig_pending'[s] = sig_pending[s]
        BY <3>1, Types
    <3>6. exit_status' \in [Slot -> Status] /\ obituary' \in [Pid -> Status \cup {NoStatus}]
        BY <3>1, <3>2, Types DEF task_terminate
    <3>7. ~unkillable[t]
        BY <2>2 DEF Ends
    <3> QED
        BY <3>3, <3>4, <3>5, <3>6, <3>7, Types
  <2>3. CASE ~Ends(t, first)
    <3>1. sig_pending' = [sig_pending EXCEPT ![t] = {g \in @ : g >= first}] /\ UNCHANGED lifeVars
        BY <1>4, <2>3 DEF sig_deliver
    <3>2. SIGKILL \in sig_pending[t] /\ ~unkillable[t] => SIGKILL >= first
        BY <1>1, <1>2, <2>1 DEF SIGKILL
    <3>3. sig_pending' \in [Slot -> SUBSET Signals] /\ \A s \in Slot : s # t => sig_pending'[s] = sig_pending[s]
        BY <3>1, Types
    <3>4. sig_pending'[t] = {g \in sig_pending[t] : g >= first}
        BY <3>1, Types
    <3>5. state' = state /\ exit_status' = exit_status /\ obituary' = obituary
        BY <3>1 DEF lifeVars
    <3>6. SIGKILL \in sig_pending[t] /\ ~unkillable[t] => SIGKILL \in sig_pending'[t]
        BY <3>2, <3>4
    <3> QED
        BY <1>0, <3>3, <3>5, <3>6
  <2> QED
    BY <2>2, <2>3
<1> QED
    BY <1>3, <1>4

\* SchedInv survives a task's exit.
LEMMA task_exit_Inv ==
    ASSUME SchedInv, NEW c \in Slot, NEW st \in Status, Runs(c), pc[c] # "kernel" \/ c # Idle,
           task_exit(c, st)
    PROVE  SchedInv'
<1> USE DEF slotVars, lifeVars, sigVars, progVars
<1>0. /\ TypeOK /\ OneRunning /\ PidsFresh /\ IdleProtected /\ ProgramsOwn
      /\ HandlersOwn /\ WalkInPool
    BY DEF SchedInv
<1>a. c \in Used /\ c # Idle
    BY <1>0, Types DEF Runs, IdleProtected
<1>b. UNCHANGED <<slotVars, sigVars, progVars, current_task, in_schedule>>
    BY DEF task_exit
<1>c. Remains(c) \in Ended
    BY DEF Remains, Ended
<1>g. state' = [s \in Slot |-> IF s = c THEN Remains(c)
                             ELSE IF s \in {z \in Used : state[z] = "ZOMBIE" /\ parent_pid[z] = pid[c]}
                             THEN "DEAD" ELSE state[s]]
    BY DEF task_exit
<1>h. state \in [Slot -> Live \cup Ended]
    BY Types
<1>d. /\ state' \in [Slot -> Live \cup Ended] /\ state'[c] \in Ended
      /\ \A s \in Slot : state'[s] = state[s] \/ (state'[s] \in Ended /\ (s = c \/ state[s] = "ZOMBIE"))
    BY <1>c, <1>g, <1>h DEF Ended
<1>e. exit_status' \in [Slot -> Status]
    BY Types DEF task_exit
<1>f. obituary' \in [Pid -> Status \cup {NoStatus}]
    BY Types DEF task_exit
<1>1. TypeOK'
    BY <1>0, <1>a, <1>b, <1>c, <1>g, <1>h, <1>d, <1>e, <1>f DEF TypeOK, Used, Runs, Idle
<1>2. OneRunning'
    BY <1>0, <1>b, <1>d, Types DEF OneRunning, Used, Ended
<1>3. PidsFresh'
    BY <1>0, <1>b DEF PidsFresh, Used
<1>4. IdleProtected'
    BY <1>0, <1>a, <1>b, <1>d, Types DEF IdleProtected, IdleRunnable, Idle
<1>5. ProgramsOwn'
    BY <1>0, <1>a, <1>b, <1>c, <1>g, <1>h, <1>d, <1>e, <1>f, Types DEF ProgramsOwn, Used, Runs, Idle
<1>6. HandlersOwn'
    BY <1>0, <1>a, <1>b, <1>c, <1>g, <1>h, <1>d, <1>e, <1>f, Types DEF HandlersOwn, ProgramsOwn, SIG_IGN, SIG_USER, SIG_DFL, Used, Runs, Idle
<1>7. WalkInPool'
    BY <1>0, <1>b DEF WalkInPool, Used
<1> QED
    BY <1>1, <1>2, <1>3, <1>4, <1>5, <1>6, <1>7 DEF SchedInv

\* SchedInv survives a sigreturn without a frame.
LEMMA SYS_SIGRETURN_kill_Inv ==
    ASSUME SchedInv, NEW c \in Slot,
           SYS_SIGRETURN_kill(c)
    PROVE  SchedInv'
<1> USE DEF slotVars, lifeVars, sigVars, progVars
<1>0. /\ TypeOK /\ OneRunning /\ PidsFresh /\ IdleProtected /\ ProgramsOwn
      /\ HandlersOwn /\ WalkInPool
    BY DEF SchedInv
<1>a. state' \in [Slot -> Live \cup Ended]
    BY Types DEF SYS_SIGRETURN_kill, Ended
<1>b. obituary' \in [Pid -> Status \cup {NoStatus}]
    BY Types DEF SYS_SIGRETURN_kill
<1>1. TypeOK'
    BY <1>0, <1>a, <1>b DEF TypeOK, Used, SYS_SIGRETURN_kill, InRing3, Runs
<1>2. OneRunning'
    BY <1>0, <1>a, <1>b, Types DEF OneRunning, Used, SYS_SIGRETURN_kill, InRing3, Runs
<1>3. PidsFresh'
    BY <1>0 DEF PidsFresh, Used, SYS_SIGRETURN_kill, InRing3, Runs
<1>4. IdleProtected'
    BY <1>0, <1>a, <1>b, Types DEF IdleProtected, IdleRunnable, Used, SYS_SIGRETURN_kill, InRing3, Runs
<1>5. ProgramsOwn'
    BY <1>0, <1>a, <1>b, Types DEF ProgramsOwn, Used, SYS_SIGRETURN_kill, InRing3, Runs
<1>6. HandlersOwn'
    BY <1>0, <1>a, <1>b, Types DEF HandlersOwn, ProgramsOwn, SIG_IGN, SIG_USER, SIG_DFL, Used, SYS_SIGRETURN_kill, InRing3, Runs
<1>7. WalkInPool'
    BY <1>0 DEF WalkInPool, Used, SYS_SIGRETURN_kill, InRing3, Runs
<1> QED
    BY <1>1, <1>2, <1>3, <1>4, <1>5, <1>6, <1>7 DEF SchedInv

-----------------------------------------------------------------------------
(* New tasks *)

\* The slot of a new task is not the idle task's, and is either a DEAD one in
\* use or the first unused one.
LEMMA NewSlot ==
    ASSUME SchedInv, NEW t, IsNewSlot(t)
    PROVE  /\ t \in Slot /\ t # Idle
           /\ \/ t \in Used /\ state[t] = "DEAD" /\ t # task_pool_count
              \/ t = task_pool_count /\ t \notin Used /\ task_pool_count < MAX_TASKS
<1> DEFINE dead == {s \in Used \ {Idle} : state[s] = "DEAD"}
<1>1. CASE dead # {}
  <2>1. t \in dead
    BY <1>1, FirstUsed DEF IsNewSlot
  <2>2. t \in Used /\ state[t] = "DEAD" /\ t # Idle
    BY <2>1
  <2> QED
    BY <2>2, Types, SMTT(60) DEF Used
<1>3. task_pool_count \in 1..MAX_TASKS
    BY Types
<1>4. MAX_TASKS \in Nat
    BY SchedAssumption
<1>2. CASE dead = {}
  <2>1. task_pool_count < MAX_TASKS /\ t = task_pool_count
    BY <1>2 DEF IsNewSlot
  <2> QED
    BY <2>1, <1>3, <1>4, SMTT(60) DEF Used, Slot, Idle
<1> QED
    BY <1>1, <1>2

\* Creating a task: what both task_create and task_fork do.
LEMMA NewTask_Facts ==
    ASSUME SchedInv, NEW c \in Slot, NEW t \in Slot, NEW ring3 \in BOOLEAN, NewTask(c, t, ring3)
    PROVE  /\ t # Idle /\ t \in Used' /\ Used' \subseteq Slot
           /\ Used' = Used \cup {t}
           /\ t \in Used => state[t] = "DEAD"
           /\ task_pool_count' \in 1..MAX_TASKS
           /\ next_pid' \in 2..MaxPid + 1 /\ next_pid \in Pid
<1>1. IsNewSlot(t) /\ next_pid <= MaxPid /\ next_pid' = next_pid + 1
    BY DEF NewTask
<1>2. task_pool_count' = IF t = task_pool_count THEN task_pool_count + 1 ELSE task_pool_count
    BY DEF NewTask
<1>3. next_pid' \in 2..MaxPid + 1 /\ next_pid \in Pid
    BY <1>1, Types, SchedAssumption, SMTT(60) DEF Pid
<1>4. CASE t \in Used /\ state[t] = "DEAD" /\ t # task_pool_count
  <2>1. task_pool_count' = task_pool_count /\ Used' = Used
    BY <1>2, <1>4 DEF Used
  <2> QED
    BY <1>1, <1>3, <1>4, <2>1, NewSlot, Types
<1>6. task_pool_count \in 1..MAX_TASKS
    BY Types
<1>7. MAX_TASKS \in Nat
    BY SchedAssumption
<1>5. CASE t = task_pool_count /\ t \notin Used /\ task_pool_count < MAX_TASKS
  <2>1. task_pool_count' = task_pool_count + 1
    BY <1>2, <1>5
  <2>2. Used' = Used \cup {t} /\ task_pool_count' \in 1..MAX_TASKS
    BY <2>1, <1>5, <1>6, <1>7, SMTT(60) DEF Used
  <2> QED
    BY <1>1, <1>3, <1>5, <2>1, <2>2, NewSlot, Types
<1> QED
    BY <1>1, <1>4, <1>5, NewSlot

\* The run list stays a function between slots when a task is linked in.
LEMMA LinkedType ==
    ASSUME SchedInv, NEW c \in Slot, NEW t \in Slot
    PROVE  LinkedAfter(c, t) \in [Slot -> Slot]
<1>1. next \in [Slot -> Slot]
    BY DEF SchedInv, TypeOK
<1>2. Unlinked(t) \in [Slot -> Slot]
    BY <1>1 DEF Unlinked
<1> QED
    BY <1>2 DEF LinkedAfter

\* SchedInv survives the creation of a task.
LEMMA NewTask_Inv ==
    ASSUME SchedInv, NEW c \in Slot, NEW t \in Slot, NEW ring3 \in BOOLEAN,
           Runs(c), t # c,
           pc' \in [Slot -> PCs], child' \in [Slot -> Slot], due' \in [Slot -> Pid \cup {NoPid}],
           pc'[t] \in {"user", "wait4", "wnohang"} => ring3,
           \A s \in Slot \ {t} : pc'[s] \in {"user", "wait4", "wnohang"} => pc'[s] = pc[s],
           pc'[Idle] = "kernel",
           NewTask(c, t, ring3)
    PROVE  SchedInv'
<1> USE DEF slotVars, lifeVars, sigVars, progVars
<1>0. /\ TypeOK /\ OneRunning /\ PidsFresh /\ IdleProtected /\ ProgramsOwn
      /\ HandlersOwn /\ WalkInPool
    BY DEF SchedInv
<1>f. /\ t # Idle /\ t \in Used' /\ Used' \subseteq Slot
      /\ Used' = Used \cup {t}
      /\ t \in Used => state[t] = "DEAD"
      /\ task_pool_count' \in 1..MAX_TASKS
      /\ next_pid' \in 2..MaxPid + 1 /\ next_pid \in Pid
    BY NewTask_Facts
<1>s. state' = [state EXCEPT ![t] = "READY"] /\ state' \in [Slot -> Live \cup Ended]
    BY Types DEF NewTask, Live
<1>p. pid' = [pid EXCEPT ![t] = next_pid] /\ pid' \in [Slot -> Pid \cup {NoPid}]
    BY <1>f, Types DEF NewTask
<1>u. /\ user' = [user EXCEPT ![t] = ring3] /\ user' \in [Slot -> BOOLEAN]
      /\ unkillable' = [unkillable EXCEPT ![t] = FALSE] /\ unkillable' \in [Slot -> BOOLEAN]
    BY Types DEF NewTask
<1>h. /\ s_handlers' = [s_handlers EXCEPT ![t] = AllDefault] /\ AllDefault \in [Signals -> {SIG_DFL}]
      /\ s_handlers' \in [Slot -> [Signals -> {SIG_DFL, SIG_IGN, SIG_USER}]]
    BY Types DEF NewTask, sig_task_init, AllDefault
<1>g. sig_pending' \in [Slot -> SUBSET Signals]
    BY Types DEF NewTask, sig_task_init
<1>n. next' \in [Slot -> Slot]
    BY LinkedType DEF NewTask
<1>c. UNCHANGED <<obituary, condemned, current_task, in_schedule>> /\ next_pid' = next_pid + 1
    BY DEF NewTask
<1>k. current_task \in Used'
    BY <1>f, Types
<1>1. TypeOK'
  <2>1. parent_pid' \in [Slot -> Pid \cup {NoPid}]
    BY <1>0, Types DEF NewTask, TypeOK
  <2>2. 0 \in Status
    BY SMTT(60) DEF Status
  <2>3. exit_status' \in [Slot -> Status]
    BY <2>2, Types DEF NewTask
  <2>4. exec_params' \in [Slot -> BOOLEAN]
    BY <1>0 DEF NewTask, TypeOK
  <2>5. want_pid' \in [Slot -> Pid \cup {AnyChild}]
    BY <1>0 DEF NewTask, TypeOK
  <2>6. NobodyGot \in [pid : Pid \cup {NoPid}, status : Status]
    BY <2>2 DEF NobodyGot
  <2>7. got' \in [Slot -> [pid : Pid \cup {NoPid}, status : Status]]
    BY <1>0, <2>6 DEF NewTask, TypeOK
  <2> QED
    BY <1>0, <1>f, <1>s, <1>p, <1>u, <1>h, <1>g, <1>n, <1>c, <1>k, <2>1, <2>3, <2>4, <2>5, <2>7
       DEF TypeOK, Used
<1>2. OneRunning'
    BY <1>0, <1>f, <1>s, <1>c, Types DEF OneRunning
<1>3. PidsFresh'
  <2>1. \A s \in Used' : pid'[s] = IF s = t THEN next_pid ELSE pid[s]
    BY <1>f, <1>p, Types
  <2>2. \A s \in Used' \ {t} : s \in Used /\ pid[s] \in 1..next_pid - 1
    BY <1>0, <1>f DEF PidsFresh
  <2>3. next_pid' = next_pid + 1 /\ next_pid \in Nat /\ next_pid >= 1
    BY <1>c, Types, SMTT(60)
  <2>4. \A s \in Used' : pid'[s] \in 1..next_pid' - 1
    BY <2>1, <2>2, <2>3, SMTT(60)
  <2>5. ASSUME NEW r \in Used', NEW s \in Used', pid'[r] = pid'[s] PROVE r = s
    BY <1>0, <2>1, <2>2, <2>3, <2>5, SMTT(60) DEF PidsFresh
  <2>6. condemned' \subseteq 1..next_pid' - 1
    BY <1>0, <1>c, <2>3, SMTT(60) DEF PidsFresh
  <2> QED
    BY <2>4, <2>5, <2>6 DEF PidsFresh
<1>4. IdleProtected'
    BY <1>0, <1>f, <1>s, <1>u, Types DEF IdleProtected, IdleRunnable
<1>5. ProgramsOwn'
    BY <1>0, <1>f, <1>u, Types DEF ProgramsOwn
<1>6. HandlersOwn'
    BY <1>0, <1>f, <1>u, <1>h, Types, SMTT(60) DEF HandlersOwn, SIG_IGN, SIG_USER, SIG_DFL
<1>7. WalkInPool'
  <2>1. in_schedule' = in_schedule /\ in_schedule.at \in Used'
    BY <1>0, <1>f, <1>c DEF WalkInPool
  <2>2. next \in [Slot -> Slot] /\ \A s \in Used : next[s] \in Used
    BY <1>0 DEF TypeOK, WalkInPool
  <2>3. c \in Used /\ Used \subseteq Slot
    BY Types DEF Runs
  <2>4. \A s \in Used : Unlinked(t)[s] \in Used
    BY <2>2, <2>3 DEF Unlinked
  <2>5. Unlinked(t) \in [Slot -> Slot]
    BY <2>2 DEF Unlinked
  <2>6. next' = [Unlinked(t) EXCEPT ![t] = Unlinked(t)[c], ![c] = t]
    BY DEF NewTask, LinkedAfter
  <2>7. \A s \in Used' : next'[s] \in Used'
    BY <1>f, <2>3, <2>4, <2>5, <2>6
  <2> QED
    BY <2>1, <2>7 DEF WalkInPool
<1> QED
    BY <1>1, <1>2, <1>3, <1>4, <1>5, <1>6, <1>7 DEF SchedInv

\* The slot of a new task is not the one of the task that creates it.
LEMMA NewIsOther ==
    ASSUME SchedInv, NEW c \in Slot, NEW t \in Slot, Runs(c), IsNewSlot(t)
    PROVE  t # c
<1>1. c \in Used /\ state[c] = "RUNNING"
    BY Types DEF Runs
<1>2. t \in Used => state[t] = "DEAD"
    BY NewSlot
<1> QED
    BY <1>1, <1>2

\* SchedInv survives fork.
LEMMA task_fork_Inv ==
    ASSUME SchedInv, NEW c \in Slot, NEW t \in Slot, task_fork(c, t)
    PROVE  SchedInv'
<1>1. Runs(c) /\ NewTask(c, t, TRUE) /\ IsNewSlot(t)
    BY DEF task_fork, NewTask, InRing3
<1>2. t # c /\ t # Idle
    BY <1>1, NewIsOther, NewSlot
<1>3. pc' \in [Slot -> PCs] /\ \A s \in Slot \ {t} : pc'[s] = pc[s]
    BY Types DEF task_fork, PCs
<1>4. child' \in [Slot -> Slot] /\ due' \in [Slot -> Pid \cup {NoPid}]
    BY DEF task_fork, SchedInv, TypeOK
<1>5. pc'[Idle] = "kernel"
    BY <1>2, <1>3, Types DEF SchedInv, IdleProtected
<1> QED
    BY <1>1, <1>2, <1>3, <1>4, <1>5, NewTask_Inv

\* SchedInv survives the creation of a task by shell_exec_elf.
LEMMA shell_exec_elf_Inv ==
    ASSUME SchedInv, NEW c \in Slot, NEW t \in Slot, shell_exec_elf(c, t)
    PROVE  SchedInv'
<1>1. Runs(c) /\ NewTask(c, t, FALSE) /\ IsNewSlot(t) /\ c # Idle
    BY DEF shell_exec_elf, NewTask
<1>2. t # c /\ t # Idle
    BY <1>1, NewIsOther, NewSlot
<1>3. /\ pc' \in [Slot -> PCs] /\ \A s \in Slot \ {t, c} : pc'[s] = pc[s]
      /\ pc'[t] = "entry" /\ pc'[c] = "handing"
    BY <1>2, Types DEF shell_exec_elf, PCs
<1>4. next_pid \in Pid
    BY <1>1, NewTask_Facts
<1>5. child' \in [Slot -> Slot] /\ due' \in [Slot -> Pid \cup {NoPid}]
    BY <1>4 DEF shell_exec_elf, SchedInv, TypeOK
<1>6. pc'[Idle] = "kernel"
    BY <1>1, <1>2, <1>3, Types DEF SchedInv, IdleProtected
<1>7. \A s \in Slot \ {t} : pc'[s] \in {"user", "wait4", "wnohang"} => pc'[s] = pc[s]
    BY <1>3
<1>8. ~(pc'[t] \in {"user", "wait4", "wnohang"})
    BY <1>3
<1> QED
    BY <1>1, <1>2, <1>3, <1>5, <1>6, <1>7, <1>8, NewTask_Inv

\* SchedInv survives the parameters being handed over.
LEMMA shell_exec_hand_Inv ==
    ASSUME SchedInv, NEW c \in Slot, NEW login \in BOOLEAN,
           shell_exec_hand(c, login)
    PROVE  SchedInv'
<1> USE DEF slotVars, lifeVars, sigVars, progVars
<1>0. /\ TypeOK /\ OneRunning /\ PidsFresh /\ IdleProtected /\ ProgramsOwn
      /\ HandlersOwn /\ WalkInPool
    BY DEF SchedInv
<1>a. exec_params' \in [Slot -> BOOLEAN]
    BY <1>0 DEF shell_exec_hand, TypeOK
<1>b. child[c] \in Slot
    BY Types
<1>c. unkillable' \in [Slot -> BOOLEAN]
    BY <1>b, Types DEF shell_exec_hand
<1>d. unkillable[Idle] => unkillable'[Idle]
    BY <1>b, Types DEF shell_exec_hand
<1>e. pc' \in [Slot -> PCs]
    BY Types DEF shell_exec_hand, PCs
<1>1. TypeOK'
    BY <1>0, <1>a, <1>b, <1>c, <1>d, <1>e DEF TypeOK, Used, shell_exec_hand, Runs
<1>2. OneRunning'
    BY <1>0, <1>a, <1>b, <1>c, <1>d, <1>e, Types DEF OneRunning, Used, shell_exec_hand, Runs
<1>3. PidsFresh'
    BY <1>0 DEF PidsFresh, Used, shell_exec_hand, Runs
<1>4. IdleProtected'
    BY <1>0, <1>a, <1>b, <1>c, <1>d, <1>e, Types DEF IdleProtected, IdleRunnable, Used, shell_exec_hand, Runs
<1>5. ProgramsOwn'
    BY <1>0, <1>a, <1>b, <1>c, <1>d, <1>e, Types DEF ProgramsOwn, Used, shell_exec_hand, Runs
<1>6. HandlersOwn'
    BY <1>0, <1>a, <1>b, <1>c, <1>d, <1>e, Types, SMTT(60) DEF HandlersOwn, ProgramsOwn, SIG_IGN, SIG_USER, SIG_DFL, Used, shell_exec_hand, Runs
<1>7. WalkInPool'
    BY <1>0 DEF WalkInPool, Used, shell_exec_hand, Runs
<1> QED
    BY <1>1, <1>2, <1>3, <1>4, <1>5, <1>6, <1>7 DEF SchedInv

\* SchedInv survives shell_exec_elf leaving its wait.
LEMMA shell_exec_wait_Inv ==
    ASSUME SchedInv, NEW c \in Slot,
           shell_exec_wait(c)
    PROVE  SchedInv'
<1> USE DEF slotVars, lifeVars, sigVars, progVars
<1>0. /\ TypeOK /\ OneRunning /\ PidsFresh /\ IdleProtected /\ ProgramsOwn
      /\ HandlersOwn /\ WalkInPool
    BY DEF SchedInv
<1>e. pc' \in [Slot -> PCs]
    BY Types DEF shell_exec_wait, PCs
<1>1. TypeOK'
    BY <1>0, <1>e DEF TypeOK, Used, shell_exec_wait, Runs
<1>2. OneRunning'
    BY <1>0, <1>e, Types DEF OneRunning, Used, shell_exec_wait, Runs
<1>3. PidsFresh'
    BY <1>0 DEF PidsFresh, Used, shell_exec_wait, Runs
<1>4. IdleProtected'
    BY <1>0, <1>e, Types DEF IdleProtected, IdleRunnable, Used, shell_exec_wait, Runs
<1>5. ProgramsOwn'
    BY <1>0, <1>e, Types DEF ProgramsOwn, Used, shell_exec_wait, Runs
<1>6. HandlersOwn'
    BY <1>0, <1>e, Types DEF HandlersOwn, ProgramsOwn, SIG_IGN, SIG_USER, SIG_DFL, Used, shell_exec_wait, Runs
<1>7. WalkInPool'
    BY <1>0 DEF WalkInPool, Used, shell_exec_wait, Runs
<1> QED
    BY <1>1, <1>2, <1>3, <1>4, <1>5, <1>6, <1>7 DEF SchedInv

\* SchedInv survives shell_exec_elf reading a status.
LEMMA shell_exec_status_Inv ==
    ASSUME SchedInv, NEW c \in Slot,
           shell_exec_status(c)
    PROVE  SchedInv'
<1> USE DEF slotVars, lifeVars, sigVars, progVars
<1>0. /\ TypeOK /\ OneRunning /\ PidsFresh /\ IdleProtected /\ ProgramsOwn
      /\ HandlersOwn /\ WalkInPool
    BY DEF SchedInv
<1>e. pc' \in [Slot -> PCs]
    BY Types DEF shell_exec_status, PCs
<1>a. child' \in [Slot -> Slot] /\ due' \in [Slot -> Pid \cup {NoPid}]
    BY <1>0 DEF shell_exec_status, TypeOK
<1>b. due[c] \in Pid \cup {NoPid} /\ exit_status[child[c]] \in Status
    BY <1>0 DEF TypeOK
<1>f. got' \in [Slot -> [pid : Pid \cup {NoPid}, status : Status]]
    BY <1>0, <1>b DEF shell_exec_status, TypeOK
<1>1. TypeOK'
    BY <1>0, <1>e, <1>a, <1>b, <1>f DEF TypeOK, Used, shell_exec_status, Runs
<1>2. OneRunning'
    BY <1>0, <1>e, <1>a, <1>b, <1>f, Types DEF OneRunning, Used, shell_exec_status, Runs
<1>3. PidsFresh'
    BY <1>0 DEF PidsFresh, Used, shell_exec_status, Runs
<1>4. IdleProtected'
    BY <1>0, <1>e, <1>a, <1>b, <1>f, Types DEF IdleProtected, IdleRunnable, Used, shell_exec_status, Runs
<1>5. ProgramsOwn'
    BY <1>0, <1>e, <1>a, <1>b, <1>f, Types DEF ProgramsOwn, Used, shell_exec_status, Runs
<1>6. HandlersOwn'
    BY <1>0, <1>e, <1>a, <1>b, <1>f, Types, SMTT(60) DEF HandlersOwn, ProgramsOwn, SIG_IGN, SIG_USER, SIG_DFL, Used, shell_exec_status, Runs
<1>7. WalkInPool'
    BY <1>0 DEF WalkInPool, Used, shell_exec_status, Runs
<1> QED
    BY <1>1, <1>2, <1>3, <1>4, <1>5, <1>6, <1>7 DEF SchedInv

\* SchedInv survives a program being loaded.
LEMMA exec_task_entry_Inv ==
    ASSUME SchedInv, NEW c \in Slot,
           exec_task_entry(c)
    PROVE  SchedInv'
<1> USE DEF slotVars, lifeVars, sigVars, progVars
<1>0. /\ TypeOK /\ OneRunning /\ PidsFresh /\ IdleProtected /\ ProgramsOwn
      /\ HandlersOwn /\ WalkInPool
    BY DEF SchedInv
<1>e. pc' \in [Slot -> PCs]
    BY Types DEF exec_task_entry, PCs
<1>a. user' \in [Slot -> BOOLEAN]
    BY Types DEF exec_task_entry
<1>1. TypeOK'
    BY <1>0, <1>e, <1>a DEF TypeOK, Used, exec_task_entry, Runs
<1>2. OneRunning'
    BY <1>0, <1>e, <1>a, Types DEF OneRunning, Used, exec_task_entry, Runs
<1>3. PidsFresh'
    BY <1>0 DEF PidsFresh, Used, exec_task_entry, Runs
<1>4. IdleProtected'
    BY <1>0, <1>e, <1>a, Types DEF IdleProtected, IdleRunnable, Used, exec_task_entry, Runs
<1>5. ProgramsOwn'
    BY <1>0, <1>e, <1>a, Types DEF ProgramsOwn, Used, exec_task_entry, Runs
<1>6. HandlersOwn'
    BY <1>0, <1>e, <1>a, Types, SMTT(60) DEF HandlersOwn, ProgramsOwn, SIG_IGN, SIG_USER, SIG_DFL, Used, exec_task_entry, Runs
<1>7. WalkInPool'
    BY <1>0 DEF WalkInPool, Used, exec_task_entry, Runs
<1> QED
    BY <1>1, <1>2, <1>3, <1>4, <1>5, <1>6, <1>7 DEF SchedInv

\* SchedInv survives execve.
LEMMA SYS_EXECVE_Inv ==
    ASSUME SchedInv, NEW c \in Slot,
           SYS_EXECVE(c)
    PROVE  SchedInv'
<1> USE DEF slotVars, lifeVars, sigVars, progVars
<1>0. /\ TypeOK /\ OneRunning /\ PidsFresh /\ IdleProtected /\ ProgramsOwn
      /\ HandlersOwn /\ WalkInPool
    BY DEF SchedInv
<1>e. AllDefault \in [Signals -> {SIG_DFL}]
    BY DEF AllDefault
<1>a. s_handlers' \in [Slot -> [Signals -> {SIG_DFL, SIG_IGN, SIG_USER}]]
    BY <1>e, Types DEF SYS_EXECVE, sig_task_init
<1>b. sig_pending' \in [Slot -> SUBSET Signals]
    BY Types DEF SYS_EXECVE, sig_task_init
<1>1. TypeOK'
    BY <1>0, <1>e, <1>a, <1>b DEF TypeOK, Used, SYS_EXECVE, sig_task_init, InRing3, Runs
<1>2. OneRunning'
    BY <1>0, <1>e, <1>a, <1>b, Types DEF OneRunning, Used, SYS_EXECVE, sig_task_init, InRing3, Runs
<1>3. PidsFresh'
    BY <1>0 DEF PidsFresh, Used, SYS_EXECVE, sig_task_init, InRing3, Runs
<1>4. IdleProtected'
    BY <1>0, <1>e, <1>a, <1>b, Types DEF IdleProtected, IdleRunnable, Used, SYS_EXECVE, sig_task_init, InRing3, Runs
<1>5. ProgramsOwn'
    BY <1>0, <1>e, <1>a, <1>b, Types DEF ProgramsOwn, Used, SYS_EXECVE, sig_task_init, InRing3, Runs
<1>6. HandlersOwn'
    BY <1>0, <1>e, <1>a, <1>b, Types, SMTT(60) DEF HandlersOwn, ProgramsOwn, SIG_IGN, SIG_USER, SIG_DFL, Used, SYS_EXECVE, sig_task_init, InRing3, Runs
<1>7. WalkInPool'
    BY <1>0 DEF WalkInPool, Used, SYS_EXECVE, sig_task_init, InRing3, Runs
<1> QED
    BY <1>1, <1>2, <1>3, <1>4, <1>5, <1>6, <1>7 DEF SchedInv

-----------------------------------------------------------------------------
(* schedule() *)

\* SchedInv survives the delivery of signals inside schedule().
LEMMA Delivery_Inv ==
    ASSUME SchedInv, NEW t \in Slot, sig_deliver(t) \/ UNCHANGED <<sig_pending, lifeVars>>,
           in_schedule' \in [on : BOOLEAN, hit : BOOLEAN, at : Slot, i : 0..MAX_TASKS], in_schedule'.at \in Used,
           UNCHANGED <<slotVars, s_handlers, condemned, progVars, current_task>>
    PROVE  SchedInv'
<1> USE DEF slotVars, lifeVars, sigVars, progVars
<1>0. /\ TypeOK /\ OneRunning /\ PidsFresh /\ IdleProtected /\ ProgramsOwn
      /\ HandlersOwn /\ WalkInPool
    BY DEF SchedInv
<1>a. /\ sig_pending' \in [Slot -> SUBSET Signals]
      /\ state' \in [Slot -> Live \cup Ended]
      /\ exit_status' \in [Slot -> Status]
      /\ obituary' \in [Pid -> Status \cup {NoStatus}]
      /\ \A s \in Slot : state'[s] = state[s] \/ (state'[s] \in Ended /\ ~unkillable[s])
  <2>1. CASE sig_deliver(t)
    BY <2>1, Delivered
  <2>2. CASE UNCHANGED <<sig_pending, lifeVars>>
    BY <2>2, Types
  <2> QED
    BY <2>1, <2>2
<1>1. TypeOK'
    BY <1>0, <1>a DEF TypeOK, Used
<1>2. OneRunning'
    BY <1>0, <1>a, Types DEF OneRunning, Used, Ended
<1>3. PidsFresh'
    BY <1>0 DEF PidsFresh, Used
<1>4. IdleProtected'
    BY <1>0, <1>a, Types DEF IdleProtected, IdleRunnable
<1>5. ProgramsOwn'
    BY <1>0 DEF ProgramsOwn, Used
<1>6. HandlersOwn'
    BY <1>0 DEF HandlersOwn, Used
<1>7. WalkInPool'
    BY <1>0 DEF WalkInPool, Used
<1> QED
    BY <1>1, <1>2, <1>3, <1>4, <1>5, <1>6, <1>7 DEF SchedInv

\* SchedInv survives every step of schedule().
LEMMA Schedule_Inv ==
    ASSUME SchedInv, Schedule
    PROVE  SchedInv'
<1>0. /\ in_schedule \in [on : BOOLEAN, hit : BOOLEAN, at : Slot, i : 0..MAX_TASKS]
      /\ next \in [Slot -> Slot] /\ current_task \in Used /\ Idle \in Used
      /\ task_pool_count \in 1..MAX_TASKS /\ Used \subseteq Slot
      /\ in_schedule.at \in Used /\ \A s \in Used : next[s] \in Used
    BY Types DEF SchedInv, TypeOK, WalkInPool
<1>1. CASE schedule_enter
  <2>1. in_schedule' = [on |-> TRUE, hit |-> FALSE, at |-> next[current_task], i |-> 0]
    BY <1>1 DEF schedule_enter
  <2>2. in_schedule' \in [on : BOOLEAN, hit : BOOLEAN, at : Slot, i : 0..MAX_TASKS] /\ in_schedule'.at \in Used
    BY <1>0, <2>1, SchedAssumption, SMTT(60)
  <2>3. sig_deliver(current_task) \/ UNCHANGED <<sig_pending, lifeVars>>
    BY <1>1 DEF schedule_enter
  <2>4. UNCHANGED <<slotVars, s_handlers, condemned, progVars, current_task>> /\ current_task \in Slot
    BY <1>0, <1>1 DEF schedule_enter
  <2> QED
    BY <2>2, <2>3, <2>4, Delivery_Inv
<1>2. CASE schedule_visit
  <2>1. in_schedule.at \in Slot /\ in_schedule.i \in 0..MAX_TASKS /\ in_schedule.on \in BOOLEAN
    BY <1>0
  <2>2. \/ in_schedule' = [in_schedule EXCEPT !.hit = TRUE]
        \/ in_schedule' = [in_schedule EXCEPT !.at = next[in_schedule.at], !.i = @ + 1]
    BY <1>2 DEF schedule_visit
  <2>3. in_schedule.i < task_pool_count
    BY <1>2 DEF schedule_visit
  <2>7. task_pool_count \in 0..MAX_TASKS /\ in_schedule.i + 1 \in 0..MAX_TASKS
    BY <1>0, <2>1, <2>3, SchedAssumption, SMTT(60)
  <2>8. next[in_schedule.at] \in Slot /\ next[in_schedule.at] \in Used
    BY <1>0
  <2>4. in_schedule' \in [on : BOOLEAN, hit : BOOLEAN, at : Slot, i : 0..MAX_TASKS] /\ in_schedule'.at \in Used
    BY <1>0, <2>2, <2>7, <2>8
  <2>5. sig_deliver(in_schedule.at) \/ UNCHANGED <<sig_pending, lifeVars>>
    BY <1>2 DEF schedule_visit
  <2>6. UNCHANGED <<slotVars, s_handlers, condemned, progVars, current_task>>
    BY <1>2 DEF schedule_visit
  <2> QED
    BY <2>1, <2>4, <2>5, <2>6, Delivery_Inv
<1>3. CASE schedule_switch
  <2> USE DEF slotVars, lifeVars, sigVars, progVars
  <2>0. /\ TypeOK /\ OneRunning /\ PidsFresh /\ IdleProtected /\ ProgramsOwn
        /\ HandlersOwn /\ WalkInPool
    BY DEF SchedInv
  <2> DEFINE t == in_schedule.at
  <2>1. in_schedule' = [on |-> FALSE, hit |-> FALSE, at |-> Idle, i |-> 0]
    BY <1>3 DEF schedule_switch, NotWalking
  <2>2. in_schedule' \in [on : BOOLEAN, hit : BOOLEAN, at : Slot, i : 0..MAX_TASKS] /\ in_schedule'.at \in Used
    BY <1>0, <2>1, SchedAssumption, SMTT(60)
  <2>3. UNCHANGED <<slotVars, exit_status, obituary, sigVars, progVars>>
    BY <1>3 DEF schedule_switch
  <2>4. \/ state' = state /\ current_task' = current_task
        \/ /\ current_task' = t /\ state[t] = "READY"
           /\ state' = [s \in Slot |->
                          IF s = t THEN "RUNNING"
                          ELSE IF s = current_task /\ state[s] = "RUNNING" THEN "READY"
                          ELSE state[s]]
    BY <1>3 DEF schedule_switch
  <2>5. state' \in [Slot -> Live \cup Ended]
    BY <2>4, Types, SMTT(60) DEF Live
  <2>6. current_task' \in Used
    BY <1>0, <2>4
  <2>7. TypeOK'
    BY <2>0, <2>2, <2>3, <2>5, <2>6 DEF TypeOK, Used
  <2>8. OneRunning'
    BY <1>0, <2>0, <2>3, <2>4 DEF OneRunning, Used
  <2>9. IdleProtected'
    BY <1>0, <2>0, <2>3, <2>4 DEF IdleProtected, IdleRunnable
  <2>10. PidsFresh' /\ ProgramsOwn' /\ HandlersOwn'
    BY <2>0, <2>3 DEF PidsFresh, ProgramsOwn, HandlersOwn, Used
  <2>11. WalkInPool'
    BY <2>0, <2>2, <2>3 DEF WalkInPool, Used
  <2> QED
    BY <2>7, <2>8, <2>9, <2>10, <2>11 DEF SchedInv
<1> QED
    BY <1>1, <1>2, <1>3 DEF Schedule

-----------------------------------------------------------------------------
(* The invariant *)

\* SchedInv holds when kernel_main has created the boot tasks.
LEMMA Init_Inv == Init => SchedInv
<1> SUFFICES ASSUME Init PROVE SchedInv
    OBVIOUS
<1>0. /\ MAX_TASKS \in Nat /\ BootTasks \in Nat /\ 1 <= BootTasks /\ BootTasks < MAX_TASKS
      /\ MaxPid \in Nat /\ BootTasks < MaxPid
    BY SchedAssumption
<1>1. task_pool_count = BootTasks + 1 /\ Used = 0..BootTasks /\ Used \subseteq Slot /\ Idle \in Used
    BY <1>0, SMTT(60) DEF Init, Used, Slot, Idle
<1>2. TypeOK
  <2>1. state \in [Slot -> Live \cup Ended]
    BY DEF Init, Live, Ended
  <2>2. pid \in [Slot -> Pid \cup {NoPid}]
    BY <1>0, SMTT(60) DEF Init, Pid, NoPid, Slot
  <2>3. parent_pid \in [Slot -> Pid \cup {NoPid}]
    BY <1>0, SMTT(60) DEF Init, Pid, NoPid
  <2>4. exit_status \in [Slot -> Status]
    BY SMTT(60) DEF Init, Status
  <2>5. next \in [Slot -> Slot]
    BY <1>0, SMTT(60) DEF Init, Slot, Idle
  <2>6. task_pool_count \in 1..MAX_TASKS /\ next_pid \in 2..MaxPid + 1 /\ current_task \in Used
    BY <1>0, <1>1, SMTT(60) DEF Init
  <2>7. in_schedule \in [on : BOOLEAN, hit : BOOLEAN, at : Slot, i : 0..MAX_TASKS]
    BY <1>0, <1>1, SMTT(60) DEF Init, NotWalking
  <2>8. s_handlers \in [Slot -> [Signals -> {SIG_DFL, SIG_IGN, SIG_USER}]]
    BY DEF Init, AllDefault
  <2>9. got \in [Slot -> [pid : Pid \cup {NoPid}, status : Status]]
    BY SMTT(60) DEF Init, NobodyGot, Status
  <2>10. /\ user \in [Slot -> BOOLEAN] /\ unkillable \in [Slot -> BOOLEAN]
         /\ exec_params \in [Slot -> BOOLEAN] /\ sig_pending \in [Slot -> SUBSET Signals]
         /\ pc \in [Slot -> PCs] /\ want_pid \in [Slot -> Pid \cup {AnyChild}]
         /\ child \in [Slot -> Slot] /\ due \in [Slot -> Pid \cup {NoPid}]
         /\ obituary \in [Pid -> Status \cup {NoStatus}] /\ condemned \subseteq Pid
    BY DEF Init, PCs
  <2> QED
    BY <2>1, <2>2, <2>3, <2>4, <2>5, <2>6, <2>7, <2>8, <2>9, <2>10 DEF TypeOK
<1>3. OneRunning /\ IdleProtected /\ ProgramsOwn
    BY <1>1 DEF Init, OneRunning, IdleProtected, IdleRunnable, ProgramsOwn, Idle
<1>4. PidsFresh
    BY <1>0, <1>1, SMTT(60) DEF Init, PidsFresh
<1>5. HandlersOwn
    BY <1>1 DEF Init, HandlersOwn, AllDefault, SIG_DFL, SIG_USER
<1>6. WalkInPool
    BY <1>0, <1>1, SMTT(60) DEF Init, WalkInPool, Idle, NotWalking
<1> QED
    BY <1>2, <1>3, <1>4, <1>5, <1>6 DEF SchedInv

\* SchedInv survives every step of the system.
LEMMA Next_Inv == SchedInv /\ [Next]_vars => SchedInv'
<1> SUFFICES ASSUME SchedInv, [Next]_vars PROVE SchedInv'
    OBVIOUS
<1>1. CASE Schedule
    BY <1>1, Schedule_Inv
<1>2. CASE SignalStep
  <2>1. ASSUME NEW c \in Slot, NEW t \in Slot, NEW g \in Signals, SYS_KILL(c, t, g) PROVE SchedInv'
    BY <2>1, sig_send_Inv DEF SYS_KILL, IsTaskByPid
  <2>2. ASSUME NEW t \in Slot, keyboard_ctrl_c(t) PROVE SchedInv'
    BY <2>2, sig_send_Inv, SignalsNat DEF keyboard_ctrl_c
  <2>3. ASSUME NEW c \in Slot, NEW g \in Signals, NEW h \in {SIG_DFL, SIG_IGN, SIG_USER},
               SYS_SIGNAL(c, g, h)
        PROVE  SchedInv'
    BY <2>3, SYS_SIGNAL_Inv
  <2>4. ASSUME NEW c \in Slot, shell_enter(c) \/ signal_check_user(c) PROVE SchedInv'
    BY <2>4, shell_enter_Inv, signal_check_user_Inv
  <2> QED
    BY <1>2, <2>1, <2>2, <2>3, <2>4 DEF SignalStep
<1>3. CASE EndStep
  <2>1. ASSUME NEW c \in Slot, NEW st \in ExitCodes, SYS_EXIT(c, st) PROVE SchedInv'
    <3>1. st \in Status
        BY SchedAssumption, SMTT(60) DEF Status
    <3>2. Runs(c) /\ pc[c] # "kernel" /\ task_exit(c, st)
        BY <2>1 DEF SYS_EXIT, InRing3
    <3> QED
        BY <3>1, <3>2, task_exit_Inv
  <2>2. ASSUME NEW c \in Slot, kill_userspace_fault(c) PROVE SchedInv'
    <3>1. SIGSEGV \in Status
        BY SMTT(60) DEF SIGSEGV, Status
    <3>2. Runs(c) /\ pc[c] # "kernel" /\ task_exit(c, SIGSEGV)
        BY <2>2 DEF kill_userspace_fault, InRing3
    <3> QED
        BY <3>1, <3>2, task_exit_Inv
  <2>3. ASSUME NEW c \in Slot, kernel_task_returns(c) \/ exec_task_entry_fails(c) PROVE SchedInv'
    <3>1. exit_status[c] \in Status
        BY Types
    <3>2. Runs(c) /\ (pc[c] # "kernel" \/ c # Idle) /\ task_exit(c, exit_status[c])
        BY <2>3 DEF kernel_task_returns, exec_task_entry_fails
    <3> QED
        BY <3>1, <3>2, task_exit_Inv
  <2>4. ASSUME NEW c \in Slot, SYS_SIGRETURN_kill(c) PROVE SchedInv'
    BY <2>4, SYS_SIGRETURN_kill_Inv
  <2> QED
    BY <1>3, <2>1, <2>2, <2>3, <2>4 DEF EndStep
<1>4. CASE WaitStep
    BY <1>4, ipc_block_Inv, ipc_wake_Inv, SYS_WAIT4_Inv, SYS_WAIT4_reap_Inv,
       SYS_WAIT4_return_Inv DEF WaitStep
<1>5. CASE BirthStep
    BY <1>5, task_fork_Inv, shell_exec_elf_Inv, shell_exec_hand_Inv, shell_exec_wait_Inv,
       shell_exec_status_Inv, exec_task_entry_Inv, SYS_EXECVE_Inv DEF BirthStep
<1>6. CASE UNCHANGED vars
  <2> USE DEF slotVars, lifeVars, sigVars, progVars
  <2>0. /\ TypeOK /\ OneRunning /\ PidsFresh /\ IdleProtected /\ ProgramsOwn
        /\ HandlersOwn /\ WalkInPool
    BY DEF SchedInv
  <2>1. TypeOK'
    BY <1>6, <2>0 DEF vars, TypeOK, Used
  <2>2. OneRunning' /\ PidsFresh' /\ WalkInPool'
    BY <1>6, <2>0 DEF vars, OneRunning, PidsFresh, WalkInPool, Used
  <2>3. IdleProtected' /\ ProgramsOwn' /\ HandlersOwn'
    BY <1>6, <2>0 DEF vars, IdleProtected, IdleRunnable, ProgramsOwn, HandlersOwn, Used
  <2> QED
    BY <2>1, <2>2, <2>3 DEF SchedInv
<1> QED
    BY <1>1, <1>2, <1>3, <1>4, <1>5, <1>6 DEF Next

\* SchedInv holds in every reachable state.
THEOREM SchedInvariant == Spec => []SchedInv
    BY Init_Inv, Next_Inv, PTL DEF Spec

\* Through every switch, death, wakeup and reuse of a slot: at most one task is
\* RUNNING and it is current_task; the idle task can run; and a ring-3 signal
\* handler belongs to a task with a ring-3 program.
THEOREM SchedSafety == Spec => [](OneRunning /\ IdleRunnable /\ HandlersOwn)
<1>1. SchedInv => OneRunning /\ IdleRunnable /\ HandlersOwn
    BY DEF SchedInv, IdleProtected
<1> QED
    BY <1>1, SchedInvariant, PTL

-----------------------------------------------------------------------------
(* Ended tasks, and SIGKILL *)

\* Only the creation of a task gives life to a slot whose task has ended.
LEMMA LivesOnce ==
    ASSUME SchedInv, [Next]_vars, NEW s \in Used, state[s] \in Ended, state'[s] \in Live
    PROVE  state[s] = "DEAD" /\ pid'[s] = next_pid
<1>0. s \in Slot /\ state \in [Slot -> Live \cup Ended]
    BY Types
<1> USE DEF Live, Ended
<1>1. ASSUME state'[s] = state[s] PROVE FALSE
    BY <1>1
<1>2. CASE Schedule
  <2>1. ASSUME NEW t \in Slot, sig_deliver(t) PROVE FALSE
    BY <1>0, <1>1, <2>1, Delivered
  <2>2. CASE schedule_enter \/ schedule_visit
    <3>1. current_task \in Slot /\ in_schedule.at \in Slot
        BY Types DEF SchedInv, WalkInPool
    <3>2. sig_deliver(current_task) \/ sig_deliver(in_schedule.at) \/ UNCHANGED lifeVars
        BY <2>2 DEF schedule_enter, schedule_visit
    <3> QED
        BY <1>1, <2>1, <3>1, <3>2 DEF lifeVars
  <2>3. CASE schedule_switch
    BY <1>0, <1>1, <2>3 DEF schedule_switch
  <2> QED
    BY <1>2, <2>2, <2>3 DEF Schedule
<1>3. CASE SignalStep \/ UNCHANGED vars
  <2>1. UNCHANGED lifeVars
    BY <1>3 DEF SignalStep, SYS_KILL, keyboard_ctrl_c, sig_send, SYS_SIGNAL, shell_enter,
       signal_check_user, vars
  <2> QED
    BY <1>1, <2>1 DEF lifeVars
<1>4. CASE EndStep
  <2>1. PICK c \in Slot : (\E st : task_exit(c, st)) \/ SYS_SIGRETURN_kill(c)
    BY <1>4 DEF EndStep, SYS_EXIT, kill_userspace_fault, kernel_task_returns, exec_task_entry_fails
  <2>2. Remains(c) \in Ended
    BY DEF Remains
  <2> QED
    BY <1>0, <1>1, <2>1, <2>2 DEF task_exit, SYS_SIGRETURN_kill
<1>5. CASE WaitStep
  <2>1. PICK c \in Slot : \/ ipc_block(c) \/ ipc_wake(c) \/ SYS_WAIT4_reap(c)
                          \/ UNCHANGED lifeVars
    BY <1>5 DEF WaitStep, SYS_WAIT4, SYS_WAIT4_return
  <2>2. CASE ipc_block(c)
    BY <1>0, <1>1, <2>2 DEF ipc_block, InRing3, Runs
  <2>3. CASE ipc_wake(c)
    BY <1>0, <1>1, <2>3 DEF ipc_wake
  <2>4. CASE SYS_WAIT4_reap(c)
    BY <1>0, <1>1, <2>4 DEF SYS_WAIT4_reap
  <2>5. CASE UNCHANGED lifeVars
    BY <1>1, <2>5 DEF lifeVars
  <2> QED
    BY <2>1, <2>2, <2>3, <2>4, <2>5
<1>6. CASE BirthStep
  <2>1. ASSUME NEW c \in Slot, NEW t \in Slot, NEW ring3 \in BOOLEAN, NewTask(c, t, ring3)
        PROVE  state[s] = "DEAD" /\ pid'[s] = next_pid
    <3>1. t \in Used => state[t] = "DEAD"
        BY <2>1, NewTask_Facts
    <3>2. state' = [state EXCEPT ![t] = "READY"] /\ pid' = [pid EXCEPT ![t] = next_pid]
        BY <2>1 DEF NewTask
    <3>3. s = t
        BY <1>0, <1>1, <3>2
    <3> QED
        BY <1>0, <3>1, <3>2, <3>3, Types
  <2>2. CASE UNCHANGED lifeVars
    BY <1>1, <2>2 DEF lifeVars
  <2>3. \/ UNCHANGED lifeVars
        \/ \E c, t \in Slot : NewTask(c, t, TRUE) \/ NewTask(c, t, FALSE)
    BY <1>6 DEF BirthStep, task_fork, shell_exec_elf, shell_exec_hand, shell_exec_wait,
       shell_exec_status, exec_task_entry, SYS_EXECVE
  <2> QED
    BY <2>1, <2>2, <2>3
<1> QED
    BY <1>2, <1>3, <1>4, <1>5, <1>6 DEF Next

\* A task that has ended never runs again: its slot comes back to life only for
\* a task with a new pid, and only from DEAD.
THEOREM NeverResurrected == Spec => NoResurrection
<1>1. SchedInv /\ [Next]_vars
        => [\A s \in Used : state[s] \in Ended /\ state'[s] \in Live
               => state[s] = "DEAD" /\ pid'[s] = next_pid]_vars
    BY LivesOnce
<1> QED
    BY <1>1, SchedInvariant, PTL DEF Spec, NoResurrection

\* A step after which a task in use is the same task, no more condemned than
\* before, no less protected and with SIGKILL as pending as before (or ended)
\* keeps KillNotLost for it.
LEMMA KillKeptFor ==
    ASSUME KillNotLost, NEW s \in Used, pid'[s] = pid[s],
           unkillable[s] => unkillable'[s], state'[s] \in Live => state[s] \in Live,
           pid[s] \in condemned' /\ ~unkillable[s]
              => pid[s] \in condemned \/ SIGKILL \in sig_pending'[s],
           SIGKILL \in sig_pending[s] /\ ~unkillable[s]
              => SIGKILL \in sig_pending'[s] \/ state'[s] \notin Live
    PROVE  state'[s] \in Live /\ pid'[s] \in condemned' /\ ~unkillable'[s]
              => SIGKILL \in sig_pending'[s]
    BY DEF KillNotLost

\* KillNotLost survives every step when no program calls execve.
LEMMA KillKept ==
    ASSUME "execve" \notin Calls, SchedInv, SchedInv', KillNotLost, [Next]_vars
    PROVE  KillNotLost'
<1> DEFINE Keeps(s) == state'[s] \in Live /\ pid'[s] \in condemned' /\ ~unkillable'[s]
                          => SIGKILL \in sig_pending'[s]
<1> USE DEF slotVars, lifeVars, sigVars, progVars
<1>0. /\ state \in [Slot -> Live \cup Ended] /\ sig_pending \in [Slot -> SUBSET Signals]
      /\ unkillable \in [Slot -> BOOLEAN] /\ Used \subseteq Slot /\ current_task \in Slot
      /\ in_schedule.at \in Slot /\ pid \in [Slot -> Pid \cup {NoPid}]
    BY Types DEF SchedInv, WalkInPool
<1>l. Live \cap Ended = {}
    BY DEF Live, Ended
<1>1. ASSUME UNCHANGED <<pid, task_pool_count>>, \A s \in Used : Keeps(s) PROVE KillNotLost'
    BY <1>1 DEF KillNotLost, Used
<1>2. ASSUME UNCHANGED <<slotVars, sigVars>>, NEW s \in Used, state'[s] \in Live => state[s] \in Live
      PROVE  Keeps(s)
    BY <1>2, KillKeptFor
<1>3. ASSUME SchedInv, [Next]_vars, NEW s \in Used, pid'[s] = pid[s], state'[s] \in Live
      PROVE  state[s] \in Live
  <2>1. pid[s] # next_pid
    BY Types, SMTT(60) DEF SchedInv, PidsFresh
  <2> QED
    BY <1>0, <1>3, <2>1, LivesOnce
<1>4. CASE Schedule
  <2>1. ASSUME NEW t \in Slot, sig_deliver(t), UNCHANGED <<slotVars, condemned>> PROVE KillNotLost'
    <3>1. ASSUME NEW s \in Used PROVE Keeps(s)
      <4>1. SIGKILL \in sig_pending[s] /\ ~unkillable[s]
               => SIGKILL \in sig_pending'[s] \/ state'[s] \notin Live
        BY <1>0, <1>l, <2>1, Delivered
      <4>2. pid'[s] = pid[s] /\ unkillable'[s] = unkillable[s] /\ condemned' = condemned
        BY <2>1
      <4>3. state'[s] \in Live => state[s] \in Live
        BY <1>3, <4>2
      <4> QED
        BY <4>1, <4>2, <4>3, KillKeptFor
    <3> QED
        BY <1>1, <2>1, <3>1
  <2>2. CASE UNCHANGED <<slotVars, sigVars>>
    BY <1>1, <1>2, <1>3, <2>2
  <2>3. \/ UNCHANGED <<slotVars, sigVars>>
        \/ UNCHANGED <<slotVars, condemned>> /\ \E t \in Slot : sig_deliver(t)
    BY <1>0, <1>4 DEF Schedule, schedule_enter, schedule_visit, schedule_switch
  <2> QED
    BY <2>1, <2>2, <2>3
<1>5. CASE EndStep \/ WaitStep \/ UNCHANGED vars
  <2>1. UNCHANGED <<slotVars, sigVars>>
    BY <1>5 DEF EndStep, SYS_EXIT, kill_userspace_fault, kernel_task_returns, task_exit,
       SYS_SIGRETURN_kill, exec_task_entry_fails, WaitStep, ipc_block, ipc_wake, SYS_WAIT4,
       SYS_WAIT4_reap, SYS_WAIT4_return, vars
  <2> QED
    BY <1>1, <1>2, <1>3, <2>1
<1>6. CASE SignalStep
  <2>1. ASSUME NEW t \in Used, NEW g \in Signals, sig_send(t, g) PROVE KillNotLost'
    <3>1. ASSUME NEW s \in Used PROVE Keeps(s)
      <4>1. SIGKILL \in sig_pending[s] => SIGKILL \in sig_pending'[s]
        BY <1>0, <2>1 DEF sig_send
      <4>2. state' = state /\ pid' = pid /\ unkillable' = unkillable
        BY <2>1 DEF sig_send
      <4>3. s = t /\ g = SIGKILL /\ state[t] # "DEAD" => SIGKILL \in sig_pending'[s]
        BY <1>0, <2>1 DEF sig_send
      <4>4. s # t => pid[s] # pid[t]
        BY DEF SchedInv, PidsFresh
      <4>5. pid[s] \in condemned' => pid[s] \in condemned \/ SIGKILL \in sig_pending'[s]
        BY <2>1, <4>3, <4>4 DEF sig_send
      <4> QED
        BY <4>1, <4>2, <4>5, KillKeptFor
    <3> QED
        BY <1>1, <2>1, <3>1 DEF sig_send
  <2>2. ASSUME NEW c \in Slot, signal_check_user(c) PROVE KillNotLost'
    <3>1. Caught(c) \in SUBSET Nat /\ Caught(c) # {} /\ SIGKILL \notin Caught(c)
        BY <1>0, <2>2, SignalsNat DEF signal_check_user, Caught
    <3>2. Min(Caught(c)) # SIGKILL
        BY <3>1, MinFact
    <3>3. \A s \in Used : SIGKILL \in sig_pending[s] => SIGKILL \in sig_pending'[s]
        BY <1>0, <2>2, <3>2 DEF signal_check_user
    <3>4. state' = state /\ UNCHANGED <<slotVars, condemned>>
        BY <2>2 DEF signal_check_user
    <3> QED
        BY <1>1, <3>3, <3>4, KillKeptFor
  <2>3. ASSUME NEW c \in Slot, shell_enter(c) PROVE KillNotLost'
    <3>1. \A s \in Used : unkillable[s] => unkillable'[s]
        BY <1>0, <2>3 DEF shell_enter
    <3>2. UNCHANGED <<state, pid, task_pool_count, sig_pending, condemned>>
        BY <2>3 DEF shell_enter
    <3> QED
        BY <1>1, <3>1, <3>2, KillKeptFor
  <2>4. ASSUME NEW c, NEW g, NEW h, SYS_SIGNAL(c, g, h) PROVE KillNotLost'
    <3>1. UNCHANGED <<state, pid, unkillable, task_pool_count, sig_pending, condemned>>
        BY <2>4 DEF SYS_SIGNAL
    <3> QED
        BY <1>1, <3>1, KillKeptFor
  <2> QED
    BY <1>6, <2>1, <2>2, <2>3, <2>4, SignalsNat DEF SignalStep, SYS_KILL, IsTaskByPid, keyboard_ctrl_c
<1>7. CASE BirthStep
  <2>1. ASSUME NEW c \in Slot, NEW t \in Slot, NEW ring3 \in BOOLEAN, NewTask(c, t, ring3) PROVE KillNotLost'
    <3>1. Used' = Used \cup {t} /\ next_pid \in Nat
        BY <2>1, NewTask_Facts, SMTT(60) DEF Pid
    <3>2. /\ pid' = [pid EXCEPT ![t] = next_pid] /\ condemned' = condemned
          /\ state' = [state EXCEPT ![t] = "READY"] /\ unkillable' = [unkillable EXCEPT ![t] = FALSE]
          /\ sig_pending' = [sig_pending EXCEPT ![t] = {}]
        BY <2>1 DEF NewTask, sig_task_init
    <3>3. pid'[t] = next_pid /\ next_pid \notin condemned
      <4>1. condemned \subseteq 1..next_pid - 1
        BY DEF SchedInv, PidsFresh
      <4> QED
        BY <1>0, <3>1, <3>2, <4>1, SMTT(60)
    <3>4. ASSUME NEW s \in Used \ {t} PROVE Keeps(s)
      <4>1. /\ pid'[s] = pid[s] /\ state'[s] = state[s] /\ unkillable'[s] = unkillable[s]
            /\ sig_pending'[s] = sig_pending[s]
        BY <1>0, <3>2
      <4> QED
        BY <3>2, <4>1, KillKeptFor
    <3>5. Keeps(t)
      <4>1. pid'[t] \notin condemned'
        BY <3>2, <3>3, SMTT(60)
      <4> QED
        BY <4>1
    <3>6. \A s \in Used' : Keeps(s)
        BY <3>1, <3>4, <3>5
    <3> QED
        BY <3>6 DEF KillNotLost
  <2>2. ASSUME NEW c \in Slot, NEW login \in BOOLEAN, shell_exec_hand(c, login) PROVE KillNotLost'
    <3>1. child[c] \in Slot
        BY Types
    <3>2. \A s \in Used : unkillable[s] => unkillable'[s]
        BY <1>0, <2>2, <3>1 DEF shell_exec_hand
    <3>3. UNCHANGED <<state, pid, task_pool_count, sig_pending, condemned>>
        BY <2>2 DEF shell_exec_hand
    <3> QED
        BY <1>1, <3>2, <3>3, KillKeptFor
  <2>3. ASSUME UNCHANGED <<state, pid, unkillable, task_pool_count, sig_pending, condemned>> PROVE KillNotLost'
    BY <1>1, <2>3, KillKeptFor
  <2>4. ASSUME NEW c \in Slot, shell_exec_wait(c) \/ shell_exec_status(c) \/ exec_task_entry(c) PROVE KillNotLost'
    BY <2>3, <2>4 DEF shell_exec_wait, shell_exec_status, exec_task_entry
  <2> QED
    BY <1>7, <2>1, <2>2, <2>4 DEF BirthStep, task_fork, shell_exec_elf, SYS_EXECVE
<1> QED
    BY <1>4, <1>5, <1>6, <1>7 DEF Next

\* As long as no program calls execve (whose sig_task_init forgets pending
\* signals), a SIGKILL posted to a killable task stays pending until it ends.
THEOREM KillStaysPending ==
    ASSUME "execve" \notin Calls
    PROVE  Spec => []KillNotLost
<1>1. Init => KillNotLost
    BY DEF Init, KillNotLost
<1>2. SchedInv /\ SchedInv' /\ KillNotLost /\ [Next]_vars => KillNotLost'
    BY KillKept
<1> QED
    BY <1>1, <1>2, SchedInvariant, PTL DEF Spec

=============================================================================
