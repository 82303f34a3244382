----------------------------- MODULE Exec_proofs -----------------------------
(***************************************************************************)
(* Loading a program, for any number of tasks and frames.  ExecInv is the  *)
(* inductive invariant: that a program starts with its caller's arguments  *)
(* needs to know that the scratch holds them as long as the caller holds   *)
(* the lock, and so that whoever writes to the scratch holds the lock; the *)
(* same of the staging buffer needs every task in elf_exec to hold it.     *)
(***************************************************************************)
EXTENDS Exec, TLAPS

\* A leaf is given up after this many seconds.
USE ZenonT(60)

\* A step of one task leaves what the lock protects for another as it is, if it writes
\* to the scratch or the buffer only while the other does not hold the lock.
LEMMA OthersProtected ==
    ASSUME NEW u \in Task, Protected(u),
           at'[u] = at[u], new'[u] = new[u],
           s_execve_owner' = u <=> s_execve_owner = u,
           s_argv' = s_argv \/ ~Locked(u),
           Entering = {} => s_elf_buf' = s_elf_buf \/ ~Locked(u)
    PROVE  Protected(u)'
<1> USE DEF Protected, Locked
<1>1. /\ (at[u] = "stage")' => Locked(u)'
      /\ Locked(u)' => at'[u] \in Loading /\ (at'[u] # "stage" => s_argv' = u)
  OBVIOUS
<1>2. new'[u].argv \in {Untaken, u}
  OBVIOUS
<1>3. ASSUME Entering = {}
      PROVE  /\ at'[u] \in Loading => Locked(u)'
             /\ at'[u] \in {"map", "mapinterp"} => s_elf_buf' = u
             /\ {new'[u].image, new'[u].interp} \subseteq {Untaken, u}
  <2>1. at[u] \in {"map", "mapinterp"} => at[u] \in Loading
    BY DEF Loading
  <2> QED
    BY <1>3, <2>1
<1> QED
  BY <1>1, <1>2, <1>3 DEF Loading

\* Changing a function at one place to what it is there changes nothing.
LEMMA SameThere ==
    ASSUME NEW S, NEW f \in [Task -> S], NEW t \in Task
    PROVE  f[t] \in S /\ f = [f EXCEPT ![t] = f[t]]
  OBVIOUS

\* A task in the kernel's loader, by where it is.
LEMMA PointsOf ==
    /\ Loading \subseteq Points
    /\ {"user", "commit", "changed", "ended"} \subseteq Points \ Loading
  BY DEF Loading, Points

\* What a step of task t has to show: what the lock protects for t itself, and that it
\* writes to the scratch, and where nobody comes without the lock to the buffer, only
\* as the holder of the lock.
LEMMA Finish ==
    ASSUME Untaken \notin Task, ExecInv,
           NEW t \in Task, NEW p \in Points, NEW q \in Space, NEW r \in Space,
           at' = [at EXCEPT ![t] = p],
           pd' = [pd EXCEPT ![t] = q],
           new' = [new EXCEPT ![t] = r],
           s_execve_owner' \in Task \cup {Untaken, Departed},
           \A u \in Task \ {t} : s_execve_owner' = u <=> s_execve_owner = u,
           s_argv' \in Whose, s_argv' = s_argv \/ Locked(t),
           s_elf_buf' \in Whose, Entering = {} => s_elf_buf' = s_elf_buf \/ Locked(t),
           window' \subseteq Task,
           frames' \in Nat, killed' \in 0..Kills, lost' \in Nat,
           Protected(t)',
           q.argv \in {Untaken, t},
           Entering = {} => {q.image, q.interp} \subseteq {Untaken, t}
    PROVE  ExecInv'
<1>1. /\ at \in [Task -> Points]
      /\ pd \in [Task -> Space]
      /\ new \in [Task -> Space]
  BY DEF ExecInv, TypeOK
<1>2. /\ at'[t] = p /\ pd'[t] = q /\ new'[t] = r
      /\ \A u \in Task \ {t} : at'[u] = at[u] /\ pd'[u] = pd[u] /\ new'[u] = new[u]
  BY <1>1
<1>3. /\ at' \in [Task -> Points]
      /\ pd' \in [Task -> Space]
      /\ new' \in [Task -> Space]
  BY <1>1
<1>4. TypeOK'
  BY <1>3 DEF TypeOK
<1>5. OwnProgram'
  <2> SUFFICES ASSUME NEW u \in Task
               PROVE  /\ pd'[u].argv \in {Untaken, u}
                      /\ Entering = {} => {pd'[u].image, pd'[u].interp} \subseteq {Untaken, u}
    BY DEF OwnProgram
  <2>1. CASE u = t
    BY <2>1, <1>2
  <2>2. CASE u # t
    <3>1. pd'[u] = pd[u]
      BY <2>2, <1>2
    <3> QED
      BY <3>1 DEF ExecInv, OwnProgram
  <2> QED
    BY <2>1, <2>2
<1>6. ASSUME NEW u \in Task PROVE Protected(u)'
  <2>1. CASE u = t
    BY <2>1
  <2>2. CASE u # t
    <3>1. Protected(u) /\ at'[u] = at[u] /\ new'[u] = new[u]
      BY <2>2, <1>2 DEF ExecInv
    <3>2. Locked(t) => ~Locked(u)
      BY <2>2 DEF Locked
    <3>3. s_execve_owner' = u <=> s_execve_owner = u
      BY <2>2
    <3> QED
      BY <3>1, <3>2, <3>3, OthersProtected
  <2> QED
    BY <2>1, <2>2
<1> QED
  BY <1>4, <1>5, <1>6 DEF ExecInv

\* What a task knows of itself before a step.
LEMMA Before ==
    ASSUME ExecInv, NEW t \in Task
    PROVE  /\ Protected(t)
           /\ pd[t] \in Space /\ pd = [pd EXCEPT ![t] = pd[t]]
           /\ new[t] \in Space /\ new = [new EXCEPT ![t] = new[t]]
           /\ at[t] \in Points
           /\ pd[t].argv \in {Untaken, t}
           /\ Entering = {} => {pd[t].image, pd[t].interp} \subseteq {Untaken, t}
           /\ pd[t].size \in Nat /\ new[t].size \in Nat
           /\ at \in [Task -> Points]
           /\ pd \in [Task -> Space]
           /\ new \in [Task -> Space]
<1>1. /\ at \in [Task -> Points]
      /\ pd \in [Task -> Space]
      /\ new \in [Task -> Space]
  BY DEF ExecInv, TypeOK
<1>2. /\ pd[t] \in Space /\ pd = [pd EXCEPT ![t] = pd[t]]
      /\ new[t] \in Space /\ new = [new EXCEPT ![t] = new[t]]
      /\ at[t] \in Points
  BY <1>1, SameThere
<1>3. pd[t].size \in Nat /\ new[t].size \in Nat
  BY <1>2, SMTT(60) DEF Space
<1> QED
  BY <1>1, <1>2, <1>3 DEF ExecInv, OwnProgram

-----------------------------------------------------------------------------
(* The steps of a task *)

LEMMA execve_lock_Inv ==
    ASSUME Untaken \notin Task, ExecInv, NEW t \in Task, execve_lock(t)
    PROVE  ExecInv'
<1>1. "stage" \in Points /\ "stage" \in Loading /\ "stage" \notin {"map", "mapinterp"}
  BY DEF Points, Loading
<1>2. /\ at' = [at EXCEPT ![t] = "stage"] /\ s_execve_owner = Untaken
      /\ s_execve_owner' = t /\ s_argv' = s_argv /\ s_elf_buf' = s_elf_buf
      /\ new' = new /\ pd' = pd /\ window' = window
      /\ frames' = frames /\ killed' = killed /\ lost' = lost
  BY DEF execve_lock, Goto
<1>3. /\ Protected(t) /\ at'[t] = "stage"
      /\ pd' = [pd EXCEPT ![t] = pd[t]] /\ new' = [new EXCEPT ![t] = new[t]]
      /\ pd[t] \in Space /\ new[t] \in Space
      /\ pd[t].argv \in {Untaken, t}
      /\ Entering = {} => {pd[t].image, pd[t].interp} \subseteq {Untaken, t}
  BY <1>2, Before
<1>4. Protected(t)'
  BY <1>1, <1>2, <1>3 DEF Protected, Locked
<1>5. \A u \in Task \ {t} : s_execve_owner' = u <=> s_execve_owner = u
  BY <1>2
<1>6. TypeOK
  BY DEF ExecInv
<1> QED
  BY <1>1, <1>2, <1>3, <1>4, <1>5, <1>6, Finish DEF TypeOK

LEMMA StageArguments_Inv ==
    ASSUME Untaken \notin Task, ExecInv, NEW t \in Task, StageArguments(t)
    PROVE  ExecInv'
<1>1. "read" \in Points /\ "read" \in Loading /\ "read" \notin {"stage", "map", "mapinterp"}
  BY DEF Points, Loading
<1>2. /\ at' = [at EXCEPT ![t] = "read"]
      /\ s_execve_owner' = s_execve_owner /\ s_argv' = t /\ s_elf_buf' = s_elf_buf
      /\ new' = new /\ pd' = pd /\ window' = window
      /\ frames' = frames /\ killed' = killed /\ lost' = lost
  BY DEF StageArguments, Goto
<1>3. /\ Protected(t) /\ at'[t] = "read"
      /\ pd' = [pd EXCEPT ![t] = pd[t]] /\ new' = [new EXCEPT ![t] = new[t]]
      /\ pd[t] \in Space /\ new[t] \in Space
      /\ pd[t].argv \in {Untaken, t}
      /\ Entering = {} => {pd[t].image, pd[t].interp} \subseteq {Untaken, t}
  BY <1>2, Before
<1>4. Locked(t)
  BY <1>3 DEF StageArguments, Protected
<1>5. Protected(t)'
  BY <1>1, <1>2, <1>3, <1>4 DEF Protected, Locked
<1>6. t \in Whose
  BY DEF Whose
<1>7. TypeOK
  BY DEF ExecInv
<1> QED
  BY <1>1, <1>2, <1>3, <1>4, <1>5, <1>6, <1>7, Finish DEF TypeOK

\* A step out of elf_exec, whoever gives back the lock: nothing is protected any more.
LEMMA OutProtected ==
    ASSUME ExecInv, Untaken \notin Task, NEW t \in Task,
           at'[t] \in Points \ Loading, execve_unlock(t),
           new'[t].argv \in {Untaken, t},
           Entering = {} => {new'[t].image, new'[t].interp} \subseteq {Untaken, t}
    PROVE  /\ Protected(t)'
           /\ s_execve_owner' \in Task \cup {Untaken, Departed}
           /\ \A u \in Task \ {t} : s_execve_owner' = u <=> s_execve_owner = u
<1>1. s_execve_owner' # t
  BY DEF execve_unlock, Locked
<1>2. s_execve_owner \in Task \cup {Untaken, Departed}
  BY DEF ExecInv, TypeOK
<1>3. at'[t] \notin {"stage", "map", "mapinterp"} /\ at'[t] \notin Loading
  BY DEF Loading
<1> QED
  BY <1>1, <1>2, <1>3 DEF execve_unlock, Locked, Protected

LEMMA Fail_Inv ==
    ASSUME Untaken \notin Task, ExecInv, NEW t \in Task, Fail(t)
    PROVE  ExecInv'
<1> DEFINE p == IF Locked(t) THEN "user" ELSE "ended"
<1>1. p \in Points \ Loading
  BY PointsOf
<1>2. /\ at' = [at EXCEPT ![t] = p]
      /\ new' = [new EXCEPT ![t] = None]
      /\ execve_unlock(t)
      /\ s_argv' = s_argv /\ s_elf_buf' = s_elf_buf /\ pd' = pd /\ window' = window
      /\ killed' = killed /\ lost' = lost
      /\ frames' = frames + new[t].size
  BY DEF Fail, Goto
<1> HIDE DEF p
<1>3. None \in Space /\ None.argv = Untaken /\ None.image = Untaken /\ None.interp = Untaken
  BY SMTT(60) DEF None, Space, Whose
<1>4. at'[t] = p /\ new'[t] = None
  BY <1>2, Before
<1>5. /\ Protected(t)'
      /\ s_execve_owner' \in Task \cup {Untaken, Departed}
      /\ \A u \in Task \ {t} : s_execve_owner' = u <=> s_execve_owner = u
  BY <1>1, <1>2, <1>3, <1>4, OutProtected
<1>6. TypeOK
  BY DEF ExecInv
<1>7. frames' \in Nat
  BY <1>2, <1>6, Before, SMTT(60) DEF TypeOK
<1> QED
  BY <1>1, <1>2, <1>3, <1>5, <1>6, <1>7, Before, Finish DEF TypeOK

LEMMA ReadFile_Inv ==
    ASSUME Untaken \notin Task, ExecInv, NEW t \in Task, ReadFile(t)
    PROVE  ExecInv'
<1> DEFINE r == [new[t] EXCEPT !.size = 1]
<1>1. /\ at[t] = "read" /\ "read" \in Loading /\ "read" # "stage"
      /\ "map" \in Points /\ "map" \in Loading /\ "map" # "stage"
  BY DEF Points, Loading, ReadFile
<1>2. /\ at' = [at EXCEPT ![t] = "map"] /\ new' = [new EXCEPT ![t] = r]
      /\ s_execve_owner' = s_execve_owner /\ s_argv' = s_argv /\ s_elf_buf' = t
      /\ pd' = pd /\ window' = window /\ killed' = killed /\ lost' = lost
  BY DEF ReadFile, Goto
<1>3. /\ Protected(t) /\ at'[t] = "map" /\ new'[t] = r
      /\ pd' = [pd EXCEPT ![t] = pd[t]]
      /\ pd[t] \in Space /\ new[t] \in Space
      /\ pd[t].argv \in {Untaken, t}
      /\ Entering = {} => {pd[t].image, pd[t].interp} \subseteq {Untaken, t}
  BY <1>2, Before
<1>4. /\ r \in Space /\ r.argv = new[t].argv
      /\ r.image = new[t].image /\ r.interp = new[t].interp
  BY <1>3, SMTT(60) DEF Space
<1> HIDE DEF r
<1>5. Protected(t)'
  BY <1>1, <1>2, <1>3, <1>4 DEF Protected, Locked
<1>6. TypeOK
  BY DEF ExecInv
<1>7. frames' \in Nat
  BY <1>6, SMTT(60) DEF TypeOK, ReadFile
<1>8. Entering = {} => Locked(t)
  BY <1>1, <1>3 DEF Protected
<1>9. t \in Whose
  BY DEF Whose
<1> QED
  BY <1>1, <1>2, <1>3, <1>4, <1>5, <1>6, <1>7, <1>8, <1>9, Finish DEF TypeOK

\* A page is mapped in the address space that is being built, or lost: the frames are
\* still counted, and the files and arguments it is built from are the ones asked for.
LEMMA MappedPage ==
    ASSUME ExecInv, NEW t \in Task, frames > 0,
           NEW m \in Space, vmm_map_page(t, m)
    PROVE  /\ frames' \in Nat /\ lost' \in Nat
           /\ \E r \in Space :
                /\ new' = [new EXCEPT ![t] = r]
                /\ \/ r.image = m.image /\ r.interp = m.interp /\ r.argv = m.argv
                   \/ r = new[t]
<1>1. frames \in Nat /\ lost \in Nat
  BY DEF ExecInv, TypeOK
<1>2. CASE frames > 1
  <2> DEFINE r == [m EXCEPT !.size = @ + 2]
  <2>1. frames' \in Nat /\ lost' \in Nat
    BY <1>1, <1>2, SMTT(60) DEF vmm_map_page
  <2>2. new' = [new EXCEPT ![t] = r]
    BY <1>2 DEF vmm_map_page
  <2>3. r \in Space /\ r.image = m.image /\ r.interp = m.interp /\ r.argv = m.argv
    BY SMTT(60) DEF Space
  <2> HIDE DEF r
  <2> QED
    BY <2>1, <2>2, <2>3
<1>3. CASE ~(frames > 1)
  <2>1. frames' \in Nat /\ lost' \in Nat
    BY <1>1, <1>3, SMTT(60) DEF vmm_map_page
  <2>2. new' = new
    BY <1>3 DEF vmm_map_page
  <2>3. new[t] \in Space /\ new = [new EXCEPT ![t] = new[t]]
    BY Before
  <2> QED
    BY <2>1, <2>2, <2>3
<1> QED
  BY <1>2, <1>3

\* What the three steps that map pages have in common.
LEMMA Mapping ==
    ASSUME Untaken \notin Task, ExecInv, NEW t \in Task, frames > 0,
           at[t] \in Loading, at[t] # "stage",
           NEW m \in Space, vmm_map_page(t, m),
           m.argv = new[t].argv,
           Entering = {} => {m.image, m.interp} \subseteq {Untaken, t},
           NEW p \in Loading, p \notin {"stage", "map", "mapinterp"}, Goto(t, p),
           UNCHANGED <<s_execve_owner, s_argv, s_elf_buf, pd, killed>>,
           window' \subseteq Task
    PROVE  ExecInv'
<1>1. PICK r \in Space :
        /\ new' = [new EXCEPT ![t] = r]
        /\ \/ r.image = m.image /\ r.interp = m.interp /\ r.argv = m.argv
           \/ r = new[t]
  BY MappedPage
<1>2. frames' \in Nat /\ lost' \in Nat
  BY MappedPage
<1>3. p \in Points /\ at' = [at EXCEPT ![t] = p]
  BY PointsOf DEF Goto
<1>4. /\ Protected(t) /\ at'[t] = p /\ new'[t] = r
      /\ pd' = [pd EXCEPT ![t] = pd[t]]
      /\ pd[t] \in Space
      /\ pd[t].argv \in {Untaken, t}
      /\ Entering = {} => {pd[t].image, pd[t].interp} \subseteq {Untaken, t}
  BY <1>1, <1>3, Before
<1>5. /\ r.argv \in {Untaken, t}
      /\ Entering = {} => {r.image, r.interp} \subseteq {Untaken, t}
  BY <1>1, <1>4 DEF Protected
<1>6. Protected(t)'
  BY <1>4, <1>5 DEF Protected, Locked
<1>7. TypeOK
  BY DEF ExecInv
<1> QED
  BY <1>1, <1>2, <1>3, <1>4, <1>6, <1>7, Finish DEF TypeOK

LEMMA map_load_segments_Inv ==
    ASSUME Untaken \notin Task, ExecInv, NEW t \in Task, map_load_segments(t)
    PROVE  ExecInv'
<1> DEFINE m == [new[t] EXCEPT !.image = s_elf_buf]
<1>1. at[t] = "map" /\ "map" \in Loading /\ "map" # "stage"
  BY DEF Loading, map_load_segments
<1>2. PICK p \in {"interp", "stack"} : Goto(t, p)
  BY DEF map_load_segments
<1>3. p \in Loading /\ p \notin {"stage", "map", "mapinterp"}
  BY DEF Loading
<1>4. Protected(t) /\ new[t] \in Space
  BY Before
<1>5. s_elf_buf \in Whose /\ window \subseteq Task
  BY DEF ExecInv, TypeOK
<1>6. m \in Space /\ m.argv = new[t].argv /\ m.image = s_elf_buf /\ m.interp = new[t].interp
  BY <1>4, <1>5, SMTT(60) DEF Space
<1>7. /\ vmm_map_page(t, m) /\ frames > 0
      /\ UNCHANGED <<s_execve_owner, s_argv, s_elf_buf, pd, killed>>
      /\ window' = window \cup {t}
  BY DEF map_load_segments
<1> HIDE DEF m
<1>8. Entering = {} => {m.image, m.interp} \subseteq {Untaken, t}
  BY <1>1, <1>4, <1>6 DEF Protected
<1>9. window' \subseteq Task
  BY <1>5, <1>7
<1> QED
  BY <1>1, <1>2, <1>3, <1>6, <1>7, <1>8, <1>9, Mapping

LEMMA ReadInterp_Inv ==
    ASSUME Untaken \notin Task, ExecInv, NEW t \in Task, ReadInterp(t)
    PROVE  ExecInv'
<1>1. /\ at[t] = "interp" /\ "interp" \in Loading /\ "interp" # "stage"
      /\ "mapinterp" \in Points /\ "mapinterp" \in Loading /\ "mapinterp" # "stage"
  BY DEF Points, Loading, ReadInterp
<1>2. /\ at' = [at EXCEPT ![t] = "mapinterp"]
      /\ s_execve_owner' = s_execve_owner /\ s_argv' = s_argv /\ s_elf_buf' = t
      /\ new' = new /\ pd' = pd /\ window' = window
      /\ frames' = frames /\ killed' = killed /\ lost' = lost
  BY DEF ReadInterp, Goto
<1>3. /\ Protected(t) /\ at'[t] = "mapinterp"
      /\ pd' = [pd EXCEPT ![t] = pd[t]] /\ new' = [new EXCEPT ![t] = new[t]]
      /\ pd[t] \in Space /\ new[t] \in Space
      /\ pd[t].argv \in {Untaken, t}
      /\ Entering = {} => {pd[t].image, pd[t].interp} \subseteq {Untaken, t}
  BY <1>2, Before
<1>4. Protected(t)'
  BY <1>1, <1>2, <1>3 DEF Protected, Locked
<1>5. Entering = {} => Locked(t)
  BY <1>1, <1>3 DEF Protected
<1>6. t \in Whose
  BY DEF Whose
<1>7. TypeOK
  BY DEF ExecInv
<1> QED
  BY <1>1, <1>2, <1>3, <1>4, <1>5, <1>6, <1>7, Finish DEF TypeOK

LEMMA MapInterp_Inv ==
    ASSUME Untaken \notin Task, ExecInv, NEW t \in Task, MapInterp(t)
    PROVE  ExecInv'
<1> DEFINE m == [new[t] EXCEPT !.interp = s_elf_buf]
<1>1. /\ at[t] = "mapinterp" /\ "mapinterp" \in Loading /\ "mapinterp" # "stage"
      /\ "stack" \in Loading /\ "stack" \notin {"stage", "map", "mapinterp"}
  BY DEF Loading, MapInterp
<1>2. Protected(t) /\ new[t] \in Space
  BY Before
<1>3. s_elf_buf \in Whose /\ window \subseteq Task
  BY DEF ExecInv, TypeOK
<1>4. m \in Space /\ m.argv = new[t].argv /\ m.image = new[t].image /\ m.interp = s_elf_buf
  BY <1>2, <1>3, SMTT(60) DEF Space
<1>5. /\ vmm_map_page(t, m) /\ frames > 0 /\ Goto(t, "stack")
      /\ UNCHANGED <<s_execve_owner, s_argv, s_elf_buf, pd, killed>>
      /\ window' \subseteq Task
  BY <1>3 DEF MapInterp
<1> HIDE DEF m
<1>6. Entering = {} => {m.image, m.interp} \subseteq {Untaken, t}
  BY <1>1, <1>2, <1>4 DEF Protected
<1> QED
  BY <1>1, <1>4, <1>5, <1>6, Mapping

LEMMA MapStack_Inv ==
    ASSUME Untaken \notin Task, ExecInv, NEW t \in Task, MapStack(t)
    PROVE  ExecInv'
<1>1. /\ at[t] = "stack" /\ "stack" \in Loading /\ "stack" # "stage"
      /\ "pack" \in Loading /\ "pack" \notin {"stage", "map", "mapinterp"}
  BY DEF Loading, MapStack
<1>2. Protected(t) /\ new[t] \in Space
  BY Before
<1>3. /\ vmm_map_page(t, new[t]) /\ frames > 0 /\ Goto(t, "pack")
      /\ UNCHANGED <<s_execve_owner, s_argv, s_elf_buf, pd, killed>>
      /\ window' \subseteq Task
  BY DEF MapStack, ExecInv, TypeOK
<1>4. Entering = {} => {new[t].image, new[t].interp} \subseteq {Untaken, t}
  BY <1>2 DEF Protected
<1> QED
  BY <1>1, <1>2, <1>3, <1>4, Mapping

\* The holder of the lock finds its own arguments in the scratch.
LEMMA PackArguments_Inv ==
    ASSUME Untaken \notin Task, ExecInv, NEW t \in Task, PackArguments(t)
    PROVE  ExecInv'
<1> DEFINE w == IF Locked(t) THEN s_argv ELSE t
           r == [new[t] EXCEPT !.argv = w]
<1>1. /\ at[t] = "pack" /\ "pack" # "stage" /\ "commit" \in Points \ Loading
  BY PointsOf DEF PackArguments
<1>2. /\ at' = [at EXCEPT ![t] = "commit"] /\ new' = [new EXCEPT ![t] = r]
      /\ execve_unlock(t)
      /\ s_argv' = s_argv /\ s_elf_buf' = s_elf_buf /\ pd' = pd /\ window' = window
      /\ frames' = frames /\ killed' = killed /\ lost' = lost
  BY DEF PackArguments, Goto
<1>3. /\ Protected(t) /\ at'[t] = "commit" /\ new'[t] = r
      /\ pd' = [pd EXCEPT ![t] = pd[t]]
      /\ pd[t] \in Space /\ new[t] \in Space
      /\ pd[t].argv \in {Untaken, t}
      /\ Entering = {} => {pd[t].image, pd[t].interp} \subseteq {Untaken, t}
  BY <1>2, Before
<1>4. w = t
  BY <1>1, <1>3 DEF Protected
<1> HIDE DEF w
<1>5. r \in Space /\ r.argv = t /\ r.image = new[t].image /\ r.interp = new[t].interp
  BY <1>3, <1>4, SMTT(60) DEF Space, Whose
<1> HIDE DEF r
<1>6. Entering = {} => {new'[t].image, new'[t].interp} \subseteq {Untaken, t}
  BY <1>3, <1>5 DEF Protected
<1>7. /\ Protected(t)'
      /\ s_execve_owner' \in Task \cup {Untaken, Departed}
      /\ \A u \in Task \ {t} : s_execve_owner' = u <=> s_execve_owner = u
  BY <1>1, <1>2, <1>3, <1>5, <1>6, OutProtected
<1>8. TypeOK
  BY DEF ExecInv
<1> QED
  BY <1>1, <1>2, <1>3, <1>5, <1>7, <1>8, Finish DEF TypeOK

LEMMA Commit_Inv ==
    ASSUME Untaken \notin Task, ExecInv, NEW t \in Task, Commit(t)
    PROVE  ExecInv'
<1> DEFINE r == [None EXCEPT !.size = pd[t].size]
<1>1. /\ at[t] = "commit" /\ "commit" \notin Loading
      /\ "changed" \in Points \ Loading /\ "changed" \notin {"stage", "map", "mapinterp"}
  BY PointsOf DEF Commit
<1>2. /\ at' = [at EXCEPT ![t] = "changed"] /\ new' = [new EXCEPT ![t] = r]
      /\ pd' = [pd EXCEPT ![t] = new[t]]
      /\ s_execve_owner' = s_execve_owner /\ s_argv' = s_argv /\ s_elf_buf' = s_elf_buf
      /\ window' = window \ {t}
      /\ frames' = frames /\ killed' = killed /\ lost' = lost
  BY DEF Commit, Goto
<1>3. /\ Protected(t) /\ at'[t] = "changed" /\ new'[t] = r
      /\ new[t] \in Space /\ pd[t].size \in Nat
  BY <1>2, Before
<1>4. r \in Space /\ r.argv = Untaken /\ r.image = Untaken /\ r.interp = Untaken
  BY <1>3, SMTT(60) DEF Space, Whose, None
<1> HIDE DEF r
<1>5. s_execve_owner # t
  BY <1>1, <1>3 DEF Protected, Locked
<1>6. Protected(t)'
  BY <1>1, <1>2, <1>3, <1>4, <1>5 DEF Protected, Locked
<1>7. TypeOK
  BY DEF ExecInv
<1>8. /\ new[t].argv \in {Untaken, t}
      /\ Entering = {} => {new[t].image, new[t].interp} \subseteq {Untaken, t}
  BY <1>3 DEF Protected
<1>9. window' \subseteq Task
  BY <1>2, <1>7 DEF TypeOK
<1> QED
  BY <1>1, <1>2, <1>3, <1>4, <1>6, <1>7, <1>8, <1>9, Finish DEF TypeOK

LEMMA FreeOld_Inv ==
    ASSUME Untaken \notin Task, ExecInv, NEW t \in Task, FreeOld(t)
    PROVE  ExecInv'
<1>1. /\ at[t] = "changed" /\ "changed" \notin Loading
      /\ "user" \in Points \ Loading /\ "user" \notin {"stage", "map", "mapinterp"}
  BY PointsOf DEF FreeOld
<1>2. /\ at' = [at EXCEPT ![t] = "user"] /\ new' = [new EXCEPT ![t] = None]
      /\ s_execve_owner' = s_execve_owner /\ s_argv' = s_argv /\ s_elf_buf' = s_elf_buf
      /\ pd' = pd /\ window' = window /\ killed' = killed /\ lost' = lost
      /\ frames' = frames + new[t].size
  BY DEF FreeOld, Goto
<1>3. /\ Protected(t) /\ at'[t] = "user" /\ new'[t] = None
      /\ pd' = [pd EXCEPT ![t] = pd[t]]
      /\ pd[t] \in Space /\ new[t].size \in Nat
      /\ pd[t].argv \in {Untaken, t}
      /\ Entering = {} => {pd[t].image, pd[t].interp} \subseteq {Untaken, t}
  BY <1>2, Before
<1>4. None \in Space /\ None.argv = Untaken /\ None.image = Untaken /\ None.interp = Untaken
  BY SMTT(60) DEF None, Space, Whose
<1>5. s_execve_owner # t
  BY <1>1, <1>3 DEF Protected, Locked
<1>6. Protected(t)'
  BY <1>1, <1>2, <1>3, <1>4, <1>5 DEF Protected, Locked
<1>7. TypeOK
  BY DEF ExecInv
<1>8. frames' \in Nat
  BY <1>2, <1>3, <1>7, SMTT(60) DEF TypeOK
<1> QED
  BY <1>1, <1>2, <1>3, <1>4, <1>6, <1>7, <1>8, Finish DEF TypeOK

\* A killed holder leaves the lock to Departed, so that nobody takes it.
LEMMA Kill_Inv ==
    ASSUME Untaken \notin Task, Departed \notin Task, Kills \in Nat, ExecInv,
           NEW t \in Task, Kill(t)
    PROVE  ExecInv'
<1>1. "ended" \in Points \ Loading /\ "ended" \notin {"stage", "map", "mapinterp"}
  BY PointsOf
<1>2. /\ at' = [at EXCEPT ![t] = "ended"] /\ new' = [new EXCEPT ![t] = None]
      /\ pd' = [pd EXCEPT ![t] = None]
      /\ s_execve_owner' = IF s_execve_owner = t THEN Departed ELSE s_execve_owner
      /\ s_argv' = s_argv /\ s_elf_buf' = s_elf_buf /\ window' = window
      /\ killed < Kills /\ killed' = killed + 1
      /\ frames' = frames + pd[t].size /\ lost' = lost + new[t].size
  BY DEF Kill, Goto
<1>3. /\ at'[t] = "ended" /\ new'[t] = None
      /\ pd[t].size \in Nat /\ new[t].size \in Nat
  BY <1>2, Before
<1>4. None \in Space /\ None.argv = Untaken /\ None.image = Untaken /\ None.interp = Untaken
  BY SMTT(60) DEF None, Space, Whose
<1>5. TypeOK
  BY DEF ExecInv
<1>6. s_execve_owner' # t /\ s_execve_owner' \in Task \cup {Untaken, Departed}
  BY <1>2, <1>5 DEF TypeOK
<1>7. ASSUME NEW u \in Task \ {t} PROVE s_execve_owner' = u <=> s_execve_owner = u
  <2>1. Departed # u /\ t # u
    OBVIOUS
  <2> QED
    BY <1>2, <2>1
<1>8. Protected(t)'
  BY <1>1, <1>3, <1>4, <1>6 DEF Protected, Locked
<1>9. frames' \in Nat /\ lost' \in Nat /\ killed' \in 0..Kills
  BY <1>2, <1>3, <1>5, SMTT(60) DEF TypeOK
<1> QED
  BY <1>1, <1>2, <1>4, <1>5, <1>6, <1>7, <1>8, <1>9, Finish DEF TypeOK

-----------------------------------------------------------------------------
(* The theorem *)

LEMMA Init_Inv ==
    ASSUME Untaken \notin Task, NFrames \in Nat, Kills \in Nat, Init
    PROVE  ExecInv
<1>1. /\ None \in Space /\ None.argv = Untaken /\ None.image = Untaken /\ None.interp = Untaken
      /\ Old \in Space /\ Old.argv = Untaken /\ Old.image = Untaken /\ Old.interp = Untaken
  BY SMTT(60) DEF None, Old, Space, Whose
<1>2. "user" \in Points /\ "read" \in Points /\ "user" \notin Loading
  BY DEF Points, Loading
<1>3. TypeOK
  <2>1. at \in [Task -> Points] /\ pd \in [Task -> Space] /\ new \in [Task -> Space]
    BY <1>1, <1>2 DEF Init
  <2>2. 0 \in 0..Kills /\ 0 \in Nat
    BY SMTT(60)
  <2> QED
    BY <2>1, <2>2 DEF Init, TypeOK, Whose
<1>4. ASSUME NEW t \in Task
      PROVE  /\ pd[t].argv = Untaken /\ pd[t].image = Untaken /\ pd[t].interp = Untaken
             /\ new[t] = None
             /\ at[t] \in {"user", "read"} /\ (Entering = {} => at[t] = "user")
             /\ ~Locked(t)
  BY <1>1 DEF Init, Locked
<1>5. OwnProgram
  BY <1>4 DEF OwnProgram
<1>6. ASSUME NEW t \in Task PROVE Protected(t)
  BY <1>1, <1>2, <1>4 DEF Protected
<1> QED
  BY <1>3, <1>5, <1>6 DEF ExecInv

LEMMA Next_Inv ==
    ASSUME Untaken \notin Task, Departed \notin Task, Kills \in Nat, ExecInv, [Next]_vars
    PROVE  ExecInv'
<1>1. CASE UNCHANGED vars
  BY <1>1 DEF vars, ExecInv, TypeOK, OwnProgram, Protected, Locked
<1>2. ASSUME NEW t \in Task, execve_lock(t) PROVE ExecInv'
  BY <1>2, execve_lock_Inv
<1>3. ASSUME NEW t \in Task, Step(t) PROVE ExecInv'
  <2>1. CASE StageArguments(t)
    BY <2>1, StageArguments_Inv
  <2>2. CASE ReadFile(t)
    BY <2>2, ReadFile_Inv
  <2>3. CASE ReadFails(t) \/ OutOfFrames(t)
    BY <2>3, Fail_Inv DEF ReadFails, OutOfFrames
  <2>4. CASE map_load_segments(t)
    BY <2>4, map_load_segments_Inv
  <2>5. CASE ReadInterp(t)
    BY <2>5, ReadInterp_Inv
  <2>6. CASE MapInterp(t)
    BY <2>6, MapInterp_Inv
  <2>7. CASE MapStack(t)
    BY <2>7, MapStack_Inv
  <2>8. CASE PackArguments(t)
    BY <2>8, PackArguments_Inv
  <2>9. CASE Commit(t)
    BY <2>9, Commit_Inv
  <2>10. CASE FreeOld(t)
    BY <2>10, FreeOld_Inv
  <2> QED
    BY <1>3, <2>1, <2>2, <2>3, <2>4, <2>5, <2>6, <2>7, <2>8, <2>9, <2>10 DEF Step
<1>4. ASSUME NEW t \in Task, Kill(t) PROVE ExecInv'
  BY <1>4, Kill_Inv
<1> QED
  BY <1>1, <1>2, <1>3, <1>4 DEF Next

\* However many tasks call SYS_EXECVE, wherever a load fails and whoever is killed in
\* one, every program starts with the arguments of its own caller; and if no task
\* enters elf_exec without the execve lock, with the file its caller named and the
\* interpreter of that file.
THEOREM ProgramsAreOwn ==
    ASSUME Untaken \notin Task, Departed \notin Task, NFrames \in Nat, Kills \in Nat
    PROVE  Spec => [](TypeOK /\ OwnProgram)
<1>1. Init => ExecInv
  BY Init_Inv
<1>2. ExecInv /\ [Next]_vars => ExecInv'
  BY Next_Inv
<1>3. ExecInv => TypeOK /\ OwnProgram
  BY DEF ExecInv
<1> QED
  BY <1>1, <1>2, <1>3, PTL DEF Spec

=============================================================================
