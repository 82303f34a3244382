--------------------------- MODULE PrivateMemory ----------------------------
(***************************************************************************)
(* What a user program sees of its memory: a page is absent or has a       *)
(* content, and only the program's own steps change it.  No frames, no     *)
(* sharing.  Pages that show a surface are outside of this promise and     *)
(* count as absent.                                                        *)
(***************************************************************************)
CONSTANTS Task, Page, Image     \* the pages an execve fills

Absent == "absent"
Fresh == "fresh"     \* zeros, or the program's image
Nothing == [v \in Page |-> Absent]

VARIABLE mem        \* mem[t][v]

AbsInit == mem = [t \in Task |-> Nothing]

Becomes(t, v, x) == mem' = [mem EXCEPT ![t][v] = x]

\* The program writes a page it has.
Store(t, v) == mem[t][v] # Absent /\ Becomes(t, v, t)

\* A reserved page is touched, or mapped anew, and is fresh.
Touch(t, v) == Becomes(t, v, Fresh)
Unmap(t, v) == Becomes(t, v, Absent)

\* The child starts with what the parent has at that moment.
Fork(t, c) == t # c /\ mem' = [mem EXCEPT ![c] = mem[t]]

Exec(t) == mem' = [mem EXCEPT ![t] = [v \in Page |-> IF v \in Image THEN Fresh ELSE Absent]]
End(t) == mem' = [mem EXCEPT ![t] = Nothing]

AbsNext ==
    \E t \in Task :
        \/ \E v \in Page : Store(t, v) \/ Touch(t, v) \/ Unmap(t, v)
        \/ \E c \in Task : Fork(t, c)
        \/ Exec(t)
        \/ End(t)

AbsSpec == AbsInit /\ [][AbsNext]_mem
=============================================================================
