------------------------------ MODULE ExecArgs ------------------------------
(***************************************************************************)
(* How elf_exec lays the arguments out on the first stack page: strings    *)
(* from the top down, then 16 random bytes, then the tables.  Offsets in   *)
(* bytes; the strings are known by their lengths.                          *)
(***************************************************************************)
EXTENDS Integers, Sequences, FiniteSetsExt

CONSTANTS
    PAGE_SIZE,
    WORD,
    TableWords,         \* the words besides argv: the auxiliary vector, two NULLs, argc
    RandomBytes,
    ELF_MAX_ARGC, ELF_ARG_MAX

VARIABLE args           \* the lengths of the arguments

Init == args \in UNION {[1..n -> 0..ELF_ARG_MAX - 1] : n \in 0..ELF_MAX_ARGC}

\* The room of the strings from the i-th on, with their NULs.
Bytes(i) == MapThenSumSet(LAMBDA j : args[j] + 1, i..Len(args))

\* The strings are placed from the last one; the first that does not fit ends it and
\* becomes the new end of the list.
TooMuch == {i \in 1..Len(args) : Bytes(i) > PAGE_SIZE}
Cut == IF TooMuch = {} THEN 0 ELSE Max(TooMuch)
argc == IF Cut = 0 THEN Len(args) ELSE Cut - 1

BelowStrings == PAGE_SIZE - Bytes(Cut + 1)
BelowRandom == IF BelowStrings >= RandomBytes THEN BelowStrings - RandomBytes ELSE BelowStrings
Aligned == BelowRandom - (BelowRandom % WORD)

Needs == (argc + TableWords) * WORD

\* No room for the tables: no arguments at all.
GivesUp == Aligned < Needs
Argc == IF GivesUp THEN 0 ELSE argc
Sp == (IF GivesUp THEN PAGE_SIZE ELSE Aligned) - (Argc + TableWords) * WORD

-----------------------------------------------------------------------------
(* Properties *)

\* The tables stay in the page, below the strings they point to, and a list that fits
\* arrives complete or not at all.
ArgsPacked ==
    /\ Sp >= 0 /\ Sp % WORD = 0
    /\ Argc > 0 => Sp + (Argc + TableWords) * WORD <= BelowStrings
    /\ Cut = 0 => Argc \in {0, Len(args)}

=============================================================================
