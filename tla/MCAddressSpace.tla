--------------------------- MODULE MCAddressSpace ---------------------------
EXTENDS AddressSpace, TLC

CONSTANTS t1, t2, f1, f2, f3

\* Neither slots nor frames are told apart by any action.
Symmetry == Permutations(Task) \cup Permutations(Frame)

\* Never read again, and hidden from the view: what a frame holds that no live
\* program can reach (frames are filled when they are taken), and all but the
\* frames of a directory that is only going to be freed.
Reached(f) ==
    \E t \in Task, v \in Page :
        /\ life[t] = "live"
        /\ page_dir[t][v].frame = f \/ (new_pd[t][v].frame = f /\ call[t] # "reap")
OnlyFrames(pd) == [v \in Page |-> pd[v].frame]
View ==
    <<refcount, [f \in Frame |-> IF Reached(f) THEN content[f] ELSE Fresh],
      [t \in Task |-> IF life[t] = "live"
                      THEN <<life[t], page_dir[t], mmap_next[t], call[t], cloned[t],
                             IF call[t] = "reap" THEN OnlyFrames(new_pd[t]) ELSE new_pd[t]>>
                      ELSE <<life[t], OnlyFrames(page_dir[t])>>], cut>>
=============================================================================
