--------------------------------- MODULE Ide ---------------------------------
(***************************************************************************)
(* The disk driver (drivers/ide.c): requests of several tasks on one IDE   *)
(* channel with a hard disk and a CD drive, by bus-master DMA through one  *)
(* bounce buffer, and by port I/O when DMA fails.                          *)
(*                                                                         *)
(* The channel remembers the drive and the sector the last command named   *)
(* and, for each drive, the error bit of its status: a drive keeps it set  *)
(* until its next command or a reset.  A sector's contents are the write   *)
(* that made them and its place in it.  view is what a drive answers a read with; *)
(* plat is what is left of it when the power fails.                        *)
(***************************************************************************)
EXTENDS Naturals, Sequences, FiniteSets

CONSTANTS
    Tasks,
    Sectors,             \* number of sectors of a drive
    Counts,              \* sector counts of the requests
    DMA_ATA_CHUNK_SECS,  \* sectors that fit into the bounce buffer
    DMA_MAX_FAILS,       \* DMA failures in a row before DMA is given up
    MaxRequests,         \* bound: requests made
    MaxFaults            \* bound: commands the drive fails

VARIABLES
    view, plat,
    chan,      \* the channel: drive, next sector and sectors left, error bits
    bounce,    \* s_dma_buf
    busy,      \* s_ide_busy, and who set it
    dma,       \* s_dma_enabled and s_dma_fails
    task,      \* the requests of the tasks
    turn,      \* requests that have had the lock; a write's contents name its turn
    made, faults, flaws

vars == <<view, plat, chan, bounce, busy, dma, task, turn, made, faults, flaws>>

Nobody == "nobody"
Drives == {"ata", "atapi"}
Lbas == 0 .. Sectors - 1
Blank == <<0, 0>>
Done == [pc |-> "idle", op |-> "none", drv |-> "ata", lba |-> 0, n |-> 0, at |-> 0,
         buf |-> <<>>, pay |-> <<>>, r |-> "none", met |-> FALSE]

Goes == flaws = {}
Flaw(cond, what) == flaws' = IF cond THEN flaws \cup {what} ELSE flaws

\* A task inside the driver with the controller's lock.
Inside(p) == task[p].pc \notin {"idle", "lock", "packet", "answer"}

\* The part of a request a command is for: n sectors from the at-th on.
Left(t) == t.n - t.at
Chunk(t) == IF Left(t) > DMA_ATA_CHUNK_SECS THEN DMA_ATA_CHUNK_SECS ELSE Left(t)

(***************************************************************************)
(* Drives: external.                                                       *)
(***************************************************************************)
\* n sectors of what is there from lba on
Stored(v, d, lba, n) == [i \in 1 .. n |-> v[d][lba + i - 1]]

\* v after the first n of the values were written from lba on
Written(v, d, lba, values, n) ==
    [v EXCEPT ![d] = [a \in Lbas |-> IF a >= lba /\ a < lba + n THEN values[a - lba + 1]
                                     ELSE v[d][a]]]

Command(d, lba, n) == [chan EXCEPT !.drv = d, !.lba = lba, !.left = n, !.err[d] = FALSE]

\* A command may fail, at most MaxFaults times.
Fails(f) == f \in BOOLEAN /\ (f => faults < MaxFaults) /\ faults' = faults + (IF f THEN 1 ELSE 0)

(***************************************************************************)
(* Requests and the controller's lock.                                     *)
(***************************************************************************)
\* A call of ide_read_sectors, ide_write_sectors, ide_read_atapi_sectors, or
\* of ide_atapi_capacity and ide_eject_atapi ("probe"), which take no lock.
Request(p, op, d, lba, n) ==
    /\ Goes /\ task[p].pc = "idle" /\ made < MaxRequests
    /\ lba + n <= Sectors
    /\ (op = "probe" \/ op = "write") => (d = "atapi") = (op = "probe")
    /\ op = "probe" => lba = 0 /\ n = 1
    /\ made' = made + 1
    /\ task' = [task EXCEPT ![p] =
          [Done EXCEPT !.pc = IF op = "probe" THEN "packet" ELSE "lock", !.op = op, !.drv = d,
                       !.lba = lba, !.n = n, !.buf = [i \in 1 .. n |-> Blank]]]
    /\ UNCHANGED <<view, plat, chan, bounce, busy, dma, turn, faults, flaws>>

\* ide_lock, then DMA if dma_ata_usable and dma_atapi_usable say so
ide_lock(p) ==
    /\ Goes /\ task[p].pc = "lock" /\ busy = Nobody
    /\ busy' = p
    /\ turn' = turn + 1
    /\ task' = [task EXCEPT ![p].pc = IF dma.on THEN "dma" ELSE "pio",
                            ![p].pay = [i \in 1 .. task[p].n |-> <<turn + 1, i>>]]
    /\ UNCHANGED <<view, plat, chan, bounce, dma, made, faults, flaws>>

\* ide_unlock and the return
Return(p, t, r) ==
    /\ task' = [task EXCEPT ![p] = [t EXCEPT !.pc = "idle", !.r = r]]
    /\ busy' = Nobody

(***************************************************************************)
(* DMA: ide_dma_ata and atapi_read_dma.                                    *)
(***************************************************************************)

\* dma_note_failure: reset the channel, perhaps give DMA up, start over by PIO
dma_note_failure(p, t) ==
    /\ chan' = [chan EXCEPT !.left = 0, !.err = [d \in Drives |-> FALSE]]
    /\ dma' = [on |-> dma.on /\ dma.fails + 1 < DMA_MAX_FAILS, fails |-> dma.fails + 1]
    /\ task' = [task EXCEPT ![p] = [t EXCEPT !.pc = "pio", !.at = 0]]

\* The bounce buffer holds the chunk of a write that is next.
Staged(t) == IF t.op = "write" THEN SubSeq(t.pay, t.at + 1, t.at + Chunk(t)) ELSE bounce

\* Stage the chunk, set the engine up, select the drive and look at its status.
DmaSetup(p) ==
    /\ Goes /\ task[p].pc = "dma"
    /\ LET t == task[p]
       IN /\ bounce' = Staged(t)
          /\ IF t.drv = "ata" /\ chan.err["ata"]
             THEN dma_note_failure(p, t)
             ELSE /\ chan' = [chan EXCEPT !.drv = t.drv]
                  /\ task' = [task EXCEPT ![p].pc = "dmacmd"]
                  /\ UNCHANGED dma
    /\ UNCHANGED <<view, plat, busy, made, turn, faults, flaws>>

\* Issue the command: the drive is busy with it until DmaRun.
DmaCommand(p) ==
    /\ Goes /\ task[p].pc = "dmacmd"
    /\ chan' = Command(task[p].drv, task[p].lba + task[p].at, Chunk(task[p]))
    /\ task' = [task EXCEPT ![p].pc = "dmarun"]
    /\ UNCHANGED <<view, plat, bounce, busy, dma, made, turn, faults, flaws>>

\* bm_run_and_wait and, after a read, the copy out of the bounce buffer.  A
\* transfer that fails or times out may have moved any part of the chunk.
DmaRun(p) ==
    /\ Goes /\ task[p].pc = "dmarun"
    /\ LET t == task[p]
           n == Chunk(t)
           t1 == [t EXCEPT !.at = @ + n]
       IN \E f \in BOOLEAN, moved \in 0 .. n :
             /\ Fails(f) /\ (~f => moved = n)
             /\ bounce' = IF t.op = "read" THEN Stored(view, chan.drv, chan.lba, moved) ELSE bounce
             /\ view' = IF t.op = "write" THEN Written(view, chan.drv, chan.lba, bounce, moved)
                        ELSE view
             /\ IF f THEN dma_note_failure(p, [t EXCEPT !.met = TRUE])
                ELSE /\ chan' = [chan EXCEPT !.left = 0]
                     /\ dma' = IF Left(t1) = 0 THEN [dma EXCEPT !.fails = 0] ELSE dma
                     /\ task' = [task EXCEPT ![p] =
                           [t1 EXCEPT !.buf = IF t.op = "write" THEN @
                                              ELSE [i \in 1 .. t.n |->
                                                      IF i > t.at /\ i <= t.at + n
                                                      THEN bounce'[i - t.at] ELSE @[i]],
                                      !.pc = IF Left(t1) > 0 THEN "dma" ELSE "flush"]]
    /\ UNCHANGED <<plat, busy, made, turn, flaws>>

(***************************************************************************)
(* Port I/O: ide_access and atapi_read_one.                                *)
(***************************************************************************)
\* A disk's status is looked at before the command, a CD's is not.
PioCommand(p) ==
    /\ Goes /\ task[p].pc = "pio"
    /\ LET t == task[p]
       IN IF t.drv = "ata" /\ chan.err["ata"]
          THEN /\ Return(p, t, "error")
               /\ Flaw(~t.met, "an old error failed a new request")
               /\ UNCHANGED chan
          ELSE /\ chan' = Command(t.drv, t.lba + t.at, IF t.drv = "ata" THEN Left(t) ELSE 1)
               /\ task' = [task EXCEPT ![p].pc = "sector"]
               /\ UNCHANGED <<busy, flaws>>
    /\ UNCHANGED <<view, plat, bounce, dma, made, turn, faults>>

\* Wait for the drive and move one sector.
PioSector(p) ==
    /\ Goes /\ task[p].pc = "sector"
    /\ LET t == task[p]
           t1 == [t EXCEPT !.at = @ + 1]
       IN \E f \in BOOLEAN :
             /\ Fails(f)
             /\ IF f
                THEN /\ chan' = [chan EXCEPT !.left = 0, !.err[chan.drv] = TRUE]
                     /\ Return(p, [t EXCEPT !.met = TRUE], "error")
                     /\ UNCHANGED view
                ELSE /\ view' = IF t.op = "write"
                                THEN Written(view, chan.drv, chan.lba, <<t.pay[t.at + 1]>>, 1) ELSE view
                     /\ chan' = [chan EXCEPT !.lba = @ + 1, !.left = @ - 1]
                     /\ task' = [task EXCEPT ![p] =
                           [t1 EXCEPT !.buf[t.at + 1] = IF t.op = "read" THEN view[chan.drv][chan.lba]
                                                        ELSE @,
                                      !.pc = IF Left(t1) = 0 THEN "flush"
                                             ELSE IF t.drv = "ata" THEN "sector" ELSE "pio"]]
                     /\ UNCHANGED busy
    /\ UNCHANGED <<plat, bounce, dma, made, turn, flaws>>


\* After a write the drive's cache is flushed, and what that says is ignored.
Finish(p) ==
    /\ Goes /\ task[p].pc = "flush"
    /\ IF task[p].op = "read" THEN UNCHANGED <<plat, faults, flaws, chan>>
       ELSE \E f \in BOOLEAN :
               /\ Fails(f)
               /\ plat' = IF f THEN plat ELSE view
               /\ chan' = [chan EXCEPT !.err["ata"] = f]
               /\ Flaw(f, "a flush that failed was not reported")
    /\ Return(p, task[p], "ok")
    /\ UNCHANGED <<view, bounce, dma, made, turn>>

(***************************************************************************)
(* ide_atapi_capacity and ide_eject_atapi: a packet command without the    *)
(* lock.                                                                   *)
(***************************************************************************)
Packet(p) ==
    /\ Goes /\ task[p].pc = "packet"
    /\ chan' = Command("atapi", 0, 1)
    /\ task' = [task EXCEPT ![p].pc = "answer"]
    /\ Flaw(busy # Nobody \/ \E q \in Tasks : task[q].pc = "answer", "a command went over another's")
    /\ UNCHANGED <<view, plat, bounce, busy, dma, made, turn, faults>>

Answer(p) ==
    /\ Goes /\ task[p].pc = "answer"
    /\ \E f \in BOOLEAN :
          /\ Fails(f)
          /\ chan' = [chan EXCEPT !.left = 0, !.err["atapi"] = f]
          /\ task' = [task EXCEPT ![p].pc = "idle", ![p].r = IF f THEN "error" ELSE "ok",
                                  ![p].met = f]
    /\ Flaw(busy # Nobody, "a command went over another's")
    /\ UNCHANGED <<view, plat, bounce, busy, dma, made, turn>>

\* A signal ends a task that has the lock; nobody gives it back.
Kill(p) ==
    /\ Goes /\ Inside(p)
    /\ task' = [task EXCEPT ![p] = Done]
    /\ flaws' = flaws \cup {"the lock's holder was killed"}
    /\ UNCHANGED <<view, plat, chan, bounce, busy, dma, made, turn, faults>>

Init ==
    /\ view = [d \in Drives |-> [a \in Lbas |-> Blank]] /\ plat = view
    /\ chan = [drv |-> "ata", lba |-> 0, left |-> 0, err |-> [d \in Drives |-> FALSE]]
    /\ bounce = <<>> /\ busy = Nobody
    /\ dma \in [on : BOOLEAN, fails : {0}]
    /\ task = [p \in Tasks |-> Done]
    /\ made = 0 /\ turn = 0 /\ faults = 0 /\ flaws = {}

Next ==
    \E p \in Tasks :
        \/ \E op \in {"read", "write", "probe"}, d \in Drives, lba \in Lbas, n \in Counts :
              Request(p, op, d, lba, n)
        \/ ide_lock(p) \/ DmaSetup(p) \/ DmaCommand(p) \/ DmaRun(p)
        \/ PioCommand(p) \/ PioSector(p) \/ Finish(p)
        \/ Packet(p) \/ Answer(p) \/ Kill(p)

Spec == Init /\ [][Next]_vars

(***************************************************************************)
(* Properties.                                                             *)
(***************************************************************************)
\* The driver's state keeps its shape, and DMA is not tried again after
\* DMA_MAX_FAILS failures in a row.
TypeOK ==
    /\ busy \in Tasks \cup {Nobody} /\ (dma.on => dma.fails < DMA_MAX_FAILS)
    /\ chan.drv \in Drives /\ chan.left \in 0 .. Sectors
    /\ \A p \in Tasks : task[p].at <= task[p].n /\ Len(task[p].buf) = task[p].n

\* The lock is held exactly while a task is in the driver, one at a time, on
\* every path out of it (ide_lock, ide_unlock).
LockHeld ==
    Goes => \A p \in Tasks : Inside(p) <=> busy = p

Range(t) == t.lba .. t.lba + t.n - 1

\* A read that says it succeeded has put into its buffer what the drive holds:
\* DMA that broke off half-way, the retry by port I/O and the other tasks' use
\* of the bounce buffer do not show (ide_read_sectors, ide_read_atapi_sectors).
ReadsTrue ==
    Goes => \A p \in Tasks :
        (task[p].pc = "flush" /\ task[p].op = "read") =>
            task[p].buf = Stored(view, task[p].drv, task[p].lba, task[p].n)

\* A write that says it succeeded survives a power cut, until it is written
\* over (ide_write_sectors, "Commit the drive's write cache").
WritesLast ==
    Goes => \A p \in Tasks :
        (task[p].pc = "idle" /\ task[p].op = "write" /\ task[p].r = "ok") =>
            \A a \in Range(task[p]) : plat["ata"][a][1] >= task[p].pay[1][1]

\* A sector changes only while a write of it is under way, and to that value.
SectorsStay ==
    \A d \in Drives, a \in Lbas : view'[d][a] # view[d][a] =>
        \E p \in Tasks : /\ task[p].op = "write" /\ task[p].drv = d /\ a \in Range(task[p])
                         /\ Inside(p) /\ view'[d][a] = task[p].pay[a - task[p].lba + 1]
WritesStay == [][SectorsStay]_vars
=============================================================================
