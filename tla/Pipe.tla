-------------------------------- MODULE Pipe --------------------------------
(***************************************************************************)
(* The ring of a pipe (syscall.c): a write copies a chunk behind head and  *)
(* then moves head, a read copies from tail and then moves tail.  Nothing  *)
(* locks the ring, and the timer can come between any two of these steps;  *)
(* so one task at each end is promised a byte stream (ByteStream), and two *)
(* at one end only as long as they do not overlap.                         *)
(***************************************************************************)
EXTENDS Integers, Sequences, FiniteSets

CONSTANTS
    Writer, Reader,     \* tasks
    PIPE_RING_CAP,
    CursorMod,          \* a cursor is a uint32_t: a multiple of PIPE_RING_CAP
    MaxLen,             \* bound: bytes per call
    Distinct            \* bound: bytes are told apart by their number modulo this

\* The cursors run over several rounds of the ring, so a full one is not an empty one.
ASSUME PipeAssumption ==
    /\ Writer \cap Reader = {} /\ PIPE_RING_CAP \in Nat \ {0}
    /\ CursorMod \in Nat /\ \E k \in 2..CursorMod : CursorMod = k * PIPE_RING_CAP
    /\ MaxLen \in Nat /\ Distinct \in Nat \ {0}

VARIABLES
    open,               \* the tasks whose descriptor is still counted
    head, tail, buf,
    call,               \* per task: the call it is in
    sent,               \* history: the number of the next byte
    out,                \* history: the bytes of the last read
    eof,                \* history: readers that were told the end
    crossed             \* history: two tasks were at one end at once

vars == <<open, head, tail, buf, call, sent, out, eof, crossed>>

Task == Writer \cup Reader
Byte == 0..Distinct - 1
In(at, len, done, chunk) ==
    [at |-> at, len |-> len, done |-> done, chunk |-> chunk, i |-> 0, bytes |-> <<>>]
Out == In("user", 0, 0, 0)

Init ==
    /\ open = Task
    /\ head = 0 /\ tail = 0
    /\ buf = [k \in 0..PIPE_RING_CAP - 1 |-> 0]
    /\ call = [t \in Task |-> Out]
    /\ sent = 0 /\ out = <<>> /\ eof = {} /\ crossed = FALSE

refcount_r == Cardinality(open \cap Reader)
refcount_w == Cardinality(open \cap Writer)
\* Faulty variant: cursors that have wrapped are not told from an empty ring.
InflightPlain == IF head >= tail THEN head - tail ELSE 0
Inflight == (head + CursorMod - tail) % CursorMod
Least(m, n) == IF m < n THEN m ELSE n
Place(cursor) == cursor % PIPE_RING_CAP

Copying(S) == {t \in S : call[t].at = "copy"}
Enter(t, S, n) ==
    /\ call' = [call EXCEPT ![t] = In("copy", @.len, @.done, n)]
    /\ crossed' = (crossed \/ Copying(S) # {})
Return(t) == call' = [call EXCEPT ![t] = Out]

-----------------------------------------------------------------------------
(* The write end: syscall_fd_write, ansi_pipe_write *)

Begin(w, len) ==
    /\ w \in open /\ call[w].at = "user"
    /\ call' = [call EXCEPT ![w] = In("test", len, 0, 0)]
    /\ UNCHANGED <<open, head, tail, buf, sent, out, eof, crossed>>

\* Is a reader left, is there room, how much of the rest fits.
Room == PIPE_RING_CAP - Inflight
TestRoom(w) ==
    /\ call[w].at = "test"
    /\ \/ refcount_r = 0 /\ Return(w) /\ UNCHANGED crossed
       \/ /\ refcount_r # 0 /\ Room > 0
          /\ Enter(w, Writer, Least(call[w].len - call[w].done, Room))
    /\ UNCHANGED <<open, head, tail, buf, sent, out, eof>>

\* A full ring: a non-blocking descriptor returns, ansi_pipe_write gives up in the end.
GiveUp(w) ==
    /\ call[w].at = "test" /\ refcount_r # 0 /\ Room = 0
    /\ Return(w)
    /\ UNCHANGED <<open, head, tail, buf, sent, out, eof, crossed>>

PutByte(w) ==
    /\ call[w].at = "copy" /\ call[w].i < call[w].chunk
    /\ buf' = [buf EXCEPT ![Place(head + call[w].i)] = (sent + call[w].i) % Distinct]
    /\ call' = [call EXCEPT ![w].i = @ + 1]
    /\ UNCHANGED <<open, head, tail, sent, out, eof, crossed>>

Publish(w) ==
    /\ call[w].at = "copy" /\ call[w].i = call[w].chunk
    /\ head' = (head + call[w].chunk) % CursorMod
    /\ sent' = (sent + call[w].chunk) % Distinct
    /\ LET done == call[w].done + call[w].chunk
       IN call' = [call EXCEPT ![w] =
              IF done = call[w].len THEN Out
              ELSE In("test", call[w].len, done, 0)]
    /\ UNCHANGED <<open, tail, buf, out, eof, crossed>>

-----------------------------------------------------------------------------
(* The read end: SYS_READ, and stdin_pipe_getchar and kfd_stdin_getbyte with len 1 *)

BeginRead(r, len) ==
    /\ r \in open /\ call[r].at = "user" /\ r \notin eof
    /\ call' = [call EXCEPT ![r] = In("test", len, 0, 0)]
    /\ UNCHANGED <<open, head, tail, buf, sent, out, eof, crossed>>

TestBytes(r) ==
    /\ call[r].at = "test"
    /\ IF Inflight > 0
       THEN Enter(r, Reader, Least(Inflight, call[r].len))
       ELSE call' = [call EXCEPT ![r] = In("empty", @.len, 0, 0)] /\ UNCHANGED crossed
    /\ UNCHANGED <<open, head, tail, buf, sent, out, eof>>

\* The ring was empty: the end if no writer is left, else -EAGAIN or a yield.
TestWriters(r) ==
    /\ call[r].at = "empty"
    /\ \/ refcount_w = 0 /\ eof' = eof \cup {r} /\ Return(r)
       \/ /\ refcount_w # 0 /\ UNCHANGED eof
          /\ Return(r) \/ call' = [call EXCEPT ![r] = In("test", @.len, 0, 0)]
    /\ UNCHANGED <<open, head, tail, buf, sent, out, crossed>>

GetByte(r) ==
    /\ call[r].at = "copy" /\ call[r].i < call[r].chunk
    /\ call' = [call EXCEPT ![r].i = @ + 1, ![r].bytes = Append(@, buf[Place(tail + call[r].i)])]
    /\ UNCHANGED <<open, head, tail, buf, sent, out, eof, crossed>>

Consume(r) ==
    /\ call[r].at = "copy" /\ call[r].i = call[r].chunk
    /\ tail' = (tail + call[r].chunk) % CursorMod
    /\ out' = call[r].bytes
    /\ Return(r)
    /\ UNCHANGED <<open, head, buf, sent, eof, crossed>>

-----------------------------------------------------------------------------

\* close, or the reuse of the slot of a task that was ended in its call.
Close(t) ==
    /\ t \in open
    /\ open' = open \ {t}
    /\ Return(t)
    /\ UNCHANGED <<head, tail, buf, sent, out, eof, crossed>>

WriterStep(w) == TestRoom(w) \/ PutByte(w) \/ Publish(w)
ReaderStep(r) == TestBytes(r) \/ TestWriters(r) \/ GetByte(r) \/ Consume(r)

\* Bound: nothing is explored once two tasks have crossed.
Next ==
    /\ ~crossed
    /\ \/ \E w \in Writer : WriterStep(w) \/ GiveUp(w) \/ \E n \in 1..MaxLen : Begin(w, n)
       \/ \E r \in Reader : ReaderStep(r) \/ \E n \in 1..MaxLen : BeginRead(r, n)
       \/ \E t \in Task : Close(t)

Spec == Init /\ [][Next]_vars

-----------------------------------------------------------------------------
(* Properties *)

Call == [at : {"user", "test", "copy", "empty"}, len : 0..MaxLen, done : 0..MaxLen,
         chunk : 0..MaxLen, i : 0..MaxLen, bytes : Seq(Byte)]

\* Everything has its type, and the cursors are never further apart than the ring is long.
TypeOK ==
    /\ open \subseteq Task /\ {head, tail} \subseteq 0..CursorMod - 1
    /\ buf \in [0..PIPE_RING_CAP - 1 -> Byte]
    /\ call \in [Task -> Call]
    /\ sent \in Byte /\ eof \subseteq Reader /\ crossed \in BOOLEAN
    /\ ~crossed => Inflight <= PIPE_RING_CAP

Queued == [k \in 1..Inflight |-> buf[Place(tail + k - 1)]]
Stream == INSTANCE ByteStream WITH Cap <- PIPE_RING_CAP, queued <- Queued

\* Through partial writes, cursors that wrap, and tasks that are preempted between
\* copying and moving a cursor, or ended there, the ring is a byte stream, as long as
\* no two tasks are at one end at once (syscall_fd_write, SYS_READ and the others).
IsByteStream == Stream!Init /\ [][crossed' \/ Stream!Put \/ Stream!Take]_<<Queued, sent, out>>

-----------------------------------------------------------------------------
(* The inductive invariant behind the proof *)

\* One task at an end is copying.
Alone(S) == \A t, u \in Copying(S) : t = u

\* What has been written lies behind head and is not counted yet; there is room for
\* the rest.
WriterOK(w) ==
    /\ call[w].at # "user" => call[w].done < call[w].len
    /\ call[w].at = "copy" =>
          /\ call[w].chunk \in 1..call[w].len - call[w].done
          /\ call[w].chunk <= PIPE_RING_CAP - Inflight /\ call[w].i <= call[w].chunk
          /\ \A k \in 0..call[w].i - 1 : buf[Place(head + k)] = (sent + k) % Distinct

\* What has been read is still in the ring and still the same.
ReaderOK(r) ==
    /\ call[r].at # "user" => call[r].len > 0
    /\ call[r].at = "copy" =>
          /\ call[r].chunk \in 1..call[r].len /\ call[r].chunk <= Inflight
          /\ call[r].i <= call[r].chunk /\ Len(call[r].bytes) = call[r].i
          /\ \A k \in 1..call[r].i : call[r].bytes[k] = buf[Place(tail + k - 1)]

PipeInv ==
    /\ TypeOK
    /\ ~crossed => /\ Alone(Writer) /\ Alone(Reader)
                   /\ \A w \in Writer : WriterOK(w)
                   /\ \A r \in Reader : ReaderOK(r)

=============================================================================
