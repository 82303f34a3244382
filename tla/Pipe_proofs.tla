---------------------------- MODULE Pipe_proofs ----------------------------
(***************************************************************************)
(* The ring of a pipe is a byte stream, for every capacity and every width *)
(* of the cursors.  The cells are counted from tail: the bytes under way   *)
(* are in the first Inflight of them, what a writer has copied follows,    *)
(* and two of the first PIPE_RING_CAP are never the same.                  *)
(***************************************************************************)
EXTENDS Pipe, SequenceTheorems, TLAPS

\* A leaf is given up after this many seconds.
USE ZenonT(60)

-----------------------------------------------------------------------------
(* Remainders *)

\* A factor that moves a product by less than its other factor moves it not at all.
LEMMA SmallMultiple ==
    ASSUME NEW c \in Nat \ {0}, NEW m \in Int, c * m < c, -c < c * m
    PROVE  m = 0
<1>1. m >= 1 => c * m >= c
  BY SMTT(60)
<1>2. m <= -1 => c * m <= -c
  BY SMTT(60)
<1> QED
  BY <1>1, <1>2, SMTT(60)

LEMMA NearMultiple ==
    ASSUME NEW c \in Nat \ {0}, NEW m \in Int, NEW x \in 0..c - 1, NEW y \in 0..c - 1,
           y - x = c * m
    PROVE  m = 0 /\ x = y
<1>1. c * m < c /\ -c < c * m
  BY SMTT(60)
<1>2. m = 0
  BY <1>1, SmallMultiple
<1> QED
  BY <1>2, SMTT(60)

LEMMA Remainder ==
    ASSUME NEW c \in Nat \ {0}, NEW a \in Nat
    PROVE  /\ a % c \in 0..c - 1
           /\ \E q \in Nat : a = c * q + (a % c)
<1>1. a % c \in 0..c - 1
  BY SMTT(60)
<1>2. a \div c \in Nat /\ a = c * (a \div c) + (a % c)
  BY SMTT(60)
<1> QED
  BY <1>1, <1>2

\* Two numbers with one remainder are equal or at least c apart.
LEMMA SameRemainder ==
    ASSUME NEW c \in Nat \ {0}, NEW a \in Nat, NEW b \in Nat,
           a % c = b % c, a - b < c, b - a < c
    PROVE  a = b
<1>1. PICK q \in Nat : a = c * q + (a % c)
  BY Remainder
<1>2. PICK r \in Nat : b = c * r + (b % c)
  BY Remainder
<1>3. a % c \in Nat /\ b % c \in Nat
  BY Remainder, SMTT(60)
<1>4. a - b = c * q - c * r
  BY <1>1, <1>2, <1>3, SMTT(60)
<1>5. c * q - c * r = c * (q - r)
  BY SMTT(60)
<1>6. q - r = 0
  BY <1>4, <1>5, SmallMultiple, SMTT(60)
<1> QED
  BY <1>4, <1>5, <1>6, SMTT(60)

\* Adding a multiple of c leaves the remainder.
LEMMA AddMultiple ==
    ASSUME NEW c \in Nat \ {0}, NEW a \in Nat, NEW b \in Nat, NEW k \in Nat, b = a + k * c
    PROVE  b % c = a % c
<1>1. PICK q \in Nat : a = c * q + (a % c)
  BY Remainder
<1>2. PICK r \in Nat : b = c * r + (b % c)
  BY Remainder
<1>3. a % c \in 0..c - 1 /\ b % c \in 0..c - 1
  BY Remainder
<1>4. ASSUME NEW x \in 0..c - 1, NEW y \in 0..c - 1, a = c * q + x, b = c * r + y
      PROVE  x = y
  <2>1. c * (q + k - r) = c * q + k * c - c * r
    BY SMTT(60)
  <2>2. y - x = c * (q + k - r) /\ q + k - r \in Int
    BY <1>4, <2>1, SMTT(60)
  <2> QED
    BY <2>2, NearMultiple, SMTT(60)
<1> QED
  BY <1>1, <1>2, <1>3, <1>4

LEMMA ModBelow ==
    ASSUME NEW c \in Nat \ {0}, NEW a \in Nat, a < c
    PROVE  a % c = a
<1>1. PICK q \in Nat : a = c * q + (a % c)
  BY Remainder
<1>2. a % c \in 0..c - 1
  BY Remainder
<1>3. ASSUME NEW x \in 0..c - 1, a = c * q + x
      PROVE  x = a
  <2>1. a - x = c * q /\ q \in Int /\ a \in 0..c - 1
    BY <1>3, SMTT(60)
  <2> QED
    BY <2>1, NearMultiple
<1> QED
  BY <1>1, <1>2, <1>3

LEMMA ModOnce ==
    ASSUME NEW c \in Nat \ {0}, NEW a \in Nat, NEW b \in Nat, b < c, a = b + c
    PROVE  a % c = b
<1>1. a = b + 1 * c
  BY SMTT(60)
<1>2. a % c = b % c
  BY <1>1, AddMultiple
<1> QED
  BY <1>2, ModBelow

-----------------------------------------------------------------------------
(* Cursors and cells *)

\* The capacity, the modulus, and how they go together.
LEMMA Capacity ==
    /\ PIPE_RING_CAP \in Nat \ {0} /\ CursorMod \in Nat \ {0} /\ PIPE_RING_CAP < CursorMod
    /\ \E k \in Nat : CursorMod = k * PIPE_RING_CAP
<1>1. PICK k \in 2..CursorMod : CursorMod = k * PIPE_RING_CAP
  BY PipeAssumption
<1>2. PIPE_RING_CAP \in Nat \ {0} /\ CursorMod \in Nat
  BY PipeAssumption
<1>3. k >= 2 /\ k \in Nat
  BY <1>2, SMTT(60)
<1>4. k * PIPE_RING_CAP \in Nat /\ k * PIPE_RING_CAP >= 2 * PIPE_RING_CAP
  BY <1>2, <1>3, SMTT(60)
<1> QED
  BY <1>1, <1>2, <1>3, <1>4, SMTT(60)

\* How far apart two cursors are, whichever of them has wrapped.
LEMMA Gap ==
    ASSUME NEW h \in 0..CursorMod - 1, NEW t \in 0..CursorMod - 1, NEW g \in 0..CursorMod - 1
    PROVE  (h + CursorMod - t) % CursorMod = g <=> (h = t + g \/ h + CursorMod = t + g)
<1>1. CursorMod \in Nat \ {0}
  BY Capacity
<1>2. h + CursorMod - t \in Nat
  BY <1>1, SMTT(60)
<1>3. CASE h < t
  <2>1. h + CursorMod - t < CursorMod
    BY <1>1, <1>3, SMTT(60)
  <2>2. (h + CursorMod - t) % CursorMod = h + CursorMod - t
    BY <1>1, <1>2, <2>1, ModBelow
  <2> QED
    BY <1>1, <1>3, <2>2, SMTT(60)
<1>4. CASE t <= h
  <2>1. h - t \in Nat /\ h - t < CursorMod /\ h + CursorMod - t = (h - t) + CursorMod
    BY <1>1, <1>4, SMTT(60)
  <2>2. (h + CursorMod - t) % CursorMod = h - t
    BY <1>1, <1>2, <2>1, ModOnce
  <2> QED
    BY <1>1, <1>4, <2>2, SMTT(60)
<1> QED
  BY <1>1, <1>3, <1>4, SMTT(60)

\* A cursor that moves by at most the capacity wraps once at most.
LEMMA Moved ==
    ASSUME NEW a \in 0..CursorMod - 1, NEW n \in 0..PIPE_RING_CAP
    PROVE  /\ (a + n) % CursorMod \in 0..CursorMod - 1
           /\ (a + n) % CursorMod = a + n \/ ((a + n) % CursorMod) + CursorMod = a + n
<1>1. CursorMod \in Nat \ {0} /\ PIPE_RING_CAP \in Nat /\ PIPE_RING_CAP < CursorMod
  BY Capacity
<1>2. a + n \in Nat /\ a + n < 2 * CursorMod
  BY <1>1, SMTT(60)
<1>3. CASE a + n < CursorMod
  BY <1>1, <1>2, <1>3, ModBelow, SMTT(60)
<1>4. CASE CursorMod <= a + n
  <2>1. /\ a + n - CursorMod \in Nat /\ a + n - CursorMod < CursorMod
        /\ a + n = (a + n - CursorMod) + CursorMod
    BY <1>1, <1>2, <1>4, SMTT(60)
  <2>2. (a + n) % CursorMod = a + n - CursorMod
    BY <1>1, <1>2, <2>1, ModOnce
  <2> QED
    BY <1>1, <1>2, <1>4, <2>2, SMTT(60)
<1> QED
  BY <1>1, <1>2, <1>3, <1>4, SMTT(60)

\* A cell is in the ring; a cursor that has wrapped names the same cell; the cells of
\* one round are different.
LEMMA Cells ==
    ASSUME NEW a \in Nat, NEW b \in Nat
    PROVE  /\ Place(a) \in 0..PIPE_RING_CAP - 1
           /\ a = b \/ a + CursorMod = b \/ b + CursorMod = a => Place(a) = Place(b)
           /\ a - b < PIPE_RING_CAP /\ b - a < PIPE_RING_CAP /\ Place(a) = Place(b) => a = b
<1>1. PIPE_RING_CAP \in Nat \ {0} /\ CursorMod \in Nat
  BY Capacity
<1>2. PICK k \in Nat : CursorMod = k * PIPE_RING_CAP
  BY Capacity
<1>3. Place(a) \in 0..PIPE_RING_CAP - 1
  BY <1>1, Remainder DEF Place
<1>4. a + CursorMod = b => Place(a) = Place(b)
  BY <1>1, <1>2, AddMultiple DEF Place
<1>5. b + CursorMod = a => Place(a) = Place(b)
  BY <1>1, <1>2, AddMultiple DEF Place
<1>6. a - b < PIPE_RING_CAP /\ b - a < PIPE_RING_CAP /\ Place(a) = Place(b) => a = b
  BY <1>1, SameRemainder DEF Place
<1> QED
  BY <1>3, <1>4, <1>5, <1>6

\* Seen from tail, head is Inflight cells on.
LEMMA Ring ==
    ASSUME TypeOK
    PROVE  /\ head \in 0..CursorMod - 1 /\ tail \in 0..CursorMod - 1 /\ Inflight \in 0..CursorMod - 1
           /\ head = tail + Inflight \/ head + CursorMod = tail + Inflight
           /\ \A k \in Nat : Place(head + k) = Place(tail + Inflight + k)
<1>1. CursorMod \in Nat \ {0} /\ head \in 0..CursorMod - 1 /\ tail \in 0..CursorMod - 1
  BY Capacity DEF TypeOK
<1>2. head + CursorMod - tail \in Nat
  BY <1>1, SMTT(60)
<1>3. Inflight \in 0..CursorMod - 1
  BY <1>1, <1>2, Remainder DEF Inflight
<1>4. head = tail + Inflight \/ head + CursorMod = tail + Inflight
  BY <1>1, <1>3, Gap, SMTT(60) DEF Inflight
<1>5. ASSUME NEW k \in Nat
      PROVE  Place(head + k) = Place(tail + Inflight + k)
  <2>1. head + k \in Nat /\ tail + Inflight + k \in Nat
    BY <1>1, <1>3, SMTT(60)
  <2>2. head + k = tail + Inflight + k \/ (head + k) + CursorMod = tail + Inflight + k
    BY <1>1, <1>3, <1>4, SMTT(60)
  <2> QED
    BY <2>1, <2>2, Cells
<1> QED
  BY <1>1, <1>3, <1>4, <1>5

\* Moving head over n free cells.
LEMMA HeadMoves ==
    ASSUME TypeOK, NEW n \in Nat, Inflight + n <= PIPE_RING_CAP,
           head' = (head + n) % CursorMod, tail' = tail
    PROVE  head' \in 0..CursorMod - 1 /\ Inflight' = Inflight + n
<1>1. PIPE_RING_CAP \in Nat /\ CursorMod \in Nat \ {0} /\ PIPE_RING_CAP < CursorMod
  BY Capacity
<1>2. /\ head \in 0..CursorMod - 1 /\ tail \in 0..CursorMod - 1 /\ Inflight \in 0..CursorMod - 1
      /\ head = tail + Inflight \/ head + CursorMod = tail + Inflight
  BY Ring
<1>3. n \in 0..PIPE_RING_CAP
  BY <1>1, <1>2, SMTT(60)
<1>4. head' \in 0..CursorMod - 1 /\ (head' = head + n \/ head' + CursorMod = head + n)
  BY <1>2, <1>3, Moved
<1>5. Inflight + n \in 0..CursorMod - 1
  BY <1>1, <1>2, SMTT(60)
<1>6. head' = tail + (Inflight + n) \/ head' + CursorMod = tail + (Inflight + n)
  BY <1>1, <1>2, <1>3, <1>4, <1>5, SMTT(60)
<1>7. (head' + CursorMod - tail) % CursorMod = Inflight + n
  BY <1>2, <1>4, <1>5, <1>6, Gap, SMTT(60)
<1> QED
  BY <1>4, <1>7 DEF Inflight

\* Moving tail over n bytes.
LEMMA TailMoves ==
    ASSUME TypeOK, NEW n \in 0..Inflight, Inflight <= PIPE_RING_CAP,
           tail' = (tail + n) % CursorMod, head' = head
    PROVE  /\ tail' \in 0..CursorMod - 1 /\ Inflight' = Inflight - n
           /\ \A k \in Nat : Place(tail' + k) = Place(tail + n + k)
<1>1. PIPE_RING_CAP \in Nat /\ CursorMod \in Nat \ {0} /\ PIPE_RING_CAP < CursorMod
  BY Capacity
<1>2. /\ head \in 0..CursorMod - 1 /\ tail \in 0..CursorMod - 1 /\ Inflight \in 0..CursorMod - 1
      /\ head = tail + Inflight \/ head + CursorMod = tail + Inflight
  BY Ring
<1>3. n \in 0..PIPE_RING_CAP
  BY <1>1, <1>2, SMTT(60)
<1>4. tail' \in 0..CursorMod - 1 /\ (tail' = tail + n \/ tail' + CursorMod = tail + n)
  BY <1>2, <1>3, Moved
<1>5. Inflight - n \in 0..CursorMod - 1
  BY <1>1, <1>2, SMTT(60)
<1>6. head = tail' + (Inflight - n) \/ head + CursorMod = tail' + (Inflight - n)
  BY <1>1, <1>2, <1>3, <1>4, <1>5, SMTT(60)
<1>7. (head + CursorMod - tail') % CursorMod = Inflight - n
  BY <1>2, <1>4, <1>5, <1>6, Gap, SMTT(60)
<1>8. ASSUME NEW k \in Nat
      PROVE  Place(tail' + k) = Place(tail + n + k)
  <2>1. tail' + k \in Nat /\ tail + n + k \in Nat
    BY <1>2, <1>3, <1>4, SMTT(60)
  <2>2. tail' + k = tail + n + k \/ (tail' + k) + CursorMod = tail + n + k
    BY <1>1, <1>2, <1>3, <1>4, SMTT(60)
  <2> QED
    BY <2>1, <2>2, Cells
<1> QED
  BY <1>4, <1>7, <1>8 DEF Inflight

-----------------------------------------------------------------------------
(* The invariant *)

LEMMA InCall ==
    ASSUME NEW at \in {"user", "test", "copy", "empty"}, NEW len \in 0..MaxLen,
           NEW done \in 0..MaxLen, NEW chunk \in 0..MaxLen
    PROVE  In(at, len, done, chunk) \in Call
<1>1. 0 \in 0..MaxLen /\ <<>> \in Seq(Byte)
  BY PipeAssumption, SMTT(60)
<1> QED
  BY <1>1 DEF In, Call

LEMMA Initially == Init => PipeInv
<1> SUFFICES ASSUME Init PROVE PipeInv
  OBVIOUS
<1>1. PIPE_RING_CAP \in Nat \ {0} /\ CursorMod \in Nat \ {0} /\ Distinct \in Nat \ {0} /\ MaxLen \in Nat
  BY Capacity, PipeAssumption
<1>2. 0 \in 0..CursorMod - 1 /\ 0 = 0 + 0
  BY <1>1, SMTT(60)
<1>3. (0 + CursorMod - 0) % CursorMod = 0
  BY <1>2, Gap
<1>4. Inflight = 0 /\ Inflight <= PIPE_RING_CAP
  BY <1>1, <1>3, SMTT(60) DEF Init, Inflight
<1>5. 0 \in Byte /\ Out \in Call
  BY <1>1, InCall, SMTT(60) DEF Byte, Out
<1>6. TypeOK
  BY <1>2, <1>4, <1>5 DEF TypeOK, Init
<1>7. \A t \in Task : call[t].at = "user"
  BY DEF Init, Out, In
<1> QED
  BY <1>6, <1>7 DEF PipeInv, Alone, Copying, WriterOK, ReaderOK, Task

\* A step that moves no byte and takes nobody into the ring.
LEMMA Unmoved ==
    ASSUME PipeInv, ~crossed, NEW t \in Task, NEW c \in Call,
           call' = [call EXCEPT ![t] = c], c.at # "copy",
           c.at # "user" => c.len > 0 /\ (t \in Writer => c.done < c.len),
           open' \subseteq Task, eof' \subseteq Reader, UNCHANGED <<head, tail, buf, sent, crossed>>
    PROVE  PipeInv'
<1>1. TypeOK'
  BY DEF PipeInv, TypeOK, Inflight
<1>2. call \in [Task -> Call]
  BY DEF PipeInv, TypeOK
<1>3. \A u \in Task : call'[u] = IF u = t THEN c ELSE call[u]
  BY <1>2
<1>4. Alone(Writer)' /\ Alone(Reader)'
  BY <1>3 DEF PipeInv, Alone, Copying, Task
<1>5. ASSUME NEW w \in Writer PROVE WriterOK(w)'
  <2>1. CASE w = t
    BY <1>3, <2>1 DEF WriterOK, Task
  <2>2. CASE w # t
    <3>1. call'[w] = call[w] /\ WriterOK(w) /\ Inflight' = Inflight
      BY <1>3, <2>2 DEF PipeInv, Task, Inflight
    <3> QED
      BY <3>1 DEF WriterOK
  <2> QED
    BY <2>1, <2>2
<1>6. ASSUME NEW r \in Reader PROVE ReaderOK(r)'
  <2>1. CASE r = t
    BY <1>3, <2>1 DEF ReaderOK, Task
  <2>2. CASE r # t
    <3>1. call'[r] = call[r] /\ ReaderOK(r) /\ Inflight' = Inflight
      BY <1>3, <2>2 DEF PipeInv, Task, Inflight
    <3> QED
      BY <3>1 DEF ReaderOK
  <2> QED
    BY <2>1, <2>2
<1> QED
  BY <1>1, <1>4, <1>5, <1>6 DEF PipeInv

LEMMA Outside ==
    ASSUME PipeInv, NEW t \in Task, ~crossed, Return(t), open' \subseteq Task, eof' \subseteq Reader,
           UNCHANGED <<head, tail, buf, sent, crossed>>
    PROVE  PipeInv'
<1>1. Out \in Call /\ Out.at = "user"
  BY PipeAssumption, InCall, SMTT(60) DEF Out, In
<1> QED
  BY <1>1, Unmoved DEF Return

LEMMA BeginInv ==
    ASSUME PipeInv, ~crossed, NEW t \in Task, NEW n \in 1..MaxLen,
           Begin(t, n) \/ BeginRead(t, n)
    PROVE  PipeInv'
<1> DEFINE c == In("test", n, 0, 0)
<1>1. c \in Call /\ c.at = "test" /\ c.len > 0 /\ c.done < c.len
  BY PipeAssumption, InCall, SMTT(60) DEF In
<1>2. call' = [call EXCEPT ![t] = c] /\ UNCHANGED <<open, head, tail, buf, sent, eof, crossed>>
  BY DEF Begin, BeginRead
<1>3. open' \subseteq Task /\ eof' \subseteq Reader
  BY <1>2 DEF PipeInv, TypeOK
<1> QED
  BY <1>1, <1>2, <1>3, Unmoved

\* Entering the ring: the task is the only one of its end, or two have crossed.
LEMMA EnterInv ==
    ASSUME PipeInv, ~crossed, NEW t \in Task, NEW S, NEW n \in 1..MaxLen, Enter(t, S, n),
           call[t].at # "user",
           \/ S = Writer /\ t \in Writer /\ n <= call[t].len - call[t].done /\ n <= PIPE_RING_CAP - Inflight
           \/ S = Reader /\ t \in Reader /\ n <= call[t].len /\ n <= Inflight,
           UNCHANGED <<open, head, tail, buf, sent, eof>>
    PROVE  PipeInv'
<1>1. call \in [Task -> Call] /\ call[t] \in Call /\ MaxLen \in Nat
  BY PipeAssumption DEF PipeInv, TypeOK
<1> DEFINE c == In("copy", call[t].len, call[t].done, n)
<1>2. call' = [call EXCEPT ![t] = c]
  BY <1>1 DEF Enter
<1>3. c \in Call /\ c.at = "copy" /\ c.len = call[t].len /\ c.done = call[t].done
      /\ c.chunk = n /\ c.i = 0 /\ c.bytes = <<>>
  <2>1. n \in 0..MaxLen /\ call[t].len \in 0..MaxLen /\ call[t].done \in 0..MaxLen
    BY <1>1, SMTT(60) DEF Call
  <2> QED
    BY <2>1, InCall DEF In
<1> HIDE DEF c
<1>4. \A u \in Task : call'[u] = IF u = t THEN c ELSE call[u]
  BY <1>1, <1>2
<1>5. Inflight' = Inflight /\ crossed' \in BOOLEAN
  BY DEF Inflight, Enter, PipeInv, TypeOK
<1>6. TypeOK'
  BY <1>1, <1>2, <1>3, <1>5 DEF PipeInv, TypeOK
<1>7. ASSUME ~crossed'
      PROVE  Alone(Writer)' /\ Alone(Reader)'
  <2>1. Copying(S) = {}
    BY <1>7 DEF Enter
  <2>2. Writer \cap Reader = {}
    BY PipeAssumption
  <2> QED
    BY <1>4, <2>1, <2>2 DEF PipeInv, Alone, Copying, Task
<1>8. ASSUME NEW w \in Writer PROVE WriterOK(w)'
  <2>1. CASE w = t
    <3>1. call'[w] = c /\ call[t].done < call[t].len /\ WriterOK(t) /\ t \in Writer
      BY <1>4, <2>1 DEF PipeInv, WriterOK, Task
    <3>2. n <= call[t].len - call[t].done /\ n <= PIPE_RING_CAP - Inflight
      BY <3>1, PipeAssumption
    <3>3. call[t].len \in Nat /\ call[t].done \in Nat
      BY <1>1, SMTT(60) DEF Call
    <3> QED
      BY <1>3, <1>5, <3>1, <3>2, <3>3, SMTT(60) DEF WriterOK
  <2>2. CASE w # t
    <3>1. call'[w] = call[w] /\ WriterOK(w)
      BY <1>4, <2>2 DEF PipeInv, Task
    <3> QED
      BY <1>5, <3>1 DEF WriterOK
  <2> QED
    BY <2>1, <2>2
<1>9. ASSUME NEW r \in Reader PROVE ReaderOK(r)'
  <2>1. CASE r = t
    <3>1. call'[r] = c /\ call[t].len > 0 /\ t \in Reader
      BY <1>4, <2>1 DEF PipeInv, ReaderOK, Task
    <3>2. n <= call[t].len /\ n <= Inflight
      BY <3>1, PipeAssumption
    <3>3. call[t].len \in Nat /\ Len(<<>>) = 0
      BY <1>1, SMTT(60) DEF Call
    <3> QED
      BY <1>3, <1>5, <3>1, <3>2, <3>3, SMTT(60) DEF ReaderOK
  <2>2. CASE r # t
    <3>1. call'[r] = call[r] /\ ReaderOK(r)
      BY <1>4, <2>2 DEF PipeInv, Task
    <3> QED
      BY <1>5, <3>1 DEF ReaderOK
  <2> QED
    BY <2>1, <2>2
<1> QED
  BY <1>6, <1>7, <1>8, <1>9 DEF PipeInv

LEMMA TestRoomInv ==
    ASSUME PipeInv, ~crossed, NEW w \in Writer, TestRoom(w) \/ GiveUp(w)
    PROVE  PipeInv'
<1>1. w \in Task /\ UNCHANGED <<open, head, tail, buf, sent, eof>> /\ call[w].at = "test"
  BY DEF TestRoom, GiveUp, Task
<1>2. open' \subseteq Task /\ eof' \subseteq Reader
  BY <1>1 DEF PipeInv, TypeOK
<1>3. CASE Return(w) /\ UNCHANGED crossed
  BY <1>1, <1>2, <1>3, Outside
<1>4. CASE Room > 0 /\ Enter(w, Writer, Least(call[w].len - call[w].done, Room))
  <2>1. /\ call[w].len \in 0..MaxLen /\ call[w].done \in 0..MaxLen /\ call[w].done < call[w].len
        /\ MaxLen \in Nat
    BY <1>1, PipeAssumption DEF PipeInv, TypeOK, WriterOK, Call
  <2>2. Room \in Int /\ Room = PIPE_RING_CAP - Inflight
    BY Ring, Capacity, SMTT(60) DEF Room, PipeInv
  <2> DEFINE n == Least(call[w].len - call[w].done, Room)
  <2>3. n \in 1..MaxLen /\ n <= call[w].len - call[w].done /\ n <= PIPE_RING_CAP - Inflight
    BY <1>4, <2>1, <2>2, SMTT(60) DEF Least
  <2> QED
    BY <1>1, <1>4, <2>3, EnterInv
<1> QED
  BY <1>3, <1>4 DEF TestRoom, GiveUp

LEMMA TestBytesInv ==
    ASSUME PipeInv, ~crossed, NEW r \in Reader, TestBytes(r)
    PROVE  PipeInv'
<1>1. r \in Task /\ UNCHANGED <<open, head, tail, buf, sent, eof>> /\ call[r].at = "test"
  BY DEF TestBytes, Task
<1>2. call \in [Task -> Call] /\ open' \subseteq Task /\ eof' \subseteq Reader /\ r \notin Writer
  BY <1>1, PipeAssumption DEF PipeInv, TypeOK
<1>3. call[r].len \in 0..MaxLen /\ call[r].len > 0 /\ MaxLen \in Nat
  BY <1>1, <1>2, PipeAssumption DEF PipeInv, ReaderOK, Call
<1>4. CASE Inflight > 0 /\ Enter(r, Reader, Least(Inflight, call[r].len))
  <2> DEFINE n == Least(Inflight, call[r].len)
  <2>1. Inflight \in Nat
    BY Ring, Capacity, SMTT(60) DEF PipeInv
  <2>2. n \in 1..MaxLen /\ n <= call[r].len /\ n <= Inflight
    BY <1>3, <1>4, <2>1, SMTT(60) DEF Least
  <2> QED
    BY <1>1, <1>4, <2>2, EnterInv
<1>5. CASE call' = [call EXCEPT ![r] = In("empty", call[r].len, 0, 0)] /\ UNCHANGED crossed
  <2> DEFINE c == In("empty", call[r].len, 0, 0)
  <2>1. c \in Call /\ c.at = "empty" /\ c.len > 0
    BY <1>3, InCall, SMTT(60) DEF In
  <2> HIDE DEF c
  <2>2. call' = [call EXCEPT ![r] = c]
    BY <1>5 DEF c
  <2> QED
    BY <1>1, <1>2, <1>5, <2>1, <2>2, Unmoved
<1> QED
  BY <1>1, <1>2, <1>4, <1>5 DEF TestBytes

LEMMA TestWritersInv ==
    ASSUME PipeInv, ~crossed, NEW r \in Reader, TestWriters(r)
    PROVE  PipeInv'
<1>1. r \in Task /\ UNCHANGED <<open, head, tail, buf, sent, crossed>> /\ call[r].at = "empty"
  BY DEF TestWriters, Task
<1>2. call \in [Task -> Call] /\ open' \subseteq Task /\ eof' \subseteq Reader /\ r \notin Writer
  BY <1>1, PipeAssumption DEF PipeInv, TypeOK, TestWriters
<1>3. CASE Return(r)
  BY <1>1, <1>2, <1>3, Outside
<1>4. CASE call' = [call EXCEPT ![r] = In("test", call[r].len, 0, 0)]
  <2> DEFINE c == In("test", call[r].len, 0, 0)
  <2>1. call[r].len \in 0..MaxLen /\ call[r].len > 0 /\ MaxLen \in Nat
    BY <1>1, <1>2, PipeAssumption DEF PipeInv, ReaderOK, Call
  <2>2. c \in Call /\ c.at = "test" /\ c.len > 0
    BY <2>1, InCall, SMTT(60) DEF In
  <2> HIDE DEF c
  <2>3. call' = [call EXCEPT ![r] = c]
    BY <1>4 DEF c
  <2> QED
    BY <1>1, <1>2, <2>2, <2>3, Unmoved
<1> QED
  BY <1>1, <1>2, <1>3, <1>4 DEF TestWriters

LEMMA CloseInv ==
    ASSUME PipeInv, ~crossed, NEW t \in Task, Close(t)
    PROVE  PipeInv'
<1>1. open' \subseteq Task /\ eof' \subseteq Reader
  BY DEF PipeInv, TypeOK, Close
<1> QED
  BY <1>1, Outside DEF Close

\* The cell a writer writes is free, and not one it has written in this round.
LEMMA CellFree ==
    ASSUME PipeInv, ~crossed, NEW w \in Writer, PutByte(w)
    PROVE  /\ call[w].i \in Nat /\ Place(head + call[w].i) \in 0..PIPE_RING_CAP - 1
           /\ \A k \in 1..Inflight : Place(tail + k - 1) # Place(head + call[w].i)
           /\ \A k \in 0..call[w].i - 1 : Place(head + k) # Place(head + call[w].i)
<1> DEFINE i == call[w].i
<1>1. TypeOK /\ WriterOK(w) /\ w \in Task /\ call[w] \in Call
  BY DEF PipeInv, TypeOK, Task
<1>2. i \in Nat /\ call[w].chunk \in Nat /\ i < call[w].chunk /\ call[w].chunk <= PIPE_RING_CAP - Inflight
  BY <1>1, PipeAssumption, SMTT(60) DEF PutByte, WriterOK, Call
<1> HIDE DEF i
<1>3. PIPE_RING_CAP \in Nat /\ head \in Nat /\ tail \in Nat /\ Inflight \in Nat /\ CursorMod \in Nat
  BY <1>1, Ring, Capacity, SMTT(60)
<1>4. Place(head + i) \in 0..PIPE_RING_CAP - 1 /\ Place(head + i) = Place(tail + Inflight + i)
  BY <1>1, <1>2, <1>3, Ring, Cells, SMTT(60)
<1>5. ASSUME NEW k \in 1..Inflight
      PROVE  Place(tail + k - 1) # Place(head + i)
  <2> DEFINE a == tail + k - 1
             b == tail + Inflight + i
  <2>1. a \in Nat /\ b \in Nat /\ a # b /\ a - b < PIPE_RING_CAP /\ b - a < PIPE_RING_CAP
    BY <1>2, <1>3, SMTT(60)
  <2> HIDE DEF a, b
  <2>2. Place(a) # Place(b)
    BY <2>1, Cells
  <2> QED
    BY <1>4, <2>2 DEF a, b
<1>6. ASSUME NEW k \in 0..i - 1
      PROVE  Place(head + k) # Place(head + i)
  <2> DEFINE a == head + k
             b == head + i
  <2>1. a \in Nat /\ b \in Nat /\ a # b /\ a - b < PIPE_RING_CAP /\ b - a < PIPE_RING_CAP
    BY <1>2, <1>3, SMTT(60)
  <2> HIDE DEF a, b
  <2>2. Place(a) # Place(b)
    BY <2>1, Cells
  <2> QED
    BY <2>2 DEF a, b
<1> QED
  BY <1>2, <1>4, <1>5, <1>6 DEF i

LEMMA PutByteInv ==
    ASSUME PipeInv, ~crossed, NEW w \in Writer, PutByte(w)
    PROVE  PipeInv'
<1> DEFINE i == call[w].i
           p == Place(head + i)
           c == [call[w] EXCEPT !.i = i + 1]
<1>1. TypeOK /\ w \in Task /\ call \in [Task -> Call] /\ call[w] \in Call /\ MaxLen \in Nat
      /\ Distinct \in Nat \ {0} /\ sent \in Nat
  BY PipeAssumption, SMTT(60) DEF PipeInv, TypeOK, Task, Byte
<1>2. WriterOK(w) /\ call[w].at = "copy" /\ i < call[w].chunk
  BY DEF PipeInv, PutByte
<1>3. call[w].chunk \in 0..MaxLen /\ i \in Nat
  BY <1>1, SMTT(60) DEF Call
<1>4. c \in Call /\ c.i = i + 1 /\ c.at = "copy" /\ c.len = call[w].len /\ c.done = call[w].done
      /\ c.chunk = call[w].chunk
  <2>1. i + 1 \in 0..MaxLen
    BY <1>1, <1>2, <1>3, SMTT(60)
  <2>2. c \in Call
    BY <1>1, <2>1 DEF Call
  <2>3. c.i = i + 1 /\ c.at = call[w].at /\ c.len = call[w].len /\ c.done = call[w].done
        /\ c.chunk = call[w].chunk
    BY <1>1 DEF Call
  <2> QED
    BY <1>2, <2>2, <2>3
<1>5. call' = [call EXCEPT ![w] = c]
  BY <1>1 DEF PutByte
<1>6. \A u \in Task : call'[u] = IF u = w THEN c ELSE call[u]
  BY <1>1, <1>5
<1>7. (sent + i) % Distinct \in Byte /\ p \in 0..PIPE_RING_CAP - 1
  <2>1. sent + i \in Nat
    BY <1>1, <1>3, SMTT(60)
  <2>2. (sent + i) % Distinct \in 0..Distinct - 1
    BY <1>1, <2>1, Remainder
  <2> QED
    BY <2>2, CellFree DEF Byte
<1>8. /\ \A x \in 0..PIPE_RING_CAP - 1 : buf'[x] = IF x = p THEN (sent + i) % Distinct ELSE buf[x]
      /\ buf' \in [0..PIPE_RING_CAP - 1 -> Byte]
  BY <1>7 DEF PipeInv, TypeOK, PutByte
<1> HIDE DEF c
<1>9. Inflight' = Inflight /\ UNCHANGED <<open, head, tail, sent, eof, crossed>>
  BY DEF Inflight, PutByte
<1>10. TypeOK'
  BY <1>1, <1>4, <1>5, <1>8, <1>9 DEF TypeOK
<1>11. Alone(Writer)' /\ Alone(Reader)'
  <2>1. \A u \in Task : call'[u].at = "copy" <=> call[u].at = "copy"
    BY <1>2, <1>4, <1>6
  <2> QED
    BY <2>1 DEF PipeInv, Alone, Copying, Task
<1>12. head \in Nat /\ tail \in Nat /\ Inflight \in Nat /\ PIPE_RING_CAP \in Nat
  BY <1>1, Ring, Capacity, SMTT(60)
<1>13. ASSUME NEW v \in Writer PROVE WriterOK(v)'
  <2>1. CASE v = w
    <3>1. ASSUME NEW k \in 0..(i + 1) - 1
          PROVE  buf'[Place(head + k)] = (sent + k) % Distinct
      <4>1. k \in Nat /\ Place(head + k) \in 0..PIPE_RING_CAP - 1
        BY <1>3, <1>12, Cells, SMTT(60)
      <4>2. CASE k = i
        BY <1>8, <4>1, <4>2
      <4>3. CASE k # i
        <5>1. k \in 0..i - 1
          BY <1>3, <4>3, SMTT(60)
        <5>2. Place(head + k) # p /\ buf[Place(head + k)] = (sent + k) % Distinct
          BY <1>2, <5>1, CellFree DEF WriterOK
        <5> QED
          BY <1>8, <4>1, <5>2
      <4> QED
        BY <4>2, <4>3
    <3>2. call'[v] = c
      BY <1>1, <1>6, <2>1
    <3> QED
      BY <1>2, <1>3, <1>4, <1>9, <3>1, <3>2, SMTT(60) DEF WriterOK
  <2>2. CASE v # w
    <3>1. call'[v] = call[v] /\ WriterOK(v) /\ call[v].at # "copy"
      BY <1>2, <1>6, <2>2 DEF PipeInv, Task, Alone, Copying
    <3> QED
      BY <1>9, <3>1 DEF WriterOK
  <2> QED
    BY <2>1, <2>2
<1>14. ASSUME NEW r \in Reader PROVE ReaderOK(r)'
  <2>1. call'[r] = call[r] /\ ReaderOK(r) /\ call[r] \in Call
    BY <1>1, <1>6, PipeAssumption DEF PipeInv, Task
  <2>2. ASSUME call[r].at = "copy", NEW k \in 1..call[r].i
        PROVE  buf'[Place(tail + k - 1)] = buf[Place(tail + k - 1)]
    <3>1. k \in 1..Inflight /\ tail + k - 1 \in Nat
      BY <1>12, <2>1, <2>2, SMTT(60) DEF ReaderOK, Call
    <3>2. Place(tail + k - 1) # p /\ Place(tail + k - 1) \in 0..PIPE_RING_CAP - 1
      BY <3>1, CellFree, Cells
    <3> QED
      BY <1>8, <3>2
  <2> QED
    BY <1>9, <2>1, <2>2 DEF ReaderOK
<1> QED
  BY <1>10, <1>11, <1>13, <1>14 DEF PipeInv

LEMMA GetByteInv ==
    ASSUME PipeInv, ~crossed, NEW r \in Reader, GetByte(r)
    PROVE  PipeInv'
<1> DEFINE i == call[r].i
           b == buf[Place(tail + i)]
           c == [call[r] EXCEPT !.i = i + 1, !.bytes = Append(call[r].bytes, b)]
<1>1. TypeOK /\ r \in Task /\ call \in [Task -> Call] /\ call[r] \in Call /\ MaxLen \in Nat
  BY PipeAssumption DEF PipeInv, TypeOK, Task
<1>2. ReaderOK(r) /\ call[r].at = "copy" /\ i < call[r].chunk
  BY DEF PipeInv, GetByte
<1>3. call[r].chunk \in 0..MaxLen /\ i \in Nat /\ call[r].bytes \in Seq(Byte) /\ Len(call[r].bytes) = i
  BY <1>1, <1>2, SMTT(60) DEF Call, ReaderOK
<1>4. tail \in Nat /\ PIPE_RING_CAP \in Nat /\ Inflight \in Nat
  BY <1>1, Ring, Capacity, SMTT(60)
<1>5. b \in Byte
  <2>1. tail + i \in Nat
    BY <1>3, <1>4, SMTT(60)
  <2>2. Place(tail + i) \in 0..PIPE_RING_CAP - 1
    BY <2>1, Cells
  <2> QED
    BY <1>1, <2>2 DEF TypeOK
<1> DEFINE bytes == Append(call[r].bytes, b)
<1>6. /\ bytes \in Seq(Byte) /\ Len(bytes) = i + 1 /\ bytes[i + 1] = b
      /\ \A k \in 1..i : bytes[k] = call[r].bytes[k]
  BY <1>3, <1>5, SMTT(60)
<1> HIDE DEF bytes
<1>7. c \in Call /\ c.i = i + 1 /\ c.at = "copy" /\ c.len = call[r].len
      /\ c.chunk = call[r].chunk /\ c.bytes = bytes
  <2>1. i + 1 \in 0..MaxLen
    BY <1>1, <1>2, <1>3, SMTT(60)
  <2>2. c = [call[r] EXCEPT !.i = i + 1, !.bytes = bytes]
    BY DEF bytes
  <2>3. c \in Call
    BY <1>1, <1>6, <2>1, <2>2 DEF Call
  <2>4. c.i = i + 1 /\ c.at = call[r].at /\ c.len = call[r].len /\ c.chunk = call[r].chunk /\ c.bytes = bytes
    BY <1>1, <2>2 DEF Call
  <2> QED
    BY <1>2, <2>3, <2>4
<1>8. call' = [call EXCEPT ![r] = c]
  BY <1>1 DEF GetByte
<1> HIDE DEF c
<1>9. \A u \in Task : call'[u] = IF u = r THEN c ELSE call[u]
  BY <1>1, <1>8
<1>10. Inflight' = Inflight /\ UNCHANGED <<open, head, tail, buf, sent, eof, crossed>>
  BY DEF Inflight, GetByte
<1>11. TypeOK'
  BY <1>1, <1>7, <1>8, <1>10 DEF TypeOK
<1>12. Alone(Writer)' /\ Alone(Reader)'
  <2>1. \A u \in Task : call'[u].at = "copy" <=> call[u].at = "copy"
    BY <1>2, <1>7, <1>9
  <2> QED
    BY <2>1 DEF PipeInv, Alone, Copying, Task
<1>13. ASSUME NEW w \in Writer PROVE WriterOK(w)'
  <2>1. call'[w] = call[w] /\ WriterOK(w)
    BY <1>1, <1>9, PipeAssumption DEF PipeInv, Task
  <2> QED
    BY <1>10, <2>1 DEF WriterOK
<1>14. ASSUME NEW q \in Reader PROVE ReaderOK(q)'
  <2>1. CASE q = r
    <3>1. call'[q] = c
      BY <1>1, <1>9, <2>1
    <3>2. ASSUME NEW k \in 1..i + 1
          PROVE  bytes[k] = buf[Place(tail + k - 1)]
      <4>1. CASE k = i + 1
        <5>1. tail + k - 1 = tail + i
          BY <1>3, <1>4, <4>1, SMTT(60)
        <5> QED
          BY <1>6, <4>1, <5>1
      <4>2. CASE k # i + 1
        <5>1. k \in 1..i
          BY <1>3, <4>2, SMTT(60)
        <5> QED
          BY <1>2, <1>6, <5>1 DEF ReaderOK
      <4> QED
        BY <4>1, <4>2
    <3> QED
      BY <1>2, <1>3, <1>6, <1>7, <1>10, <3>1, <3>2, SMTT(60) DEF ReaderOK
  <2>2. CASE q # r
    <3>1. call'[q] = call[q] /\ ReaderOK(q)
      BY <1>9, <2>2 DEF PipeInv, Task
    <3> QED
      BY <1>10, <3>1 DEF ReaderOK
  <2> QED
    BY <2>1, <2>2
<1> QED
  BY <1>11, <1>12, <1>13, <1>14 DEF PipeInv

LEMMA PublishInv ==
    ASSUME PipeInv, ~crossed, NEW w \in Writer, Publish(w)
    PROVE  PipeInv' /\ Inflight' = Inflight + call[w].chunk
<1> DEFINE n == call[w].chunk
           done == call[w].done + n
           c == IF done = call[w].len THEN Out ELSE In("test", call[w].len, done, 0)
<1>1. TypeOK /\ w \in Task /\ call \in [Task -> Call] /\ call[w] \in Call /\ MaxLen \in Nat
      /\ Distinct \in Nat \ {0} /\ sent \in Nat
  BY PipeAssumption, SMTT(60) DEF PipeInv, TypeOK, Task, Byte
<1>2. WriterOK(w) /\ call[w].at = "copy"
  BY DEF PipeInv, Publish
<1>3. /\ n \in Nat /\ call[w].len \in 0..MaxLen /\ call[w].done \in Nat /\ 1 <= n
      /\ n <= call[w].len - call[w].done /\ n <= PIPE_RING_CAP - Inflight
  BY <1>1, <1>2, SMTT(60) DEF Call, WriterOK
<1>4. PIPE_RING_CAP \in Nat /\ Inflight \in Nat
  BY <1>1, Ring, Capacity, SMTT(60)
<1>5. head' \in 0..CursorMod - 1 /\ Inflight' = Inflight + n
  BY <1>1, <1>3, <1>4, HeadMoves, SMTT(60) DEF Publish
<1>6. c \in Call /\ c.at # "copy" /\ (c.at # "user" => c.done < c.len)
  <2>1. 0 \in 0..MaxLen /\ done \in 0..MaxLen /\ done <= call[w].len
    BY <1>1, <1>3, SMTT(60)
  <2>2. Out \in Call /\ Out.at = "user"
    BY <2>1, InCall DEF Out, In
  <2>3. ASSUME done # call[w].len
        PROVE  /\ In("test", call[w].len, done, 0) \in Call
               /\ In("test", call[w].len, done, 0).at = "test"
               /\ In("test", call[w].len, done, 0).done < In("test", call[w].len, done, 0).len
    BY <1>1, <1>3, <2>1, <2>3, InCall, SMTT(60) DEF In
  <2> QED
    BY <2>2, <2>3
<1>7. call' = [call EXCEPT ![w] = c]
  BY DEF Publish
<1> HIDE DEF c
<1>8. \A u \in Task : call'[u] = IF u = w THEN c ELSE call[u]
  BY <1>1, <1>7
<1>9. UNCHANGED <<open, tail, buf, eof, crossed>> /\ sent' \in Byte
  <2>1. sent + n \in Nat
    BY <1>1, <1>3, SMTT(60)
  <2>2. (sent + n) % Distinct \in 0..Distinct - 1
    BY <1>1, <2>1, Remainder
  <2> QED
    BY <2>2 DEF Publish, Byte
<1>10. TypeOK'
  <2>1. Inflight' <= PIPE_RING_CAP
    BY <1>3, <1>4, <1>5, SMTT(60)
  <2>2. call' \in [Task -> Call]
    BY <1>1, <1>6, <1>7
  <2> QED
    BY <1>1, <1>5, <1>9, <2>1, <2>2 DEF TypeOK
<1>11. Alone(Writer)' /\ Alone(Reader)'
  BY <1>6, <1>8 DEF PipeInv, Alone, Copying, Task
<1>12. ASSUME NEW v \in Writer PROVE WriterOK(v)'
  <2>1. CASE v = w
    <3>1. call'[v] = c
      BY <1>1, <1>8, <2>1
    <3> QED
      BY <1>6, <3>1 DEF WriterOK
  <2>2. CASE v # w
    <3>1. call'[v] = call[v] /\ WriterOK(v) /\ call[v].at # "copy"
      BY <1>2, <1>8, <2>2 DEF PipeInv, Task, Alone, Copying
    <3> QED
      BY <3>1 DEF WriterOK
  <2> QED
    BY <2>1, <2>2
<1>13. ASSUME NEW r \in Reader PROVE ReaderOK(r)'
  <2>1. call'[r] = call[r] /\ ReaderOK(r) /\ call[r] \in Call
    BY <1>1, <1>8, PipeAssumption DEF PipeInv, Task
  <2>2. call[r].chunk \in Int
    BY <2>1, SMTT(60) DEF Call
  <2>3. call[r].chunk <= Inflight => call[r].chunk <= Inflight'
    BY <1>3, <1>4, <1>5, <2>2, SMTT(60)
  <2> QED
    BY <1>9, <2>1, <2>3 DEF ReaderOK
<1> QED
  BY <1>5, <1>10, <1>11, <1>12, <1>13 DEF PipeInv

LEMMA ConsumeInv ==
    ASSUME PipeInv, ~crossed, NEW r \in Reader, Consume(r)
    PROVE  PipeInv' /\ Inflight' = Inflight - call[r].chunk
<1> DEFINE n == call[r].chunk
<1>1. TypeOK /\ r \in Task /\ call \in [Task -> Call] /\ call[r] \in Call /\ Inflight <= PIPE_RING_CAP
  BY DEF PipeInv, TypeOK, Task
<1>2. ReaderOK(r) /\ call[r].at = "copy"
  BY DEF PipeInv, Consume
<1>3. PIPE_RING_CAP \in Nat /\ Inflight \in Nat /\ CursorMod \in Nat
  BY <1>1, Ring, Capacity, SMTT(60)
<1>4. n \in 0..Inflight /\ n \in Nat
  BY <1>1, <1>2, <1>3, SMTT(60) DEF Call, ReaderOK
<1>5. tail' \in 0..CursorMod - 1 /\ Inflight' = Inflight - n
  BY <1>1, <1>4, TailMoves DEF Consume
<1>6. Out \in Call /\ Out.at = "user"
  BY PipeAssumption, InCall, SMTT(60) DEF Out, In
<1>7. call' = [call EXCEPT ![r] = Out] /\ UNCHANGED <<open, head, buf, sent, eof, crossed>>
  BY DEF Consume, Return
<1>8. \A u \in Task : call'[u] = IF u = r THEN Out ELSE call[u]
  BY <1>1, <1>7
<1>9. TypeOK'
  <2>1. Inflight' <= PIPE_RING_CAP
    BY <1>1, <1>3, <1>4, <1>5, SMTT(60)
  <2>2. call' \in [Task -> Call]
    BY <1>1, <1>6, <1>7
  <2> QED
    BY <1>1, <1>5, <1>7, <2>1, <2>2 DEF TypeOK
<1>10. Alone(Writer)' /\ Alone(Reader)'
  BY <1>6, <1>8 DEF PipeInv, Alone, Copying, Task
<1>11. ASSUME NEW w \in Writer PROVE WriterOK(w)'
  <2>1. call'[w] = call[w] /\ WriterOK(w) /\ call[w] \in Call
    BY <1>1, <1>8, PipeAssumption DEF PipeInv, Task
  <2>2. call[w].chunk \in Int
    BY <2>1, SMTT(60) DEF Call
  <2>3. call[w].chunk <= PIPE_RING_CAP - Inflight => call[w].chunk <= PIPE_RING_CAP - Inflight'
    BY <1>3, <1>4, <1>5, <2>2, SMTT(60)
  <2> QED
    BY <1>7, <2>1, <2>3 DEF WriterOK
<1>12. ASSUME NEW q \in Reader PROVE ReaderOK(q)'
  <2>1. CASE q = r
    <3>1. call'[q] = Out
      BY <1>1, <1>8, <2>1
    <3> QED
      BY <1>6, <3>1 DEF ReaderOK
  <2>2. CASE q # r
    <3>1. call'[q] = call[q] /\ ReaderOK(q) /\ call[q].at # "copy"
      BY <1>2, <1>8, <2>2 DEF PipeInv, Task, Alone, Copying
    <3> QED
      BY <3>1 DEF ReaderOK
  <2> QED
    BY <2>1, <2>2
<1> QED
  BY <1>5, <1>9, <1>10, <1>11, <1>12 DEF PipeInv

\* The invariant is inductive.
LEMMA InvStep == PipeInv /\ [Next]_vars => PipeInv'
<1> SUFFICES ASSUME PipeInv, [Next]_vars PROVE PipeInv'
  OBVIOUS
<1>1. CASE UNCHANGED vars
  BY <1>1 DEF vars, PipeInv, TypeOK, Inflight, Alone, Copying, WriterOK, ReaderOK
<1>2. CASE Next
  <2>1. ~crossed
    BY <1>2 DEF Next
  <2>2. ASSUME NEW w \in Writer, WriterStep(w) \/ GiveUp(w) \/ \E n \in 1..MaxLen : Begin(w, n)
        PROVE  PipeInv'
    BY <2>1, <2>2, TestRoomInv, PutByteInv, PublishInv, BeginInv DEF WriterStep, Task
  <2>3. ASSUME NEW r \in Reader, ReaderStep(r) \/ \E n \in 1..MaxLen : BeginRead(r, n)
        PROVE  PipeInv'
    BY <2>1, <2>3, TestBytesInv, TestWritersInv, GetByteInv, ConsumeInv, BeginInv DEF ReaderStep, Task
  <2>4. ASSUME NEW t \in Task, Close(t)
        PROVE  PipeInv'
    BY <2>1, <2>4, CloseInv
  <2> QED
    BY <1>2, <2>2, <2>3, <2>4 DEF Next
<1> QED
  BY <1>1, <1>2

\* Whatever the capacity and the width of the cursors, what is between the tail and the
\* head of a pipe never exceeds the ring, a task alone at its end still has the room or
\* the bytes it tested for before it was preempted, and the cells between the cursors
\* hold exactly what was written and not yet read (pipe_ring_t, syscall_fd_write,
\* SYS_READ).
THEOREM PipeInvariant == Spec => []PipeInv
<1> QED
  BY Initially, InvStep, PTL DEF Spec

-----------------------------------------------------------------------------
(* The byte stream *)

\* A function on 1..n is a sequence of length n.
LEMMA Sequence ==
    ASSUME NEW S, NEW n \in Nat, NEW f, f \in [1..n -> S]
    PROVE  f \in Seq(S) /\ Len(f) = n
  BY SeqDef, SMTT(60)

LEMMA QueuedIs ==
    ASSUME TypeOK
    PROVE  /\ Queued \in Seq(Byte) /\ Len(Queued) = Inflight /\ Inflight \in Nat
           /\ \A k \in 1..Inflight : Queued[k] = buf[Place(tail + k - 1)]
<1>1. Inflight \in Nat /\ tail \in Nat
  BY Ring, Capacity, SMTT(60)
<1>2. ASSUME NEW k \in 1..Inflight
      PROVE  buf[Place(tail + k - 1)] \in Byte
  <2>1. tail + k - 1 \in Nat
    BY <1>1, SMTT(60)
  <2>2. Place(tail + k - 1) \in 0..PIPE_RING_CAP - 1
    BY <2>1, Cells
  <2> QED
    BY <2>2 DEF TypeOK
<1>3. Queued \in [1..Inflight -> Byte]
  BY <1>2 DEF Queued
<1> QED
  BY <1>1, <1>3, Sequence DEF Queued

\* Until a cursor moves, the bytes under way stay what they are.
LEMMA QueuedStays ==
    ASSUME PipeInv, ~crossed, UNCHANGED <<head, tail>>,
           UNCHANGED buf \/ \E w \in Writer : PutByte(w)
    PROVE  Queued' = Queued
<1>1. Inflight' = Inflight /\ TypeOK
  BY DEF Inflight, PipeInv
<1>2. ASSUME NEW k \in 1..Inflight
      PROVE  buf'[Place(tail + k - 1)] = buf[Place(tail + k - 1)]
  <2>1. ASSUME NEW w \in Writer, PutByte(w)
        PROVE  buf'[Place(tail + k - 1)] = buf[Place(tail + k - 1)]
    <3>1. Place(tail + k - 1) # Place(head + call[w].i)
      BY <2>1, CellFree
    <3>2. tail + k - 1 \in Nat
      BY <1>1, Ring, Capacity, SMTT(60)
    <3>3. Place(tail + k - 1) \in 0..PIPE_RING_CAP - 1
      BY <3>2, Cells
    <3> QED
      BY <1>1, <2>1, <3>1, <3>3 DEF PutByte, TypeOK
  <2> QED
    BY <2>1
<1> QED
  BY <1>1, <1>2 DEF Queued

\* Moving head puts the bytes that were copied at the end of the stream.
LEMMA PublishPuts ==
    ASSUME PipeInv, ~crossed, NEW w \in Writer, Publish(w)
    PROVE  Stream!Put
<1> DEFINE n == call[w].chunk
           new == [k \in 1..n |-> (sent + k - 1) % Distinct]
<1>1. TypeOK /\ TypeOK' /\ Inflight' = Inflight + n
  BY PublishInv DEF PipeInv
<1>2. WriterOK(w) /\ call[w].at = "copy" /\ call[w].i = n /\ call[w] \in Call
  BY DEF PipeInv, TypeOK, Publish, Task
<1>3. PIPE_RING_CAP \in Nat /\ Inflight \in Nat /\ head \in Nat /\ tail \in Nat
  BY <1>1, Ring, Capacity, SMTT(60)
<1>4. n \in 1..PIPE_RING_CAP - Inflight /\ n \in Nat
  BY <1>2, <1>3, SMTT(60) DEF WriterOK, Call
<1>5. sent \in Nat /\ Distinct \in Nat \ {0}
  BY <1>1, PipeAssumption, SMTT(60) DEF TypeOK, Byte
<1>6. new \in Seq(Byte) /\ Len(new) = n /\ \A k \in 1..n : new[k] = (sent + k - 1) % Distinct
  <2>1. ASSUME NEW k \in 1..n PROVE (sent + k - 1) % Distinct \in Byte
    <3>1. sent + k - 1 \in Nat
      BY <1>4, <1>5, SMTT(60)
    <3> QED
      BY <1>5, <3>1, Remainder DEF Byte
  <2>2. new \in [1..n -> Byte]
    BY <2>1
  <2> QED
    BY <1>4, <2>2, Sequence
<1> HIDE DEF n, new
<1>7. Queued \in Seq(Byte) /\ Len(Queued) = Inflight /\ \A k \in 1..Inflight : Queued[k] = buf[Place(tail + k - 1)]
  BY <1>1, QueuedIs
<1>8. /\ Queued' \in Seq(Byte) /\ Len(Queued') = Inflight + n
      /\ \A k \in 1..Inflight + n : Queued'[k] = buf[Place(tail + k - 1)]
  <2>1. /\ Queued' \in Seq(Byte) /\ Len(Queued') = Inflight'
        /\ \A k \in 1..Inflight' : Queued'[k] = buf'[Place(tail' + k - 1)]
    <3>1. (TypeOK => /\ Queued \in Seq(Byte) /\ Len(Queued) = Inflight
                     /\ \A k \in 1..Inflight : Queued[k] = buf[Place(tail + k - 1)])'
      BY QueuedIs, PTL
    <3> QED
      BY <1>1, <3>1 DEF Place
  <2>2. buf' = buf /\ tail' = tail
    BY DEF Publish
  <2> QED
    BY <1>1, <2>1, <2>2
<1>9. /\ Queued \o new \in Seq(Byte) /\ Len(Queued \o new) = Inflight + n
      /\ \A k \in 1..Inflight + n :
            (Queued \o new)[k] = IF k <= Inflight THEN Queued[k] ELSE new[k - Inflight]
  BY <1>6, <1>7, ConcatProperties
<1>10. ASSUME NEW k \in 1..Inflight + n
       PROVE  Queued'[k] = (Queued \o new)[k]
  <2>1. CASE k <= Inflight
    <3>1. k \in 1..Inflight
      BY <1>3, <1>4, <2>1, SMTT(60)
    <3>2. Queued[k] = buf[Place(tail + k - 1)]
      BY <1>7, <3>1
    <3>3. (Queued \o new)[k] = Queued[k]
      BY <1>9, <2>1
    <3>4. Queued'[k] = buf[Place(tail + k - 1)]
      BY <1>8
    <3> QED
      BY <3>2, <3>3, <3>4
  <2>2. CASE ~(k <= Inflight)
    <3> DEFINE j == k - Inflight - 1
    <3>1. j \in 0..n - 1 /\ j \in Nat /\ k - Inflight \in 1..n /\ k - Inflight = j + 1
          /\ tail + k - 1 = tail + Inflight + j /\ sent + (j + 1) - 1 = sent + j
      BY <1>3, <1>4, <1>5, <2>2, SMTT(60)
    <3> HIDE DEF j
    <3>2. buf[Place(head + j)] = (sent + j) % Distinct
      BY <1>2, <3>1 DEF WriterOK, n
    <3>3. Place(head + j) = Place(tail + Inflight + j)
      BY <1>1, <3>1, Ring
    <3>4. new[k - Inflight] = (sent + j) % Distinct
      BY <1>6, <3>1
    <3> QED
      BY <1>8, <1>9, <2>2, <3>1, <3>2, <3>3, <3>4
  <2> QED
    BY <2>1, <2>2
<1>11. Queued' = Queued \o new
  BY <1>8, <1>9, <1>10, SeqEqual
<1>12. sent' = (sent + n) % Distinct /\ out' = out
  BY DEF Publish, n
<1>13. n \in 1..PIPE_RING_CAP - Len(Queued)
  BY <1>4, <1>7
<1> QED
  BY <1>11, <1>12, <1>13 DEF Stream!Put, new

\* Moving tail takes the bytes that were copied off the front of the stream.
LEMMA ConsumeTakes ==
    ASSUME PipeInv, ~crossed, NEW r \in Reader, Consume(r)
    PROVE  Stream!Take
<1> DEFINE n == call[r].chunk
           m == Inflight - n
<1>1. TypeOK /\ TypeOK' /\ Inflight' = m
  BY ConsumeInv DEF PipeInv
<1>2. ReaderOK(r) /\ call[r].at = "copy" /\ call[r].i = n /\ call[r] \in Call /\ Inflight <= PIPE_RING_CAP
  BY DEF PipeInv, TypeOK, Consume, Task
<1>3. Inflight \in Nat /\ tail \in Nat
  BY <1>1, Ring, Capacity, SMTT(60)
<1>4. n \in 1..Inflight /\ n \in Nat /\ m \in Nat /\ Inflight = m + n
  BY <1>2, <1>3, SMTT(60) DEF ReaderOK, Call
<1>5. /\ call[r].bytes \in Seq(Byte) /\ Len(call[r].bytes) = n
      /\ \A k \in 1..n : call[r].bytes[k] = buf[Place(tail + k - 1)]
  BY <1>2 DEF ReaderOK, Call
<1>6. tail' = (tail + n) % CursorMod /\ head' = head /\ buf' = buf /\ out' = call[r].bytes /\ sent' = sent
  BY DEF Consume
<1> HIDE DEF n, m
<1>7. Queued \in Seq(Byte) /\ Len(Queued) = Inflight /\ \A k \in 1..Inflight : Queued[k] = buf[Place(tail + k - 1)]
  BY <1>1, QueuedIs
<1>8. \A k \in 1..Inflight : Queued[k] \in Byte
  BY <1>7, ElementOfSeq
<1>9. out' = SubSeq(Queued, 1, n)
  <2> DEFINE front == SubSeq(Queued, 1, n)
  <2>1. 1 \in Int /\ n \in Int /\ \A k \in 1..n : Queued[k] \in Byte
    BY <1>3, <1>4, <1>8, SMTT(60)
  <2>2. /\ front \in Seq(Byte) /\ Len(front) = (IF 1 <= n THEN n - 1 + 1 ELSE 0)
        /\ \A k \in 1..n - 1 + 1 : front[k] = Queued[1 + k - 1]
    BY <2>1, SubSeqProperties, SMTT(60)
  <2> HIDE DEF front
  <2>3. Len(front) = n
    BY <1>4, <2>2, SMTT(60)
  <2>4. ASSUME NEW k \in 1..n PROVE call[r].bytes[k] = front[k]
    <3>1. k \in 1..n - 1 + 1 /\ 1 + k - 1 = k /\ k \in 1..Inflight
      BY <1>3, <1>4, SMTT(60)
    <3>2. front[k] = Queued[k]
      BY <2>2, <3>1
    <3> QED
      BY <1>5, <1>7, <3>1, <3>2
  <2>5. call[r].bytes = front
    BY <1>5, <2>2, <2>3, <2>4, SeqEqual
  <2> QED
    BY <1>6, <2>5 DEF front
<1>10. Queued' = SubSeq(Queued, n + 1, Len(Queued))
  <2> DEFINE rest == SubSeq(Queued, n + 1, Inflight)
  <2>1. n + 1 \in Int /\ Inflight \in Int /\ \A k \in n + 1..Inflight : Queued[k] \in Byte
    BY <1>3, <1>4, <1>8, SMTT(60)
  <2>2. /\ rest \in Seq(Byte) /\ Len(rest) = (IF n + 1 <= Inflight THEN Inflight - (n + 1) + 1 ELSE 0)
        /\ \A k \in 1..Inflight - (n + 1) + 1 : rest[k] = Queued[n + 1 + k - 1]
    BY <2>1, SubSeqProperties, SMTT(60)
  <2> HIDE DEF rest
  <2>3. Len(rest) = m
    BY <1>3, <1>4, <2>2, SMTT(60)
  <2>4. /\ Queued' \in Seq(Byte) /\ Len(Queued') = m
        /\ \A k \in 1..m : Queued'[k] = buf[Place(tail' + k - 1)]
    <3>1. (TypeOK => /\ Queued \in Seq(Byte) /\ Len(Queued) = Inflight
                     /\ \A k \in 1..Inflight : Queued[k] = buf[Place(tail + k - 1)])'
      BY QueuedIs, PTL
    <3> QED
      BY <1>1, <1>6, <3>1 DEF Place
  <2>5. ASSUME NEW k \in 1..m PROVE Queued'[k] = rest[k]
    <3> DEFINE j == k - 1
    <3>1. /\ j \in Nat /\ k \in 1..Inflight - (n + 1) + 1 /\ n + 1 + k - 1 = n + k /\ n + k \in 1..Inflight
          /\ tail' + k - 1 = tail' + j /\ tail + (n + k) - 1 = tail + n + j
      <4>1. tail' \in Int
        BY <1>1, Capacity, SMTT(60) DEF TypeOK
      <4> QED
        BY <1>3, <1>4, <4>1, SMTT(60)
    <3> HIDE DEF j
    <3>2. n \in 0..Inflight
      BY <1>3, <1>4, SMTT(60)
    <3>3. Place(tail' + j) = Place(tail + n + j)
      BY <1>1, <1>2, <1>6, <3>1, <3>2, TailMoves
    <3>4. rest[k] = buf[Place(tail + n + j)]
      BY <1>7, <2>2, <3>1
    <3>5. Queued'[k] = buf[Place(tail' + j)]
      BY <2>4, <3>1
    <3> QED
      BY <3>3, <3>4, <3>5
  <2>6. Queued' = rest
    BY <2>2, <2>3, <2>4, <2>5, SeqEqual
  <2> QED
    BY <1>7, <2>6 DEF rest
<1>11. n \in 1..Len(Queued)
  BY <1>4, <1>7
<1> QED
  BY <1>6, <1>9, <1>10, <1>11 DEF Stream!Take

LEMMA StreamStep ==
    PipeInv /\ [Next]_vars => [crossed' \/ Stream!Put \/ Stream!Take]_<<Queued, sent, out>>
<1> SUFFICES ASSUME PipeInv, [Next]_vars
             PROVE  Stream!Put \/ Stream!Take \/ UNCHANGED <<Queued, sent, out>>
  OBVIOUS
<1>1. CASE UNCHANGED vars
  BY <1>1 DEF vars, Queued, Inflight
<1>2. CASE Next
  <2>1. ~crossed
    BY <1>2 DEF Next
  <2>2. ASSUME UNCHANGED <<head, tail, sent, out>>, UNCHANGED buf \/ \E w \in Writer : PutByte(w)
        PROVE  UNCHANGED <<Queued, sent, out>>
    BY <2>1, <2>2, QueuedStays
  <2>3. ASSUME NEW w \in Writer, WriterStep(w) \/ GiveUp(w) \/ \E n \in 1..MaxLen : Begin(w, n)
        PROVE  Stream!Put \/ UNCHANGED <<Queued, sent, out>>
    <3>1. CASE Publish(w)
      BY <2>1, <3>1, PublishPuts
    <3>2. CASE ~Publish(w)
      BY <2>2, <2>3, <3>2 DEF WriterStep, TestRoom, PutByte, GiveUp, Begin
    <3> QED
      BY <3>1, <3>2
  <2>4. ASSUME NEW r \in Reader, ReaderStep(r) \/ \E n \in 1..MaxLen : BeginRead(r, n)
        PROVE  Stream!Take \/ UNCHANGED <<Queued, sent, out>>
    <3>1. CASE Consume(r)
      BY <2>1, <3>1, ConsumeTakes
    <3>2. CASE ~Consume(r)
      BY <2>2, <2>4, <3>2 DEF ReaderStep, TestBytes, TestWriters, GetByte, BeginRead
    <3> QED
      BY <3>1, <3>2
  <2>5. ASSUME NEW t \in Task, Close(t)
        PROVE  UNCHANGED <<Queued, sent, out>>
    BY <2>2, <2>5 DEF Close
  <2> QED
    BY <1>2, <2>3, <2>4, <2>5 DEF Next
<1> QED
  BY <1>1, <1>2

\* Whatever the capacity of the ring, the width of its cursors and the number of tasks,
\* a pipe is a byte stream until two tasks are at one of its ends at once: no byte is
\* lost, repeated or overtaken through partial writes, wrapped cursors and tasks that
\* are preempted or ended in the middle (syscall_fd_write, SYS_READ).
THEOREM PipeIsByteStream == Spec => IsByteStream
<1>1. Init => Stream!Init
  <2> SUFFICES ASSUME Init PROVE Stream!Init
    OBVIOUS
  <2>1. TypeOK /\ Inflight = 0
    <3>1. CursorMod \in Nat \ {0}
      BY Capacity
    <3>2. (0 + CursorMod - 0) % CursorMod = 0
      BY <3>1, Gap, SMTT(60)
    <3> QED
      BY <3>2, Initially DEF Init, Inflight, PipeInv
  <2>2. Queued \in Seq(Byte) /\ Len(Queued) = 0
    BY <2>1, QueuedIs
  <2>3. Queued = <<>>
    BY <2>2, EmptySeq
  <2> QED
    BY <2>3 DEF Init, Stream!Init
<1> QED
  BY <1>1, StreamStep, PipeInvariant, PTL DEF Spec, IsByteStream
=============================================================================
