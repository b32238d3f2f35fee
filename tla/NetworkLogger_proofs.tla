------------------------ MODULE NetworkLogger_proofs ------------------------
(***************************************************************************)
(* Proofs about NetworkLogger for every size of the ring, every number of  *)
(* writers, streams and places: nothing wakes too late, places return, and *)
(* the ring with its cursors implements HistoryLog.                        *)
(*                                                                         *)
(* What ties the ring to the log is RingOK: the byte at each position not  *)
(* yet overwritten is where its position modulo size_ says.                *)
(***************************************************************************)
EXTENDS NetworkLogger, SequenceTheorems, TLAPS

-----------------------------------------------------------------------------
(* Arithmetic modulo the size *)

\* A remainder, its range, and the one number of it in a range.
LEMMA Remainder ==
  ASSUME NEW n \in Nat \ {0}, NEW a \in Nat
  PROVE  /\ (a % n) \in 0..(n - 1)
         /\ a \div n \in Int
         /\ a = n * (a \div n) + (a % n)
<1>1. (a % n) \in 0..(n - 1) /\ a \div n \in Int
  OBVIOUS
<1>2. (a % n) = a - n * (a \div n)
  OBVIOUS
<1> DEFINE m == n * (a \div n)
<1>3. m \in Int /\ (a % n) = a - m
  BY <1>1, <1>2
<1> HIDE DEF m
<1>4. a = m + (a % n)
  BY <1>1, <1>3
<1> QED
  BY <1>1, <1>4 DEF m

\* The remainder is the only number in its range that leaves a multiple of n.
LEMMA RemainderUnique ==
  ASSUME NEW n \in Nat \ {0}, NEW a \in Nat, NEW q \in Int, NEW r \in 0..(n - 1), a = n * q + r
  PROVE  (a % n) = r
  OBVIOUS

\* Going on by less than n wraps at most once.
LEMMA Wraps ==
  ASSUME NEW n \in Nat \ {0}, NEW a \in Nat, NEW k \in 0..(n - 1)
  PROVE  (a + k) % n = IF (a % n) + k < n THEN (a % n) + k ELSE (a % n) + k - n
<1> DEFINE q == a \div n
           r == (a % n)
<1>1. a = n * q + r /\ q \in Int /\ r \in 0..(n - 1)
  BY Remainder
<1> HIDE DEF q, r
<1>2. a + k \in Nat
  OBVIOUS
<1>3. CASE r + k < n
  <2>1. a + k = n * q + (r + k) /\ r + k \in 0..(n - 1)
    BY <1>1, <1>3
  <2>2. (a + k) % n = r + k
    BY <2>1, <1>1, <1>2, RemainderUnique
  <2> QED
    BY <2>2, <1>3 DEF r
<1>4. CASE ~(r + k < n)
  <2>1. n * (q + 1) = n * q + n
    BY <1>1
  <2>2. a + k = n * (q + 1) + (r + k - n) /\ r + k - n \in 0..(n - 1) /\ q + 1 \in Int
    BY <1>1, <1>4, <2>1
  <2>3. (a + k) % n = r + k - n
    BY <2>2, <1>2, RemainderUnique
  <2> QED
    BY <2>3, <1>4 DEF r
<1> QED
  BY <1>3, <1>4

\* Going back by less than n wraps at most once.
LEMMA WrapsBack ==
  ASSUME NEW n \in Nat \ {0}, NEW a \in Nat, NEW k \in 0..(n - 1), k <= a
  PROVE  (a - k) % n = IF k <= (a % n) THEN (a % n) - k ELSE (a % n) - k + n
<1> DEFINE b == (a - k) % n
<1>1. b \in 0..(n - 1) /\ (a % n) \in 0..(n - 1)
  BY Remainder
<1>2. a - k \in Nat /\ (a - k) + k = a
  OBVIOUS
<1>3. (a % n) = IF b + k < n THEN b + k ELSE b + k - n
  BY <1>2, Wraps
<1> HIDE DEF b
<1>4. b = IF k <= (a % n) THEN (a % n) - k ELSE (a % n) - k + n
  BY <1>1, <1>3
<1> QED
  BY <1>4 DEF b

-----------------------------------------------------------------------------
(* The ring *)

\* After t bytes in all, the buffer holds the last ones of the log l.
Holds(ringed, total, bytes) ==
  \A p \in 1..total : p > total - size_ => ringed[(p - 1) % size_] = bytes[p]

\* The one or two memcpy of write put the new bytes behind the old ones, and
\* overwrite the oldest only.
LEMMA WriteHolds ==
  ASSUME NEW buffer \in [Offset -> Byte], NEW l \in Seq(Byte), Holds(buffer, Len(l), l),
         NEW d \in Seq(Byte), Len(d) \in 1..size_
  PROVE  /\ WriteAt(buffer, Len(l), d) \in [Offset -> Byte]
         /\ Holds(WriteAt(buffer, Len(l), d), Len(l) + Len(d), l \o d)
<1> DEFINE t == Len(l)
           n == Len(d)
           offset == t % size_
           first == Least(n, size_ - offset)
           new == WriteAt(buffer, t, d)
           lg == l \o d
           tot == t + n
<1>1. size_ \in Nat \ {0} /\ t \in Nat /\ n \in 1..size_ /\ offset \in 0..(size_ - 1)
  <2>1. size_ \in Nat \ {0} /\ t \in Nat
    BY BufferAssumption
  <2> HIDE DEF t
  <2> QED
    BY <2>1, Remainder
<1>2. first = IF n < size_ - offset THEN n ELSE size_ - offset
  BY DEF Least
<1>3. /\ \A i \in 1..n : d[i] \in Byte
      /\ \A p \in 1..tot : lg[p] = IF p <= t THEN l[p] ELSE d[p - t]
      /\ tot = t + n
  BY ConcatProperties, ElementOfSeq
<1>4. new = [o \in 0..(size_ - 1) |->
               IF o >= offset /\ o < offset + first THEN d[o - offset + 1]
               ELSE IF o < n - first THEN d[first + o + 1] ELSE buffer[o]]
  BY DEF WriteAt, Offset
<1> HIDE DEF t, n, offset, first, new, lg, tot
<1>5. new \in [Offset -> Byte]
  BY <1>1, <1>2, <1>3, <1>4 DEF Offset
<1>6. ASSUME NEW p \in 1..tot, p > tot - size_
      PROVE  new[(p - 1) % size_] = lg[p]
  <2> DEFINE o == (p - 1) % size_
  <2>1. CASE p > t
    <3> DEFINE k == p - 1 - t
    <3>1. k \in 0..(n - 1) /\ k \in 0..(size_ - 1) /\ t + k = p - 1
      BY <1>1, <1>3, <1>6, <2>1
    <3>2. o = IF offset + k < size_ THEN offset + k ELSE offset + k - size_
      BY <1>1, <3>1, Wraps DEF offset
    <3> HIDE DEF k, o
    <3>3. o \in 0..(size_ - 1) /\ new[o] = d[k + 1]
      BY <1>1, <1>2, <1>4, <3>1, <3>2
    <3>4. d[k + 1] = d[p - t]
      BY <1>1 DEF k
    <3> QED
      <4>1. lg[p] = IF p <= t THEN l[p] ELSE d[p - t]
        BY <1>3, <1>6
      <4>2. lg[p] = d[p - t]
        BY <1>1, <1>3, <1>6, <2>1, <4>1
      <4> QED
        BY <3>3, <3>4, <4>2 DEF o
  <2>2. CASE p <= t
    <3> DEFINE k == t - (p - 1)
    <3>1. k \in 1..(size_ - n) /\ k \in 0..(size_ - 1) /\ t - k = p - 1 /\ k <= t
      BY <1>1, <1>3, <1>6, <2>2
    <3>2. o = IF k <= offset THEN offset - k ELSE offset - k + size_
      BY <1>1, <3>1, WrapsBack DEF offset
    <3>3. buffer[o] = l[p]
      BY <1>1, <1>3, <1>6, <2>2 DEF Holds, t
    <3> HIDE DEF k, o
    <3>4. o \in 0..(size_ - 1) /\ new[o] = buffer[o]
      BY <1>1, <1>2, <1>4, <3>1, <3>2
    <3> QED
      BY <1>3, <2>2, <3>3, <3>4 DEF o
  <2>3. p > t \/ p <= t
    BY <1>1, <1>3
  <2> HIDE DEF o
  <2> QED
    BY <2>1, <2>2, <2>3 DEF o
<1>7. Holds(new, tot, lg)
  BY <1>6 DEF Holds
<1> QED
  BY <1>5, <1>7 DEF t, n, new, tot, lg

\* The one or two memcpy of read_next return what follows the cursor in the log.
LEMMA ReadHolds ==
  ASSUME NEW buffer \in [Offset -> Byte], NEW l \in Seq(Byte), Holds(buffer, Len(l), l),
         NEW c \in 0..Len(l), c >= Len(l) - size_, NEW max \in Nat
  PROVE  LET bytes == ReadAt(buffer, Len(l), c, max)
         IN /\ bytes \in Seq(Byte)
            /\ Len(bytes) = Least(Len(l) - c, max)
            /\ bytes = SubSeq(l, c + 1, c + Len(bytes))
<1> DEFINE t == Len(l)
           n == Least(t - c, max)
           offset == c % size_
           bytes == ReadAt(buffer, t, c, max)
<1>1. size_ \in Nat \ {0} /\ t \in Nat /\ c \in 0..t /\ offset \in 0..(size_ - 1)
  <2>1. size_ \in Nat \ {0} /\ t \in Nat /\ c \in Nat
    BY BufferAssumption
  <2> QED
    BY <2>1, Remainder
<1>2. n \in Nat /\ n <= t - c /\ n <= size_
  BY <1>1 DEF Least
<1>3. bytes = [i \in 1..n |-> IF i <= size_ - offset THEN buffer[offset + i - 1]
                              ELSE buffer[i - (size_ - offset) - 1]]
  BY DEF ReadAt
<1>4. /\ SubSeq(l, c + 1, c + n) \in Seq(Byte) /\ Len(SubSeq(l, c + 1, c + n)) = n
      /\ \A i \in 1..n : SubSeq(l, c + 1, c + n)[i] = l[c + i]
  <2>1. \A i \in (c + 1)..(c + n) : l[i] \in Byte
    BY <1>1, <1>2, ElementOfSeq
  <2>2. c + 1 \in Int /\ c + n \in Int /\ (c + n) - (c + 1) + 1 = n
    BY <1>1, <1>2
  <2> QED
    BY <1>1, <1>2, <2>1, <2>2, SubSeqProperties
<1> HIDE DEF n, offset, bytes
<1>5. ASSUME NEW i \in 1..n
      PROVE  bytes[i] = l[c + i]
  <2> DEFINE p == c + i
             o == (p - 1) % size_
  <2>1. i - 1 \in 0..(size_ - 1) /\ c + (i - 1) = p - 1 /\ p \in 1..t /\ p > t - size_
    BY <1>1, <1>2
  <2>2. o = IF offset + (i - 1) < size_ THEN offset + (i - 1) ELSE offset + (i - 1) - size_
    <3>1. c \in Nat
      BY <1>1
    <3> QED
      <4>1. (c + (i - 1)) % size_ = IF (c % size_) + (i - 1) < size_ THEN (c % size_) + (i - 1)
                                    ELSE (c % size_) + (i - 1) - size_
        BY <1>1, <2>1, <3>1, Wraps
      <4> QED
        BY <2>1, <4>1 DEF offset
  <2>3. buffer[o] = l[p]
    BY <2>1 DEF Holds, t
  <2> HIDE DEF o
  <2>4. bytes[i] = buffer[o]
    <3>1. CASE i <= size_ - offset
      <4>1. o = offset + i - 1
        BY <1>1, <2>2, <3>1
      <4> QED
        BY <1>3, <3>1, <4>1
    <3>2. CASE ~(i <= size_ - offset)
      <4>1. o = i - (size_ - offset) - 1
        BY <1>1, <2>2, <3>2
      <4> QED
        BY <1>3, <3>2, <4>1
    <3> QED
      BY <3>1, <3>2
  <2> QED
    BY <2>3, <2>4
<1>6. bytes \in Seq(Byte) /\ Len(bytes) = n
  <2>1. \A i \in 1..n : l[c + i] \in Byte
    BY <1>1, <1>2, ElementOfSeq
  <2>2. bytes = [i \in 1..n |-> l[c + i]]
    BY <1>3, <1>5
  <2> QED
    BY <1>2, <2>1, <2>2
<1>7. bytes = SubSeq(l, c + 1, c + n)
  BY <1>4, <1>5, <1>6, SeqEqual
<1> QED
  BY <1>6, <1>7 DEF bytes, n

-----------------------------------------------------------------------------
(* What the two operations on the ring do to the log *)

\* The bytes of a log_hook that write keeps, and the count of all there were.
LEMMA ClipKeepsEnd ==
  ASSUME NEW d \in Seq(Byte), d # <<>>
  PROVE  /\ Clip(d) \in Seq(Byte)
         /\ Len(Clip(d)) \in 1..size_
         /\ Len(Clip(d)) <= Len(d)
<1>1. size_ \in Nat \ {0} /\ Len(d) \in Nat \ {0}
  BY BufferAssumption
<1>2. CASE Len(d) > size_
  <2> DEFINE m == Len(d) - size_ + 1
             n == Len(d)
  <2>1. m \in Int /\ n \in Int /\ n - m + 1 = size_ /\ m <= n + 1 /\ m >= 1
    BY <1>1, <1>2
  <2>2. \A i \in m..n : d[i] \in Byte
    BY <2>1, ElementOfSeq
  <2>3. SubSeq(d, m, n) \in Seq(Byte) /\ Len(SubSeq(d, m, n)) = size_
    BY <1>1, <2>1, <2>2, SubSeqProperties
  <2> QED
    BY <1>1, <1>2, <2>3 DEF Clip
<1>3. CASE ~(Len(d) > size_)
  BY <1>1, <1>3 DEF Clip
<1> QED
  BY <1>2, <1>3

\* read_next goes on from the cursor, or from the oldest byte when that is
\* further, returns what follows there, and nothing only at the end.
LEMMA ReadNext ==
  ASSUME NEW buffer \in [Offset -> Byte], NEW l \in Seq(Byte), Holds(buffer, Len(l), l),
         NEW c \in 0..Len(l)
  PROVE  LET oldest == IF Len(l) > size_ THEN Len(l) - size_ ELSE 0
             from   == Snap(c, Len(l))
             bytes  == ReadAt(buffer, Len(l), from, ChunkSize)
         IN /\ from = IF c < oldest THEN oldest ELSE c
            /\ from \in 0..Len(l)
            /\ bytes \in Seq(Byte)
            /\ Len(bytes) <= ChunkSize
            /\ from + Len(bytes) \in 0..Len(l)
            /\ bytes = SubSeq(l, from + 1, from + Len(bytes))
            /\ bytes = <<>> => from = Len(l)
            /\ from = Len(l) => bytes = <<>>
<1> DEFINE t      == Len(l)
           oldest == IF t > size_ THEN t - size_ ELSE 0
           from   == Snap(c, t)
           bytes  == ReadAt(buffer, t, from, ChunkSize)
<1>1. size_ \in Nat \ {0} /\ t \in Nat /\ ChunkSize \in Nat \ {0}
  BY BufferAssumption, LoggerAssumption
<1>2. /\ from = IF c < oldest THEN oldest ELSE c
      /\ from \in 0..t /\ from >= t - size_
  BY <1>1 DEF Snap
<1> HIDE DEF from
<1>3. /\ bytes \in Seq(Byte)
      /\ Len(bytes) = Least(t - from, ChunkSize)
      /\ bytes = SubSeq(l, from + 1, from + Len(bytes))
  BY <1>1, <1>2, ReadHolds
<1> HIDE DEF bytes, oldest
<1>4. /\ Len(bytes) \in Nat
      /\ bytes = <<>> <=> Len(bytes) = 0
  BY <1>3, EmptySeq
<1>5. /\ Len(bytes) <= ChunkSize
      /\ from + Len(bytes) \in 0..t
      /\ Len(bytes) = 0 <=> from = t
  <2> DEFINE k == Len(bytes)
  <2>1. k = IF t - from < ChunkSize THEN t - from ELSE ChunkSize
    BY <1>3 DEF Least
  <2> HIDE DEF k, t
  <2>2. k <= ChunkSize /\ from + k \in 0..t /\ (k = 0 <=> from = t)
    BY <1>1, <1>2, <2>1
  <2> QED
    BY <2>2 DEF k, t
<1> QED
  BY <1>2, <1>3, <1>4, <1>5 DEF t, oldest, from, bytes

-----------------------------------------------------------------------------
(* The invariant *)

\* What the ring and the cursors are besides TypeOK: the log is of bytes, no
\* longer than what was formatted, and its end is in the ring.
RingOK ==
  /\ log \in Seq(Byte)
  /\ chunk \in [Stream -> Seq(Byte)]
  /\ total_written_ <= logged
  /\ Holds(buffer_, total_written_, log)

IInv == TypeOK /\ RingOK /\ NoLostWakeup /\ PlacesReturn

\* log_hook appends some bytes, no more than the ring holds, and within its
\* bounds.
LEMMA LogHookAppends ==
  ASSUME TypeOK, RingOK, NEW w \in Writer, LogHook(w)
  PROVE  \E d \in Seq(Byte) :
           /\ Len(d) \in 1..size_
           /\ buffer_' = WriteAt(buffer_, Len(log), d)
           /\ total_written_' = Len(log) + Len(d)
           /\ log' = log \o d
           /\ logged' \in 0..MaxLogged
           /\ total_written_' <= logged'
<1>1. MaxMsg \in Nat \ {0} /\ MaxLogged \in Nat \ {0} /\ HookBuf \in Nat \ {0}
  BY LoggerAssumption
<1>2. logged \in 0..MaxLogged /\ total_written_ = Len(log) /\ total_written_ \in Nat
      /\ total_written_ <= logged
  BY DEF TypeOK, RingOK
<1>3. PICK len \in 1..Least(MaxMsg, MaxLogged - logged) :
        /\ buffer_' = WriteAt(buffer_, total_written_, Clip(Formatted(len)))
        /\ total_written_' = total_written_ + Len(Clip(Formatted(len)))
        /\ log' = log \o Clip(Formatted(len))
        /\ logged' = logged + len
  BY DEF LogHook
<1>4. len \in Nat \ {0} /\ logged + len <= MaxLogged
  BY <1>1, <1>2, <1>3 DEF Least
<1> DEFINE text == Formatted(len)
           d == Clip(text)
<1>5. text \in Seq(Byte) /\ Len(text) = len /\ text # <<>>
  <2>1. text = [i \in 1..len |-> IF len < HookBuf \/ i < HookBuf THEN logged + i
                                 ELSE IF i = HookBuf THEN Nul ELSE Garbage]
    BY DEF Formatted
  <2>2. \A i \in 1..len : (IF len < HookBuf \/ i < HookBuf THEN logged + i
                           ELSE IF i = HookBuf THEN Nul ELSE Garbage) \in Byte
    BY <1>1, <1>2, <1>4 DEF Byte, Nul
  <2> HIDE DEF text
  <2> QED
    BY <1>4, <2>1, <2>2
<1>6. d \in Seq(Byte) /\ Len(d) \in 1..size_ /\ Len(d) <= len
  <2> HIDE DEF text
  <2> QED
    BY <1>5, ClipKeepsEnd
<1>7. /\ buffer_' = WriteAt(buffer_, Len(log), d)
      /\ total_written_' = Len(log) + Len(d)
      /\ log' = log \o d
      /\ logged' = logged + len
  BY <1>2, <1>3
<1> HIDE DEF d
<1>8. size_ \in Nat
  BY BufferAssumption
<1>9. logged' \in 0..MaxLogged /\ total_written_' <= logged'
  BY <1>2, <1>4, <1>6, <1>7, <1>8
<1> QED
  BY <1>6, <1>7, <1>9

\* What read_next does to a stream's cursor and chunk.
LEMMA ReadAdvances ==
  ASSUME TypeOK, RingOK, NEW s \in Stream, Read(s)
  PROVE  LET oldest == IF Len(log) > size_ THEN Len(log) - size_ ELSE 0
             from   == IF cursor[s] < oldest THEN oldest ELSE cursor[s]
         IN \E bytes \in Seq(Byte) :
              /\ from \in 0..Len(log)
              /\ Len(bytes) <= ChunkSize
              /\ from + Len(bytes) \in 0..Len(log)
              /\ bytes = SubSeq(log, from + 1, from + Len(bytes))
              /\ bytes = <<>> => from = Len(log)
              /\ cursor' = [cursor EXCEPT ![s] = from + Len(bytes)]
              /\ chunk' = IF bytes = <<>> THEN chunk ELSE [chunk EXCEPT ![s] = bytes]
              /\ pc' = [pc EXCEPT ![s] = IF bytes = <<>> THEN "wait" ELSE "send"]
<1> DEFINE at    == Snap(cursor[s], Len(log))
           bytes == ReadAt(buffer_, Len(log), at, ChunkSize)
<1>1. /\ buffer_ \in [Offset -> Byte] /\ log \in Seq(Byte) /\ total_written_ = Len(log)
      /\ Holds(buffer_, Len(log), log) /\ cursor[s] \in 0..Len(log)
  BY DEF TypeOK, RingOK
<1>2. LET oldest == IF Len(log) > size_ THEN Len(log) - size_ ELSE 0
      IN /\ at = IF cursor[s] < oldest THEN oldest ELSE cursor[s]
         /\ at \in 0..Len(log)
         /\ bytes \in Seq(Byte)
         /\ Len(bytes) <= ChunkSize
         /\ at + Len(bytes) \in 0..Len(log)
         /\ bytes = SubSeq(log, at + 1, at + Len(bytes))
         /\ bytes = <<>> => at = Len(log)
  BY <1>1, ReadNext
<1>3. /\ cursor' = [cursor EXCEPT ![s] = at + Len(bytes)]
      /\ chunk' = IF bytes = <<>> THEN chunk ELSE [chunk EXCEPT ![s] = bytes]
      /\ pc' = [pc EXCEPT ![s] = IF bytes = <<>> THEN "wait" ELSE "send"]
  BY <1>1 DEF Read, Goto
<1> HIDE DEF at, bytes
<1> QED
  BY <1>2, <1>3

\* Before anything is logged: an empty log, and nobody listed or waiting.
LEMMA InitInv == Init => IInv
<1> SUFFICES ASSUME Init PROVE IInv
  OBVIOUS
<1>1. size_ \in Nat \ {0} /\ MaxListeners \in Nat \ {0} /\ MaxLogged \in Nat \ {0}
      /\ ChunkSize \in Nat \ {0} /\ NoTask \notin Stream
  BY BufferAssumption, LoggerAssumption
<1>2. \A S : <<>> \in Seq(S) /\ Len(<<>>) = 0
  OBVIOUS
<1>3. TypeOK
  <2>1. buffer_ \in [Offset -> Byte]
    BY DEF Init, Byte
  <2>2. /\ cursor \in [Stream -> 0..total_written_]
        /\ total_written_ \in 0..MaxLogged /\ logged \in 0..MaxLogged
        /\ Len(log) = total_written_
    BY <1>1, <1>2 DEF Init
  <2>3. \A s \in Stream : Len(chunk[s]) <= ChunkSize
    BY <1>1, <1>2 DEF Init
  <2> QED
    BY <2>1, <2>2, <2>3 DEF Init, TypeOK
<1>4. RingOK
  <2>1. Holds(buffer_, 0, <<>>)
    BY DEF Holds
  <2>2. log \in Seq(Byte) /\ chunk \in [Stream -> Seq(Byte)] /\ total_written_ <= logged
    BY <1>2 DEF Init
  <2> QED
    BY <2>1, <2>2 DEF Init, RingOK
<1>5. NoLostWakeup /\ PlacesReturn
  BY <1>1 DEF Init, NoLostWakeup, PlacesReturn, Listed
<1> QED
  BY <1>3, <1>4, <1>5 DEF IInv

\* log_hook copies listeners_ in the critical section that moves the end of the
\* log: whoever was listed is owed a notification.
LEMMA LogHookInv ==
  ASSUME IInv, NEW w \in Writer, LogHook(w)
  PROVE  IInv'
<1> USE DEF IInv
<1>1. PICK d \in Seq(Byte) :
        /\ Len(d) \in 1..size_
        /\ buffer_' = WriteAt(buffer_, Len(log), d)
        /\ total_written_' = Len(log) + Len(d)
        /\ log' = log \o d
        /\ logged' \in 0..MaxLogged
        /\ total_written_' <= logged'
  BY LogHookAppends
<1>2. /\ size_ \in Nat /\ MaxLogged \in Nat /\ Len(log) \in Nat
      /\ buffer_ \in [Offset -> Byte] /\ log \in Seq(Byte) /\ total_written_ = Len(log)
      /\ Holds(buffer_, Len(log), log)
  BY BufferAssumption, LoggerAssumption DEF TypeOK, RingOK
<1>3. /\ to_notify' = [to_notify EXCEPT ![w] = ToNotify(listeners_)]
      /\ UNCHANGED <<hooked, listeners_, pc, cursor, chunk, notified>>
  BY DEF LogHook
<1>4. /\ buffer_' \in [Offset -> Byte]
      /\ Holds(buffer_', Len(log) + Len(d), log \o d)
  BY <1>1, <1>2, WriteHolds
<1>5. log \o d \in Seq(Byte) /\ Len(log \o d) = Len(log) + Len(d)
  BY <1>1, <1>2, ConcatProperties
<1>6. ToNotify(listeners_) = listeners_
  BY DEF ToNotify, TypeOK
<1>7. TypeOK'
  <2>1. cursor' \in [Stream -> 0..total_written_']
    <3>1. \A s \in Stream : cursor[s] \in 0..total_written_'
      BY <1>1, <1>2 DEF TypeOK
    <3> QED
      BY <1>3, <3>1 DEF TypeOK
  <2>2. total_written_' \in 0..MaxLogged /\ Len(log') = total_written_'
    BY <1>1, <1>2, <1>5
  <2>3. to_notify' \in [Writer -> [1..MaxListeners -> Stream \cup {NoTask}]]
    BY <1>3, <1>6 DEF TypeOK
  <2> QED
    BY <1>1, <1>3, <1>4, <2>1, <2>2, <2>3 DEF TypeOK
<1>8. RingOK'
  BY <1>1, <1>3, <1>4, <1>5 DEF RingOK
<1>9. NoLostWakeup'
  <2> SUFFICES ASSUME NEW s \in Stream, Listed(s)'
               PROVE  Owes(w, s)'
    BY DEF NoLostWakeup
  <2>1. PICK i \in 1..MaxListeners : listeners_[i] = s
    BY <1>3 DEF Listed
  <2>2. to_notify'[w][i] = s
    BY <1>3, <1>6, <2>1 DEF TypeOK
  <2> QED
    BY <2>2 DEF Owes
<1>10. PlacesReturn'
  BY <1>3 DEF PlacesReturn, Listed
<1> QED
  BY <1>7, <1>8, <1>9, <1>10

\* Who is taken off to_notify has been notified.
LEMMA NotifyGiveInv ==
  ASSUME IInv, NEW w \in Writer, NotifyGive(w)
  PROVE  IInv'
<1> USE DEF IInv
<1> DEFINE i == Min(ToGive(w))
<1>1. /\ notified' = [notified EXCEPT ![to_notify[w][i]] = TRUE]
      /\ to_notify' = [to_notify EXCEPT ![w] = [@ EXCEPT ![i] = NoTask]]
      /\ UNCHANGED <<hooked, ring, listeners_, pc, cursor, chunk, logged>>
  BY DEF NotifyGive
<1> HIDE DEF i
<1>2. TypeOK'
  <2>1. notified' \in [Stream -> BOOLEAN]
    BY <1>1 DEF TypeOK
  <2>2. to_notify' \in [Writer -> [1..MaxListeners -> Stream \cup {NoTask}]]
    BY <1>1 DEF TypeOK
  <2> QED
    BY <1>1, <2>1, <2>2 DEF TypeOK, ring
<1>3. RingOK'
  BY <1>1 DEF RingOK, ring
<1>4. NoLostWakeup'
  <2> SUFFICES ASSUME NEW s \in Stream, notified[s] \/ \E v \in Writer : Owes(v, s)
               PROVE  notified'[s] \/ \E v \in Writer : Owes(v, s)'
    BY <1>1 DEF NoLostWakeup, Listed, ring
  <2>1. CASE notified[s]
    BY <1>1, <2>1 DEF TypeOK
  <2>2. ASSUME NEW v \in Writer, NEW j \in 1..MaxListeners, to_notify[v][j] = s
        PROVE  notified'[s] \/ \E u \in Writer : Owes(u, s)'
    <3>1. CASE v = w /\ j = i
      BY <1>1, <2>2, <3>1 DEF TypeOK
    <3>2. CASE ~(v = w /\ j = i)
      <4>1. to_notify'[v][j] = s
        BY <1>1, <2>2, <3>2 DEF TypeOK
      <4> QED
        BY <4>1 DEF Owes
    <3> QED
      BY <3>1, <3>2
  <2> QED
    BY <2>1, <2>2 DEF Owes
<1>5. PlacesReturn'
  BY <1>1 DEF PlacesReturn, Listed
<1> QED
  BY <1>2, <1>3, <1>4, <1>5

\* A new connection takes one free place at most.
LEMMA ConnectInv ==
  ASSUME IInv, NEW s \in Stream, Connect(s)
  PROVE  IInv'
<1> USE DEF IInv
<1> DEFINE free == {i \in 1..MaxListeners : listeners_[i] = NoTask}
           m == Min(free)
<1>1. /\ pc[s] = "closed" /\ pc' = [pc EXCEPT ![s] = "read"]
      /\ listeners_' = listeners_ \/ listeners_' = [listeners_ EXCEPT ![m] = s]
      /\ UNCHANGED <<hooked, ring, to_notify, cursor, chunk, notified, logged>>
  BY DEF Connect, Step, Goto, Registered
<1> HIDE DEF m
<1>2. /\ listeners_' \in [1..MaxListeners -> Stream \cup {NoTask}]
      /\ \A i \in 1..MaxListeners :
           listeners_'[i] = listeners_[i] \/ (listeners_'[i] = s /\ i = m)
  BY <1>1 DEF TypeOK
<1>3. TypeOK'
  BY <1>1, <1>2 DEF TypeOK, ring
<1>4. RingOK'
  BY <1>1 DEF RingOK, ring
<1>5. \A r \in Stream \ {s} : Listed(r)' => Listed(r)
  BY <1>2 DEF Listed
<1>6. NoLostWakeup'
  BY <1>1, <1>5 DEF NoLostWakeup, ring, Owes, TypeOK
<1>7. PlacesReturn'
  <2> SUFFICES ASSUME NEW r \in Stream
               PROVE  /\ pc'[r] = "closed" => ~Listed(r)'
                      /\ \A i, j \in 1..MaxListeners :
                           listeners_'[i] = r /\ listeners_'[j] = r => i = j
    BY DEF PlacesReturn
  <2>1. CASE r = s
    <3>1. \A i \in 1..MaxListeners : listeners_[i] # s
      BY <1>1 DEF PlacesReturn, Listed
    <3>2. \A i \in 1..MaxListeners : listeners_'[i] = s => i = m
      BY <1>2, <3>1
    <3>3. pc'[s] = "read"
      BY <1>1 DEF TypeOK
    <3> QED
      BY <2>1, <3>2, <3>3
  <2>2. CASE r # s
    <3>1. \A i \in 1..MaxListeners : listeners_'[i] = r => listeners_[i] = r
      BY <1>2, <2>2
    <3>2. pc'[r] = pc[r]
      BY <1>1, <2>2 DEF TypeOK
    <3> QED
      BY <1>5, <2>2, <3>1, <3>2 DEF PlacesReturn
  <2> QED
    BY <2>1, <2>2
<1> QED
  BY <1>3, <1>4, <1>6, <1>7

\* A reader that finds nothing is at the end of the log when it waits.
LEMMA ReadInv ==
  ASSUME IInv, NEW s \in Stream, Read(s)
  PROVE  IInv'
<1> USE DEF IInv
<1>1. PICK from \in 0..Len(log), bytes \in Seq(Byte) :
        /\ Len(bytes) <= ChunkSize
        /\ from + Len(bytes) \in 0..Len(log)
        /\ bytes = <<>> => from = Len(log)
        /\ cursor' = [cursor EXCEPT ![s] = from + Len(bytes)]
        /\ chunk' = IF bytes = <<>> THEN chunk ELSE [chunk EXCEPT ![s] = bytes]
        /\ pc' = [pc EXCEPT ![s] = IF bytes = <<>> THEN "wait" ELSE "send"]
  <2> DEFINE oldest == IF Len(log) > size_ THEN Len(log) - size_ ELSE 0
             from == IF cursor[s] < oldest THEN oldest ELSE cursor[s]
  <2>1. PICK bytes \in Seq(Byte) :
          /\ from \in 0..Len(log)
          /\ Len(bytes) <= ChunkSize
          /\ from + Len(bytes) \in 0..Len(log)
          /\ bytes = <<>> => from = Len(log)
          /\ cursor' = [cursor EXCEPT ![s] = from + Len(bytes)]
          /\ chunk' = IF bytes = <<>> THEN chunk ELSE [chunk EXCEPT ![s] = bytes]
          /\ pc' = [pc EXCEPT ![s] = IF bytes = <<>> THEN "wait" ELSE "send"]
    BY ReadAdvances
  <2> HIDE DEF from
  <2> QED
    BY <2>1
<1>2. UNCHANGED <<hooked, ring, listeners_, to_notify, notified, logged>>
  BY DEF Read
<1>3. total_written_ = Len(log)
  BY DEF TypeOK
<1>4. TypeOK'
  <2>1. cursor' \in [Stream -> 0..total_written_]
    BY <1>1, <1>3 DEF TypeOK
  <2>2. \A r \in Stream : Len(chunk'[r]) <= ChunkSize
    BY <1>1 DEF TypeOK, RingOK
  <2>3. pc' \in [Stream -> {"closed", "read", "send", "wait", "heartbeat", "remove"}]
    BY <1>1 DEF TypeOK
  <2> QED
    BY <1>2, <2>1, <2>2, <2>3 DEF TypeOK, ring
<1>5. RingOK'
  <2>1. chunk' \in [Stream -> Seq(Byte)]
    BY <1>1 DEF RingOK
  <2> QED
    BY <1>2, <2>1 DEF RingOK, ring
<1>6. NoLostWakeup'
  <2> SUFFICES ASSUME NEW r \in Stream, pc'[r] = "wait", Listed(r)', cursor'[r] < total_written_'
               PROVE  notified'[r] \/ \E v \in Writer : Owes(v, r)'
    BY DEF NoLostWakeup
  <2>1. CASE r = s
    <3>1. bytes = <<>>
      BY <1>1, <2>1 DEF TypeOK
    <3>2. cursor'[s] = Len(log)
      BY <1>1, <3>1 DEF TypeOK
    <3> QED
      BY <1>2, <1>3, <2>1, <3>2 DEF ring
  <2>2. CASE r # s
    <3>1. pc[r] = "wait" /\ cursor[r] < total_written_ /\ Listed(r)
      BY <1>1, <1>2, <2>2 DEF ring, TypeOK, Listed
    <3> QED
      BY <1>2, <3>1 DEF NoLostWakeup, Owes
  <2> QED
    BY <2>1, <2>2
<1>7. PlacesReturn'
  <2>1. \A r \in Stream : pc'[r] = "closed" => pc[r] = "closed"
    BY <1>1 DEF TypeOK
  <2> QED
    BY <1>2, <2>1 DEF PlacesReturn, Listed
<1> QED
  BY <1>4, <1>5, <1>6, <1>7

\* Sending, and being woken or not, leaves the ring and the places alone, and a
\* notification is taken only on the way to the next read.
LEMMA HandlerInv ==
  ASSUME IInv, NEW s \in Stream, Send(s) \/ Take(s) \/ TakeTimeout(s)
  PROVE  IInv'
<1> USE DEF IInv
<1>1. PICK l \in {"read", "remove", "heartbeat"} : pc' = [pc EXCEPT ![s] = l]
  BY DEF Send, Take, TakeTimeout, Step, Goto
<1>2. /\ notified' \in [Stream -> BOOLEAN]
      /\ \A r \in Stream \ {s} : notified'[r] = notified[r]
      /\ UNCHANGED <<hooked, ring, listeners_, to_notify, cursor, chunk, logged>>
  BY DEF Send, Take, TakeTimeout, TypeOK
<1>3. TypeOK'
  BY <1>1, <1>2 DEF TypeOK, ring
<1>4. RingOK'
  BY <1>2 DEF RingOK, ring
<1>5. \A r \in Stream : pc'[r] = IF r = s THEN l ELSE pc[r]
  BY <1>1 DEF TypeOK
<1>6. NoLostWakeup'
  <2> SUFFICES ASSUME NEW r \in Stream, pc'[r] = "wait", Listed(r)', cursor'[r] < total_written_'
               PROVE  notified'[r] \/ \E v \in Writer : Owes(v, r)'
    BY DEF NoLostWakeup
  <2>1. r # s /\ pc[r] = "wait" /\ Listed(r) /\ cursor[r] < total_written_
    BY <1>2, <1>5 DEF ring, Listed
  <2> QED
    BY <1>2, <2>1 DEF NoLostWakeup, Owes
<1>7. PlacesReturn'
  BY <1>2, <1>5 DEF PlacesReturn, Listed
<1> QED
  BY <1>3, <1>4, <1>6, <1>7

\* remove_listener clears every place of the handler that returns.
LEMMA DisconnectInv ==
  ASSUME IInv, NEW s \in Stream, Disconnect(s)
  PROVE  IInv'
<1> USE DEF IInv
<1>1. /\ pc' = [pc EXCEPT ![s] = "closed"]
      /\ listeners_' = Removed(listeners_, s)
      /\ cursor' = [cursor EXCEPT ![s] = 0]
      /\ chunk' = [chunk EXCEPT ![s] = <<>>]
      /\ UNCHANGED <<hooked, ring, to_notify, notified, logged>>
  BY DEF Disconnect, Step, Goto
<1>2. NoTask \notin Stream /\ ChunkSize \in Nat
  BY LoggerAssumption
<1>3. \A r \in Stream, i \in 1..MaxListeners :
        listeners_'[i] = r <=> r # s /\ listeners_[i] = r
  BY <1>1, <1>2 DEF Removed, TypeOK
<1>4. \A r \in Stream : Listed(r)' <=> r # s /\ Listed(r)
  BY <1>3 DEF Listed
<1>5. TypeOK'
  <2>1. listeners_' \in [1..MaxListeners -> Stream \cup {NoTask}]
    BY <1>1 DEF Removed, TypeOK
  <2>2. cursor' \in [Stream -> 0..total_written_]
    BY <1>1 DEF TypeOK
  <2>3. \A r \in Stream : Len(chunk'[r]) <= ChunkSize
    BY <1>1, <1>2 DEF TypeOK, RingOK
  <2> QED
    BY <1>1, <2>1, <2>2, <2>3 DEF TypeOK, ring
<1>6. RingOK'
  BY <1>1 DEF RingOK, ring
<1>7. NoLostWakeup'
  <2> SUFFICES ASSUME NEW r \in Stream, pc'[r] = "wait", Listed(r)', cursor'[r] < total_written_'
               PROVE  notified'[r] \/ \E v \in Writer : Owes(v, r)'
    BY DEF NoLostWakeup
  <2>1. r # s /\ Listed(r)
    BY <1>4
  <2>2. pc[r] = "wait" /\ cursor[r] < total_written_
    BY <1>1, <2>1 DEF ring, TypeOK
  <2> QED
    BY <1>1, <2>1, <2>2 DEF NoLostWakeup, Owes
<1>8. PlacesReturn'
  <2>1. \A r \in Stream : pc'[r] = "closed" => r = s \/ pc[r] = "closed"
    BY <1>1 DEF TypeOK
  <2> QED
    BY <1>3, <1>4, <2>1 DEF PlacesReturn
<1> QED
  BY <1>5, <1>6, <1>7, <1>8

\* Every step keeps the invariant.
LEMMA StepInv == IInv /\ [Next]_vars => IInv'
<1> SUFFICES ASSUME IInv, [Next]_vars PROVE IInv'
  OBVIOUS
<1>1. CASE Initialize
  BY <1>1 DEF Initialize, IInv, TypeOK, RingOK, NoLostWakeup, PlacesReturn, Listed, Owes, ring
<1>2. ASSUME NEW w \in Writer, LogHook(w) PROVE IInv'
  BY <1>2, LogHookInv
<1>3. ASSUME NEW w \in Writer, NotifyGive(w) PROVE IInv'
  BY <1>3, NotifyGiveInv
<1>4. ASSUME NEW s \in Stream, Connect(s) PROVE IInv'
  BY <1>4, ConnectInv
<1>5. ASSUME NEW s \in Stream, Read(s) PROVE IInv'
  BY <1>5, ReadInv
<1>6. ASSUME NEW s \in Stream, Send(s) \/ Take(s) \/ TakeTimeout(s) PROVE IInv'
  BY <1>6, HandlerInv
<1>7. ASSUME NEW s \in Stream, Disconnect(s) PROVE IInv'
  BY <1>7, DisconnectInv
<1>8. CASE UNCHANGED vars
  BY <1>8 DEF vars, IInv, TypeOK, RingOK, NoLostWakeup, PlacesReturn, Listed, Owes, ring
<1> QED
  BY <1>1, <1>2, <1>3, <1>4, <1>5, <1>6, <1>7, <1>8 DEF Next, Handle

\* The invariant of log_hook, stream_log_handler and the ring between them.
THEOREM Invariance == Spec => []IInv
<1> QED
  BY InitInv, StepInv, PTL DEF Spec

\* The fields of the logger keep their ranges, and no cursor passes the writer's.
THEOREM TypeCorrect == Spec => []TypeOK
<1>1. IInv => TypeOK
  BY DEF IInv
<1> QED
  BY <1>1, Invariance, PTL

\* A listed stream that waits though there are bytes to read has been notified
\* or will be by a log_hook that has left its critical section.
THEOREM NoWakeupLost == Spec => []NoLostWakeup
<1>1. IInv => NoLostWakeup
  BY DEF IInv
<1> QED
  BY <1>1, Invariance, PTL

\* stream_log_handler leaves no entry in listeners_ when it returns.
THEOREM PlacesReturned == Spec => []PlacesReturn
<1>1. IInv => PlacesReturn
  BY DEF IInv
<1> QED
  BY <1>1, Invariance, PTL

-----------------------------------------------------------------------------
(* The ring and its readers implement a log with streams *)

\* A log_hook is a log that grows.
LEMMA LogHookRefines ==
  ASSUME IInv, NEW w \in Writer, LogHook(w)
  PROVE  Log!Grow
<1>1. PICK d \in Seq(Byte) : Len(d) \in 1..size_ /\ log' = log \o d
  BY LogHookAppends DEF IInv
<1>2. log \in Seq(Byte) /\ size_ \in Nat
  BY BufferAssumption DEF IInv, RingOK
<1>3. UNCHANGED <<cursor, chunk>>
  BY DEF LogHook
<1>4. Len(log') > Len(log)
  BY <1>1, <1>2, ConcatProperties
<1>5. SubSeq(log', 1, Len(log)) = log
  <2>1. SubSeq(log \o d, 1, Len(log)) = SubSeq(log, 1, Len(log))
    BY <1>1, <1>2, SubSeqOfConcat1
  <2> QED
    BY <1>1, <1>2, <2>1, SubSeqFull
<1> QED
  BY <1>3, <1>4, <1>5 DEF Log!Grow

\* A read_next that returns something delivers the next bytes that are left, and
\* one that returns nothing changes nothing.
LEMMA ReadRefines ==
  ASSUME IInv, NEW s \in Stream, Read(s)
  PROVE  Log!Deliver(s) \/ UNCHANGED <<log, cursor, chunk>>
<1> DEFINE oldest == IF Len(log) > size_ THEN Len(log) - size_ ELSE 0
           from == IF cursor[s] < oldest THEN oldest ELSE cursor[s]
<1>1. PICK bytes \in Seq(Byte) :
        /\ from \in 0..Len(log)
        /\ from + Len(bytes) \in 0..Len(log)
        /\ bytes = SubSeq(log, from + 1, from + Len(bytes))
        /\ bytes = <<>> => from = Len(log)
        /\ cursor' = [cursor EXCEPT ![s] = from + Len(bytes)]
        /\ chunk' = IF bytes = <<>> THEN chunk ELSE [chunk EXCEPT ![s] = bytes]
  BY ReadAdvances DEF IInv
<1>2. UNCHANGED log
  BY DEF Read, ring
<1>3. cursor \in [Stream -> 0..Len(log)] /\ size_ \in Nat \ {0} /\ log \in Seq(Byte)
  BY BufferAssumption DEF IInv, TypeOK, RingOK
<1>4. CASE bytes = <<>>
  <2>1. from = Len(log) /\ Len(bytes) = 0
    BY <1>1, <1>4
  <2>2. from = cursor[s]
    <3>1. cursor[s] \in 0..Len(log) /\ Len(log) \in Nat
      BY <1>3
    <3> QED
      BY <1>3, <2>1, <3>1
  <2>3. cursor' = [cursor EXCEPT ![s] = cursor[s]]
    <3> HIDE DEF from
    <3>1. from + Len(bytes) = from
      BY <1>1, <1>3, <2>1
    <3> QED
      BY <1>1, <2>2, <3>1
  <2>4. cursor' = cursor
    BY <1>3, <2>3
  <2> QED
    BY <1>1, <1>2, <1>4, <2>4
<1>5. CASE bytes # <<>>
  <2> DEFINE to == from + Len(bytes)
  <2>1. to \in (from + 1)..Len(log)
    <3>1. Len(bytes) \in Nat \ {0}
      BY <1>5
    <3> HIDE DEF from
    <3> QED
      BY <1>1, <1>3, <3>1
  <2>2. /\ chunk' = [chunk EXCEPT ![s] = SubSeq(log, from + 1, to)]
        /\ cursor' = [cursor EXCEPT ![s] = to]
    <3> HIDE DEF from
    <3> QED
      BY <1>1, <1>5
  <2>3. from = IF cursor[s] < Log!Oldest THEN Log!Oldest ELSE cursor[s]
    BY DEF Log!Oldest
  <2> HIDE DEF from, to
  <2> QED
    BY <1>2, <2>1, <2>2, <2>3 DEF Log!Deliver
<1> QED
  BY <1>4, <1>5

\* The circular buffer with its overwritten bytes and lapped cursors is a log
\* that only grows, of which every stream sees its pieces in order: step by step.
THEOREM Refinement == Spec => ImplementsHistoryLog
<1>1. Init => Log!Init
  BY DEF Init, Log!Init
<1>2. IInv /\ [Next]_vars => [Log!Next]_(Log!vars)
  <2> SUFFICES ASSUME IInv, [Next]_vars
               PROVE  Log!Next \/ UNCHANGED <<log, cursor, chunk>>
    BY DEF Log!vars
  <2>1. CASE Initialize
    BY <2>1 DEF Initialize, ring
  <2>2. ASSUME NEW w \in Writer, LogHook(w) PROVE Log!Next
    BY <2>2, LogHookRefines DEF Log!Next
  <2>3. ASSUME NEW w \in Writer, NotifyGive(w) PROVE UNCHANGED <<log, cursor, chunk>>
    BY <2>3 DEF NotifyGive, ring
  <2>4. ASSUME NEW s \in Stream, Connect(s) PROVE UNCHANGED <<log, cursor, chunk>>
    BY <2>4 DEF Connect, ring
  <2>5. ASSUME NEW s \in Stream, Read(s) PROVE Log!Next \/ UNCHANGED <<log, cursor, chunk>>
    BY <2>5, ReadRefines DEF Log!Next
  <2>6. ASSUME NEW s \in Stream, Send(s) \/ Take(s) \/ TakeTimeout(s)
        PROVE  UNCHANGED <<log, cursor, chunk>>
    BY <2>6 DEF Send, Take, TakeTimeout, ring
  <2>7. ASSUME NEW s \in Stream, Disconnect(s) PROVE Log!Next
    BY <2>7 DEF Disconnect, ring, Log!Next, Log!Close
  <2>8. CASE UNCHANGED vars
    BY <2>8 DEF vars, ring
  <2> QED
    BY <2>1, <2>2, <2>3, <2>4, <2>5, <2>6, <2>7, <2>8 DEF Next, Handle
<1> QED
  BY <1>1, <1>2, Invariance, PTL DEF Spec, ImplementsHistoryLog, Log!Spec
=============================================================================
