--------------------------- MODULE HistoryBuffer ---------------------------
(***************************************************************************)
(* CircularHistoryBuffer of src/espbase/circular_history_buffer.{hpp,cpp}: *)
(* what its operations do inside their critical sections, as operators on  *)
(* its fields.  Offsets into buffer_ count from 0, sequences from 1.       *)
(***************************************************************************)
EXTENDS Integers, Sequences, SequencesExt

CONSTANTS size_,          \* the bytes the buffer holds
          MaxListeners,   \* the length of listeners_
          NoTask          \* nullptr

ASSUME BufferAssumption == size_ \in Nat \ {0} /\ MaxListeners \in Nat \ {0}

Offset == 0..(size_ - 1)
Least(a, b) == IF a < b THEN a ELSE b

\* write keeps the end of what is longer than the buffer.
Clip(data) == IF Len(data) > size_ THEN SubSeq(data, Len(data) - size_ + 1, Len(data)) ELSE data

\* Faulty variant: what does not fit before the end is not wrapped.
WriteAtTruncates(buffer, total, d) ==
  LET offset == total % size_
      first  == Least(Len(d), size_ - offset)
  IN [o \in Offset |-> IF o >= offset /\ o < offset + first THEN d[o - offset + 1] ELSE buffer[o]]

\* The one or two memcpy of write.
WriteAt(buffer, total, d) ==
  LET offset == total % size_
      first  == Least(Len(d), size_ - offset)
  IN [o \in Offset |->
        IF o >= offset /\ o < offset + first THEN d[o - offset + 1]
        ELSE IF o < Len(d) - first THEN d[first + o + 1] ELSE buffer[o]]

\* read_next's cursor: a new reader starts at the oldest byte, and one the writer
\* has lapped continues there.
Snap(cursor, total) ==
  LET oldest == IF total > size_ THEN total - size_ ELSE 0
  IN IF cursor = 0 \/ cursor < oldest THEN oldest ELSE cursor

\* Faulty variant: all there is, whatever the room.
ReadAtLongChunk(buffer, total, cursor, max_len) ==
  [i \in 1..(total - cursor) |-> buffer[(cursor + i - 1) % size_]]

\* The one or two memcpy of read_next, of what there is and max_len allows.
ReadAt(buffer, total, cursor, max_len) ==
  LET offset == cursor % size_
      until_wrap == size_ - offset
  IN [i \in 1..Least(total - cursor, max_len) |->
        IF i <= until_wrap THEN buffer[offset + i - 1] ELSE buffer[i - until_wrap - 1]]

\* register_listener: the first free place, if there is one.
Registered(listeners, task) ==
  LET free == {i \in 1..MaxListeners : listeners[i] = NoTask}
  IN IF free = {} THEN listeners ELSE [listeners EXCEPT ![Min(free)] = task]

\* remove_listener: every place that holds the task.
Removed(listeners, task) ==
  [i \in 1..MaxListeners |-> IF listeners[i] = task THEN NoTask ELSE listeners[i]]

\* Faulty variant: the last place is left out.
ToNotifyButLast(listeners) == [listeners EXCEPT ![MaxListeners] = NoTask]

\* write's copy of listeners_, for the notifications after the critical section.
ToNotify(listeners) == [i \in 1..MaxListeners |-> listeners[i]]
=============================================================================
