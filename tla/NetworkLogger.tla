--------------------------- MODULE NetworkLogger ---------------------------
(***************************************************************************)
(* src/espbase/boot/network_logger.cpp over its CircularHistoryBuffer:     *)
(* log_hook, run by every task that logs, and stream_log_handler, run once *)
(* per connection.  A connection's handler runs in a task of its own, the  *)
(* one whose handle it registers.                                          *)
(*                                                                         *)
(* The code never looks at a byte, so a byte of text is modelled by its    *)
(* number in the order of logging: every byte is distinguishable.          *)
(***************************************************************************)
EXTENDS HistoryBuffer

CONSTANTS
  Writer,      \* the tasks that log
  Stream,      \* the connections, and their tasks
  HookBuf,     \* the bytes of log_hook's buffer (256)
  ChunkSize,   \* the bytes of a stream's buffer (512)
  MaxMsg,      \* bound: the length of a formatted message
  MaxLogged    \* bound: how many bytes are logged in all

ASSUME LoggerAssumption ==
  /\ {HookBuf, ChunkSize, MaxMsg, MaxLogged} \subseteq Nat \ {0}
  /\ NoTask \notin Stream

Nul == 0        \* the terminator vsnprintf writes
Garbage == -1   \* memory nobody has written

VARIABLES
  hooked,          \* log_hook is installed
  buffer_, total_written_, listeners_,
  to_notify,       \* per writer: its copy of listeners_, less those already notified
  pc,              \* where each connection's handler is
  cursor, chunk,   \* its locals
  notified,        \* its task's notification value, zero or not
  logged,          \* how many bytes of text have been formatted
  log              \* history: the bytes written to the buffer, in order

ring == <<buffer_, total_written_, log>>
vars == <<hooked, ring, listeners_, to_notify, pc, cursor, chunk, notified, logged>>

Init == /\ hooked = FALSE
        /\ buffer_ = [o \in Offset |-> Garbage]
        /\ total_written_ = 0
        /\ listeners_ = [i \in 1..MaxListeners |-> NoTask]
        /\ to_notify = [w \in Writer |-> [i \in 1..MaxListeners |-> NoTask]]
        /\ pc = [s \in Stream |-> "closed"]
        /\ cursor = [s \in Stream |-> 0]
        /\ chunk = [s \in Stream |-> <<>>]
        /\ notified = [s \in Stream |-> FALSE]
        /\ logged = 0
        /\ log = <<>>

-----------------------------------------------------------------------------
(* Logging *)

\* initialize_network_logger, when the allocation succeeds.
Initialize == /\ ~hooked
              /\ hooked' = TRUE
              /\ UNCHANGED <<ring, listeners_, to_notify, pc, cursor, chunk, notified, logged>>

\* What write(buf, len) finds at buf after vsnprintf(buf, HookBuf) has returned
\* len: the text if it fits, else a cut one, the terminator and what lies beyond.
Formatted(len) ==
  [i \in 1..len |-> IF len < HookBuf \/ i < HookBuf THEN logged + i
                    ELSE IF i = HookBuf THEN Nul ELSE Garbage]

\* The places whose tasks the writer has yet to notify.
ToGive(w) == {i \in 1..MaxListeners : to_notify[w][i] # NoTask}

\* log_hook, with the critical section of write.
LogHook(w) ==
  /\ hooked
  /\ ToGive(w) = {}
  /\ \E len \in 1..Least(MaxMsg, MaxLogged - logged) :
       LET d == Clip(Formatted(len))
       IN /\ buffer_' = WriteAt(buffer_, total_written_, d)
          /\ total_written_' = total_written_ + Len(d)
          /\ log' = log \o d
          /\ logged' = logged + len
  /\ to_notify' = [to_notify EXCEPT ![w] = ToNotify(listeners_)]
  /\ UNCHANGED <<hooked, listeners_, pc, cursor, chunk, notified>>

\* xTaskNotifyGive, outside the critical section.
NotifyGive(w) ==
  /\ ToGive(w) # {}
  /\ LET i == Min(ToGive(w))
     IN /\ notified' = [notified EXCEPT ![to_notify[w][i]] = TRUE]
        /\ to_notify' = [to_notify EXCEPT ![w][i] = NoTask]
  /\ UNCHANGED <<hooked, ring, listeners_, pc, cursor, chunk, logged>>

-----------------------------------------------------------------------------
(* stream_log_handler *)

Goto(s, l) == pc' = [pc EXCEPT ![s] = l]
Step(s, k, l) == pc[s] = k /\ Goto(s, l)

Connect(s) ==
  /\ Step(s, "closed", "read")
  /\ listeners_' = Registered(listeners_, s)
  /\ UNCHANGED <<hooked, ring, to_notify, cursor, chunk, notified, logged>>

\* read_next; with nothing to read the handler waits.
Read(s) ==
  /\ pc[s] = "read"
  /\ LET from  == Snap(cursor[s], total_written_)
         bytes == ReadAt(buffer_, total_written_, from, ChunkSize)
     IN /\ cursor' = [cursor EXCEPT ![s] = from + Len(bytes)]
        /\ chunk' = IF bytes = <<>> THEN chunk ELSE [chunk EXCEPT ![s] = bytes]
        /\ Goto(s, IF bytes = <<>> THEN "wait" ELSE "send")
  /\ UNCHANGED <<hooked, ring, listeners_, to_notify, notified, logged>>

\* Faulty variant: after a heartbeat the handler waits without reading.
SendThenWaits(s) ==
  /\ \/ pc[s] = "send" /\ Goto(s, "read")
     \/ pc[s] = "heartbeat" /\ Goto(s, "wait")
     \/ pc[s] \in {"send", "heartbeat"} /\ Goto(s, "remove")
  /\ UNCHANGED <<hooked, ring, listeners_, to_notify, cursor, chunk, notified, logged>>

\* Faulty variant: the handler returns when a heartbeat fails.
SendReturns(s) ==
  /\ \/ pc[s] \in {"send", "heartbeat"} /\ Goto(s, "read")
     \/ pc[s] = "send" /\ Goto(s, "remove")
     \/ pc[s] = "heartbeat" /\ Goto(s, "closed")
  /\ UNCHANGED <<hooked, ring, listeners_, to_notify, cursor, chunk, notified, logged>>

\* httpd_resp_send_chunk of the bytes, or of a heartbeat: the connection may
\* have dropped.
Send(s) ==
  /\ pc[s] \in {"send", "heartbeat"}
  /\ Goto(s, "read") \/ Goto(s, "remove")
  /\ UNCHANGED <<hooked, ring, listeners_, to_notify, cursor, chunk, notified, logged>>

\* ulTaskNotifyTake: woken by a writer, or after two seconds.
Take(s) ==
  /\ Step(s, "wait", "read")
  /\ notified[s]
  /\ notified' = [notified EXCEPT ![s] = FALSE]
  /\ UNCHANGED <<hooked, ring, listeners_, to_notify, cursor, chunk, logged>>

TakeTimeout(s) ==
  /\ Step(s, "wait", "heartbeat")
  /\ ~notified[s]
  /\ UNCHANGED <<hooked, ring, listeners_, to_notify, cursor, chunk, notified, logged>>

\* The handler returns; the next one's locals are as new.
Disconnect(s) ==
  /\ Step(s, "remove", "closed")
  /\ listeners_' = Removed(listeners_, s)
  /\ cursor' = [cursor EXCEPT ![s] = 0]
  /\ chunk' = [chunk EXCEPT ![s] = <<>>]
  /\ UNCHANGED <<hooked, ring, to_notify, notified, logged>>

Handle(s) == Read(s) \/ Send(s) \/ Take(s) \/ TakeTimeout(s) \/ Disconnect(s)

-----------------------------------------------------------------------------
Next == \/ Initialize
        \/ \E w \in Writer : LogHook(w) \/ NotifyGive(w)
        \/ \E s \in Stream : Connect(s) \/ Handle(s)

\* The tasks are scheduled, sends return, and the two seconds pass.
Fairness == /\ \A w \in Writer : WF_vars(NotifyGive(w))
            /\ \A s \in Stream : WF_vars(Handle(s))

Spec == Init /\ [][Next]_vars

FairSpec == Spec /\ Fairness

-----------------------------------------------------------------------------
Byte == (Nul..MaxLogged) \cup {Garbage}

\* The fields' ranges; a cursor is never ahead of the writer.
TypeOK ==
  /\ hooked \in BOOLEAN
  /\ buffer_ \in [Offset -> Byte]
  /\ total_written_ \in 0..MaxLogged
  /\ listeners_ \in [1..MaxListeners -> Stream \cup {NoTask}]
  /\ to_notify \in [Writer -> [1..MaxListeners -> Stream \cup {NoTask}]]
  /\ pc \in [Stream -> {"closed", "read", "send", "wait", "heartbeat", "remove"}]
  /\ cursor \in [Stream -> 0..total_written_]
  /\ \A s \in Stream : Len(chunk[s]) <= ChunkSize
  /\ notified \in [Stream -> BOOLEAN]
  /\ logged \in 0..MaxLogged
  /\ Len(log) = total_written_

Listed(s) == \E i \in 1..MaxListeners : listeners_[i] = s

Owes(w, s) == \E i \in 1..MaxListeners : to_notify[w][i] = s

\* A listed stream that waits although there is something to read has been
\* notified, or a writer is about to: it need not sleep out its two seconds.
NoLostWakeup ==
  \A s \in Stream :
    pc[s] = "wait" /\ Listed(s) /\ cursor[s] < total_written_
      => notified[s] \/ \E w \in Writer : Owes(w, s)

\* A handler that has returned leaves no entry in listeners_, whichever way its
\* loop ended and wherever the entry was; an open one has at most one.
PlacesReturn ==
  \A s \in Stream : /\ pc[s] = "closed" => ~Listed(s)
                    /\ \A i, j \in 1..MaxListeners : listeners_[i] = s /\ listeners_[j] = s => i = j

\* Every stream that stays connected reads to the end of the log, listed or not.
CatchesUp ==
  \A s \in Stream : pc[s] # "closed" ~> pc[s] = "closed" \/ cursor[s] = total_written_

Log == INSTANCE HistoryLog WITH Capacity <- size_, pos <- cursor, sent <- chunk

\* Streams deliver the log: in order, uncorrupted, skipping only what is lost.
ImplementsHistoryLog == Log!Spec
=============================================================================
