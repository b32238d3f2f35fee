----------------------------- MODULE JsonBuffer -----------------------------
(***************************************************************************)
(* The buffers documents are written to: StackBuffer (a fixed size, sticky *)
(* failure), DynamicBuffer (grows, and keeps ExpandSize bytes free for     *)
(* what is formatted in place) and the PrettyBuffer decorator, which lays  *)
(* out what is written through it.  A buffer is a record                   *)
(*   text    what has been written, up to head_                            *)
(*   size    MaxSize, or the size of the dynamic container                 *)
(*   expand  ExpandSize; 0 for a StackBuffer                               *)
(*   bad     bad_ of the buffer                                            *)
(*   pretty  the decorator: on (is there one), its own bad_, in_string_,   *)
(*           escape_next_, depth_ and indent_size_                         *)
(* and a call that writes returns [buf, ok]: the buffer after it and       *)
(* whether the number of bytes it returns is not zero.                     *)
(***************************************************************************)
EXTENDS JsonSymbols

NoDecorator == [on |-> FALSE, bad |-> FALSE, in_string |-> FALSE,
                escape_next |-> FALSE, depth |-> 0, indent |-> 0]
Decorator(indent) == [NoDecorator EXCEPT !.on = TRUE, !.indent = indent]

StackBuffer(max) == [text |-> <<>>, size |-> max, expand |-> 0, bad |-> FALSE,
                     pretty |-> NoDecorator]
DynamicBuffer(expand) == [StackBuffer(expand) EXCEPT !.expand = expand]
Pretty(buffer, indent) == [buffer EXCEPT !.pretty = Decorator(indent)]

(* What a job emits to: nothing has been written yet. *)
Fresh(b) ==
  /\ b = [text |-> <<>>, size |-> b.size, expand |-> b.expand, bad |-> FALSE, pretty |-> b.pretty]
  /\ b.size \in Nat /\ b.expand \in Nat /\ b.pretty.indent \in Nat
  /\ b.pretty \in {NoDecorator, Decorator(b.pretty.indent)}

(* reset(): the dynamic container keeps its size.  A decorator is made anew. *)
Reset(b) == [b EXCEPT !.text = <<>>, !.bad = FALSE,
                      !.pretty = IF @.on THEN Decorator(@.indent) ELSE NoDecorator]

(* bad() and fail() of the object the caller writes to: the decorator has  *)
(* a flag of its own, which a failure of the buffer under it does not set. *)
Bad(b) == IF b.pretty.on THEN b.pretty.bad ELSE b.bad
Fail(b) == IF b.pretty.on THEN [b EXCEPT !.pretty.bad = TRUE] ELSE [b EXCEPT !.bad = TRUE]

Failed(b) == [buf |-> b, ok |-> FALSE]
Done(b) == [buf |-> b, ok |-> TRUE]

-----------------------------------------------------------------------------
(* Writing to the buffer itself. *)

(* Faulty variant: a text that fits exactly is turned away. *)
DestWriteOneLess(b, s) ==
  IF b.expand = 0 /\ Len(b.text) + Len(s) >= b.size
    THEN Failed([b EXCEPT !.bad = TRUE])
    ELSE Done([b EXCEPT !.text = @ \o s])

DestWrite(b, s) ==
  LET needed == Len(b.text) + Len(s)
  IN  IF b.expand = 0 /\ needed > b.size THEN Failed([b EXCEPT !.bad = TRUE])
      ELSE [buf |-> [b EXCEPT !.text = @ \o s,
                              !.size = IF needed > @ THEN needed + b.expand ELSE @],
            ok |-> s # <<>>]

(* get_write_span(): the buffer, grown to its watermark, and the free bytes. *)
WithSpan(b) ==
  IF b.size - Len(b.text) < b.expand THEN [b EXCEPT !.size = Len(b.text) + b.expand] ELSE b
SpanSize(b) == b.size - Len(b.text)
Commit(b, s) == [b EXCEPT !.text = @ \o s]

-----------------------------------------------------------------------------
(* PrettyBuffer::write: one symbol after the other.  Structure is written  *)
(* piece by piece with the results ignored; what stands between is         *)
(* collected and flushed, and a flush that fails ends the call.            *)

WriteEach(b, pieces) == FoldLeft(LAMBDA buf, s : DestWrite(buf, s).buf, b, pieces)
WriteIndent(b) == WriteEach(b, [k \in 1..(b.pretty.depth * b.pretty.indent) |-> <<" ">>])

Structural == {"{", "[", "}", "]", ",", ":", Quote}

WriteStructure(b, c) ==
  CASE c = Quote -> WriteEach([b EXCEPT !.pretty.in_string = TRUE], << <<Quote>> >>)
    [] c \in {"{", "["} ->
         WriteIndent([WriteEach(b, << <<c, "\n">> >>) EXCEPT !.pretty.depth = @ + 1])
    [] c \in {"}", "]"} ->
         LET out == [WriteEach(b, << <<"\n">> >>) EXCEPT
                       !.pretty.depth = IF @ > 0 THEN @ - 1 ELSE @]
         IN  WriteEach(WriteIndent(out), << <<c>> >>)
    [] c = "," -> WriteIndent(WriteEach(b, << <<",", "\n">> >>))
    [] c = ":" -> WriteEach(b, << <<":", " ">> >>)

(* The state machine that finds the end of a string. *)
InString(b, c) ==
  [b EXCEPT !.pretty.escape_next = ~@ /\ c = Backslash,
            !.pretty.in_string = b.pretty.escape_next \/ c # Quote]

Flushed(acc) ==
  LET Emptied(written) == [buf |-> written.buf, run |-> <<>>, ok |-> written.ok]
  IN  IF acc.run = <<>> \/ ~acc.ok THEN acc ELSE Emptied(DestWrite(acc.buf, acc.run))

PrettySymbol(acc, c) ==
  LET Structure(flushed) ==
        IF flushed.ok THEN [flushed EXCEPT !.buf = WriteStructure(@, c)] ELSE flushed
  IN  CASE ~acc.ok -> acc
        [] acc.ok /\ acc.buf.pretty.in_string ->
             [acc EXCEPT !.buf = InString(@, c), !.run = Append(@, c)]
        [] acc.ok /\ ~acc.buf.pretty.in_string /\ c \notin Structural ->
             [acc EXCEPT !.run = Append(@, c)]
        [] OTHER -> Structure(Flushed(acc))

PrettyWrite(b, s) ==
  LET Counted(acc) == [buf |-> acc.buf, ok |-> acc.ok /\ Len(acc.buf.text) > Len(b.text)]
  IN  Counted(Flushed(FoldLeft(PrettySymbol, [buf |-> b, run |-> <<>>, ok |-> TRUE], s)))

Write(b, s) == IF b.pretty.on THEN PrettyWrite(b, s) ELSE DestWrite(b, s)

(* Writes in a row, ended by the first that returns 0. *)
Then(written, Op(_)) == IF written.ok THEN Op(written.buf) ELSE written
WriteAll(b, pieces) ==
  FoldLeft(LAMBDA acc, s : Then(acc, LAMBDA buf : Write(buf, s)), Done(b), pieces)

-----------------------------------------------------------------------------
(* Buffer::write_escaped. *)

(* A string as the runs of plain symbols and the escapes between them. *)
Runs(s) ==
  LET Add(acc, c) == IF NeedsEscape(c)
                       THEN [run |-> <<>>,
                             out |-> acc.out \o (IF acc.run = <<>> THEN <<>> ELSE <<acc.run>>)
                                     \o << EscapeOf(c) >>]
                       ELSE [acc EXCEPT !.run = Append(@, c)]
      all == FoldLeft(Add, [run |-> <<>>, out |-> <<>>], s)
  IN  IF all.run = <<>> THEN all.out ELSE Append(all.out, all.run)

WriteEscaped(b, s) ==
  LET plain == \A k \in DOMAIN s : ~NeedsEscape(s[k])
      span  == IF plain THEN WithSpan(b) ELSE b
  IN  IF Bad(b) THEN Failed(b)
      ELSE IF plain /\ Len(s) + 2 <= SpanSize(span)
        THEN Done(Commit(span, <<Quote>> \o s \o <<Quote>>))
      ELSE WriteAll(span, << <<Quote>> >> \o Runs(s) \o << <<Quote>> >>)

-----------------------------------------------------------------------------
(* Numbers and formatted text go straight into the span. *)

NumDigits(n) == 1 + Cardinality({k \in 1..9 : n >= 10 ^ k})

(* The digits are produced from the last to the first; len places are     *)
(* committed, whatever the loop has filled.                               *)
WriteNumber(b, n) ==
  LET span == WithSpan(b)
      uval == IF n < 0 THEN -n ELSE n
      digits == NumDigits(uval)
      places == [k \in 1..digits |-> Digit[((uval \div (10 ^ (digits - k))) % 10) + 1]]
      len == digits + (IF n < 0 THEN 1 ELSE 0)
  IN  IF Bad(b) THEN b
      ELSE IF len > SpanSize(span) THEN Fail(span)
      ELSE Commit(span, (IF n < 0 THEN <<"-">> ELSE <<>>) \o places)

(* Printer::vprint's expansion: the formatted text s stands at the start of *)
(* the span and is escaped in place, from its end to its start.             *)
Spread(s, extra) ==
  LET Place(acc, from) ==
        LET e == EscapeSymbol(acc.span[from])
        IN  [span |-> [k \in DOMAIN acc.span |->
                         IF k > acc.to - Len(e) /\ k <= acc.to
                           THEN e[k - (acc.to - Len(e))] ELSE acc.span[k]],
             to |-> acc.to - Len(e)]
      start == [span |-> [k \in 1..(Len(s) + extra) |->
                            IF k <= Len(s) THEN s[k] ELSE " "],
                to |-> Len(s) + extra]
  IN  FoldLeft(Place, start, [k \in DOMAIN s |-> Len(s) + 1 - k]).span

Extra(s) == FoldLeft(LAMBDA sum, c : sum + Len(EscapeSymbol(c)) - 1, 0, s)

(* vsnprintf needs a place for its terminator: a text that would fill the  *)
(* span exactly is an overflow.                                            *)
VPrint(b, escaped, s) ==
  LET span == WithSpan(b)
      extra == IF escaped THEN Extra(s) ELSE 0
  IN  IF Bad(b) THEN b
      ELSE IF SpanSize(span) = 0 \/ Len(s) >= SpanSize(span) THEN Fail(span)
      ELSE IF Len(s) + extra > SpanSize(span) THEN Fail(span)
      ELSE Commit(span, IF escaped THEN Spread(s, extra) ELSE s)
=============================================================================
