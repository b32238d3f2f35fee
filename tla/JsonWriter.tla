----------------------------- MODULE JsonWriter -----------------------------
(***************************************************************************)
(* Emitting a document: Builder::add, emit_json_nodes with its fast path   *)
(* and its recursive traversal (emit_level), and write_json_value for the  *)
(* kinds of values.  The C++ call stack is `calls', a stack of frames:     *)
(*   nodes   emit_json_nodes, all paths of one key                         *)
(*   level   emit_level for the object at `path'                           *)
(*   array   ArrayDocument, SpanArrayDocument                              *)
(*   stream  a callback that emits items to an ArrayEmitter                *)
(* One action is one node or item of the frame on top, or its end.  The    *)
(* address of a node is its place in the document, so that `emitted' holds *)
(* the emitted_ flags of all nodes, those of nested documents included.    *)
(***************************************************************************)
EXTENDS JsonBuffer

CONSTANT Values       \* the values of nodes and items, and those inside them

Nodes == [path : Seq(Strings) \ {<<>>}, value : Values, omitted : BOOLEAN]

(* No path ends where another goes on: a member is a value or an object    *)
(* that nodes share.  For a node that ends at the path of the running      *)
(* level, get_element(c_depth) would read past the elements of its path.   *)
Apart(nodes) ==
  \A n, m \in nodes : IsPrefix(n.path, m.path) => Len(m.path) = Len(n.path)

ASSUME ValuesAssumption ==
  \A value \in Values :
    \/ value.v = "number" /\ value.n \in Int
    \/ value.v \in {"string", "literal", "formatted"} /\ value.s \in Strings
    \/ value.v = "callback" /\ value.prints \in Seq(Strings)
    \/ value.v = "document" /\ value.nodes \in Seq(Nodes) /\ Apart(Range(value.nodes))
    \/ value.v \in {"array", "stream"} /\ value.items \in Seq(Values)

VARIABLES
  builder,      \* storage_ of the StackBuilder, up to count_
  out,          \* the buffer
  calls,        \* the frames, the running one last
  emitted       \* the addresses of the nodes whose emitted_ is set

writerVars == <<builder, out, calls, emitted>>

(* Document::append_pointers_to: what the storage has no room for is dropped. *)
Add(room, nodes) ==
  builder' = builder \o SubSeq(nodes, 1, IF Len(nodes) < room - Len(builder)
                                           THEN Len(nodes) ELSE room - Len(builder))

-----------------------------------------------------------------------------
(* Beginning a value.  The result is the buffer, the frames to push, and    *)
(* the emitted flags that emit_json_nodes resets.                          *)

Begun(b, frames, reset) == [buf |-> b, frames |-> frames, reset |-> reset]

Frame(fn, list, path, address) ==
  [fn |-> fn, list |-> list, at |-> 1, first |-> TRUE, path |-> path, address |-> address]

Nested(nodes) == \E k \in DOMAIN nodes : Len(nodes[k].path) > 1

Entered(written, frame, reset) ==
  Begun(written.buf, IF written.ok THEN <<frame>> ELSE <<>>, reset)

ObjectFrame(nodes, address) ==
  Frame(IF Nested(nodes) THEN "level" ELSE "nodes", nodes, <<>>, address)

(* Faulty variant: the flags of an earlier emission are not reset. *)
EmitJsonNodesStale(b, nodes, address) ==
  IF nodes = <<>> THEN Begun(Write(b, <<"{", "}">>).buf, <<>>, {})
  ELSE Entered(Write(b, <<"{">>), ObjectFrame(nodes, address), {})

EmitJsonNodes(b, nodes, address) ==
  IF nodes = <<>> THEN Begun(Write(b, <<"{", "}">>).buf, <<>>, {})
  ELSE Entered(Write(b, <<"{">>), ObjectFrame(nodes, address),
               {Append(address, k) : k \in {k \in DOMAIN nodes : Nested(nodes)}})

WriteCallback(b, prints) ==
  LET open == Write(b, <<Quote>>).buf
      printed == FoldLeft(LAMBDA buf, s : VPrint(buf, TRUE, s), open, prints)
  IN  Write(printed, <<Quote>>).buf

(* write_json_value; an array's "[" is written with its result ignored. *)
WriteJsonValue(b, value, address) ==
  CASE value.v = "number"    -> Begun(WriteNumber(b, value.n), <<>>, {})
    [] value.v = "string"    -> Begun(WriteEscaped(b, value.s).buf, <<>>, {})
    [] value.v = "literal"   -> Begun(Write(b, value.s).buf, <<>>, {})
    [] value.v = "formatted" -> Begun(VPrint(b, FALSE, value.s), <<>>, {})
    [] value.v = "callback"  -> Begun(WriteCallback(b, value.prints), <<>>, {})
    [] value.v = "document"  -> EmitJsonNodes(b, value.nodes, address)
    [] value.v \in {"array", "stream"} ->
         Begun(Write(b, <<"[">>).buf, <<Frame(value.v, value.items, <<>>, address)>>, {})

-----------------------------------------------------------------------------
(* The frame on top. *)

Running(fn) == calls # <<>> /\ Last(calls).fn = fn
Top == Last(calls)
Under == Front(calls)
Item == Top.list[Top.at]
AtEnd == Top.at > Len(Top.list)
Here == Append(Top.address, Top.at)
Advanced == [Top EXCEPT !.at = @ + 1, !.first = FALSE]

(* The text before a value: the comma, the key, the colon. *)
Comma == IF Top.first THEN <<>> ELSE << <<",">> >>
WriteKey(b, key) ==
  Then(Then(WriteAll(b, Comma), LAMBDA buf : WriteEscaped(buf, key)),
       LAMBDA buf : Write(buf, <<":">>))

Continue(begun, marked) ==
  /\ out' = begun.buf
  /\ calls' = Under \o <<Advanced>> \o begun.frames
  /\ emitted' = (emitted \cup marked) \ begun.reset

(* `return 0' of emit_json_nodes, which its callers do not look at. *)
GiveUp(b, rest) ==
  /\ out' = b
  /\ calls' = rest
  /\ UNCHANGED emitted

SkipNode ==
  /\ calls' = Under \o <<[Top EXCEPT !.at = @ + 1]>>
  /\ UNCHANGED <<out, emitted>>

(* The loop of the fast path.  It does not look at emitted_. *)
FastNode ==
  /\ Running("nodes") /\ ~AtEnd
  /\ UNCHANGED builder
  /\ \/ Item.omitted /\ SkipNode
     \/ /\ ~Item.omitted
        /\ \E head \in {WriteKey(out, Item.path[1])} :
             \/ /\ head.ok
                /\ Continue(WriteJsonValue(head.buf, Item.value, Here), {Here})
             \/ ~head.ok /\ GiveUp(head.buf, Under)

FastEnd ==
  /\ Running("nodes") /\ AtEnd
  /\ GiveUp(Write(out, <<"}">>).buf, Under)
  /\ UNCHANGED builder

(* `return false' of emit_level: up to and with the level of the root. *)
Unwound ==
  LET roots == {k \in DOMAIN calls : calls[k].fn = "level" /\ calls[k].path = <<>>}
  IN  SubSeq(calls, 1, Max(roots) - 1)

Depth == Len(Top.path)

PassedOver(n) ==
  Here \in emitted \/ n.omitted \/ (Depth > 0 /\ ~IsPrefix(Top.path, n.path))

LevelNode ==
  LET leaf == Len(Item.path) = Depth + 1
      inner == Frame("level", Top.list, SubSeq(Item.path, 1, Depth + 1), Top.address)
      Opened(written) == IF leaf THEN written ELSE Then(written, LAMBDA b : Write(b, <<"{">>))
  IN  /\ Running("level") /\ ~AtEnd
      /\ UNCHANGED builder
      /\ \/ PassedOver(Item) /\ SkipNode
         \/ /\ ~PassedOver(Item)
            /\ \E head \in {Opened(WriteKey(out, Item.path[Depth + 1]))} :
                 \/ /\ head.ok /\ leaf
                    /\ Continue(WriteJsonValue(head.buf, Item.value, Here), {Here})
                 \/ /\ head.ok /\ ~leaf
                    /\ Continue(Begun(head.buf, <<inner>>, {}), {})
                 \/ ~head.ok /\ GiveUp(head.buf, Unwound)

LevelEnd ==
  /\ Running("level") /\ AtEnd
  /\ \E close \in {Write(out, <<"}">>)} :
       GiveUp(close.buf, IF close.ok THEN Under ELSE Unwound)
  /\ UNCHANGED builder

(* ArrayDocument: results ignored throughout. *)
ArrayItem ==
  /\ Running("array") /\ ~AtEnd
  /\ Continue(WriteJsonValue(WriteAll(out, Comma).buf, Item, Here), {})
  /\ UNCHANGED builder

(* A callback that leaves its loop when emit() returns false; emit() looks *)
(* at bad() before the comma and, for the next item, after the value.      *)
StreamItem ==
  LET left == Under \o <<[Top EXCEPT !.at = Len(Top.list) + 1]>>
  IN  /\ Running("stream") /\ ~AtEnd
      /\ UNCHANGED builder
      /\ \E comma \in {IF Bad(out) THEN Failed(out) ELSE WriteAll(out, Comma)} :
           \/ comma.ok /\ Continue(WriteJsonValue(comma.buf, Item, Here), {})
           \/ ~comma.ok /\ GiveUp(comma.buf, left)

ArrayEnd ==
  /\ Running("array") \/ Running("stream")
  /\ AtEnd
  /\ GiveUp(Write(out, <<"]">>).buf, Under)
  /\ UNCHANGED builder

WriterStep ==
  FastNode \/ FastEnd \/ LevelNode \/ LevelEnd \/ ArrayItem \/ StreamItem \/ ArrayEnd

(* Builder::emit, or Document::emit, to the buffer b. *)
StartEmit(b) ==
  /\ \E begun \in {EmitJsonNodes(b, builder, <<>>)} :
       /\ out' = begun.buf
       /\ calls' = begun.frames
       /\ emitted' = emitted \ begun.reset
  /\ UNCHANGED builder
=============================================================================
