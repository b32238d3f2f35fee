------------------------------ MODULE JsonText ------------------------------
(***************************************************************************)
(* What the stack_json library is about, independent of how it works: JSON *)
(* values as trees, the text of a tree, what lies at a path, and the tree  *)
(* that the nodes of a document describe.  The writer (JsonWriter) and the *)
(* parser (JsonParser) are compared with these definitions.                *)
(***************************************************************************)
EXTENDS JsonSymbols

-----------------------------------------------------------------------------
(* Trees. *)

Str(s) == [t |-> "str", s |-> s]
Lit(s) == [t |-> "lit", s |-> s]
Obj(members) == [t |-> "obj", m |-> members]      \* << <<key, tree>>, ... >>
Arr(elements) == [t |-> "arr", e |-> elements]

Null == <<"null">>

(* How a tree is laid out: what stands after "{", "," and before "}", what *)
(* surrounds ":", whether lines are broken, and what follows the last      *)
(* member or element.                                                      *)
PlainStyle == [pad |-> <<>>, gap |-> <<>>, before |-> <<>>, after |-> <<>>,
               lines |-> FALSE, indent |-> 0, trail |-> <<>>]
PrettyStyle(indent) == [PlainStyle EXCEPT !.after = <<" ">>, !.lines = TRUE,
                                          !.indent = indent]

Spaces(n) == [k \in 1..n |-> " "]
LineBreak(style, depth) ==
  IF style.lines THEN <<"\n">> \o Spaces(style.indent * depth) ELSE <<>>

Joined(parts, separator) ==
  FlattenSeq([k \in DOMAIN parts |-> IF k = 1 THEN parts[k] ELSE separator \o parts[k]])

Enclosed(open, parts, close, pad, style, depth) ==
  LET inner == pad \o LineBreak(style, depth + 1)
  IN  <<open>> \o inner \o Joined(parts, <<",">> \o inner)
      \o (IF parts = <<>> THEN <<>> ELSE style.trail)
      \o pad \o LineBreak(style, depth) \o <<close>>

RECURSIVE Text(_, _, _)
Text(tree, style, depth) ==
  CASE tree.t = "str" -> Quoted(tree.s)
    [] tree.t = "lit" -> tree.s
    [] tree.t = "obj" ->
         Enclosed("{",
                  [k \in DOMAIN tree.m |->
                     Quoted(tree.m[k][1]) \o style.before \o <<":">> \o style.after
                     \o Text(tree.m[k][2], style, depth + 1)],
                  "}", style.pad, style, depth)
    [] tree.t = "arr" ->
         Enclosed("[", [k \in DOMAIN tree.e |-> Text(tree.e[k], style, depth + 1)],
                  "]", style.gap, style, depth)

(* The values a text has at a path, in the order of the text. *)
RECURSIVE Found(_, _)
Found(tree, path) ==
  IF path = <<>> THEN <<tree>>
  ELSE IF tree.t # "obj" THEN <<>>
  ELSE FlattenSeq([k \in DOMAIN tree.m |->
                     IF tree.m[k][1] = Head(path) THEN Found(tree.m[k][2], Tail(path))
                     ELSE <<>>])

-----------------------------------------------------------------------------
(* Documents: a sequence of nodes, each with a path, a value and the flag  *)
(* of node_if.  Values are written by write_json_value.                    *)

Node(path, value) == [path |-> path, value |-> value, omitted |-> FALSE]
NodeIf(condition, path, value) == [path |-> path, value |-> value, omitted |-> ~condition]

Number(n) == [v |-> "number", n |-> n]
String(s) == [v |-> "string", s |-> s]
Literal(s) == [v |-> "literal", s |-> s]          \* true, false, null
Formatted(s) == [v |-> "formatted", s |-> s]      \* a double: the text of %g
Callback(prints) == [v |-> "callback", prints |-> prints]
Document(nodes) == [v |-> "document", nodes |-> nodes]
Array(items) == [v |-> "array", items |-> items]
Stream(items) == [v |-> "stream", items |-> items]

RECURSIVE Decimal(_)
Decimal(n) == IF n < 0 THEN <<"-">> \o Decimal(-n)
              ELSE IF n < 10 THEN <<Digit[n + 1]>>
              ELSE Append(Decimal(n \div 10), Digit[(n % 10) + 1])

RECURSIVE TreeOf(_, _), ValueTree(_)
ValueTree(value) ==
  CASE value.v = "number"    -> Lit(Decimal(value.n))
    [] value.v = "string"    -> Str(value.s)
    [] value.v = "literal"   -> Lit(value.s)
    [] value.v = "formatted" -> Lit(value.s)
    [] value.v = "callback"  -> Str(FlattenSeq(value.prints))
    [] value.v = "document"  -> TreeOf(value.nodes, 1)
    [] value.v \in {"array", "stream"} ->
         Arr([k \in DOMAIN value.items |-> ValueTree(value.items[k])])

(* Nodes whose paths begin with the same keys share an object, which stands *)
(* where the first of them stands; level is the key the object is made of.  *)
TreeOf(nodes, level) ==
  LET kept == SelectSeq(nodes, LAMBDA n : ~n.omitted)
      Key(k) == kept[k].path[level]
      Leaf(k) == Len(kept[k].path) = level
      starts == {k \in DOMAIN kept : Leaf(k) \/ \A j \in 1..(k - 1) : Key(j) # Key(k)}
      Member(k) == << Key(k),
                      IF Leaf(k) THEN ValueTree(kept[k].value)
                      ELSE TreeOf(SelectSeq(kept, LAMBDA n : n.path[level] = Key(k)), level + 1) >>
      chosen == SelectSeq([k \in DOMAIN kept |-> k], LAMBDA k : k \in starts)
  IN  Obj([k \in DOMAIN chosen |-> Member(chosen[k])])
=============================================================================
