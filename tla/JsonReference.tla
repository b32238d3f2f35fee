---------------------------- MODULE JsonReference ----------------------------
(***************************************************************************)
(* What the jobs of Json write and read, compared with the definitions of  *)
(* JsonText, which do not know how the library works.                      *)
(***************************************************************************)
EXTENDS Json, JsonText

ReferenceText ==
  Text(job.tree, IF out.pretty.on THEN PrettyStyle(out.pretty.indent) ELSE PlainStyle, 0)

(* An emission that leaves no bad flag set has written the text of the     *)
(* document, the first time and every time: with the fast path or the      *)
(* traversal, merged paths, omitted nodes, strings escaped in the span or  *)
(* piece by piece, plain or pretty (emit_json_nodes, write_escaped,        *)
(* vprint, PrettyBuffer::write).                                           *)
WritesReference == EmissionOver /\ ~Incomplete => out.text = ReferenceText

(* A bad flag is set only when the text does not fit: a StackBuffer whose  *)
(* size is exactly the length of the text is enough, and a DynamicBuffer   *)
(* whose watermark holds every formatted piece never fails.                *)
OverflowJustified ==
  EmissionOver /\ Incomplete => out.expand = 0 /\ out.size < Len(ReferenceText)

-----------------------------------------------------------------------------
(* What a parse is compared with. *)

RECURSIVE KeysWithin(_)
KeysWithin(tree) ==
  CASE tree.t = "obj" -> UNION {{tree.m[k][1]} \cup KeysWithin(tree.m[k][2]) : k \in DOMAIN tree.m}
    [] tree.t = "arr" -> UNION {KeysWithin(tree.e[k]) : k \in DOMAIN tree.e}
    [] OTHER -> {}

RECURSIVE KeysInArrays(_)
KeysInArrays(tree) ==
  CASE tree.t = "obj" -> UNION {KeysInArrays(tree.m[k][2]) : k \in DOMAIN tree.m}
    [] tree.t = "arr" -> KeysWithin(tree)
    [] OTHER -> {}

Parsed == Found(job.tree, scan.root)[1]
ValuesAt(path) == Found(Parsed, path)

(* The texts the bindings are meant for: an object at every proper prefix  *)
(* of a bound path, once; different paths; objects in arrays only below    *)
(* the members of the outermost object, under keys that no binding begins  *)
(* with; no empty string in an array that is read element by element; and  *)
(* a span, which each value cuts down, given one value.                    *)
Regular ==
  /\ Parsed.t = "obj"
  /\ \A n \in DOMAIN scan.nodes :
       LET path == scan.nodes[n].path
       IN  /\ \A k \in 1..(Len(path) - 1) :
                LET values == ValuesAt(SubSeq(path, 1, k))
                IN  Len(values) <= 1 /\ \A j \in DOMAIN values : values[j].t = "obj"
           /\ \A m \in DOMAIN scan.nodes : m # n => scan.nodes[m].path # path
           /\ scan.nodes[n].kind = "span" => Len(ValuesAt(path)) <= 1
           /\ path # <<>> => path[1] \notin KeysInArrays(Parsed)
           /\ CatchAll(scan.nodes[n]) => KeysInArrays(Parsed) = {}
           /\ \A k \in DOMAIN ValuesAt(path) :
                ValuesAt(path)[k].t = "arr" =>
                  \A j \in DOMAIN ValuesAt(path)[k].e : ValuesAt(path)[k].e[j] \notin {Str(<<>>), Str(Null)}
  /\ \A k \in DOMAIN Parsed.m :
       Parsed.m[k][2].t = "obj" => KeysInArrays(Parsed.m[k][2]) = {}

(* What a variable holds after it was bound to the value t. *)
Holds(n, b, t) ==
  CASE t = Lit(Null) -> b.null /\ b.value = (IF n.kind = "int" THEN 0
                                             ELSE IF n.kind = "bool" THEN FALSE ELSE <<>>)
    [] t.t = "arr" \/ t.t = "obj" -> TRUE
    [] OTHER ->
         CASE n.kind = "string" -> b.value = t.s
           [] n.kind = "span"   -> b.value = SubSeq(t.s, 1, IF Len(t.s) < n.room
                                                              THEN Len(t.s) ELSE n.room)
           [] n.kind = "view"   -> b.value = Escaped(t.s)
           [] n.kind = "int"    -> Decimal(b.value) = t.s
           [] n.kind = "bool"   -> b.value = (t.s \in {<<"true">>, <<"1">>})

Element(t) == IF t = Lit(Null) THEN <<>> ELSE t.s

(* What reading a dynamic node in a loop yields. *)
Yields(taken, t) ==
  CASE t.t = "arr" -> /\ Len(taken) = Len(t.e)
                      /\ \A k \in DOMAIN t.e : t.e[k].t \in {"str", "lit"} => taken[k] = Element(t.e[k])
    [] t.t = "obj" -> Len(taken) = 1
    [] OTHER -> taken = <<Element(t)>>

(* Whether the text has an object above a path. *)
HasParent(path) == \E k \in 1..(Len(path) - 1) : ValuesAt(SubSeq(path, 1, k)) # <<>>

RootKeys == [k \in DOMAIN Parsed.m |-> <<Parsed.m[k][1]>>]
BoundPaths == {scan.nodes[n].path : n \in DOMAIN scan.nodes}

(* After the parse of a whole text every binding whose path the text has   *)
(* holds the last value there, decoded; reading a dynamic node yields the  *)
(* elements of its array in order; and a lone catch-all is called once for *)
(* each outermost member nobody is bound to, in order.  Comments, blanks,  *)
(* trailing commas and repeated keys change nothing, and a document comes  *)
(* back as it was written.  A binding whose path the text does not have    *)
(* stays unset unless the text has an object above it: that object is then *)
(* what it is set to (parse_json_nodes, operator>>; parser.cpp:366-369).   *)
ReadsReference ==
  ExtractionOver /\ job.whole /\ Regular =>
    \A n \in DOMAIN bound :
      IF CatchAll(scan.nodes[n])
        THEN Len(scan.stack) = 1 =>
               [k \in DOMAIN bound[n].seen |-> bound[n].seen[k][1]]
                 = SelectSeq(RootKeys, LAMBDA p : p \notin BoundPaths)
        ELSE LET values == ValuesAt(scan.nodes[n].path)
             IN  IF values = <<>> THEN bound[n].set = HasParent(scan.nodes[n].path)
                 ELSE /\ bound[n].set
                      /\ IF Dynamic(scan.nodes[n]) THEN Yields(bound[n].taken, Last(values))
                         ELSE Holds(scan.nodes[n], bound[n], Last(values))
=============================================================================
