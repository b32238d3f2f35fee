------------------------------- MODULE MCJson -------------------------------
(* Documents, texts and bindings for TLC. *)
EXTENDS JsonReference

a == <<"a">>
b == <<"b">>
c == <<"c">>
d == <<"d">>
One == <<"1">>
True == <<"true">>
Braces == <<"}", Quote, "{">>
Degree == <<"2", "194", "176">>

-----------------------------------------------------------------------------
(* Documents, as the parts that are added to a builder, and the bindings   *)
(* their text is read with.                                                *)

Part(nodes, binds) == [nodes |-> nodes, binds |-> binds]

Documents == {
  Part(<< <<>> >>, <<>>),
  \* one key per node, strings with and without escapes, an omitted node
  Part(<< <<Node(<<a>>, Number(-10)), NodeIf(FALSE, <<c>>, Literal(Null)),
            Node(<<b>>, String(Braces))>>,
          <<Node(<<d>>, Literal(True)), Node(<< <<Quote>> >>, String(<<>>))>> >>,
       <<Bind(<<a>>, "int"), Bind(<<b>>, "string"), Bind(<<d>>, "bool"), Bind(<<c>>, "int")>>),
  \* paths that merge, from two parts
  Part(<< <<Node(<<a, b>>, Number(9)), Node(<<c>>, Literal(Null))>>,
          <<Node(<<a, d, b>>, String(Degree)), NodeIf(FALSE, <<b, b>>, Number(1)),
            Node(<<a, d, c>>, Formatted(<<"1", ".", "5">>))>> >>,
       <<Bind(<<a, d, b>>, "string"), Bind(<<a, b>>, "int"), Bind(<<c>>, "string")>>),
  \* arrays, streamed and not, of scalars and documents
  Part(<< <<Node(<<a>>, Array(<<Number(100), String(Braces), Document(<<Node(<<b>>, Number(1))>>)>>)),
            Node(<<c>>, Stream(<<Document(<<Node(<<d>>, Literal(True))>>), String(<<"x", "\t">>)>>))>> >>,
       <<Bind(<<a>>, "dynamic"), Bind(<<c>>, "dynamic")>>),
  \* printed strings, escaped in place
  Part(<< <<Node(<<a>>, Callback(<< <<"x", "ctl", "\n">>, <<Quote, Backslash>> >>)),
            Node(<<b>>, Formatted(<<"1", ".", "5">>))>> >>,
       <<Bind(<<a>>, "string"), Bind(<<b>>, "view")>>),
  \* nested documents, one of them with merging paths
  Part(<< <<Node(<<a>>, Document(<<Node(<<b, c>>, String(a)), Node(<<d>>, Array(<<>>)),
                                   Node(<<b, d>>, Document(<<>>))>>)),
            Node(<<b>>, Array(<<Array(<<Number(0)>>), Array(<<Number(999)>>)>>))>> >>,
       <<Bind(<<a>>, "dynamic"), Bind(<<a, b, c>>, "string"), Bind(<<b>>, "dynamic")>>) }

Written(part, room) ==
  LET all == FlattenSeq(part.nodes)
  IN  TreeOf(SubSeq(all, 1, IF Len(all) < room THEN Len(all) ELSE room), 1)

Emission(part, room, buffer, emits) ==
  [docs |-> part.nodes, room |-> room, buffer |-> buffer, emits |-> emits,
   text |-> <<>>, whole |-> TRUE, tree |-> Written(part, room),
   nodes |-> part.binds, sub |-> <<>>]

(* Every size up to one that is enough for the longest text. *)
Sizes == 0..165
PlainSizes == 0..60
Watermark == 12

Emissions ==
  {Emission(part, 8, StackBuffer(size), 2) : part \in Documents, size \in PlainSizes}
    \cup {Emission(part, 8, Pretty(StackBuffer(size), 2), 1) : part \in Documents, size \in Sizes}
    \cup {Emission(part, room, DynamicBuffer(Watermark), 2) : part \in Documents, room \in {1, 8}}
    \cup {Emission(part, 8, Pretty(DynamicBuffer(Watermark), 1), 2) : part \in Documents}

-----------------------------------------------------------------------------
(* Texts. *)

Spaced == [PlainStyle EXCEPT !.pad = <<"\n">>, !.gap = <<" ">>, !.before = <<" ">>,
                             !.after = <<" ">>]
Commented == [PlainStyle EXCEPT !.pad = <<" ", "/", "/", "c", "\n">>, !.trail = <<",", " ">>,
                                !.before = <<"/", "*", "c", "*", "/", " ">>,
                                !.after = <<" ", "/", "*", "*", "/">>]
Styles == {PlainStyle, PrettyStyle(1), Spaced, Commented}

Trees == {
  Obj(<< <<a, Lit(One)>>, <<b, Str(<<"1", "0">>)>>, <<a, Lit(<<"-", "7">>)>>, <<c, Lit(Null)>> >>),
  Obj(<< <<a, Obj(<< <<b, Str(Braces)>>, <<c, Obj(<< <<a, Lit(True)>>, <<d, Str(Degree)>> >>)>> >>)>>,
         <<b, Arr(<<Str(<<"]", Backslash>>), Lit(One), Lit(Null)>>)>>,
         <<d, Obj(<<>>)>> >>),
  Obj(<< <<d, Arr(<<Obj(<< <<b, Lit(One)>> >>), Obj(<< <<c, Str(Braces)>> >>)>>)>>,
         <<a, Str(<<"ctl", "\n", "x">>)>> >>),
  \* an object without the member a binding asks for
  Obj(<< <<c, Lit(One)>>, <<a, Obj(<< <<d, Lit(One)>> >>)>> >>),
  \* not regular: objects in the array of an inner object
  Obj(<< <<a, Obj(<< <<b, Arr(<<Obj(<< <<c, Lit(One)>> >>)>>)>>, <<d, Lit(One)>> >>)>> >>) }

Bindings == {
  << <<Bind(<<a>>, "int"), Bind(<<b>>, "int"), Bind(<<c>>, "string"), Bind(<<d>>, "dynamic")>>, <<>> >>,
  << <<Bind(<<a>>, "dynamic"), Bind(<<a, b>>, "string"), Bind(<<a, c, d>>, "view"),
       Bind(<<d>>, "dynamic")>>,
     <<Bind(<<b>>, "view"), Bind(<<c, a>>, "bool"), BindSpan(<<c, d>>, 2)>> >>,
  << <<Bind(<<d>>, "dynamic"), BindSpan(<<a>>, 2)>>, <<>> >>,
  << <<Unknown, Bind(<<b>>, "view")>>, <<>> >>,
  << <<Bind(<<a, c, d>>, "string"), Unknown>>, <<>> >> }

Reading(text, whole, tree, binds) ==
  [docs |-> <<>>, room |-> 0, buffer |-> StackBuffer(0), emits |-> 0,
   text |-> text, whole |-> whole, tree |-> tree, nodes |-> binds[1], sub |-> binds[2]]

WholeTexts == {Reading(Text(tree, style, 0), TRUE, tree, binds) :
                 tree \in Trees, style \in Styles, binds \in Bindings}

(* What arrives of a text when the rest is lost, and texts that are none. *)
CutOff ==
  UNION {{Reading(SubSeq(Text(tree, style, 0), 1, n), FALSE, tree, binds) :
            n \in 0..(Len(Text(tree, style, 0)) - 1)} :
         tree \in Trees, style \in {PlainStyle, Commented},
         binds \in {binds \in Bindings : Len(binds[1]) > 2}}

Junk == {Reading(text, FALSE, Obj(<<>>), binds) :
           binds \in Bindings,
           text \in { <<"}", "}", Quote, "a", Quote, ":", "1">>,
                      <<"{", Quote, "a", Quote, ":", "]", "1", Quote, "b", Quote, ":", Backslash>>,
                      <<"/", "1", "/", "*", "/">>,
                      <<Quote, Backslash, "u", "0", "0", "1", Quote, ":", "/", "/">> }}

AllSymbols == STRING

(* The values of the documents, and the values inside them. *)
RECURSIVE Inside(_)
Inside(value) ==
  {value} \cup
    CASE value.v = "document" -> UNION {Inside(n.value) : n \in Range(value.nodes)}
      [] value.v \in {"array", "stream"} -> UNION {Inside(item) : item \in Range(value.items)}
      [] OTHER -> {}

AllValues ==
  UNION {UNION {UNION {Inside(n.value) : n \in Range(nodes)} : nodes \in Range(part.nodes)} :
         part \in Documents}
AllJobs == Emissions \cup WholeTexts \cup CutOff \cup Junk
=============================================================================
