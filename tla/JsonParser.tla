----------------------------- MODULE JsonParser -----------------------------
(***************************************************************************)
(* The parser: parse_json_nodes scans a text once and assigns what it      *)
(* meets to the bound nodes; a dynamic node keeps the raw block, can be    *)
(* read element by element (operator>>) and parsed again (parse).  One     *)
(* action is one turn of the scanning loop.  The loop does not recurse:    *)
(* where it is in the document is held by depth, current_key and           *)
(* path_stack only, and path_stack has as many places as the longest bound *)
(* path.  Positions count from 1.                                          *)
(***************************************************************************)
EXTENDS JsonSymbols, TLC

VARIABLES
  scan,     \* parse_json_nodes: json, i, depth, key, stack, nodes; root is ghost
  bound     \* the state of scan.nodes, in the same order

parserVars == <<scan, bound>>

(* A binding: to a variable ("int", "bool", "view", "string", or "span" of  *)
(* `room' bytes), dynamic ("dynamic"), or the catch-all callback ("any").   *)
Bind(path, kind) == [path |-> path, kind |-> kind, room |-> 0]
BindSpan(path, room) == [path |-> path, kind |-> "span", room |-> room]
BindNodes == [path : Seq(Strings), room : Nat,
              kind : {"int", "bool", "view", "string", "span", "dynamic", "any"}]
Unknown == Bind(<<>>, "any")
CatchAll(n) == n.kind = "any"
Dynamic(n) == n.kind \in {"dynamic", "any"}

Initial(n) == IF n.kind = "int" THEN -1 ELSE IF n.kind = "bool" THEN FALSE ELSE <<>>
Unset(n) == [set |-> FALSE, null |-> FALSE, value |-> Initial(n), raw |-> <<>>,
             string |-> FALSE, rest |-> <<>>, started |-> FALSE, taken |-> <<>>, seen |-> <<>>]

-----------------------------------------------------------------------------
(* Finding ends.  Each returns the position behind what it has passed; an  *)
(* escape at the very end of the text makes it overshoot by one.           *)

Digits == {Digit[k] : k \in DOMAIN Digit}
Whitespace == {" ", "\n", "\r", "\t"}
PrimitiveDelim == Whitespace \cup {",", "}", "]", "{", "["}

At(s, i) == IF i \in DOMAIN s THEN s[i] ELSE "end"
Upto(s, from, end) == SubSeq(s, from, IF end > Len(s) + 1 THEN Len(s) ELSE end - 1)
Drop(s, i) == SubSeq(s, i, Len(s))
FirstFrom(s, i, symbols) ==
  LET hits == {k \in i..Len(s) : s[k] \in symbols}
  IN  IF hits = {} THEN Len(s) + 1 ELSE Min(hits)

SkipSpace(s, i) ==
  LET skip[k \in Nat] ==
        CASE At(s, k) \in Whitespace -> skip[k + 1]
          [] At(s, k) = "/" /\ At(s, k + 1) = "/" -> skip[FirstFrom(s, k + 2, {"\n"})]
          [] At(s, k) = "/" /\ At(s, k + 1) = "*" ->
               LET ends == {j \in (k + 2)..(Len(s) - 1) : s[j] = "*" /\ s[j + 1] = "/"}
                   last == IF k + 2 > Len(s) THEN k + 2 ELSE Len(s)
               IN  skip[2 + IF ends = {} THEN last ELSE Min(ends)]
          [] OTHER -> k
  IN  skip[i]

(* The closing quote of the string whose first symbol is at i. *)
StringEnd(s, i) ==
  LET end[k \in Nat] == CASE k > Len(s) \/ At(s, k) = Quote -> k
                          [] At(s, k) = Backslash -> end[k + 2]
                          [] OTHER -> end[k + 1]
  IN  end[i]

PrimitiveEnd(s, i) == FirstFrom(s, i, PrimitiveDelim)

(* Behind the bracket that closes the one at i; open counts the levels. *)
BlockEnd(s, i) ==
  LET end[p \in Nat \X Int] ==
        LET k == p[1]
            open == p[2]
        IN  CASE k > Len(s) -> k
              [] At(s, k) = Quote -> end[<<StringEnd(s, k + 1) + 1, open>>]
              [] At(s, k) \in {"{", "["} -> end[<<k + 1, open + 1>>]
              [] At(s, k) \in {"}", "]"} -> IF open = 1 THEN k + 1 ELSE end[<<k + 1, open - 1>>]
              [] OTHER -> end[<<k + 1, open>>]
  IN  end[<<i, 0>>]

-----------------------------------------------------------------------------
(* coerce_value and decode_json_string. *)

HexValue == [c \in {"0", "1", "2", "3", "4", "5", "6", "7", "8", "9",
                    "a", "b", "c", "d", "e", "f"} |->
               CASE c = "a" -> 10 [] c = "b" -> 11 [] c = "c" -> 12 [] c = "d" -> 13
                 [] c = "e" -> 14 [] c = "f" -> 15
                 [] OTHER -> CHOOSE k \in 0..9 : Digit[k + 1] = c]

Byte(n) == CASE n = 27 -> "ctl" [] n = 10 -> "\n" [] OTHER -> ToString(n)
Utf8(n) ==
  CASE n <= 127  -> <<Byte(n)>>
    [] n > 127 /\ n <= 2047 -> <<Byte(192 + (n \div 64)), Byte(128 + (n % 64))>>
    [] OTHER -> 
         <<Byte(224 + (n \div 4096)), Byte(128 + ((n \div 64) % 64)), Byte(128 + (n % 64))>>

(* What the escape at k of s stands for, and how many symbols it takes. *)
Unescape(s, k) ==
  LET c == s[k + 1]
      hex == [j \in 1..4 |-> At(s, k + 1 + j)]
      code == FoldLeft(LAMBDA sum, h : 16 * sum + HexValue[h], 0, hex)
      one(symbol) == [bytes |-> <<symbol>>, next |-> k + 2]
  IN  CASE c = "n" -> one("\n")
        [] c = "t" -> one("\t")
        [] c = "r" -> one("\r")
        [] c = "b" -> one(Byte(8))
        [] c = "f" -> one(Byte(12))
        [] c = "u" /\ \A j \in 1..4 : hex[j] \in DOMAIN HexValue ->
             [bytes |-> Utf8(code), next |-> k + 6]
        [] OTHER -> one(c)

(* Bytes that do not fit the room are left out; a full room ends it. *)
Decode(s, room) ==
  LET decode[k \in Nat, out \in Seq(STRING)] ==
        LET unit == IF s[k] = Backslash /\ k < Len(s) THEN Unescape(s, k)
                    ELSE [bytes |-> <<s[k]>>, next |-> k + 1]
        IN  IF k > Len(s) \/ Len(out) >= room THEN out
            ELSE decode[unit.next, IF Len(out) + Len(unit.bytes) <= room
                                     THEN out \o unit.bytes ELSE out]
  IN  decode[1, <<>>]

(* std::from_chars: a text that does not begin with a number changes nothing. *)
FromChars(s, old) ==
  LET neg == At(s, 1) = "-"
      from == IF neg THEN 2 ELSE 1
      ends == {k \in from..Len(s) : \A j \in from..k : s[j] \in Digits}
      value == FoldLeft(LAMBDA sum, c : 10 * sum + HexValue[c], 0,
                        SubSeq(s, from, from + Cardinality(ends) - 1))
  IN  IF ends = {} THEN old ELSE IF neg THEN -value ELSE value

(* The value a variable that holds b.value gets.  A span has been cut to   *)
(* what was last decoded into it, and keeps that room.                     *)
Coerce(n, b, raw, null) ==
  CASE n.kind = "int"    -> IF null THEN 0 ELSE FromChars(raw, b.value)
    [] n.kind = "bool"   -> ~null /\ raw \in {<<"true">>, <<"1">>}
    [] n.kind = "view"   -> IF null THEN <<>> ELSE raw
    [] n.kind = "string" -> IF null THEN <<>> ELSE Decode(raw, Len(raw))
    [] n.kind = "span"   -> IF null THEN <<>>
                            ELSE Decode(raw, IF b.set THEN Len(b.value) ELSE n.room)

(* assign of the two kinds of nodes; the catch-all also runs its callback, *)
(* which is given the path and the node.                                   *)
Assigned(n, b, path, raw, string, null) ==
  IF Dynamic(n)
    THEN [b EXCEPT !.set = TRUE, !.null = null, !.raw = raw, !.string = string,
                   !.rest = raw, !.started = FALSE,
                   !.seen = IF CatchAll(n) THEN Append(@, <<path, raw>>) ELSE @]
    ELSE [b EXCEPT !.set = TRUE, !.null = null, !.value = Coerce(n, b, raw, null)]

-----------------------------------------------------------------------------
(* The path of the current position, and the nodes it is assigned to. *)

StackSize(nodes) == Max({1} \cup {Len(nodes[n].path) : n \in DOMAIN nodes})

Room == scan.depth < Len(scan.stack)
Stacked == IF Room THEN [scan.stack EXCEPT ![scan.depth + 1] = scan.key] ELSE scan.stack
Current == SubSeq(Stacked, 1, scan.depth + 1)

Matches(n) == ~CatchAll(scan.nodes[n]) /\ IsPrefix(Current, scan.nodes[n].path)
Matching == {n \in DOMAIN scan.nodes : Room /\ Matches(n)}
Callbacks == {n \in DOMAIN scan.nodes : Room /\ CatchAll(scan.nodes[n]) /\ scan.key # <<>>}

(* A block goes to every node that matches, a value to the first; what     *)
(* nobody matches goes to the last catch-all.                              *)
Receivers(block) ==
  CASE Matching # {} /\ block -> Matching
    [] Matching # {} /\ ~block -> {Min(Matching)}
    [] Matching = {} /\ Callbacks # {} -> {Max(Callbacks)}
    [] OTHER -> {}

AssignTo(receivers, raw, string, null) ==
  bound' = [n \in DOMAIN bound |->
              IF n \in receivers
                THEN Assigned(scan.nodes[n], bound[n], Current, raw, string, null)
                ELSE bound[n]]

(* capture_structural_value *)
Capture(i) ==
  \E block \in {Upto(scan.json, i, BlockEnd(scan.json, i))} :
    AssignTo(Receivers(TRUE), block, FALSE, FALSE)

-----------------------------------------------------------------------------
(* parse_json_nodes. *)

Scan(json, nodes, root) ==
  [json |-> json, i |-> 1, depth |-> 0, key |-> <<>>,
   stack |-> [k \in 1..StackSize(nodes) |-> <<>>], nodes |-> nodes, root |-> root]

(* Parser::parse: reset() clears the flags of the nodes. *)
StartParse(json, nodes, root) ==
  /\ scan' = Scan(json, nodes, root)
  /\ bound' = [n \in DOMAIN nodes |-> Unset(nodes[n])]

Scanning == scan.i <= Len(scan.json)
Position == SkipSpace(scan.json, scan.i)
Symbol == At(scan.json, Position)

Blank ==
  /\ Scanning /\ Position > Len(scan.json)
  /\ scan' = [scan EXCEPT !.i = Position]
  /\ UNCHANGED bound

OpenObject ==
  /\ Scanning /\ Symbol = "{"
  /\ Capture(Position)
  /\ scan' = IF scan.key = <<>> THEN [scan EXCEPT !.i = Position + 1, !.stack = Stacked]
             ELSE [scan EXCEPT !.i = Position + 1, !.stack = Stacked,
                               !.depth = @ + 1, !.key = <<>>]

(* Faulty variant: the key is not isolated from the elements. *)
OpenArrayKeepsKey ==
  /\ Scanning /\ Symbol = "["
  /\ Capture(Position)
  /\ scan' = [scan EXCEPT !.i = Position + 1, !.stack = Stacked]

OpenArray ==
  /\ Scanning /\ Symbol = "["
  /\ Capture(Position)
  /\ scan' = [scan EXCEPT !.i = Position + 1, !.stack = Stacked, !.key = <<>>]

(* Faulty variant: a stray brace takes the depth below zero. *)
CloseObjectUnchecked ==
  /\ Scanning /\ Symbol = "}"
  /\ scan' = [scan EXCEPT !.i = Position + 1, !.depth = @ - 1]
  /\ UNCHANGED bound

CloseObject ==
  /\ Scanning /\ Symbol = "}"
  /\ scan' = [scan EXCEPT !.i = Position + 1, !.depth = IF @ > 0 THEN @ - 1 ELSE 0]
  /\ UNCHANGED bound

(* Faulty variant: the closing bracket of an array is not passed. *)
PunctuationStuck ==
  /\ Scanning /\ Symbol \in {",", ":", "]"}
  /\ scan' = [scan EXCEPT !.i = IF Symbol = "]" THEN Position ELSE Position + 1]
  /\ UNCHANGED bound

Punctuation ==
  /\ Scanning /\ Symbol \in {",", ":", "]"}
  /\ scan' = [scan EXCEPT !.i = Position + 1]
  /\ UNCHANGED bound

(* A string in front of a colon is a key, any other a value. *)
StringToken ==
  LET end == StringEnd(scan.json, Position + 1)
      text == Upto(scan.json, Position + 1, end)
      behind == SkipSpace(scan.json, IF end <= Len(scan.json) THEN end + 1 ELSE end)
  IN  /\ Scanning /\ Symbol = Quote
      /\ \/ /\ At(scan.json, behind) = ":"
            /\ scan' = [scan EXCEPT !.i = behind + 1, !.key = text]
            /\ UNCHANGED bound
         \/ /\ At(scan.json, behind) # ":"
            /\ AssignTo(Receivers(FALSE), text, TRUE, FALSE)
            /\ scan' = [scan EXCEPT !.i = behind, !.stack = Stacked, !.key = <<>>]

Primitive ==
  LET end == PrimitiveEnd(scan.json, Position)
      text == Upto(scan.json, Position, end)
  IN  /\ Scanning /\ Position <= Len(scan.json)
      /\ Symbol \notin {"{", "[", "}", "]", ",", ":", Quote}
      /\ AssignTo(Receivers(FALSE), text, FALSE, text = <<"null">>)
      /\ scan' = [scan EXCEPT !.i = end, !.stack = Stacked, !.key = <<>>]

ParserStep ==
  Blank \/ OpenObject \/ OpenArray \/ CloseObject \/ Punctuation \/ StringToken \/ Primitive

-----------------------------------------------------------------------------
(* DynamicNodeBase::next_array_token: the raw token, and what is left. *)

NextArrayToken(s) ==
  LET rests == {k \in DOMAIN s : s[k] \notin Whitespace \cup {","}}
      from == IF rests = {} THEN Len(s) + 1 ELSE Min(rests)
      c == At(s, from)
      end == CASE c = Quote -> StringEnd(s, from + 1) + 1
               [] c \in {"{", "["} -> BlockEnd(s, from)
               [] OTHER -> PrimitiveEnd(s, from)
      token == Upto(s, from, end)
  IN  IF c \in {"end", "]"} THEN [token |-> <<>>, rest |-> Drop(s, from)]
      ELSE [token |-> IF c = Quote /\ Len(token) >= 2
                        THEN SubSeq(token, 2, Len(token) - 1) ELSE token,
            rest |-> Drop(s, end)]

(* operator>> into a std::string, as in a loop that ends when it returns   *)
(* false; taken collects the values.                                       *)
IsArray(b) == At(b.raw, 1) = "["
Token(b) == NextArrayToken(IF b.started THEN b.rest ELSE Drop(b.raw, 2))
HasMore(b) == b.set /\ (IF IsArray(b) THEN Token(b).token # <<>> ELSE ~b.started)

Extract(n) ==
  LET b == bound[n]
      raw == IF IsArray(b) THEN Token(b).token ELSE b.raw
      null == IF IsArray(b) THEN raw = <<"null">> ELSE b.null
      value == IF null THEN <<>> ELSE Decode(raw, Len(raw))
  IN  /\ Dynamic(scan.nodes[n]) /\ HasMore(b)
      /\ bound' = [bound EXCEPT ![n].started = TRUE,
                                ![n].rest = IF IsArray(b) THEN Token(b).rest ELSE @,
                                ![n].taken = Append(@, value)]
      /\ UNCHANGED scan
=============================================================================
