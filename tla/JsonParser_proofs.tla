--------------------------- MODULE JsonParser_proofs ---------------------------
(***************************************************************************)
(* The scanning loop of parse_json_nodes (parser.cpp:286-475), for every   *)
(* text and every list of bindings: where it stands, and that each turn    *)
(* moves on.  The texts are unbounded and the scans are recursive          *)
(* functions, so the proofs rest on two facts proved first without an      *)
(* induction scheme (an operator cannot be handed to the provers): a       *)
(* finite set of naturals has a least and a greatest element, because      *)
(* strict inclusion is well founded; and a function defined by a tail call *)
(* exists, because where the calls from an argument arrive is unique.      *)
(***************************************************************************)
EXTENDS JsonParser, FiniteSetTheorems, WellFoundedInduction, TLAPS

-----------------------------------------------------------------------------
(* Least and greatest elements, and recursion without an induction scheme.  *)

(* A finite set of naturals has a greatest element: the one above which the *)
(* fewest lie.                                                              *)
LEMMA MaxIsGreatest ==
  ASSUME NEW S \in SUBSET Nat, IsFiniteSet(S), S # {}
  PROVE  Max(S) \in S /\ \A y \in S : y <= Max(S)
<1> DEFINE Above(x) == {y \in S : y > x}
           T == {Above(x) : x \in S}
<1>1. PICK U \in T : \A V \in T : <<V, U>> \notin StrictSubsetOrdering(S)
  <2>1. T \subseteq FiniteSubsetsOf(S)
    BY FS_FiniteSubsetsOfFinite
  <2>2. T # {}
    OBVIOUS
  <2> HIDE DEF T
  <2> QED BY <2>1, <2>2, FS_StrictSubsetOrderingWellFounded, WFMin
<1>2. PICK x \in S : U = Above(x)
  BY <1>1
<1>3. ASSUME NEW y \in S, y > x PROVE FALSE
  <2>1. y \in Above(x) /\ y \notin Above(y)
    BY <1>3
  <2>2. \A z \in S : z > y => z > x
    BY <1>3, <1>2
  <2>3. Above(y) \subseteq Above(x)
    BY <2>2
  <2>4. <<Above(y), U>> \in StrictSubsetOrdering(S)
    BY <2>1, <2>3, <1>2 DEF StrictSubsetOrdering
  <2> QED BY <2>4, <1>1
<1>4. \A y \in S : x >= y
  BY <1>2, <1>3
<1> QED BY <1>4 DEF Max

(* Likewise a least one.                                                   *)
LEMMA MinIsLeast ==
  ASSUME NEW S \in SUBSET Nat, IsFiniteSet(S), S # {}
  PROVE  Min(S) \in S /\ \A y \in S : Min(S) <= y
<1> DEFINE Below(x) == {y \in S : y < x}
           T == {Below(x) : x \in S}
<1>1. PICK U \in T : \A V \in T : <<V, U>> \notin StrictSubsetOrdering(S)
  <2>1. T \subseteq FiniteSubsetsOf(S)
    BY FS_FiniteSubsetsOfFinite
  <2>2. T # {}
    OBVIOUS
  <2> HIDE DEF T
  <2> QED BY <2>1, <2>2, FS_StrictSubsetOrderingWellFounded, WFMin
<1>2. PICK x \in S : U = Below(x)
  BY <1>1
<1>3. ASSUME NEW y \in S, y < x PROVE FALSE
  <2>1. y \in Below(x) /\ y \notin Below(y)
    BY <1>3
  <2>2. \A z \in S : z < y => z < x
    BY <1>3, <1>2
  <2>3. Below(y) \subseteq Below(x)
    BY <2>2
  <2>4. <<Below(y), U>> \in StrictSubsetOrdering(S)
    BY <2>1, <2>3, <1>2 DEF StrictSubsetOrdering
  <2> QED BY <2>4, <1>1
<1>4. \A y \in S : x =< y
  BY <1>2, <1>3
<1> QED BY <1>4 DEF Min

(* A set of positions is finite.                                           *)
LEMMA Within ==
  ASSUME NEW m \in Nat, NEW n \in Nat, NEW S \in SUBSET (m..n)
  PROVE  IsFiniteSet(S) /\ S \in SUBSET Nat
<1>1. IsFiniteSet(m..n)
  BY FS_Interval
<1>2. IsFiniteSet(S)
  BY <1>1, FS_Subset
<1>3. S \in SUBSET Nat
  OBVIOUS
<1> QED BY <1>2, <1>3

(* The first and the last of a set of places are in it.                    *)
LEMMA EndsOf ==
  ASSUME NEW n \in Nat, NEW S \in SUBSET (1..n), S # {}
  PROVE  Min(S) \in S /\ Max(S) \in S
<1>1. 1 \in Nat
  OBVIOUS
<1>2. IsFiniteSet(S) /\ S \in SUBSET Nat
  BY <1>1, Within
<1> QED BY <1>2, MinIsLeast, MaxIsGreatest


(* A function that calls itself last is well defined, whether or not the   *)
(* calls end: its value is that of any place where they could end.         *)
CallsWithin(D, done, next) == \A d \in D : d \notin done => next[d] \in D
HasValues(D, done, next, result) ==
  \E f : f = [d \in D |-> IF d \in done THEN result[d] ELSE f[next[d]]]

(* A function defined by a tail call exists, whether or not the calls end: *)
(* its value is the result where the calls arrive, and arbitrary where     *)
(* they never do.                                                          *)
LEMMA TailRecursion ==
  ASSUME NEW D, NEW done, NEW result, NEW next, CallsWithin(D, done, next)
  PROVE  HasValues(D, done, next, result)
<1> USE DEF CallsWithin
<1> DEFINE Closed(C) == \A c \in C : c \notin done => next[c] \in C
           Reach(d) == {e \in D : \A C \in SUBSET D : Closed(C) /\ d \in C => e \in C}
           Ends(d) == {e \in Reach(d) : e \in done}
           f == [d \in D |-> result[CHOOSE e : e \in Ends(d)]]
<1>1. ASSUME NEW d \in D, d \in done PROVE Ends(d) = {d}
  <2>1. Closed({d})
    BY <1>1
  <2> QED BY <2>1, <1>1
<1>2. ASSUME NEW d \in D, d \notin done PROVE Ends(d) = Ends(next[d])
  <2>1. next[d] \in D
    BY <1>2
  <2>2. Reach(next[d]) \subseteq Reach(d)
    BY <1>2
  <2>3. Closed(Reach(next[d]) \cup {d})
    <3>1. ASSUME NEW c \in Reach(next[d]), c \notin done PROVE next[c] \in Reach(next[d])
      BY <3>1
    <3>2. next[d] \in Reach(next[d])
      BY <2>1
    <3> QED BY <3>1, <3>2
  <2>4. Reach(next[d]) \cup {d} \in SUBSET D
    BY <2>1
  <2>5. Reach(d) \subseteq Reach(next[d]) \cup {d}
    BY <2>3, <2>4
  <2> HIDE DEF Reach
  <2> QED BY <1>2, <2>2, <2>5
<1>3. ASSUME NEW d \in D PROVE f[d] = IF d \in done THEN result[d] ELSE f[next[d]]
  <2> HIDE DEF Ends
  <2>1. CASE d \in done
    BY <2>1, <1>1
  <2>2. CASE d \notin done
    BY <2>2, <1>2
  <2> QED BY <2>1, <2>2
<1>4. f = [d \in D |-> f[d]]
  OBVIOUS
<1> HIDE DEF f
<1>5. f = [d \in D |-> IF d \in done THEN result[d] ELSE f[next[d]]]
  BY <1>3, <1>4
<1> QED BY <1>5 DEF HasValues

(* A walk over positions that only moves on, and only below n, ends, at    *)
(* most at m.                                                              *)
Walks(f, n, m, done, next) ==
  \A k \in Nat :
    IF k \in done THEN f[k] = k
    ELSE /\ k <= n /\ next[k] \in Nat /\ k < next[k] /\ next[k] <= m
         /\ f[k] = f[next[k]]

(* Where calls that go up by at least one, and end behind n at the latest, *)
(* arrive.                                                                 *)
LEMMA WalkEnds ==
  ASSUME NEW n \in Nat, NEW m \in Nat, NEW done, NEW next, NEW f,
         Walks(f, n, m, done, next), NEW i \in Nat
  PROVE  f[i] \in Nat /\ f[i] \in done /\ i <= f[i] /\ (f[i] = i \/ f[i] <= m)
<1> DEFINE Fine(k) == /\ f[k] \in Nat /\ f[k] \in done /\ k <= f[k]
                      /\ f[k] = k \/ f[k] <= m
           Bad == {k \in 0..n : ~Fine(k)}
<1> USE DEF Walks
<1>1. \A k \in Nat : k \in done => Fine(k)
  OBVIOUS
<1>2. Bad = {}
  <2> SUFFICES ASSUME Bad # {} PROVE FALSE
    OBVIOUS
  <2> DEFINE k == Max(Bad)
  <2>1. k \in Bad /\ \A y \in Bad : y <= k
    <3>1. Bad \in SUBSET (0..n)
      OBVIOUS
    <3> HIDE DEF Bad
    <3> QED BY <3>1, Within, MaxIsGreatest
  <2> HIDE DEF k
  <2>2. k \in Nat /\ k \notin done
    BY <2>1, <1>1
  <2>3. Fine(next[k])
    <3>1. CASE next[k] \in done
      BY <3>1, <1>1, <2>2
    <3>2. CASE next[k] \notin done
      <4>1. next[k] \in 0..n /\ ~(next[k] <= k)
        BY <3>2, <2>2
      <4> QED BY <4>1, <2>1
    <3> QED BY <3>1, <3>2
  <2>4. Fine(k)
    BY <2>2, <2>3
  <2> QED BY <2>1, <2>4
<1>3. Fine(i)
  <2>1. CASE i \in done
    BY <2>1, <1>1
  <2>2. CASE i \notin done
    BY <2>2, <1>2
  <2> QED BY <2>1, <2>2
<1> QED BY <1>3

-----------------------------------------------------------------------------
(* Finding ends: the positions are numbers, and never lie before the start. *)

(* The symbols of a text, and what is behind it.                           *)
LEMMA Texts ==
  ASSUME NEW s \in Strings
  PROVE  /\ Len(s) \in Nat /\ DOMAIN s = 1..Len(s)
         /\ \A i \in Nat : At(s, i) # "end" => i \in 1..Len(s)
         /\ \A i \in 1..Len(s) : At(s, i) = s[i]
         /\ \A i \in Nat : i \notin 1..Len(s) => At(s, i) = "end"
BY DEF Strings, At

(* The first of some symbols from a position on, or the end.               *)
LEMMA FirstFromFinds ==
  ASSUME NEW s \in Strings, NEW i \in Nat, i >= 1, NEW symbols
  PROVE  /\ FirstFrom(s, i, symbols) \in Nat
         /\ \/ FirstFrom(s, i, symbols) = Len(s) + 1
            \/ /\ FirstFrom(s, i, symbols) \in i..Len(s)
               /\ s[FirstFrom(s, i, symbols)] \in symbols
<1> DEFINE hits == {k \in i..Len(s) : s[k] \in symbols}
<1>1. Len(s) \in Nat
  BY DEF Strings
<1>2. hits # {} => Min(hits) \in hits
  <2>1. hits \in SUBSET (i..Len(s))
    OBVIOUS
  <2> HIDE DEF hits
  <2> QED BY <1>1, <2>1, Within, MinIsLeast
<1>3. CASE hits = {}
  BY <1>1, <1>3 DEF FirstFrom
<1>4. CASE hits # {}
  BY <1>1, <1>2, <1>4 DEF FirstFrom
<1> QED BY <1>3, <1>4

(* One turn of skip_ws_and_comments: what stands at k, and what follows it. *)
BlankAt(s, k) == At(s, k) \in Whitespace
LineAt(s, k) == At(s, k) = "/" /\ At(s, k + 1) = "/"
BlockAt(s, k) == At(s, k) = "/" /\ At(s, k + 1) = "*"
Behind(s, k) ==
  LET ends == {j \in (k + 2)..(Len(s) - 1) : s[j] = "*" /\ s[j + 1] = "/"}
      last == IF k + 2 > Len(s) THEN k + 2 ELSE Len(s)
  IN  2 + IF ends = {} THEN last ELSE Min(ends)
Skipped(s, k) ==
  IF BlankAt(s, k) THEN k + 1
  ELSE IF LineAt(s, k) THEN FirstFrom(s, k + 2, {"\n"}) ELSE Behind(s, k)
Stays(s) == {k \in Nat : ~BlankAt(s, k) /\ ~LineAt(s, k) /\ ~BlockAt(s, k)}

(* A blank or a comment takes at least one place (parser.cpp:293-318).     *)
LEMMA SkippedMovesOn ==
  ASSUME NEW s \in Strings, NEW k \in Nat, k \notin Stays(s)
  PROVE  /\ k <= Len(s) /\ Skipped(s, k) \in Nat
         /\ k < Skipped(s, k) /\ Skipped(s, k) <= Len(s) + 3
<1>1. Len(s) \in Nat
  BY Texts
<1>2. At(s, k) # "end"
  BY DEF Stays, BlankAt, LineAt, BlockAt, Whitespace
<1>3. k \in 1..Len(s)
  BY <1>2, Texts
<1>4. CASE BlankAt(s, k)
  BY <1>1, <1>3, <1>4 DEF Skipped
<1>5. CASE ~BlankAt(s, k) /\ LineAt(s, k)
  <2>1. At(s, k + 1) # "end"
    BY <1>5 DEF LineAt
  <2>2. k + 1 \in 1..Len(s)
    BY <2>1, Texts
  <2>3. Skipped(s, k) = FirstFrom(s, k + 2, {"\n"})
    BY <1>5 DEF Skipped
  <2>4. k + 2 \in Nat /\ k + 2 >= 1
    BY <1>3
  <2> QED BY <1>1, <1>3, <2>2, <2>3, <2>4, FirstFromFinds
<1>6. CASE ~BlankAt(s, k) /\ ~LineAt(s, k)
  <2>1. At(s, k + 1) # "end"
    BY <1>6 DEF Stays, BlockAt
  <2>2. k + 1 \in 1..Len(s)
    BY <2>1, Texts
  <2> DEFINE ends == {j \in (k + 2)..(Len(s) - 1) : s[j] = "*" /\ s[j + 1] = "/"}
             last == IF k + 2 > Len(s) THEN k + 2 ELSE Len(s)
  <2>3. ends # {} => Min(ends) \in (k + 2)..(Len(s) - 1)
    <3>1. ends \in SUBSET ((k + 2)..(Len(s) - 1)) /\ ends \in SUBSET (0..Len(s))
      BY <1>1, <1>3
    <3> HIDE DEF ends
    <3>2. ends # {} => Min(ends) \in ends
      BY <1>1, <3>1, Within, MinIsLeast
    <3> QED BY <3>1, <3>2
  <2>4. Skipped(s, k) = 2 + IF ends = {} THEN last ELSE Min(ends)
    BY <1>6 DEF Skipped, Behind
  <2> HIDE DEF ends
  <2> QED BY <1>1, <1>3, <2>2, <2>3, <2>4
<1> QED BY <1>4, <1>5, <1>6

(* Blanks and comments are passed, of which one that is cut off may take   *)
(* the position three places behind the text.                              *)
LEMMA SkipSpaceMovesOn ==
  ASSUME NEW s \in Strings, NEW i \in Nat
  PROVE  /\ SkipSpace(s, i) \in Nat
         /\ i <= SkipSpace(s, i)
         /\ SkipSpace(s, i) = i \/ SkipSpace(s, i) <= Len(s) + 3
         /\ At(s, SkipSpace(s, i)) \notin Whitespace
<1> DEFINE next == [k \in Nat |-> Skipped(s, k)]
           same == [k \in Nat |-> k]
           skip == CHOOSE skip : skip = [k \in Nat |->
             CASE At(s, k) \in Whitespace -> skip[k + 1]
               [] At(s, k) = "/" /\ At(s, k + 1) = "/" -> skip[FirstFrom(s, k + 2, {"\n"})]
               [] At(s, k) = "/" /\ At(s, k + 1) = "*" ->
                    LET ends == {j \in (k + 2)..(Len(s) - 1) : s[j] = "*" /\ s[j + 1] = "/"}
                        last == IF k + 2 > Len(s) THEN k + 2 ELSE Len(s)
                    IN  skip[2 + IF ends = {} THEN last ELSE Min(ends)]
               [] OTHER -> k]
           turn(f, k) == CASE BlankAt(s, k) -> f[k + 1]
                           [] LineAt(s, k) -> f[FirstFrom(s, k + 2, {"\n"})]
                           [] BlockAt(s, k) -> f[Behind(s, k)]
                           [] OTHER -> k
<1>1. \A k \in Nat : k \notin Stays(s) => next[k] = Skipped(s, k) /\ next[k] \in Nat
  BY SkippedMovesOn
<1>2. PICK f : f = [k \in Nat |-> IF k \in Stays(s) THEN same[k] ELSE f[next[k]]]
  <2> HIDE DEF next, same
  <2>1. HasValues(Nat, Stays(s), next, same)
    BY <1>1, TailRecursion DEF CallsWithin
  <2> QED BY <2>1 DEF HasValues
<1>3. ASSUME NEW k \in Nat, NEW g
      PROVE  turn(g, k) = IF k \in Stays(s) THEN k ELSE g[next[k]]
  <2>1. ~(BlankAt(s, k) /\ LineAt(s, k)) /\ ~(BlankAt(s, k) /\ BlockAt(s, k))
        /\ ~(LineAt(s, k) /\ BlockAt(s, k))
    BY DEF BlankAt, LineAt, BlockAt, Whitespace
  <2>2. CASE k \in Stays(s)
    BY <2>2 DEF Stays
  <2>3. CASE BlankAt(s, k)
    BY <2>1, <2>3, <1>1 DEF Stays, Skipped
  <2>4. CASE LineAt(s, k)
    BY <2>1, <2>4, <1>1 DEF Stays, Skipped
  <2>5. CASE BlockAt(s, k)
    BY <2>1, <2>5, <1>1 DEF Stays, Skipped
  <2> QED BY <2>2, <2>3, <2>4, <2>5 DEF Stays
<1>4. f = [k \in Nat |-> turn(f, k)]
  <2> HIDE DEF turn, next
  <2>1. \A k \in Nat : f[k] = turn(f, k)
    BY <1>2, <1>3
  <2>2. f = [k \in Nat |-> f[k]]
    BY <1>2
  <2> QED BY <2>1, <2>2
<1>5. skip = [k \in Nat |-> turn(skip, k)]
  <2>1. f = [k \in Nat |->
             CASE At(s, k) \in Whitespace -> f[k + 1]
               [] At(s, k) = "/" /\ At(s, k + 1) = "/" -> f[FirstFrom(s, k + 2, {"\n"})]
               [] At(s, k) = "/" /\ At(s, k + 1) = "*" ->
                    LET ends == {j \in (k + 2)..(Len(s) - 1) : s[j] = "*" /\ s[j + 1] = "/"}
                        last == IF k + 2 > Len(s) THEN k + 2 ELSE Len(s)
                    IN  f[2 + IF ends = {} THEN last ELSE Min(ends)]
               [] OTHER -> k]
    BY Zenon, <1>4 DEF BlankAt, LineAt, BlockAt, Behind
  <2> QED BY Zenon, <2>1 DEF BlankAt, LineAt, BlockAt, Behind
<1>6. SkipSpace(s, i) = skip[i]
  BY Zenon DEF SkipSpace
<1> HIDE DEF skip, next, turn
<1>7. /\ skip[i] \in Nat /\ skip[i] \in Stays(s) /\ i <= skip[i]
      /\ skip[i] = i \/ skip[i] <= Len(s) + 3
  <2>1. \A k \in Nat : k \in Stays(s) => skip[k] = k
    BY <1>3, <1>5
  <2>2. \A k \in Nat : k \notin Stays(s) =>
          /\ k <= Len(s) /\ next[k] \in Nat /\ k < next[k] /\ next[k] <= Len(s) + 3
          /\ skip[k] = skip[next[k]]
    BY <1>1, <1>3, <1>5, SkippedMovesOn
  <2>3. Walks(skip, Len(s), Len(s) + 3, Stays(s), next)
    BY <2>1, <2>2 DEF Walks
  <2>4. Len(s) \in Nat /\ Len(s) + 3 \in Nat
    BY Texts
  <2> QED BY <2>3, <2>4, WalkEnds
<1> QED BY <1>6, <1>7 DEF Stays, BlankAt

(* An escape at the very end of the text takes it two places further. *)
LEMMA StringEndMovesOn ==
  ASSUME NEW s \in Strings, NEW i \in Nat
  PROVE  /\ StringEnd(s, i) \in Nat
         /\ i <= StringEnd(s, i)
         /\ StringEnd(s, i) = i \/ StringEnd(s, i) <= Len(s) + 2
<1> DEFINE next == [k \in Nat |-> IF At(s, k) = Backslash THEN k + 2 ELSE k + 1]
           same == [k \in Nat |-> k]
           done == {k \in Nat : k > Len(s) \/ At(s, k) = Quote}
           turn(f, k) == CASE k > Len(s) \/ At(s, k) = Quote -> k
                           [] At(s, k) = Backslash -> f[k + 2]
                           [] OTHER -> f[k + 1]
           end == CHOOSE end : end = [k \in Nat |-> turn(end, k)]
<1>1. Len(s) \in Nat
  BY Texts
<1>2. \A k \in Nat : /\ next[k] \in Nat /\ k < next[k] /\ next[k] <= k + 2
                     /\ k \notin done => k <= Len(s)
  BY <1>1
<1>3. ASSUME NEW k \in Nat, NEW g
      PROVE  turn(g, k) = IF k \in done THEN k ELSE g[next[k]]
  <2>1. CASE k \in done
    <3>1. ~(k > Len(s) /\ At(s, k) = Backslash)
      BY <1>1, Texts DEF Backslash
    <3>2. Quote # Backslash
      BY DEF Quote, Backslash
    <3> QED BY <2>1, <3>1, <3>2
  <2>2. CASE k \notin done
    BY <2>2
  <2> QED BY <2>1, <2>2
<1>4. PICK f : f = [k \in Nat |-> IF k \in done THEN same[k] ELSE f[next[k]]]
  <2> HIDE DEF next, same, done
  <2>1. HasValues(Nat, done, next, same)
    BY <1>2, TailRecursion DEF CallsWithin
  <2> QED BY <2>1 DEF HasValues
<1>5. f = [k \in Nat |-> turn(f, k)]
  <2> HIDE DEF turn, next, done
  <2>1. \A k \in Nat : f[k] = turn(f, k)
    BY <1>3, <1>4
  <2>2. f = [k \in Nat |-> f[k]]
    BY <1>4
  <2> QED BY <2>1, <2>2
<1>6. end = [k \in Nat |-> turn(end, k)]
  <2> HIDE DEF turn
  <2> QED BY <1>5
<1>7. StringEnd(s, i) = end[i]
  BY Zenon DEF StringEnd
<1> HIDE DEF end, next, turn, done
<1>8. Walks(end, Len(s), Len(s) + 2, done, next)
  <2>1. \A k \in Nat : end[k] = IF k \in done THEN k ELSE end[next[k]]
    BY <1>3, <1>6
  <2>2. \A k \in Nat : k \notin done => next[k] <= Len(s) + 2
    <3> SUFFICES ASSUME NEW k \in Nat, k \notin done PROVE next[k] <= Len(s) + 2
      OBVIOUS
    <3>1. k <= Len(s) /\ next[k] <= k + 2 /\ next[k] \in Nat
      BY <1>2
    <3> QED BY <1>1, <3>1
  <2> QED BY <1>2, <2>1, <2>2 DEF Walks
<1>9. Len(s) \in Nat /\ Len(s) + 2 \in Nat
  BY <1>1
<1> QED BY <1>7, <1>8, <1>9, WalkEnds

(* A block that is not closed ends behind the text. *)
LEMMA BlockEndIsPosition ==
  ASSUME NEW s \in Strings, NEW i \in Nat
  PROVE  BlockEnd(s, i) \in Nat
<1> DEFINE Pairs == Nat \X Int
           turn(f, p) ==
             CASE p[1] > Len(s) -> p[1]
               [] At(s, p[1]) = Quote -> f[<<StringEnd(s, p[1] + 1) + 1, p[2]>>]
               [] At(s, p[1]) \in {"{", "["} -> f[<<p[1] + 1, p[2] + 1>>]
               [] At(s, p[1]) \in {"}", "]"} ->
                    IF p[2] = 1 THEN p[1] + 1 ELSE f[<<p[1] + 1, p[2] - 1>>]
               [] OTHER -> f[<<p[1] + 1, p[2]>>]
           end == CHOOSE end : end = [p \in Pairs |-> turn(end, p)]
           next == [p \in Pairs |->
                      IF At(s, p[1]) = Quote THEN <<StringEnd(s, p[1] + 1) + 1, p[2]>>
                      ELSE IF At(s, p[1]) \in {"{", "["} THEN <<p[1] + 1, p[2] + 1>>
                      ELSE IF At(s, p[1]) \in {"}", "]"} THEN <<p[1] + 1, p[2] - 1>>
                      ELSE <<p[1] + 1, p[2]>>]
           done == {p \in Pairs : p[1] > Len(s) \/ (At(s, p[1]) \in {"}", "]"} /\ p[2] = 1)}
           result == [p \in Pairs |-> IF p[1] > Len(s) THEN p[1] ELSE p[1] + 1]
<1>1. Len(s) \in Nat
  BY Texts
<1>2. ASSUME NEW p \in Pairs
      PROVE  next[p] \in Pairs /\ p[1] < next[p][1] /\ next[p][1] \in Nat
  <2>1. p[1] \in Nat /\ p[2] \in Int
    OBVIOUS
  <2>2. StringEnd(s, p[1] + 1) \in Nat /\ p[1] + 1 <= StringEnd(s, p[1] + 1)
    BY <2>1, StringEndMovesOn
  <2>3. CASE At(s, p[1]) = Quote
    BY <2>1, <2>2, <2>3
  <2>4. CASE At(s, p[1]) # Quote /\ At(s, p[1]) \in {"{", "["}
    <3>1. next[p] = <<p[1] + 1, p[2] + 1>>
      BY <2>4
    <3> HIDE DEF next
    <3> QED BY <2>1, <3>1
  <2>5. CASE At(s, p[1]) # Quote /\ At(s, p[1]) \notin {"{", "["} /\ At(s, p[1]) \in {"}", "]"}
    <3>1. next[p] = <<p[1] + 1, p[2] - 1>>
      BY <2>5
    <3> HIDE DEF next
    <3> QED BY <2>1, <3>1
  <2>6. CASE At(s, p[1]) # Quote /\ At(s, p[1]) \notin {"{", "["} /\ At(s, p[1]) \notin {"}", "]"}
    <3>1. next[p] = <<p[1] + 1, p[2]>>
      BY <2>6
    <3> HIDE DEF next
    <3> QED BY <2>1, <3>1
  <2> QED BY <2>3, <2>4, <2>5, <2>6
<1>3. ASSUME NEW p \in Pairs, NEW g
      PROVE  turn(g, p) = IF p \in done THEN result[p] ELSE g[next[p]]
  <2>1. p[1] \in Nat /\ p[2] \in Int
    OBVIOUS
  <2>2. p[1] > Len(s) => At(s, p[1]) = "end"
    BY <1>1, <2>1, Texts
  <2>3. CASE p[1] > Len(s)
    BY <2>2, <2>3 DEF Quote
  <2>4. CASE ~(p[1] > Len(s))
    BY <2>1, <2>4 DEF Quote
  <2> QED BY <2>3, <2>4
<1>4. PICK f : f = [p \in Pairs |-> IF p \in done THEN result[p] ELSE f[next[p]]]
  <2>1. CallsWithin(Pairs, done, next)
    <3> HIDE DEF next, done, Pairs
    <3> QED BY <1>2 DEF CallsWithin
  <2> HIDE DEF next, result, done, Pairs
  <2>2. HasValues(Pairs, done, next, result)
    BY <2>1, TailRecursion
  <2> QED BY <2>2 DEF HasValues
<1>5. f = [p \in Pairs |-> turn(f, p)]
  <2> HIDE DEF turn, next, done, result, Pairs
  <2>1. \A p \in Pairs : f[p] = turn(f, p)
    BY <1>3, <1>4
  <2>2. f = [p \in Pairs |-> f[p]]
    BY <1>4
  <2> QED BY <2>1, <2>2
<1>6. end = [p \in Pairs |-> turn(end, p)]
  <2> HIDE DEF turn, Pairs
  <2> QED BY <1>5
<1>7. BlockEnd(s, i) = end[<<i, 0>>]
  BY Zenon DEF BlockEnd
<1> HIDE DEF end, turn
<1>8. ASSUME NEW p \in Pairs
      PROVE  /\ p \in done => end[p] \in Nat
             /\ p \notin done => end[p] = end[next[p]]
  <2>1. result[p] \in Nat
    OBVIOUS
  <2>2. end[p] = turn(end, p)
    BY <1>6
  <2> HIDE DEF done, result, next, Pairs
  <2> QED BY <1>3, <2>1, <2>2
<1> DEFINE Bad == {k \in 0..Len(s) : \E p \in Pairs : p[1] = k /\ end[p] \notin Nat}
<1>9. Bad = {}
  <2> SUFFICES ASSUME Bad # {} PROVE FALSE
    OBVIOUS
  <2>1. Max(Bad) \in Bad /\ \A y \in Bad : y <= Max(Bad)
    <3>1. Bad \in SUBSET (0..Len(s))
      OBVIOUS
    <3> HIDE DEF Bad
    <3> QED BY <1>1, <3>1, Within, MaxIsGreatest
  <2>2. PICK p \in Pairs : p[1] = Max(Bad) /\ end[p] \notin Nat
    <3> HIDE DEF Pairs
    <3> QED BY <2>1
  <2>3. p \notin done /\ end[next[p]] \notin Nat
    BY <1>8, <2>2
  <2>4. next[p] \in Pairs /\ p[1] < next[p][1] /\ next[p][1] \in Nat
    BY <1>2
  <2>5. next[p] \notin done
    <3> HIDE DEF next, done, Pairs
    <3> QED BY <1>8, <2>3, <2>4
  <2>6. next[p][1] <= Len(s)
    <3> HIDE DEF next, Pairs
    <3>1. ~(next[p][1] > Len(s))
      BY Zenon, <2>4, <2>5
    <3> QED BY <1>1, <2>4, <3>1
  <2> HIDE DEF next, Pairs
  <2>7. \E q \in Pairs : q[1] = next[p][1] /\ end[q] \notin Nat
    BY <2>3, <2>4
  <2>8. next[p][1] \in Bad
    BY <1>1, <2>4, <2>6, <2>7
  <2> QED BY <2>1, <2>2, <2>4, <2>8
<1>10. end[<<i, 0>>] \in Nat
  <2>1. <<i, 0>> \in Pairs
    OBVIOUS
  <2>2. CASE i <= Len(s)
    <3> HIDE DEF Pairs, end, done, next
    <3>1. i \in 0..Len(s) /\ <<i, 0>>[1] = i
      BY <1>1, <2>2
    <3> QED BY <1>9, <2>1, <3>1
  <2>3. CASE ~(i <= Len(s))
    <3>1. <<i, 0>> \in done
      <4>1. <<i, 0>>[1] > Len(s)
        BY <1>1, <2>3
      <4> HIDE DEF Pairs
      <4> QED BY <2>1, <4>1
    <3> HIDE DEF Pairs, end, done, next
    <3> QED BY <1>8, <2>1, <3>1
  <2> QED BY <2>2, <2>3
<1> QED BY <1>7, <1>10

(* What is between two positions is text, wherever they are.               *)
LEMMA UptoIsText ==
  ASSUME NEW s \in Strings, NEW from \in Nat, from >= 1, NEW end \in Nat
  PROVE  Upto(s, from, end) \in Strings
<1>1. ASSUME NEW last \in Int, last <= Len(s) PROVE SubSeq(s, from, last) \in Strings
  <2>1. \A k \in 1..(last - from + 1) : k + from - 1 \in 1..Len(s)
    BY <1>1 DEF Strings
  <2> QED BY <1>1, <2>1 DEF Strings
<1> QED BY <1>1 DEF Upto, Strings

-----------------------------------------------------------------------------
(* The invariant of the scanning loop. *)

Scans == [json : Strings, i : Nat, depth : Nat, key : Strings, stack : Seq(Strings),
          nodes : Seq(BindNodes), root : Seq(Strings)]

(* The positions the loop indexes with: each level that is open has taken  *)
(* a symbol, so that the depth is less than the position.                  *)
ScanOK ==
  /\ scan \in Scans
  /\ scan.i \in 1..(Len(scan.json) + 3)
  /\ scan.depth < scan.i /\ scan.depth <= Len(scan.json)
  /\ Len(scan.stack) = StackSize(scan.nodes)

(* The names of the objects the position is in are not empty, as far as    *)
(* the stack holds them.                                                   *)
NamesOK == \A k \in 1..scan.depth : k <= Len(scan.stack) => scan.stack[k] # <<>>

Reports == {path \in Seq(Strings) : path # <<>> /\ \A k \in DOMAIN path : path[k] # <<>>} \X Strings

BoundOK ==
  /\ DOMAIN bound = DOMAIN scan.nodes
  /\ \A n \in DOMAIN bound :
       /\ DOMAIN bound[n] = {"set", "null", "value", "raw", "string", "rest", "started",
                             "taken", "seen"}
       /\ bound[n].raw \in Strings
       /\ bound[n].seen \in Seq(Reports)

ParserInv == ScanOK /\ NamesOK /\ BoundOK

(* path_stack has a place at least (parser.hpp:166-168).                   *)
LEMMA StackSizeIsPositive ==
  ASSUME NEW nodes \in Seq(BindNodes)
  PROVE  StackSize(nodes) \in Nat /\ StackSize(nodes) >= 1
<1> DEFINE lengths == {Len(nodes[n].path) : n \in DOMAIN nodes}
           sizes == {1} \cup lengths
<1>1. \A n \in DOMAIN nodes : Len(nodes[n].path) \in Nat
  BY DEF BindNodes
<1>2. IsFiniteSet(DOMAIN nodes)
  BY FS_Interval
<1>3. IsFiniteSet(lengths)
  <2> DEFINE length == [n \in DOMAIN nodes |-> Len(nodes[n].path)]
  <2>1. length \in Surjection(DOMAIN nodes, lengths)
    BY DEF Surjection
  <2> QED BY <1>2, <2>1, FS_Surjection
<1>4. IsFiniteSet(sizes)
  BY <1>3, FS_Singleton, FS_Union
<1>5. sizes \in SUBSET Nat /\ sizes # {} /\ 1 \in sizes
  BY <1>1
<1>6. StackSize(nodes) = Max(sizes)
  BY DEF StackSize
<1> HIDE DEF sizes
<1> QED BY <1>4, <1>5, <1>6, MaxIsGreatest

(* A parse begins with the invariant (parser.hpp:173-183).                 *)
LEMMA ParseStarts ==
  ASSUME NEW json \in Strings, NEW nodes \in Seq(BindNodes), NEW root \in Seq(Strings),
         StartParse(json, nodes, root)
  PROVE  ParserInv'
<1> DEFINE stack == [k \in 1..StackSize(nodes) |-> <<>>]
<1>1. StackSize(nodes) \in Nat
  BY StackSizeIsPositive
<1>2. <<>> \in Strings /\ Len(json) \in Nat
  BY DEF Strings
<1>3. stack \in Seq(Strings) /\ Len(stack) = StackSize(nodes)
  BY <1>1, <1>2
<1>4. scan' = [json |-> json, i |-> 1, depth |-> 0, key |-> <<>>, stack |-> stack,
               nodes |-> nodes, root |-> root]
  BY DEF StartParse, Scan
<1> HIDE DEF stack
<1>5. ScanOK'
  BY <1>2, <1>3, <1>4 DEF ScanOK, Scans
<1>6. NamesOK'
  BY <1>4 DEF NamesOK
<1>7. BoundOK'
  <2>1. bound' = [n \in DOMAIN nodes |-> Unset(nodes[n])]
    BY DEF StartParse
  <2>2. \A n \in DOMAIN nodes :
          /\ DOMAIN Unset(nodes[n]) = {"set", "null", "value", "raw", "string", "rest",
                                       "started", "taken", "seen"}
          /\ Unset(nodes[n]).raw = <<>> /\ Unset(nodes[n]).seen = <<>>
    BY DEF Unset
  <2>3. <<>> \in Seq(Reports)
    OBVIOUS
  <2>4. DOMAIN bound' = DOMAIN nodes /\ \A n \in DOMAIN nodes : bound'[n] = Unset(nodes[n])
    BY <2>1
  <2>5. scan'.nodes = nodes
    BY <1>4
  <2> QED BY <1>2, <2>2, <2>3, <2>4, <2>5 DEF BoundOK
<1> QED BY <1>5, <1>6, <1>7 DEF ParserInv

-----------------------------------------------------------------------------
(* One turn of the loop. *)

(* The position behind blanks and comments, and the symbol there.          *)
LEMMA PositionIsAhead ==
  ASSUME ScanOK
  PROVE  /\ Position \in Nat /\ scan.i <= Position /\ Position >= 1
         /\ Position <= Len(scan.json) + 3
         /\ Symbol \notin Whitespace
         /\ Symbol # "end" => Position <= Len(scan.json)
         /\ Position <= Len(scan.json) => Symbol = scan.json[Position]
<1>1. scan.json \in Strings /\ scan.i \in Nat /\ scan.i >= 1 /\ scan.i <= Len(scan.json) + 3
      /\ Len(scan.json) \in Nat
  BY Texts DEF ScanOK, Scans
<1>2. /\ Position \in Nat /\ scan.i <= Position /\ Symbol \notin Whitespace
      /\ Position = scan.i \/ Position <= Len(scan.json) + 3
  BY <1>1, SkipSpaceMovesOn DEF Position, Symbol
<1>3. Symbol # "end" => Position \in 1..Len(scan.json)
  BY <1>1, <1>2, Texts DEF Symbol
<1>4. Position \in 1..Len(scan.json) => Symbol = scan.json[Position]
  BY <1>1, Texts DEF Symbol
<1> QED BY <1>1, <1>2, <1>3, <1>4

(* A place of path_stack is written only where there is one. *)
LEMMA StackedKeepsSize ==
  ASSUME ScanOK, NamesOK
  PROVE  /\ Stacked \in Seq(Strings) /\ Len(Stacked) = Len(scan.stack)
         /\ \A k \in 1..scan.depth : k <= Len(Stacked) => Stacked[k] = scan.stack[k]
         /\ Room => /\ scan.depth + 1 \in 1..Len(Stacked)
                    /\ Stacked[scan.depth + 1] = scan.key
         /\ Room => Current \in Seq(Strings) /\ Len(Current) = scan.depth + 1
         /\ Room /\ scan.key # <<>> =>
              Current # <<>> /\ \A k \in DOMAIN Current : Current[k] # <<>>
<1>1. /\ scan.stack \in Seq(Strings) /\ Len(scan.stack) \in Nat
      /\ scan.depth \in Nat /\ scan.key \in Strings
  BY DEF ScanOK, Scans
<1>2. CASE Room
  <2>1. scan.depth + 1 \in 1..Len(scan.stack)
    BY <1>1, <1>2 DEF Room
  <2>2. Stacked = [scan.stack EXCEPT ![scan.depth + 1] = scan.key]
    BY <1>2 DEF Stacked
  <2>3. Stacked \in Seq(Strings) /\ Len(Stacked) = Len(scan.stack)
    BY <1>1, <2>1, <2>2
  <2>4. \A k \in 1..scan.depth : k <= Len(Stacked) => Stacked[k] = scan.stack[k]
    BY <1>1, <2>1, <2>2
  <2>5. Stacked[scan.depth + 1] = scan.key
    BY <1>1, <2>1, <2>2
  <2>6. Current \in Seq(Strings) /\ Len(Current) = scan.depth + 1
    BY <1>1, <2>1, <2>3 DEF Current
  <2>7. \A k \in 1..(scan.depth + 1) : Current[k] = Stacked[k]
    BY <1>1, <2>1, <2>3 DEF Current
  <2>8. scan.key # <<>> => \A k \in 1..(scan.depth + 1) : Current[k] # <<>>
    BY <1>1, <2>1, <2>3, <2>4, <2>5, <2>7 DEF NamesOK
  <2> QED BY <1>1, <2>1, <2>3, <2>4, <2>5, <2>6, <2>8
<1>3. CASE ~Room
  BY <1>1, <1>3 DEF Stacked
<1> QED BY <1>2, <1>3

(* What is assigned is text; a callback is given a path of names that are  *)
(* not empty.                                                              *)
LEMMA AssignKeeps ==
  ASSUME ParserInv, NEW block \in BOOLEAN, NEW raw \in Strings, NEW string, NEW null,
         AssignTo(Receivers(block), raw, string, null), scan'.nodes = scan.nodes
  PROVE  BoundOK'
<1> DEFINE got(n) == Assigned(scan.nodes[n], bound[n], Current, raw, string, null)
<1>1. \A n \in Receivers(block) : /\ Room
                                  /\ CatchAll(scan.nodes[n]) => scan.key # <<>>
  <2>1. ScanOK
    BY DEF ParserInv
  <2>2. \A S \in SUBSET (DOMAIN scan.nodes) : S # {} => Min(S) \in S /\ Max(S) \in S
    <3>1. Len(scan.nodes) \in Nat /\ DOMAIN scan.nodes = 1..Len(scan.nodes)
      BY <2>1 DEF ScanOK, Scans
    <3> SUFFICES ASSUME NEW S \in SUBSET (DOMAIN scan.nodes), S # {}
                 PROVE  Min(S) \in S /\ Max(S) \in S
      OBVIOUS
    <3>2. S \in SUBSET (1..Len(scan.nodes))
      BY <3>1
    <3> QED BY <3>1, <3>2, EndsOf
  <2>3. Matching \in SUBSET (DOMAIN scan.nodes) /\ Callbacks \in SUBSET (DOMAIN scan.nodes)
    BY DEF Matching, Callbacks
  <2>4. \A n \in Matching : Room /\ ~CatchAll(scan.nodes[n])
    BY DEF Matching, Matches
  <2>5. \A n \in Callbacks : Room /\ scan.key # <<>>
    BY DEF Callbacks
  <2>6. \A n \in Receivers(block) : n \in Matching \/ n \in Callbacks
    BY <2>2, <2>3 DEF Receivers
  <2> QED BY <2>4, <2>5, <2>6
<1>2. ASSUME NEW n \in DOMAIN bound, n \in Receivers(block)
      PROVE  /\ DOMAIN got(n) = DOMAIN bound[n]
             /\ got(n).raw \in Strings /\ got(n).seen \in Seq(Reports)
  <2>1. /\ DOMAIN bound[n] = {"set", "null", "value", "raw", "string", "rest", "started",
                              "taken", "seen"}
        /\ bound[n].raw \in Strings /\ bound[n].seen \in Seq(Reports)
    BY DEF ParserInv, BoundOK
  <2>2. CASE CatchAll(scan.nodes[n])
    <3>1. <<Current, raw>> \in Reports
      BY <1>1, <1>2, <2>2, StackedKeepsSize DEF ParserInv, Reports
    <3>2. Append(bound[n].seen, <<Current, raw>>) \in Seq(Reports)
      BY <2>1, <3>1
    <3>3. Dynamic(scan.nodes[n])
      BY <2>2 DEF Dynamic, CatchAll
    <3>4. got(n) = [bound[n] EXCEPT !.set = TRUE, !.null = null, !.raw = raw, !.string = string,
                      !.rest = raw, !.started = FALSE,
                      !.seen = Append(bound[n].seen, <<Current, raw>>)]
      BY <2>2, <3>3 DEF Assigned
    <3> HIDE DEF got
    <3> QED BY <2>1, <3>2, <3>4
  <2>3. CASE ~CatchAll(scan.nodes[n]) /\ Dynamic(scan.nodes[n])
    <3>1. got(n) = [bound[n] EXCEPT !.set = TRUE, !.null = null, !.raw = raw, !.string = string,
                      !.rest = raw, !.started = FALSE, !.seen = bound[n].seen]
      BY <2>3 DEF Assigned
    <3> HIDE DEF got
    <3> QED BY <2>1, <3>1
  <2>4. CASE ~Dynamic(scan.nodes[n])
    <3>1. got(n) = [bound[n] EXCEPT !.set = TRUE, !.null = null,
                      !.value = Coerce(scan.nodes[n], bound[n], raw, null)]
      BY <2>4 DEF Assigned
    <3> HIDE DEF got
    <3> QED BY <2>1, <3>1
  <2> QED BY <2>2, <2>3, <2>4
<1>3. /\ DOMAIN bound' = DOMAIN bound
      /\ \A n \in DOMAIN bound : bound'[n] = IF n \in Receivers(block) THEN got(n) ELSE bound[n]
  BY DEF AssignTo
<1> HIDE DEF got
<1> QED BY <1>2, <1>3 DEF ParserInv, BoundOK

Advances == scan.i < scan'.i

Moved(i, depth, key, stack) ==
  [json |-> scan.json, i |-> i, depth |-> depth, key |-> key, stack |-> stack,
   nodes |-> scan.nodes, root |-> scan.root]

(* A turn that moves the position on, and opens fewer levels than it has   *)
(* passed symbols, keeps the bounds.                                       *)
LEMMA MovesOn ==
  ASSUME ScanOK,
         NEW i \in Nat, scan.i < i, i <= Len(scan.json) + 3,
         NEW depth \in Nat, depth < i, depth <= Len(scan.json),
         NEW key \in Strings, NEW stack \in Seq(Strings), Len(stack) = Len(scan.stack),
         scan' = Moved(i, depth, key, stack)
  PROVE  ScanOK' /\ Advances
<1>1. /\ scan'.json = scan.json /\ scan'.i = i /\ scan'.depth = depth
      /\ scan'.stack = stack /\ scan'.nodes = scan.nodes
  BY DEF Moved
<1>2. /\ scan.json \in Strings /\ scan.i \in Nat /\ scan.i >= 1 /\ Len(scan.json) \in Nat
      /\ scan.nodes \in Seq(BindNodes) /\ scan.root \in Seq(Strings)
      /\ Len(scan.stack) = StackSize(scan.nodes)
  BY DEF ScanOK, Scans, Strings
<1>3. scan' \in Scans
  BY <1>2 DEF Moved, Scans
<1>4. scan'.i \in 1..(Len(scan'.json) + 3)
  BY <1>1, <1>2
<1>5. scan'.depth < scan'.i /\ scan'.depth <= Len(scan'.json)
  BY <1>1
<1>6. Len(scan'.stack) = StackSize(scan'.nodes)
  BY <1>1, <1>2
<1>7. Advances
  BY <1>1 DEF Advances
<1> QED BY <1>3, <1>4, <1>5, <1>6, <1>7 DEF ScanOK

(* The loop ends at the blanks behind the text (parser.cpp:375-377).       *)
LEMMA BlankKeeps ==
  ASSUME ParserInv, Blank
  PROVE  ParserInv' /\ Advances
<1> USE DEF ParserInv
<1>1. scan' = [scan EXCEPT !.i = Position] /\ bound' = bound
  BY DEF Blank
<1>2. scan.i <= Len(scan.json) /\ Position > Len(scan.json)
  BY DEF Blank, Scanning
<1>3. scan.i < Position /\ Position \in 1..(Len(scan.json) + 3)
  BY <1>2, PositionIsAhead DEF ScanOK, Scans
<1>4. ScanOK' /\ Advances
  <2>1. scan' = Moved(Position, scan.depth, scan.key, scan.stack)
    BY <1>1 DEF Moved, ScanOK, Scans
  <2> QED BY <1>3, <2>1, MovesOn DEF ScanOK, Scans
<1>5. NamesOK' /\ BoundOK'
  BY <1>1 DEF NamesOK, BoundOK, ScanOK, Scans
<1> QED BY <1>4, <1>5

(* A block is assigned (parser.cpp:321-373).                               *)
LEMMA CaptureKeeps ==
  ASSUME ParserInv, Scanning, Symbol \in {"{", "["}, Capture(Position),
         scan'.nodes = scan.nodes
  PROVE  BoundOK'
<1>1. Position \in Nat /\ Position >= 1 /\ scan.json \in Strings
  BY PositionIsAhead DEF ParserInv, ScanOK, Scans
<1>2. BlockEnd(scan.json, Position) \in Nat
  BY <1>1, BlockEndIsPosition
<1>3. Upto(scan.json, Position, BlockEnd(scan.json, Position)) \in Strings
  BY <1>1, <1>2, UptoIsText
<1>4. AssignTo(Receivers(TRUE), Upto(scan.json, Position, BlockEnd(scan.json, Position)),
               FALSE, FALSE)
  BY DEF Capture
<1> QED BY <1>3, <1>4, AssignKeeps

(* An opening brace (parser.cpp:381-391): the name pushed is the key,      *)
(* which is not empty.                                                     *)
LEMMA OpenObjectKeeps ==
  ASSUME ParserInv, OpenObject
  PROVE  ParserInv' /\ Advances
<1>1. ScanOK /\ NamesOK
  BY DEF ParserInv
<1>2. /\ Position \in Nat /\ scan.i <= Position /\ Position <= Len(scan.json)
  BY <1>1, PositionIsAhead DEF OpenObject
<1>3. /\ scan \in Scans /\ scan.depth \in Nat /\ scan.i \in Nat /\ Len(scan.json) \in Nat
      /\ <<>> \in Strings
  BY <1>1 DEF ScanOK, Scans, Strings
<1>4. CASE scan.key = <<>>
  <2>1. scan' = [scan EXCEPT !.i = Position + 1, !.stack = Stacked]
    BY <1>4 DEF OpenObject
  <2>2. ScanOK' /\ Advances
    <3>1. scan' = Moved(Position + 1, scan.depth, scan.key, Stacked)
      BY <1>3, <2>1 DEF Moved, Scans
    <3>2. /\ scan.depth < Position + 1 /\ scan.depth <= Len(scan.json)
          /\ scan.i < Position + 1 /\ Position + 1 <= Len(scan.json) + 3
      BY <1>1, <1>2, <1>3 DEF ScanOK
    <3>3. Position + 1 \in Nat /\ scan.key \in Strings
      BY <1>2, <1>3 DEF Scans
    <3> QED BY <1>1, <1>3, <3>1, <3>2, <3>3, StackedKeepsSize, MovesOn
  <2>3. NamesOK'
    BY <1>1, <1>3, <2>1, StackedKeepsSize DEF NamesOK, Scans
  <2>4. BoundOK'
    BY <1>3, <2>1, CaptureKeeps DEF OpenObject, Scans
  <2> QED BY <2>2, <2>3, <2>4 DEF ParserInv
<1>5. CASE scan.key # <<>>
  <2>1. scan' = [scan EXCEPT !.i = Position + 1, !.stack = Stacked,
                             !.depth = scan.depth + 1, !.key = <<>>]
    BY <1>5 DEF OpenObject
  <2>2. ScanOK' /\ Advances
    <3>1. scan' = Moved(Position + 1, scan.depth + 1, <<>>, Stacked)
      BY <1>3, <2>1 DEF Moved, Scans
    <3>2. scan.depth + 1 \in Nat /\ scan.depth + 1 < Position + 1
          /\ scan.depth + 1 <= Len(scan.json)
      BY <1>1, <1>2, <1>3 DEF ScanOK
    <3> QED BY <1>1, <1>2, <1>3, <3>1, <3>2, StackedKeepsSize, MovesOn
  <2>3. NamesOK'
    <3>1. scan'.depth = scan.depth + 1 /\ scan'.stack = Stacked
      BY <1>3, <2>1 DEF Scans
    <3>2. scan.depth + 1 <= Len(Stacked) => Stacked[scan.depth + 1] = scan.key
      BY <1>1, <1>3, StackedKeepsSize DEF Room, ScanOK, Scans
    <3>3. \A k \in 1..scan.depth : k <= Len(Stacked) => Stacked[k] # <<>>
      BY <1>1, StackedKeepsSize DEF NamesOK
    <3> QED BY <1>3, <1>5, <3>1, <3>2, <3>3 DEF NamesOK
  <2>4. BoundOK'
    BY <1>3, <2>1, CaptureKeeps DEF OpenObject, Scans
  <2> QED BY <2>2, <2>3, <2>4 DEF ParserInv
<1> QED BY <1>4, <1>5

(* An opening bracket (parser.cpp:392-395).                                *)
LEMMA OpenArrayKeeps ==
  ASSUME ParserInv, OpenArray
  PROVE  ParserInv' /\ Advances
<1>1. ScanOK /\ NamesOK
  BY DEF ParserInv
<1>2. /\ Position \in Nat /\ scan.i <= Position /\ Position <= Len(scan.json)
  BY <1>1, PositionIsAhead DEF OpenArray
<1>3. /\ scan \in Scans /\ scan.depth \in Nat /\ scan.i \in Nat /\ Len(scan.json) \in Nat
      /\ <<>> \in Strings
  BY <1>1 DEF ScanOK, Scans, Strings
<1>4. scan' = [scan EXCEPT !.i = Position + 1, !.stack = Stacked, !.key = <<>>]
  BY DEF OpenArray
<1>5. ScanOK' /\ Advances
  <2>1. scan' = Moved(Position + 1, scan.depth, <<>>, Stacked)
    BY <1>3, <1>4 DEF Moved, Scans
  <2> QED BY <1>1, <1>2, <1>3, <2>1, StackedKeepsSize, MovesOn DEF ScanOK
<1>6. NamesOK'
  BY <1>1, <1>3, <1>4, StackedKeepsSize DEF NamesOK, Scans
<1>7. BoundOK'
  BY <1>3, <1>4, CaptureKeeps DEF OpenArray, Scans
<1> QED BY <1>5, <1>6, <1>7 DEF ParserInv

(* A closing brace, even one too many (parser.cpp:396-398).                *)
LEMMA CloseObjectKeeps ==
  ASSUME ParserInv, CloseObject
  PROVE  ParserInv' /\ Advances
<1> USE DEF ParserInv
<1>1. /\ Position \in Nat /\ scan.i <= Position /\ Position <= Len(scan.json)
  BY PositionIsAhead DEF CloseObject
<1>2. scan \in Scans /\ scan.depth \in Nat /\ scan.i \in Nat /\ Len(scan.json) \in Nat
  BY DEF ScanOK, Scans, Strings
<1>3. /\ scan' = [scan EXCEPT !.i = Position + 1,
                              !.depth = IF scan.depth > 0 THEN scan.depth - 1 ELSE 0]
      /\ bound' = bound
  BY DEF CloseObject
<1> DEFINE depth == IF scan.depth > 0 THEN scan.depth - 1 ELSE 0
<1>4. ScanOK' /\ Advances
  <2>1. scan' = Moved(Position + 1, depth, scan.key, scan.stack)
    BY <1>2, <1>3 DEF Moved, Scans
  <2>2. depth \in Nat /\ depth < Position + 1 /\ depth <= Len(scan.json)
    BY <1>1, <1>2 DEF ScanOK
  <2> HIDE DEF depth
  <2> QED BY <1>1, <1>2, <2>1, <2>2, MovesOn DEF ScanOK, Scans
<1>5. NamesOK' /\ BoundOK'
  <2>1. scan'.depth = depth /\ scan'.stack = scan.stack /\ scan'.nodes = scan.nodes
    BY <1>2, <1>3 DEF Scans
  <2>2. 1..depth \subseteq 1..scan.depth
    BY <1>2
  <2> HIDE DEF depth
  <2> QED BY <1>3, <2>1, <2>2 DEF NamesOK, BoundOK
<1> QED BY <1>4, <1>5

(* A comma, a colon or a closing bracket (parser.cpp:399-402).             *)
LEMMA PunctuationKeeps ==
  ASSUME ParserInv, Punctuation
  PROVE  ParserInv' /\ Advances
<1> USE DEF ParserInv
<1>1. /\ Position \in Nat /\ scan.i <= Position /\ Position <= Len(scan.json)
  BY PositionIsAhead DEF Punctuation
<1>2. scan \in Scans /\ scan.depth \in Nat /\ scan.i \in Nat /\ Len(scan.json) \in Nat
  BY DEF ScanOK, Scans, Strings
<1>3. scan' = [scan EXCEPT !.i = Position + 1] /\ bound' = bound
  BY DEF Punctuation
<1>4. ScanOK' /\ Advances
  <2>1. scan' = Moved(Position + 1, scan.depth, scan.key, scan.stack)
    BY <1>2, <1>3 DEF Moved, Scans
  <2> QED BY <1>1, <1>2, <2>1, MovesOn DEF ScanOK, Scans
<1>5. NamesOK' /\ BoundOK'
  BY <1>2, <1>3 DEF NamesOK, BoundOK, Scans
<1> QED BY <1>4, <1>5

(* A string, as a key or as a value (parser.cpp:403-443), even one that is *)
(* cut off.                                                                *)
LEMMA StringTokenKeeps ==
  ASSUME ParserInv, StringToken
  PROVE  ParserInv' /\ Advances
<1> DEFINE end == StringEnd(scan.json, Position + 1)
           text == Upto(scan.json, Position + 1, end)
           from == IF end <= Len(scan.json) THEN end + 1 ELSE end
           behind == SkipSpace(scan.json, from)
<1>1. ScanOK /\ NamesOK
  BY DEF ParserInv
<1>2. /\ scan \in Scans /\ scan.depth \in Nat /\ scan.i \in Nat /\ Len(scan.json) \in Nat
      /\ <<>> \in Strings /\ scan.json \in Strings
  BY <1>1 DEF ScanOK, Scans, Strings
<1>3. /\ Position \in Nat /\ scan.i <= Position /\ Position <= Len(scan.json)
  BY <1>1, PositionIsAhead DEF StringToken, Quote
<1>4. end \in Nat /\ Position + 1 <= end /\ (end = Position + 1 \/ end <= Len(scan.json) + 2)
  <2>1. Position + 1 \in Nat
    BY <1>3
  <2> QED BY <1>2, <2>1, StringEndMovesOn
<1>5. text \in Strings
  BY <1>2, <1>3, <1>4, UptoIsText
<1> HIDE DEF end, text
<1>6. from \in Nat /\ Position + 1 <= from /\ from <= Len(scan.json) + 2
  BY <1>2, <1>3, <1>4
<1> HIDE DEF from
<1>7. behind \in Nat /\ Position + 1 <= behind /\ behind <= Len(scan.json) + 3
  <2>1. behind \in Nat /\ from <= behind /\ (behind = from \/ behind <= Len(scan.json) + 3)
    BY <1>2, <1>6, SkipSpaceMovesOn
  <2> HIDE DEF behind
  <2> QED BY <1>2, <1>3, <1>6, <2>1
<1>8. At(scan.json, behind) = ":" => behind <= Len(scan.json)
  BY <1>2, <1>7, Texts
<1>9. \/ /\ At(scan.json, behind) = ":"
         /\ scan' = [scan EXCEPT !.i = behind + 1, !.key = text]
         /\ bound' = bound
      \/ /\ AssignTo(Receivers(FALSE), text, TRUE, FALSE)
         /\ scan' = [scan EXCEPT !.i = behind, !.stack = Stacked, !.key = <<>>]
  BY DEF StringToken, behind, from, text, end
<1> HIDE DEF behind
<1>10. CASE /\ At(scan.json, behind) = ":"
            /\ scan' = [scan EXCEPT !.i = behind + 1, !.key = text]
            /\ bound' = bound
  <2>1. ScanOK' /\ Advances
    <3>1. scan' = Moved(behind + 1, scan.depth, text, scan.stack)
      BY <1>2, <1>10 DEF Moved, Scans
    <3>2. /\ behind + 1 \in Nat /\ scan.i < behind + 1 /\ scan.depth < behind + 1
          /\ behind + 1 <= Len(scan.json) + 3
      BY <1>1, <1>2, <1>3, <1>7, <1>8, <1>10 DEF ScanOK
    <3> QED BY <1>1, <1>5, <3>1, <3>2, MovesOn DEF ScanOK, Scans
  <2>2. NamesOK' /\ BoundOK'
    BY <1>2, <1>10 DEF NamesOK, BoundOK, Scans, ParserInv
  <2> QED BY <2>1, <2>2 DEF ParserInv
<1>11. CASE /\ AssignTo(Receivers(FALSE), text, TRUE, FALSE)
            /\ scan' = [scan EXCEPT !.i = behind, !.stack = Stacked, !.key = <<>>]
  <2>1. ScanOK' /\ Advances
    <3>1. scan' = Moved(behind, scan.depth, <<>>, Stacked)
      BY <1>2, <1>11 DEF Moved, Scans
    <3>2. scan.i < behind /\ scan.depth < behind /\ scan.depth <= Len(scan.json)
      BY <1>1, <1>2, <1>3, <1>7 DEF ScanOK
    <3> QED BY <1>1, <1>2, <1>7, <3>1, <3>2, StackedKeepsSize, MovesOn
  <2>2. NamesOK'
    BY <1>1, <1>2, <1>11, StackedKeepsSize DEF NamesOK, Scans
  <2>3. BoundOK'
    BY <1>2, <1>5, <1>11, AssignKeeps DEF Scans
  <2> QED BY <2>1, <2>2, <2>3 DEF ParserInv
<1> QED BY <1>9, <1>10, <1>11

(* A primitive value (parser.cpp:444-473).                                 *)
LEMMA PrimitiveKeeps ==
  ASSUME ParserInv, Primitive
  PROVE  ParserInv' /\ Advances
<1> DEFINE end == PrimitiveEnd(scan.json, Position)
           text == Upto(scan.json, Position, end)
<1>1. ScanOK /\ NamesOK
  BY DEF ParserInv
<1>2. /\ scan \in Scans /\ scan.depth \in Nat /\ scan.i \in Nat /\ Len(scan.json) \in Nat
      /\ <<>> \in Strings /\ scan.json \in Strings
  BY <1>1 DEF ScanOK, Scans, Strings
<1>3. /\ Position \in Nat /\ scan.i <= Position /\ Position >= 1
      /\ Position <= Len(scan.json)
      /\ Symbol = scan.json[Position] /\ Symbol \notin Whitespace
  BY <1>1, PositionIsAhead DEF Primitive
<1>4. scan.json[Position] \notin PrimitiveDelim
  BY <1>3 DEF Primitive, PrimitiveDelim
<1>5. end \in Nat /\ Position <= end /\ end <= Len(scan.json) + 1 /\ end # Position
  BY <1>2, <1>3, <1>4, FirstFromFinds DEF PrimitiveEnd
<1>6. text \in Strings
  BY <1>2, <1>3, <1>5, UptoIsText
<1>7. /\ AssignTo(Receivers(FALSE), text, FALSE, text = <<"null">>)
      /\ scan' = [scan EXCEPT !.i = end, !.stack = Stacked, !.key = <<>>]
  BY DEF Primitive
<1> HIDE DEF end, text
<1>8. ScanOK' /\ Advances
  <2>1. scan' = Moved(end, scan.depth, <<>>, Stacked)
    BY <1>2, <1>7 DEF Moved, Scans
  <2>2. /\ scan.i < end /\ scan.depth < end /\ scan.depth <= Len(scan.json)
        /\ end <= Len(scan.json) + 3
    BY <1>1, <1>2, <1>3, <1>5 DEF ScanOK
  <2> QED BY <1>1, <1>2, <1>5, <2>1, <2>2, StackedKeepsSize, MovesOn
<1>9. NamesOK'
  BY <1>1, <1>2, <1>7, StackedKeepsSize DEF NamesOK, Scans
<1>10. BoundOK'
  BY <1>2, <1>6, <1>7, AssignKeeps DEF Scans
<1> QED BY <1>8, <1>9, <1>10 DEF ParserInv

(* Whatever the text and the bindings: a turn of the loop keeps the        *)
(* invariant and takes the position on, so that the loop ends              *)
(* (parser.cpp:375-475).                                                   *)
LEMMA TurnKeeps ==
  ASSUME ParserInv, ParserStep
  PROVE  ParserInv' /\ Advances
BY BlankKeeps, OpenObjectKeeps, OpenArrayKeeps, CloseObjectKeeps, PunctuationKeeps,
   StringTokenKeeps, PrimitiveKeeps DEF ParserStep

(* operator>> changes no more than the node it reads (parser.hpp:245-268). *)
LEMMA ExtractKeeps ==
  ASSUME ParserInv, NEW n \in DOMAIN bound, Extract(n)
  PROVE  ParserInv'
<1>1. scan' = scan
  BY DEF Extract
<1>2. ScanOK' /\ NamesOK'
  BY <1>1 DEF ParserInv, ScanOK, NamesOK, Stacked
<1>3. PICK rest, taken :
        bound' = [bound EXCEPT ![n].started = TRUE, ![n].rest = rest, ![n].taken = taken]
  BY DEF Extract
<1>4. /\ DOMAIN bound' = DOMAIN bound
      /\ \A m \in DOMAIN bound :
           /\ DOMAIN bound'[m] = DOMAIN bound[m]
           /\ bound'[m].raw = bound[m].raw /\ bound'[m].seen = bound[m].seen
  <2>1. DOMAIN bound[n] = {"set", "null", "value", "raw", "string", "rest", "started",
                           "taken", "seen"}
    BY DEF ParserInv, BoundOK
  <2> QED BY <1>3, <2>1
<1>5. BoundOK'
  BY <1>1, <1>4 DEF ParserInv, BoundOK
<1> QED BY <1>2, <1>5 DEF ParserInv
=============================================================================
