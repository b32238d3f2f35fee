------------------------------ MODULE Json_proofs ------------------------------
(***************************************************************************)
(* stack_json in use, for every set of jobs: any documents, values, texts, *)
(* bindings and buffers.  A write is a fold over symbols, digits or        *)
(* pieces; that a fold exists and stays in a set it starts in and each     *)
(* step keeps is proved once (FoldExists, FoldStays), and every write of   *)
(* the buffer, the decorator and the document is an instance of it.        *)
(*                                                                         *)
(* TypeOK is not inductive: that a level's path is shorter than its nodes' *)
(* needs that no path of a document is a prefix of another, that an        *)
(* emission unwinds to a frame needs a root under every level, and that    *)
(* the decorator is no deeper than the text is long needs that each level  *)
(* was opened by a bracket the buffer took.  IInv says so of every frame   *)
(* and every buffer.                                                       *)
(***************************************************************************)
EXTENDS Json, JsonParser_proofs

-----------------------------------------------------------------------------
(* Folds.  FoldLeft takes the elements of a sequence from the last to the   *)
(* first; f is the function on sets of places that it is defined by.        *)

Places(n) == SUBSET (1..n)
IsFold(f, n, base, op) ==
  f = [S \in Places(n) |-> IF S = {} THEN base ELSE op[<<f[S \ {Max(S)}], Max(S)>>]]

(* The last of a set of places, and the places before it.                  *)
LEMMA LastPlace ==
  ASSUME NEW n \in Nat, NEW S \in Places(n), S # {}
  PROVE  /\ Max(S) \in S /\ Max(S) \in 1..n
         /\ \A k \in S : k <= Max(S)
         /\ S \ {Max(S)} \in Places(n)
BY Within, MaxIsGreatest DEF Places

(* What holds of no element, and goes from fewer elements to one more,     *)
(* holds of all.                                                           *)
LEMMA PlacesLeast ==
  ASSUME NEW n \in Nat, NEW T \in SUBSET Places(n), T # {}
  PROVE  \E S \in T : S = {} \/ S \ {Max(S)} \notin T
<1>1. IsFiniteSet(1..n)
  BY FS_Interval
<1>2. FiniteSubsetsOf(1..n) = SUBSET (1..n)
  BY <1>1, FS_FiniteSubsetsOfFinite
<1>3. IsWellFoundedOn(StrictSubsetOrdering(1..n), Places(n))
  BY <1>2, FS_StrictSubsetOrderingWellFounded DEF Places
<1>4. PICK S \in T : \A R \in T : <<R, S>> \notin StrictSubsetOrdering(1..n)
  BY <1>3, WFMin
<1>5. S # {} => <<S \ {Max(S)}, S>> \in StrictSubsetOrdering(1..n)
  <2>1. S # {} => Max(S) \in S
    BY LastPlace
  <2> QED BY <2>1 DEF StrictSubsetOrdering, Places
<1> QED BY <1>4, <1>5

(* A fold over the places 1..n has a value for every set of places: the    *)
(* sets are those of a smaller n, and each with n added.                   *)
LEMMA FoldExists ==
  ASSUME NEW n \in Nat, NEW V, NEW base \in V, NEW op \in [V \X (1..n) -> V]
  PROVE  \E f \in [Places(n) -> V] : IsFold(f, n, base, op)
<1> DEFINE fold(f, S) ==
             f = [R \in SUBSET S |-> IF R = {} THEN base ELSE op[<<f[R \ {Max(R)}], Max(R)>>]]
           Folded(S) == \E f \in [SUBSET S -> V] : fold(f, S)
           T == {S \in Places(n) : ~Folded(S)}
<1>1. Folded({})
  <2> DEFINE f == [R \in SUBSET {} |-> base]
  <2>1. f \in [SUBSET {} -> V]
    OBVIOUS
  <2>2. \A R \in SUBSET {} : R = {}
    OBVIOUS
  <2>3. fold(f, {})
    BY <2>2
  <2> QED BY <2>1, <2>3
<1>2. ASSUME NEW S \in Places(n), S # {}, Folded(S \ {Max(S)}) PROVE Folded(S)
  <2> DEFINE m == Max(S)
             S1 == S \ {m}
  <2>1. m \in S /\ m \in 1..n /\ \A k \in S : k <= m
    BY <1>2, LastPlace
  <2>2. PICK g \in [SUBSET S1 -> V] : fold(g, S1)
    BY <1>2
  <2> DEFINE f == [R \in SUBSET S |-> IF m \in R THEN op[<<g[R \ {m}], m>>] ELSE g[R]]
  <2>3. \A R \in SUBSET S : /\ m \in R => R \ {m} \in SUBSET S1
                            /\ m \notin R => R \in SUBSET S1
    OBVIOUS
  <2>4. f \in [SUBSET S -> V]
    <3> HIDE DEF m, S1
    <3>1. \A R \in SUBSET S : m \in R => <<g[R \ {m}], m>> \in V \X (1..n)
      BY <2>1, <2>2, <2>3
    <3>2. \A R \in SUBSET S : m \in R => op[<<g[R \ {m}], m>>] \in V
      BY <3>1
    <3>3. \A R \in SUBSET S : m \notin R => g[R] \in V
      BY <2>2, <2>3
    <3> QED BY <3>2, <3>3
  <2>5. ASSUME NEW R \in SUBSET S, m \in R
        PROVE  /\ R # {} /\ Max(R) = m
               /\ f[R] = op[<<f[R \ {m}], m>>]
    <3>1. R \in Places(n) /\ R # {}
      BY <2>5 DEF Places
    <3>2. Max(R) \in R /\ \A k \in R : k <= Max(R)
      BY <3>1, LastPlace
    <3>3. Max(R) = m
      <4>1. Max(R) <= m /\ m <= Max(R) /\ Max(R) \in 1..n
        <5> HIDE DEF m
        <5> QED BY <2>1, <2>5, <3>1, <3>2 DEF Places
      <4> HIDE DEF m
      <4> QED BY <2>1, <4>1
    <3>4. f[R] = op[<<g[R \ {m}], m>>] /\ f[R \ {m}] = g[R \ {m}]
      <4> HIDE DEF m
      <4> QED BY <2>5
    <3> QED BY <3>1, <3>3, <3>4
  <2>6. ASSUME NEW R \in SUBSET S, m \notin R, R # {}
        PROVE  f[R] = op[<<f[R \ {Max(R)}], Max(R)>>]
    <3>1. R \in SUBSET S1 /\ R \ {Max(R)} \in SUBSET S /\ m \notin R \ {Max(R)}
      BY <2>6
    <3>2. f[R] = g[R] /\ f[R \ {Max(R)}] = g[R \ {Max(R)}]
      <4> HIDE DEF m
      <4> QED BY <2>6, <3>1
    <3>3. g[R] = op[<<g[R \ {Max(R)}], Max(R)>>]
      <4> HIDE DEF m, S1
      <4> QED BY <2>2, <2>6, <3>1
    <3> QED BY <3>2, <3>3
  <2>7. f[{}] = base
    <3>1. {} \in SUBSET S /\ m \notin {} /\ {} \in SUBSET S1
      OBVIOUS
    <3>2. g[{}] = base
      <4> HIDE DEF m, S1
      <4> QED BY <2>2, <3>1
    <3>3. f[{}] = g[{}]
      <4> HIDE DEF m, S1
      <4> QED BY <3>1
    <3> QED BY <3>2, <3>3
  <2>8. f = [R \in SUBSET S |-> f[R]]
    OBVIOUS
  <2>9. \A R \in SUBSET S : f[R] = IF R = {} THEN base ELSE op[<<f[R \ {Max(R)}], Max(R)>>]
    <3> HIDE DEF f, m
    <3> QED BY <2>5, <2>6, <2>7
  <2> HIDE DEF f
  <2>10. fold(f, S)
    BY <2>8, <2>9
  <2> QED BY <2>4, <2>10
<1>3. T = {}
  <2> SUFFICES ASSUME T # {} PROVE FALSE
    OBVIOUS
  <2>1. PICK S \in T : S = {} \/ S \ {Max(S)} \notin T
    <3>1. T \in SUBSET Places(n)
      OBVIOUS
    <3> HIDE DEF T
    <3> QED BY <3>1, PlacesLeast
  <2>2. S # {} => S \ {Max(S)} \in Places(n)
    BY <2>1, LastPlace
  <2> HIDE DEF Folded
  <2> QED BY <1>1, <1>2, <2>1, <2>2
<1>4. 1..n \in Places(n)
  BY DEF Places
<1>5. Folded(1..n)
  <2> HIDE DEF Folded
  <2> QED BY <1>3, <1>4
<1> QED BY <1>5 DEF IsFold, Places

(* A fold that starts in a set, and whose steps keep the set, ends in it.  *)
LEMMA FoldStays ==
  ASSUME NEW n \in Nat, NEW V, NEW f, f[{}] \in V,
         \A S \in Places(n) : S # {} /\ f[S \ {Max(S)}] \in V => f[S] \in V
  PROVE  f[1..n] \in V
<1> DEFINE T == {S \in Places(n) : f[S] \notin V}
<1>1. T = {}
  <2> SUFFICES ASSUME T # {} PROVE FALSE
    OBVIOUS
  <2>1. PICK S \in T : S = {} \/ S \ {Max(S)} \notin T
    <3>1. T \in SUBSET Places(n)
      OBVIOUS
    <3> HIDE DEF T
    <3> QED BY <3>1, PlacesLeast
  <2>2. S # {} => S \ {Max(S)} \in Places(n)
    BY <2>1, LastPlace
  <2> QED BY <2>1, <2>2
<1>2. 1..n \in Places(n)
  BY DEF Places
<1> QED BY <1>1, <1>2

-----------------------------------------------------------------------------
(* The inductive invariant: buffers. *)

Decorators == [on : BOOLEAN, bad : BOOLEAN, in_string : BOOLEAN, escape_next : BOOLEAN,
               depth : Nat, indent : Nat]
Buffers == [text : Strings, size : Nat, expand : Nat, bad : BOOLEAN, pretty : Decorators]

(* What every write keeps: the text fits, a buffer of a fixed size keeps   *)
(* it, and each level the decorator has opened has been written, unless    *)
(* the buffer under it has failed.                                         *)
Sound ==
  {b \in Buffers :
     /\ Len(b.text) <= b.size
     /\ b.bad \/ b.pretty.depth <= Len(b.text)
     /\ b.expand = job.buffer.expand
     /\ b.expand = 0 => b.size = job.buffer.size}

(* Frames.  A level never meets a node whose path ends where it stands. *)
NodeFrames == [fn : {"nodes", "level"}, list : Seq(Nodes), at : Nat, first : BOOLEAN,
               path : Seq(Strings), address : Seq(Nat)]
ItemFrames == [fn : {"array", "stream"}, list : Seq(Values), at : Nat, first : BOOLEAN,
               path : Seq(Strings), address : Seq(Nat)]
LevelOK(frame) ==
  /\ Apart(Range(frame.list))
  /\ \A n \in Range(frame.list) : IsPrefix(frame.path, n.path) => Len(frame.path) < Len(n.path)
Frames ==
  {frame \in NodeFrames \cup ItemFrames :
     /\ frame.at \in 1..(Len(frame.list) + 1)
     /\ frame.fn = "level" => LevelOK(frame)}

(* Under every level, or at it, is the level of a root. *)
Root(frame) == frame.fn = "level" /\ frame.path = <<>>
Rooted(stack) ==
  \A k \in DOMAIN stack : stack[k].fn = "level" => \E j \in 1..k : Root(stack[j])

Stacks == {stack \in Seq(Frames) : Rooted(stack)}

AllNodes(j) == UNION {Range(j.docs[k]) : k \in DOMAIN j.docs}

BuilderOK ==
  /\ builder \in Seq(Nodes)
  /\ Range(builder) \subseteq AllNodes(job)
  /\ Len(builder) <= job.room

WriterInv == BuilderOK /\ out \in Sound /\ calls \in Stacks

Stages == {"build", "emit", "text", "parse", "extract", "done"}
StageInv ==
  /\ job \in Jobs
  /\ stage \in Stages
  /\ step \in Nat
  /\ stage = "build" => step <= Len(job.docs)
  /\ stage = "emit" => step <= 2
  /\ stage \in {"text", "parse"} => step = 0
  /\ stage = "extract" => step <= Len(bound) + 1
  /\ stage = "done" => step <= Len(bound) + 2
  /\ stage \in {"parse", "extract"} => scan.nodes \in {job.nodes, job.sub}

IInv == StageInv /\ WriterInv /\ ParserInv

-----------------------------------------------------------------------------
(* Writing to the buffer itself. *)

(* The fields of a buffer that is sound.                                   *)
LEMMA SoundFields ==
  ASSUME NEW b \in Sound
  PROVE  /\ b \in Buffers /\ b.text \in Strings /\ Len(b.text) \in Nat
         /\ b.size \in Nat /\ b.expand \in Nat /\ b.bad \in BOOLEAN
         /\ b.pretty \in Decorators /\ b.pretty.depth \in Nat /\ b.pretty.indent \in Nat
         /\ b.pretty.on \in BOOLEAN /\ b.pretty.bad \in BOOLEAN
         /\ b.pretty.in_string \in BOOLEAN /\ b.pretty.escape_next \in BOOLEAN
BY DEF Sound, Buffers, Decorators, Strings

(* Texts put together are a text as long as both.                          *)
LEMMA Joined ==
  ASSUME NEW s \in Strings, NEW t \in Strings
  PROVE  s \o t \in Strings /\ Len(s \o t) = Len(s) + Len(t) /\ Len(s) \in Nat /\ Len(t) \in Nat
BY DEF Strings

(* Buffer::write and DynamicBuffer's growth (buffer.hpp:50-55,             *)
(* dynamic_buffer.hpp:33-42): the text grows by what is written or the     *)
(* buffer is marked bad.                                                   *)
LEMMA DestWriteKeeps ==
  ASSUME NEW b \in Sound, NEW s \in Strings
  PROVE  LET w == DestWrite(b, s)
         IN  /\ w.buf \in Sound /\ w.ok \in BOOLEAN
             /\ w.buf.pretty = b.pretty
             /\ Len(w.buf.text) >= Len(b.text)
             /\ w.buf.bad \/ Len(w.buf.text) = Len(b.text) + Len(s)
<1> DEFINE needed == Len(b.text) + Len(s)
           failed == [b EXCEPT !.bad = TRUE]
           text == b.text \o s
           grown == [b EXCEPT !.text = text,
                              !.size = IF needed > b.size THEN needed + b.expand ELSE b.size]
<1>1. b \in Buffers /\ b.text \in Strings /\ b.size \in Nat /\ b.expand \in Nat
      /\ Len(b.text) \in Nat /\ Len(s) \in Nat /\ b.pretty.depth \in Nat /\ needed \in Nat
  BY SoundFields, Joined
<1>2. text \in Strings /\ Len(text) = needed
  BY <1>1, Joined
<1>3. failed \in Sound /\ failed.bad /\ failed.pretty = b.pretty /\ failed.text = b.text
  BY DEF Sound, Buffers
<1>4. CASE b.expand = 0 /\ needed > b.size
  <2>1. DestWrite(b, s) = [buf |-> failed, ok |-> FALSE]
    BY <1>4 DEF DestWrite, Failed
  <2> HIDE DEF failed
  <2> QED BY <1>1, <1>3, <2>1
<1>5. CASE ~(b.expand = 0 /\ needed > b.size)
  <2>1. DestWrite(b, s) = [buf |-> grown, ok |-> s # <<>>]
    BY <1>5 DEF DestWrite
  <2>2. grown.pretty = b.pretty /\ grown.text = text /\ grown.bad = b.bad /\ grown.expand = b.expand
        /\ grown.size = IF needed > b.size THEN needed + b.expand ELSE b.size
    BY <1>1 DEF Buffers
  <2> HIDE DEF text, needed
  <2>3. grown \in Buffers
    <3>1. (IF needed > b.size THEN needed + b.expand ELSE b.size) \in Nat
      BY <1>1
    <3> QED BY <1>1, <1>2, <3>1 DEF Buffers
  <2>4. grown.size >= needed /\ (b.expand = 0 => grown.size = b.size)
    BY <1>1, <1>5, <2>2
  <2>5. needed >= Len(b.text)
    BY <1>1 DEF needed
  <2> HIDE DEF grown
  <2>6. grown \in Sound
    BY <1>1, <1>2, <2>2, <2>3, <2>4, <2>5 DEF Sound
  <2> QED BY <1>1, <1>2, <2>1, <2>2, <2>5, <2>6 DEF needed
<1> QED BY <1>4, <1>5

(* Writes in a row: the fold they stand for.                               *)
LEMMA WriteEachUnfolds ==
  ASSUME NEW b \in Sound, NEW pieces \in Seq(Strings)
  PROVE  \E f : /\ WriteEach(b, pieces) = f[1..Len(pieces)] /\ f[{}] = b
                /\ \A S \in Places(Len(pieces)) :
                     S # {} => f[S] = DestWrite(f[S \ {Max(S)}], pieces[Max(S)]).buf
<1> DEFINE n == Len(pieces)
           op == [p \in Sound \X (1..n) |-> DestWrite(p[1], pieces[p[2]]).buf]
           written(f) == f = [S \in SUBSET (DOMAIN pieces) |->
                                IF S = {} THEN b
                                ELSE DestWrite(f[S \ {Max(S)}], pieces[Max(S)]).buf]
           it == CHOOSE f : written(f)
<1>1. n \in Nat /\ DOMAIN pieces = 1..n
  OBVIOUS
<1>2. op \in [Sound \X (1..n) -> Sound]
  <2>1. \A x \in Sound, k \in 1..n : DestWrite(x, pieces[k]).buf \in Sound
    BY <1>1, DestWriteKeeps
  <2> QED BY <2>1
<1>3. PICK f \in [Places(n) -> Sound] : IsFold(f, n, b, op)
  BY <1>1, <1>2, FoldExists
<1>4. written(f)
  <2>1. \A S \in Places(n) : S # {} => /\ S \ {Max(S)} \in Places(n) /\ Max(S) \in 1..n
    BY <1>1, LastPlace
  <2>2. \A x \in Sound, k \in 1..n : op[<<x, k>>] = DestWrite(x, pieces[k]).buf
    OBVIOUS
  <2> HIDE DEF op
  <2>3. \A S \in Places(n) : S # {} =>
           op[<<f[S \ {Max(S)}], Max(S)>>] = DestWrite(f[S \ {Max(S)}], pieces[Max(S)]).buf
    BY <1>3, <2>1, <2>2
  <2>4. Places(n) = SUBSET (DOMAIN pieces)
    BY <1>1 DEF Places
  <2> QED BY <1>3, <2>3, <2>4 DEF IsFold
<1>5. written(it)
  <2> HIDE DEF written
  <2> QED BY <1>4
<1>6. WriteEach(b, pieces) = it[DOMAIN pieces]
  BY Zenon DEF WriteEach, FoldLeft, MapThenFoldSet
<1>7. SUBSET (DOMAIN pieces) = Places(n)
  BY <1>1 DEF Places
<1> HIDE DEF it
<1>8. it[{}] = b /\ \A S \in Places(n) :
                      S # {} => it[S] = DestWrite(it[S \ {Max(S)}], pieces[Max(S)]).buf
  BY <1>5, <1>7
<1> QED BY <1>1, <1>6, <1>8

(* Writes in a row keep the buffer sound.                                  *)
LEMMA WriteEachKeeps ==
  ASSUME NEW b \in Sound, NEW pieces \in Seq(Strings)
  PROVE  /\ WriteEach(b, pieces) \in Sound
         /\ WriteEach(b, pieces).pretty = b.pretty
         /\ Len(WriteEach(b, pieces).text) >= Len(b.text)
<1> DEFINE n == Len(pieces)
           V == {x \in Sound : x.pretty = b.pretty /\ Len(x.text) >= Len(b.text)}
<1>1. n \in Nat /\ \A k \in 1..n : pieces[k] \in Strings
  OBVIOUS
<1>2. PICK f : /\ WriteEach(b, pieces) = f[1..n] /\ f[{}] = b
               /\ \A S \in Places(n) :
                    S # {} => f[S] = DestWrite(f[S \ {Max(S)}], pieces[Max(S)]).buf
  BY WriteEachUnfolds
<1>3. b \in V
  BY SoundFields
<1>4. ASSUME NEW S \in Places(n), S # {}, f[S \ {Max(S)}] \in V PROVE f[S] \in V
  <2>1. Max(S) \in 1..n
    BY <1>1, <1>4, LastPlace
  <2> DEFINE x == f[S \ {Max(S)}]
             y == DestWrite(x, pieces[Max(S)]).buf
  <2>2. x \in Sound /\ x.pretty = b.pretty /\ Len(x.text) >= Len(b.text)
    BY <1>4
  <2> HIDE DEF x
  <2>3. y \in Sound /\ y.pretty = x.pretty /\ Len(y.text) >= Len(x.text)
    BY <1>1, <2>1, <2>2, DestWriteKeeps
  <2>4. Len(x.text) \in Nat /\ Len(y.text) \in Nat /\ Len(b.text) \in Nat
    BY <2>2, <2>3, SoundFields
  <2>5. f[S] = y
    BY <1>2, <1>4 DEF x
  <2> HIDE DEF y
  <2> QED BY <2>2, <2>3, <2>4, <2>5
<1> HIDE DEF V, n
<1>5. f[1..n] \in V
  BY <1>1, <1>2, <1>3, <1>4, FoldStays
<1> QED BY <1>2, <1>5 DEF V

(* One piece written is one write.                                         *)
LEMMA OnePiece ==
  ASSUME NEW b \in Sound, NEW s \in Strings
  PROVE  WriteEach(b, <<s>>) = DestWrite(b, s).buf
<1>1. <<s>> \in Seq(Strings) /\ Len(<<s>>) = 1 /\ <<s>>[1] = s /\ 1..1 = {1}
  OBVIOUS
<1> DEFINE pieces == <<s>>
<1>2. PICK f : /\ WriteEach(b, pieces) = f[1..Len(pieces)] /\ f[{}] = b
               /\ \A S \in Places(Len(pieces)) :
                    S # {} => f[S] = DestWrite(f[S \ {Max(S)}], pieces[Max(S)]).buf
  BY <1>1, WriteEachUnfolds
<1>3. {1} \in Places(1) /\ Max({1}) = 1 /\ {1} \ {1} = {}
  BY <1>1, LastPlace DEF Places
<1> QED BY <1>1, <1>2, <1>3

-----------------------------------------------------------------------------
(* Spans, failures and the decorator's fields. *)

(* free_span, span_size and commit (buffer.hpp:57-70,                      *)
(* dynamic_buffer.hpp:44-50): the span that is offered is what the buffer  *)
(* has left, so that what fits the span fits the buffer.                   *)
LEMMA SpanIsFree ==
  ASSUME NEW b \in Sound
  PROVE  /\ WithSpan(b) \in Sound /\ SpanSize(WithSpan(b)) \in Nat
         /\ SpanSize(b) \in Nat
         /\ \A s \in Strings : Len(s) <= SpanSize(b) => Commit(b, s) \in Sound
<1> DEFINE grown == [b EXCEPT !.size = Len(b.text) + b.expand]
<1>1. b \in Buffers /\ b.text \in Strings /\ b.size \in Nat /\ b.expand \in Nat
      /\ Len(b.text) \in Nat /\ b.pretty.depth \in Nat /\ Len(b.text) <= b.size
  BY SoundFields DEF Sound
<1>2. ASSUME b.size - Len(b.text) < b.expand PROVE grown \in Sound
  <2>1. grown \in Buffers /\ grown.size = Len(b.text) + b.expand /\ grown.text = b.text
        /\ grown.bad = b.bad /\ grown.pretty = b.pretty /\ grown.expand = b.expand
    BY <1>1 DEF Buffers
  <2>2. b.expand # 0
    BY <1>1, <1>2
  <2> HIDE DEF grown
  <2> QED BY <1>1, <2>1, <2>2 DEF Sound
<1>3. WithSpan(b) \in Sound
  BY <1>2 DEF WithSpan
<1>4. \A x \in Sound : SpanSize(x) \in Nat
  BY SoundFields DEF Sound, SpanSize
<1>5. ASSUME NEW s \in Strings, Len(s) <= SpanSize(b) PROVE Commit(b, s) \in Sound
  <2> DEFINE text == b.text \o s
             out2 == [b EXCEPT !.text = text]
  <2>1. text \in Strings /\ Len(text) = Len(b.text) + Len(s) /\ Len(s) \in Nat
    BY <1>1, Joined
  <2> HIDE DEF text
  <2>2. out2 \in Buffers /\ out2.text = text /\ out2.size = b.size /\ out2.bad = b.bad
        /\ out2.pretty = b.pretty /\ out2.expand = b.expand
    BY <1>1, <2>1 DEF Buffers
  <2>3. Len(text) <= b.size
    BY <1>1, <1>5, <2>1 DEF SpanSize
  <2>4. Commit(b, s) = out2
    BY DEF Commit, text
  <2> HIDE DEF out2
  <2> QED BY <1>1, <2>1, <2>2, <2>3, <2>4 DEF Sound
<1> QED BY <1>3, <1>4, <1>5

(* A decorator may be changed as long as its depth is not more than was    *)
(* written.                                                                *)
LEMMA DecoratorSet ==
  ASSUME NEW b \in Sound, NEW p \in Decorators, b.bad \/ p.depth <= Len(b.text)
  PROVE  [b EXCEPT !.pretty = p] \in Sound
<1> DEFINE c == [b EXCEPT !.pretty = p]
<1>1. c \in Buffers /\ c.text = b.text /\ c.size = b.size /\ c.bad = b.bad
      /\ c.pretty = p /\ c.expand = b.expand
  BY DEF Sound, Buffers
<1> HIDE DEF c
<1>2. c \in Sound
  BY <1>1 DEF Sound
<1> QED BY <1>2 DEF c

(* Marking a buffer bad (buffer.hpp:28-34).                                *)
LEMMA FailKeeps ==
  ASSUME NEW b \in Sound
  PROVE  Fail(b) \in Sound
<1> DEFINE p == [b.pretty EXCEPT !.bad = TRUE]
<1>1. p \in Decorators /\ p.depth = b.pretty.depth
  BY SoundFields DEF Decorators
<1>2. b.bad \/ p.depth <= Len(b.text)
  BY <1>1 DEF Sound
<1>3. [b EXCEPT !.pretty.bad = TRUE] = [b EXCEPT !.pretty = p]
  BY SoundFields DEF Buffers, Decorators
<1>4. [b EXCEPT !.bad = TRUE] \in Sound
  BY DEF Sound, Buffers
<1> HIDE DEF p
<1>5. [b EXCEPT !.pretty = p] \in Sound
  BY <1>1, <1>2, DecoratorSet
<1> QED BY <1>3, <1>4, <1>5 DEF Fail

(* An emptied buffer is sound again (buffer.hpp:45-48).                    *)
LEMMA ResetKeeps ==
  ASSUME NEW b \in Sound
  PROVE  Reset(b) \in Sound
<1> DEFINE p == IF b.pretty.on THEN Decorator(b.pretty.indent) ELSE NoDecorator
           c == [b EXCEPT !.text = <<>>, !.bad = FALSE, !.pretty = p]
<1>1. p \in Decorators /\ p.depth = 0
  BY SoundFields DEF Decorators, Decorator, NoDecorator
<1>2. <<>> \in Strings /\ Len(<<>>) = 0
  BY DEF Strings
<1>3. Reset(b) = c
  BY DEF Reset
<1> HIDE DEF p
<1>4. c \in Buffers /\ c.text = <<>> /\ c.size = b.size /\ c.pretty = p /\ c.expand = b.expand
  BY <1>1, <1>2, SoundFields DEF Buffers
<1> HIDE DEF c
<1> QED BY <1>1, <1>2, <1>3, <1>4, SoundFields DEF Sound

-----------------------------------------------------------------------------
(* The pretty printer. *)

(* The symbols the code writes of its own accord.                          *)
LEMMA OwnSymbols ==
  /\ Quote \in Symbols /\ Backslash \in Symbols /\ " " \in Symbols /\ "\n" \in Symbols
  /\ "{" \in Symbols /\ "}" \in Symbols /\ "[" \in Symbols /\ "]" \in Symbols
  /\ "," \in Symbols /\ ":" \in Symbols /\ "-" \in Symbols /\ "n" \in Symbols
  /\ "t" \in Symbols /\ "u" \in Symbols /\ "b" \in Symbols
  /\ \A k \in DOMAIN Digit : Digit[k] \in Symbols
BY SymbolsAssumption

(* A symbol is a text of its own.                                          *)
LEMMA SymbolIsText ==
  ASSUME NEW c \in Symbols
  PROVE  <<c>> \in Strings /\ Len(<<c>>) = 1 /\ << <<c>> >> \in Seq(Strings)
<1>1. <<c>> \in Strings /\ Len(<<c>>) = 1
  BY DEF Strings
<1> QED BY <1>1

(* So are two.                                                             *)
LEMMA PairIsText ==
  ASSUME NEW c \in Symbols, NEW d \in Symbols
  PROVE  <<c, d>> \in Strings /\ Len(<<c, d>>) = 2 /\ << <<c, d>> >> \in Seq(Strings)
<1>1. <<c, d>> \in Strings /\ Len(<<c, d>>) = 2
  BY DEF Strings
<1> QED BY <1>1

(* The indentation is as many blanks (pretty_buffer.cpp:3-7).              *)
LEMMA WriteIndentKeeps ==
  ASSUME NEW b \in Sound
  PROVE  /\ WriteIndent(b) \in Sound
         /\ WriteIndent(b).pretty = b.pretty
<1> DEFINE n == b.pretty.depth * b.pretty.indent
<1>1. n \in Nat
  BY SoundFields
<1> HIDE DEF n
<1>2. [k \in 1..n |-> <<" ">>] \in Seq(Strings)
  <2> DEFINE space == <<" ">>
  <2>1. space \in Strings
    BY OwnSymbols, SymbolIsText
  <2> HIDE DEF space
  <2>2. [k \in 1..n |-> space] \in Seq(Strings)
    BY <1>1, <2>1
  <2> QED BY <2>2 DEF space
<1> QED BY <1>2, WriteEachKeeps DEF WriteIndent, n

(* A bracket, comma or colon of the pretty printer                         *)
(* (pretty_buffer.cpp:36-54): the depth rises only after the opening       *)
(* bracket has been written.                                               *)
LEMMA WriteStructureKeeps ==
  ASSUME NEW b \in Sound, NEW c \in Structural
  PROVE  WriteStructure(b, c) \in Sound
<1>1. c \in Symbols /\ Quote = "\""
  BY OwnSymbols DEF Structural, Quote
<1>2. CASE c = Quote
  <2> DEFINE p == [b.pretty EXCEPT !.in_string = TRUE]
             in == [b EXCEPT !.pretty.in_string = TRUE]
  <2>1. p \in Decorators /\ p.depth = b.pretty.depth
    BY SoundFields DEF Decorators
  <2>2. in = [b EXCEPT !.pretty = p]
    BY SoundFields DEF Buffers, Decorators
  <2>3. b.bad \/ p.depth <= Len(b.text)
    BY <2>1 DEF Sound
  <2>4. in \in Sound
    <3> HIDE DEF p, in
    <3> QED BY <2>1, <2>2, <2>3, DecoratorSet
  <2>5. << <<Quote>> >> \in Seq(Strings)
    BY <1>1, OwnSymbols, SymbolIsText, PairIsText
  <2>6. WriteStructure(b, c) = WriteEach(in, << <<Quote>> >>)
    BY <1>1, <1>2 DEF WriteStructure
  <2> HIDE DEF in
  <2> QED BY <2>4, <2>5, <2>6, WriteEachKeeps
<1>3. CASE c \in {"{", "["}
  <2> DEFINE x == WriteEach(b, << <<c, "\n">> >>)
             p == [x.pretty EXCEPT !.depth = x.pretty.depth + 1]
             in == [x EXCEPT !.pretty.depth = x.pretty.depth + 1]
  <2>1. <<c, "\n">> \in Strings /\ Len(<<c, "\n">>) = 2
    BY <1>1, OwnSymbols, SymbolIsText, PairIsText
  <2>2. x = DestWrite(b, <<c, "\n">>).buf
    BY <2>1, OnePiece
  <2>3. x \in Sound /\ x.pretty = b.pretty
        /\ (x.bad \/ Len(x.text) = Len(b.text) + Len(<<c, "\n">>)) /\ Len(x.text) >= Len(b.text)
    <3> HIDE DEF x
    <3> QED BY <2>1, <2>2, DestWriteKeeps
  <2>4. DestWrite(b, <<c, "\n">>).buf.bad \/ b.bad => x.bad
    <3> HIDE DEF x
    <3>1. b.bad => DestWrite(b, <<c, "\n">>).buf.bad
      BY SoundFields DEF DestWrite, Failed, Sound, Buffers
    <3> QED BY <2>2, <3>1
  <2>5. WriteStructure(b, c) = WriteIndent(in)
    BY <1>1, <1>3 DEF WriteStructure
  <2> HIDE DEF x
  <2>6. p \in Decorators /\ p.depth = b.pretty.depth + 1
    BY <2>3, SoundFields DEF Decorators
  <2>7. in = [x EXCEPT !.pretty = p]
    BY <2>3, SoundFields DEF Buffers, Decorators
  <2>8. x.bad \/ p.depth <= Len(x.text)
    <3>1. b.bad \/ b.pretty.depth <= Len(b.text)
      BY DEF Sound
    <3> HIDE DEF p
    <3> QED BY <2>1, <2>3, <2>4, <2>6, <3>1, SoundFields
  <2>9. in \in Sound
    <3> HIDE DEF p, in
    <3> QED BY <2>3, <2>6, <2>7, <2>8, DecoratorSet
  <2> HIDE DEF in
  <2> QED BY <2>5, <2>9, WriteIndentKeeps
<1>4. CASE c \in {"}", "]"}
  <2> DEFINE x == WriteEach(b, << <<"\n">> >>)
             d == IF x.pretty.depth > 0 THEN x.pretty.depth - 1 ELSE x.pretty.depth
             p == [x.pretty EXCEPT !.depth = d]
             in == [x EXCEPT !.pretty.depth = d]
  <2>1. << <<"\n">> >> \in Seq(Strings) /\ << <<c>> >> \in Seq(Strings)
    BY <1>1, OwnSymbols, SymbolIsText, PairIsText
  <2>2. x \in Sound
    BY <2>1, WriteEachKeeps
  <2>3. WriteStructure(b, c) = WriteEach(WriteIndent(in), << <<c>> >>)
    BY <1>1, <1>4 DEF WriteStructure
  <2> HIDE DEF x
  <2>4. d \in Nat /\ d <= x.pretty.depth
    BY <2>2, SoundFields
  <2> HIDE DEF d
  <2>5. p \in Decorators /\ p.depth = d
    BY <2>2, <2>4, SoundFields DEF Decorators
  <2>6. in = [x EXCEPT !.pretty = p]
    BY <2>2, SoundFields DEF Buffers, Decorators
  <2>7. x.bad \/ p.depth <= Len(x.text)
    <3>1. x.bad \/ x.pretty.depth <= Len(x.text)
      BY <2>2 DEF Sound
    <3> HIDE DEF p
    <3> QED BY <2>2, <2>4, <2>5, <3>1, SoundFields
  <2>8. in \in Sound
    <3> HIDE DEF p, in
    <3> QED BY <2>2, <2>5, <2>6, <2>7, DecoratorSet
  <2> HIDE DEF in
  <2> QED BY <2>1, <2>3, <2>8, WriteIndentKeeps, WriteEachKeeps
<1>5. CASE c = ","
  <2>1. << <<",", "\n">> >> \in Seq(Strings)
    BY OwnSymbols, SymbolIsText, PairIsText
  <2>2. WriteStructure(b, c) = WriteIndent(WriteEach(b, << <<",", "\n">> >>))
    BY <1>1, <1>5 DEF WriteStructure
  <2> QED BY <2>1, <2>2, WriteEachKeeps, WriteIndentKeeps
<1>6. CASE c = ":"
  <2>1. << <<":", " ">> >> \in Seq(Strings)
    BY OwnSymbols, SymbolIsText, PairIsText
  <2>2. WriteStructure(b, c) = WriteEach(b, << <<":", " ">> >>)
    BY <1>1, <1>6 DEF WriteStructure
  <2> QED BY <2>1, <2>2, WriteEachKeeps
<1> QED BY <1>2, <1>3, <1>4, <1>5, <1>6 DEF Structural

(* Within a string the pretty printer only tracks quotes and escapes       *)
(* (pretty_buffer.cpp:16-26).                                              *)
LEMMA InStringKeeps ==
  ASSUME NEW b \in Sound, NEW c
  PROVE  InString(b, c) \in Sound
<1> DEFINE in == b.pretty.escape_next \/ c # Quote
           esc == ~b.pretty.escape_next /\ c = Backslash
           p == [b.pretty EXCEPT !.escape_next = esc, !.in_string = in]
<1>1. in \in BOOLEAN /\ esc \in BOOLEAN
  BY SoundFields
<1>2. InString(b, c) = [b EXCEPT !.pretty.escape_next = esc, !.pretty.in_string = in]
  BY DEF InString
<1> HIDE DEF in, esc
<1>3. p \in Decorators /\ p.depth = b.pretty.depth
  BY <1>1, SoundFields DEF Decorators
<1>4. InString(b, c) = [b EXCEPT !.pretty = p]
  BY <1>2, SoundFields DEF Buffers, Decorators
<1>5. b.bad \/ p.depth <= Len(b.text)
  BY <1>3 DEF Sound
<1> HIDE DEF p
<1> QED BY <1>3, <1>4, <1>5, DecoratorSet

(* What the pretty printer's loop hands from symbol to symbol. *)
Printing == [buf : Sound, run : Strings, ok : BOOLEAN]

(* The run of plain symbols is written out (pretty_buffer.cpp:29-34).      *)
LEMMA FlushedKeeps ==
  ASSUME NEW acc \in Printing
  PROVE  Flushed(acc) \in Printing
<1>1. acc.buf \in Sound /\ acc.run \in Strings /\ acc.ok \in BOOLEAN
  BY DEF Printing
<1> DEFINE w == DestWrite(acc.buf, acc.run)
<1>2. w.buf \in Sound /\ w.ok \in BOOLEAN
  BY <1>1, DestWriteKeeps
<1>3. <<>> \in Strings
  BY DEF Strings
<1>4. Flushed(acc) = acc \/ Flushed(acc) = [buf |-> w.buf, run |-> <<>>, ok |-> w.ok]
  BY DEF Flushed
<1> HIDE DEF w
<1> QED BY <1>2, <1>3, <1>4 DEF Printing

(* One symbol of the pretty printer's loop.                                *)
LEMMA PrettySymbolKeeps ==
  ASSUME NEW acc \in Printing, NEW c \in Symbols
  PROVE  PrettySymbol(acc, c) \in Printing
<1>1. acc.buf \in Sound /\ acc.run \in Strings /\ acc.ok \in BOOLEAN
      /\ acc.buf.pretty.in_string \in BOOLEAN
  BY SoundFields DEF Printing
<1>2. Append(acc.run, c) \in Strings
  BY <1>1 DEF Strings
<1>3. CASE ~acc.ok
  BY <1>3 DEF PrettySymbol
<1>4. CASE acc.ok /\ acc.buf.pretty.in_string
  <2>1. InString(acc.buf, c) \in Sound
    BY <1>1, InStringKeeps
  <2>2. PrettySymbol(acc, c) = [acc EXCEPT !.buf = InString(acc.buf, c), !.run = Append(acc.run, c)]
    BY <1>4 DEF PrettySymbol
  <2> QED BY <1>1, <1>2, <2>1, <2>2 DEF Printing
<1>5. CASE acc.ok /\ ~acc.buf.pretty.in_string /\ c \notin Structural
  <2>1. PrettySymbol(acc, c) = [acc EXCEPT !.run = Append(acc.run, c)]
    BY <1>5 DEF PrettySymbol
  <2> QED BY <1>1, <1>2, <2>1 DEF Printing
<1>6. CASE acc.ok /\ ~acc.buf.pretty.in_string /\ c \in Structural
  <2> DEFINE f == Flushed(acc)
  <2>1. f \in Printing
    BY FlushedKeeps
  <2>2. f.buf \in Sound
    BY <2>1 DEF Printing
  <2>3. WriteStructure(f.buf, c) \in Sound
    BY <1>6, <2>2, WriteStructureKeeps
  <2>4. PrettySymbol(acc, c) = IF f.ok THEN [f EXCEPT !.buf = WriteStructure(f.buf, c)] ELSE f
    BY <1>6 DEF PrettySymbol
  <2> HIDE DEF f
  <2> QED BY <2>1, <2>3, <2>4 DEF Printing
<1> QED BY <1>1, <1>3, <1>4, <1>5, <1>6

(* PrettyBuffer::write (pretty_buffer.cpp:9-62), whatever is written.      *)
LEMMA PrettyWriteKeeps ==
  ASSUME NEW b \in Sound, NEW s \in Strings
  PROVE  PrettyWrite(b, s).buf \in Sound /\ PrettyWrite(b, s).ok \in BOOLEAN
<1> DEFINE n == Len(s)
           base == [buf |-> b, run |-> <<>>, ok |-> TRUE]
           op == [p \in Printing \X (1..n) |-> PrettySymbol(p[1], s[p[2]])]
           printed(f) == f = [S \in SUBSET (DOMAIN s) |->
                                IF S = {} THEN base
                                ELSE PrettySymbol(f[S \ {Max(S)}], s[Max(S)])]
           it == CHOOSE f : printed(f)
           acc == FoldLeft(PrettySymbol, base, s)
<1>1. n \in Nat /\ DOMAIN s = 1..n /\ \A k \in 1..n : s[k] \in Symbols
  BY DEF Strings
<1>2. base \in Printing
  BY DEF Printing, Strings
<1>3. \A x \in Printing, k \in 1..n : PrettySymbol(x, s[k]) \in Printing
  BY <1>1, PrettySymbolKeeps
<1>4. op \in [Printing \X (1..n) -> Printing]
  BY <1>3
<1> HIDE DEF base
<1>5. PICK f \in [Places(n) -> Printing] : IsFold(f, n, base, op)
  BY <1>1, <1>2, <1>4, FoldExists
<1>6. printed(f)
  <2>1. \A S \in Places(n) : S # {} => /\ S \ {Max(S)} \in Places(n) /\ Max(S) \in 1..n
    BY <1>1, LastPlace
  <2>2. \A x \in Printing, k \in 1..n : op[<<x, k>>] = PrettySymbol(x, s[k])
    OBVIOUS
  <2> HIDE DEF op
  <2>3. \A S \in Places(n) : S # {} =>
           op[<<f[S \ {Max(S)}], Max(S)>>] = PrettySymbol(f[S \ {Max(S)}], s[Max(S)])
    BY <1>5, <2>1, <2>2
  <2>4. Places(n) = SUBSET (DOMAIN s)
    BY <1>1 DEF Places
  <2> QED BY <1>5, <2>3, <2>4 DEF IsFold
<1>7. printed(it)
  <2> HIDE DEF printed
  <2> QED BY <1>6
<1>8. acc = it[DOMAIN s]
  BY Zenon DEF FoldLeft, MapThenFoldSet
<1>9. SUBSET (DOMAIN s) = Places(n)
  BY <1>1 DEF Places
<1> HIDE DEF it
<1>10. it[{}] \in Printing
  BY <1>2, <1>7
<1>11. ASSUME NEW S \in Places(n), S # {}, it[S \ {Max(S)}] \in Printing
       PROVE  it[S] \in Printing
  <2>1. Max(S) \in 1..n
    BY <1>1, <1>11, LastPlace
  <2>2. it[S] = PrettySymbol(it[S \ {Max(S)}], s[Max(S)])
    BY <1>7, <1>9, <1>11
  <2> QED BY <1>3, <1>11, <2>1, <2>2
<1>12. it[1..n] \in Printing
  <2> HIDE DEF n
  <2> QED BY <1>1, <1>10, <1>11, FoldStays
<1>13. acc \in Printing
  BY <1>1, <1>8, <1>12
<1> HIDE DEF acc
<1>14. Flushed(acc).buf \in Sound /\ Flushed(acc).ok \in BOOLEAN
  BY <1>13, FlushedKeeps DEF Printing
<1> DEFINE end == Flushed(acc)
<1>15. PrettyWrite(b, s) = [buf |-> end.buf, ok |-> end.ok /\ Len(end.buf.text) > Len(b.text)]
  BY DEF PrettyWrite, acc, base
<1> HIDE DEF end
<1> QED BY <1>14, <1>15 DEF end

(* A write, with a decorator or without.                                   *)
LEMMA WriteKeeps ==
  ASSUME NEW b \in Sound, NEW s \in Strings
  PROVE  Write(b, s).buf \in Sound /\ Write(b, s).ok \in BOOLEAN
BY DestWriteKeeps, PrettyWriteKeeps DEF Write

(* A buffer and whether the last write returned bytes. *)
Written == [buf : Sound, ok : BOOLEAN]

(* Writes in a row that stop at the first that returns nothing.            *)
LEMMA WriteAllKeeps ==
  ASSUME NEW b \in Sound, NEW pieces \in Seq(Strings)
  PROVE  WriteAll(b, pieces).buf \in Sound /\ WriteAll(b, pieces).ok \in BOOLEAN
<1> DEFINE n == Len(pieces)
           next(acc, s) == IF acc.ok THEN Write(acc.buf, s) ELSE acc
           op == [p \in Written \X (1..n) |-> next(p[1], pieces[p[2]])]
           written(f) == f = [S \in SUBSET (DOMAIN pieces) |->
                                IF S = {} THEN Done(b)
                                ELSE next(f[S \ {Max(S)}], pieces[Max(S)])]
           it == CHOOSE f : written(f)
<1>1. n \in Nat /\ DOMAIN pieces = 1..n /\ \A k \in 1..n : pieces[k] \in Strings
  OBVIOUS
<1>2. Done(b) \in Written
  BY DEF Done, Written
<1>3. ASSUME NEW x \in Written, NEW k \in 1..n PROVE next(x, pieces[k]) \in Written
  <2>1. x.buf \in Sound
    BY DEF Written
  <2>2. Write(x.buf, pieces[k]).buf \in Sound /\ Write(x.buf, pieces[k]).ok \in BOOLEAN
    BY <1>1, <2>1, WriteKeeps
  <2>3. DOMAIN Write(x.buf, pieces[k]) = {"buf", "ok"} /\
        Write(x.buf, pieces[k]) = [buf |-> Write(x.buf, pieces[k]).buf,
                                   ok |-> Write(x.buf, pieces[k]).ok]
    BY DEF Write, PrettyWrite, DestWrite, Failed
  <2> QED BY <2>2, <2>3 DEF Written
<1> HIDE DEF next
<1>4. op \in [Written \X (1..n) -> Written]
  BY <1>3
<1>5. PICK f \in [Places(n) -> Written] : IsFold(f, n, Done(b), op)
  BY <1>1, <1>2, <1>4, FoldExists
<1>6. written(f)
  <2>1. \A S \in Places(n) : S # {} => /\ S \ {Max(S)} \in Places(n) /\ Max(S) \in 1..n
    BY <1>1, LastPlace
  <2>2. \A x \in Written, k \in 1..n : op[<<x, k>>] = next(x, pieces[k])
    OBVIOUS
  <2> HIDE DEF op
  <2>3. \A S \in Places(n) : S # {} =>
           op[<<f[S \ {Max(S)}], Max(S)>>] = next(f[S \ {Max(S)}], pieces[Max(S)])
    BY <1>5, <2>1, <2>2
  <2>4. Places(n) = SUBSET (DOMAIN pieces)
    BY <1>1 DEF Places
  <2> QED BY <1>5, <2>3, <2>4 DEF IsFold
<1>7. written(it)
  <2> HIDE DEF written
  <2> QED BY <1>6
<1>8. WriteAll(b, pieces) = it[DOMAIN pieces]
  BY Zenon DEF WriteAll, FoldLeft, MapThenFoldSet, Then, next
<1>9. SUBSET (DOMAIN pieces) = Places(n)
  BY <1>1 DEF Places
<1> HIDE DEF it
<1>10. it[{}] \in Written
  BY <1>2, <1>7
<1>11. ASSUME NEW S \in Places(n), S # {}, it[S \ {Max(S)}] \in Written
       PROVE  it[S] \in Written
  <2>1. Max(S) \in 1..n
    BY <1>1, <1>11, LastPlace
  <2>2. it[S] = next(it[S \ {Max(S)}], pieces[Max(S)])
    BY <1>7, <1>9, <1>11
  <2> QED BY <1>3, <1>11, <2>1, <2>2
<1>12. it[1..n] \in Written
  <2> HIDE DEF n
  <2> QED BY <1>1, <1>10, <1>11, FoldStays
<1> QED BY <1>1, <1>8, <1>12 DEF Written

-----------------------------------------------------------------------------
(* Strings and their escapes. *)

(* The six symbols of an escape are a text.                                *)
LEMMA SixAreText ==
  ASSUME NEW c1 \in Symbols, NEW c2 \in Symbols, NEW c3 \in Symbols, NEW c4 \in Symbols,
         NEW c5 \in Symbols, NEW c6 \in Symbols
  PROVE  <<c1, c2, c3, c4, c5, c6>> \in Strings /\ Len(<<c1, c2, c3, c4, c5, c6>>) = 6
BY DEF Strings

(* What stands for a symbol that needs an escape is a text                 *)
(* (buffer.cpp:59-86).                                                     *)
LEMMA EscapesAreText ==
  ASSUME NEW c \in Symbols
  PROVE  /\ EscapeSymbol(c) \in Strings /\ Len(EscapeSymbol(c)) >= 1
         /\ Len(EscapeSymbol(c)) \in Nat
         /\ NeedsEscape(c) => EscapeOf(c) \in Strings
<1> DEFINE two(e) == <<Backslash, e>>
           six == <<Backslash, "u", "0", "0", "1", "b">>
<1>1. /\ two(Quote) \in Strings /\ two(Backslash) \in Strings
      /\ two("n") \in Strings /\ two("t") \in Strings
      /\ Len(two(Quote)) = 2 /\ Len(two(Backslash)) = 2 /\ Len(two("n")) = 2 /\ Len(two("t")) = 2
  BY OwnSymbols, PairIsText
<1>2. six \in Strings /\ Len(six) = 6
  <2>1. Digit[1] = "0" /\ Digit[2] = "1" /\ {1, 2} \subseteq DOMAIN Digit
    BY DEF Digit
  <2>2. "0" \in Symbols /\ "1" \in Symbols
    BY <2>1, OwnSymbols
  <2> QED BY <2>2, OwnSymbols, SixAreText
<1>3. NeedsEscape(c) => EscapeOf(c) \in {two(Quote), two(Backslash), two("n"), two("t"), six}
  BY DEF NeedsEscape, EscapeOf, ShortEscape, LongEscape
<1>4. ~NeedsEscape(c) => EscapeSymbol(c) = <<c>>
  BY DEF EscapeSymbol
<1>5. NeedsEscape(c) => EscapeSymbol(c) = EscapeOf(c)
  BY DEF EscapeSymbol
<1> HIDE DEF two, six
<1>6. NeedsEscape(c) => EscapeOf(c) \in Strings /\ Len(EscapeOf(c)) \in {2, 6}
  BY <1>1, <1>2, <1>3
<1>7. <<c>> \in Strings /\ Len(<<c>>) = 1
  BY SymbolIsText
<1> QED BY <1>4, <1>5, <1>6, <1>7

RunsSoFar == [run : Strings, out : Seq(Strings)]

(* The runs a string is cut into (buffer.cpp:44-97) are texts.             *)
LEMMA RunsAreTexts ==
  ASSUME NEW s \in Strings
  PROVE  Runs(s) \in Seq(Strings)
<1> DEFINE n == Len(s)
           base == [run |-> <<>>, out |-> <<>>]
           add(acc, c) == IF NeedsEscape(c)
                            THEN [run |-> <<>>,
                                  out |-> acc.out \o (IF acc.run = <<>> THEN <<>> ELSE <<acc.run>>)
                                          \o << EscapeOf(c) >>]
                            ELSE [acc EXCEPT !.run = Append(acc.run, c)]
           op == [p \in RunsSoFar \X (1..n) |-> add(p[1], s[p[2]])]
           collected(f) == f = [S \in SUBSET (DOMAIN s) |->
                                  IF S = {} THEN base ELSE add(f[S \ {Max(S)}], s[Max(S)])]
           it == CHOOSE f : collected(f)
           all == it[DOMAIN s]
<1>1. n \in Nat /\ DOMAIN s = 1..n /\ \A k \in 1..n : s[k] \in Symbols
  BY DEF Strings
<1>2. base \in RunsSoFar
  BY DEF RunsSoFar, Strings
<1>3. ASSUME NEW x \in RunsSoFar, NEW k \in 1..n PROVE add(x, s[k]) \in RunsSoFar
  <2>1. x.run \in Strings /\ x.out \in Seq(Strings) /\ s[k] \in Symbols /\ <<>> \in Strings
    BY <1>1 DEF RunsSoFar, Strings
  <2>2. Append(x.run, s[k]) \in Strings
    BY <2>1 DEF Strings
  <2>3. CASE ~NeedsEscape(s[k])
    <3>1. add(x, s[k]) = [x EXCEPT !.run = Append(x.run, s[k])]
      BY <2>3
    <3> HIDE DEF add
    <3> QED BY <2>1, <2>2, <3>1 DEF RunsSoFar
  <2>4. CASE NeedsEscape(s[k])
    <3> DEFINE mid == IF x.run = <<>> THEN <<>> ELSE <<x.run>>
               esc == << EscapeOf(s[k]) >>
    <3>1. mid \in Seq(Strings)
      BY <2>1
    <3>2. esc \in Seq(Strings)
      BY <2>1, <2>4, EscapesAreText
    <3>3. add(x, s[k]) = [run |-> <<>>, out |-> x.out \o mid \o esc]
      BY <2>4
    <3> HIDE DEF mid, esc, add
    <3>4. x.out \o mid \o esc \in Seq(Strings)
      BY <2>1, <3>1, <3>2
    <3> QED BY <2>1, <3>3, <3>4 DEF RunsSoFar
  <2> QED BY <2>3, <2>4
<1>4. Runs(s) = IF all.run = <<>> THEN all.out ELSE Append(all.out, all.run)
  BY Zenon DEF Runs, FoldLeft, MapThenFoldSet
<1> HIDE DEF add, base
<1>5. op \in [RunsSoFar \X (1..n) -> RunsSoFar]
  BY <1>3
<1>6. PICK f \in [Places(n) -> RunsSoFar] : IsFold(f, n, base, op)
  BY <1>1, <1>2, <1>5, FoldExists
<1>7. collected(f)
  <2>1. \A S \in Places(n) : S # {} => /\ S \ {Max(S)} \in Places(n) /\ Max(S) \in 1..n
    BY <1>1, LastPlace
  <2>2. \A x \in RunsSoFar, k \in 1..n : op[<<x, k>>] = add(x, s[k])
    OBVIOUS
  <2> HIDE DEF op
  <2>3. \A S \in Places(n) : S # {} =>
           op[<<f[S \ {Max(S)}], Max(S)>>] = add(f[S \ {Max(S)}], s[Max(S)])
    BY <1>6, <2>1, <2>2
  <2>4. Places(n) = SUBSET (DOMAIN s)
    BY <1>1 DEF Places
  <2> QED BY <1>6, <2>3, <2>4 DEF IsFold
<1>8. collected(it)
  <2> HIDE DEF collected
  <2> QED BY <1>7
<1>9. SUBSET (DOMAIN s) = Places(n)
  BY <1>1 DEF Places
<1> HIDE DEF it
<1>10. it[{}] \in RunsSoFar
  BY <1>2, <1>8
<1>11. ASSUME NEW S \in Places(n), S # {}, it[S \ {Max(S)}] \in RunsSoFar
       PROVE  it[S] \in RunsSoFar
  <2>1. Max(S) \in 1..n
    BY <1>1, <1>11, LastPlace
  <2>2. it[S] = add(it[S \ {Max(S)}], s[Max(S)])
    BY <1>8, <1>9, <1>11
  <2> QED BY <1>3, <1>11, <2>1, <2>2
<1>12. it[1..n] \in RunsSoFar
  <2> HIDE DEF n
  <2> QED BY <1>1, <1>10, <1>11, FoldStays
<1>13. all.run \in Strings /\ all.out \in Seq(Strings)
  BY <1>1, <1>12 DEF RunsSoFar
<1> HIDE DEF all
<1> QED BY <1>4, <1>13

(* Buffer::write_escaped (buffer.cpp:14-101), whatever the string.         *)
LEMMA WriteEscapedKeeps ==
  ASSUME NEW b \in Sound, NEW s \in Strings
  PROVE  WriteEscaped(b, s).buf \in Sound /\ WriteEscaped(b, s).ok \in BOOLEAN
<1> DEFINE plain == \A k \in DOMAIN s : ~NeedsEscape(s[k])
           span == IF plain THEN WithSpan(b) ELSE b
           text == <<Quote>> \o s \o <<Quote>>
           pieces == << <<Quote>> >> \o Runs(s) \o << <<Quote>> >>
<1>1. span \in Sound
  BY SpanIsFree
<1>2. <<Quote>> \in Strings /\ Len(<<Quote>>) = 1 /\ << <<Quote>> >> \in Seq(Strings)
  BY OwnSymbols, SymbolIsText
<1>3. text \in Strings /\ Len(text) = Len(s) + 2
  <2> DEFINE q == <<Quote>>
  <2>1. q \in Strings /\ Len(q) = 1
    BY <1>2
  <2> HIDE DEF q
  <2>2. (q \o s) \in Strings /\ Len(q \o s) = 1 + Len(s)
    BY <2>1, Joined
  <2>3. (q \o s) \o q \in Strings /\ Len((q \o s) \o q) = Len(s) + 2
    BY <2>1, <2>2, Joined
  <2> QED BY <2>3 DEF q
<1>4. pieces \in Seq(Strings)
  <2> DEFINE q == << <<Quote>> >>
             runs == Runs(s)
  <2>1. q \in Seq(Strings) /\ runs \in Seq(Strings)
    BY <1>2, RunsAreTexts
  <2>2. pieces = q \o runs \o q
    OBVIOUS
  <2> HIDE DEF q, runs, pieces
  <2> QED BY <2>1, <2>2
<1>5. WriteEscaped(b, s) = IF Bad(b) THEN Failed(b)
                           ELSE IF plain /\ Len(s) + 2 <= SpanSize(span) THEN Done(Commit(span, text))
                           ELSE WriteAll(span, pieces)
  BY DEF WriteEscaped
<1> HIDE DEF span, text, pieces, plain
<1>6. Len(s) + 2 <= SpanSize(span) => Commit(span, text) \in Sound
  BY <1>1, <1>3, SpanIsFree
<1>7. WriteAll(span, pieces).buf \in Sound /\ WriteAll(span, pieces).ok \in BOOLEAN
  BY <1>1, <1>4, WriteAllKeeps
<1>8. CASE Bad(b)
  BY <1>5, <1>8 DEF Failed
<1>9. CASE ~Bad(b) /\ plain /\ Len(s) + 2 <= SpanSize(span)
  BY <1>5, <1>6, <1>9 DEF Done
<1>10. CASE ~Bad(b) /\ ~(plain /\ Len(s) + 2 <= SpanSize(span))
  BY <1>5, <1>7, <1>10
<1> QED BY <1>8, <1>9, <1>10

-----------------------------------------------------------------------------
(* Numbers. *)

(* A number has at least one digit (document.cpp:90-101).                  *)
LEMMA DigitsAreText ==
  ASSUME NEW n \in Nat
  PROVE  NumDigits(n) \in 1..10
<1> DEFINE powers == {k \in 1..9 : n >= 10 ^ k}
<1>1. IsFiniteSet(1..9) /\ Cardinality(1..9) = 9
  <2> DEFINE lo == 1
             hi == 9
  <2>1. lo \in Int /\ hi \in Int /\ ~(lo > hi) /\ hi - lo + 1 = 9
    OBVIOUS
  <2> HIDE DEF lo, hi
  <2>2. IsFiniteSet(lo..hi) /\ Cardinality(lo..hi) = 9
    BY <2>1, FS_Interval
  <2> QED BY <2>2 DEF lo, hi
<1>2. powers \subseteq 1..9
  OBVIOUS
<1> HIDE DEF powers
<1>3. Cardinality(powers) \in Nat /\ Cardinality(powers) <= 9
  BY <1>1, <1>2, FS_Subset, FS_CardinalityType
<1>4. NumDigits(n) = 1 + Cardinality(powers)
  BY DEF NumDigits, powers
<1> QED BY <1>3, <1>4

(* write_number (document.cpp:129-168): the digits go to the span only if  *)
(* it holds them all.                                                      *)
LEMMA WriteNumberKeeps ==
  ASSUME NEW b \in Sound, NEW n \in Int
  PROVE  WriteNumber(b, n) \in Sound
<1> DEFINE span == WithSpan(b)
           uval == IF n < 0 THEN -n ELSE n
           digits == NumDigits(uval)
           places == [k \in 1..digits |-> Digit[((uval \div (10 ^ (digits - k))) % 10) + 1]]
           sign == IF n < 0 THEN <<"-">> ELSE <<>>
           len == digits + (IF n < 0 THEN 1 ELSE 0)
<1>1. span \in Sound
  BY SpanIsFree
<1>2. uval \in Nat
  OBVIOUS
<1>3. digits \in 1..10
  BY <1>2, DigitsAreText
<1>4. places \in Strings /\ Len(places) = digits
  <2>1. ASSUME NEW k \in 1..digits
        PROVE  Digit[((uval \div (10 ^ (digits - k))) % 10) + 1] \in Symbols
    <3> DEFINE e == digits - k
               x == uval \div (10 ^ e)
    <3>1. e \in 0..9
      BY <1>3
    <3>2. 10 ^ e \in Nat /\ 10 ^ e > 0
      <4> DEFINE positive(j) == 10 ^ j \in Nat /\ 10 ^ j > 0
      <4>1. /\ positive(0) /\ positive(1) /\ positive(2) /\ positive(3) /\ positive(4)
            /\ positive(5) /\ positive(6) /\ positive(7) /\ positive(8) /\ positive(9)
        OBVIOUS
      <4> HIDE DEF e, positive
      <4>2. \/ e = 0 \/ e = 1 \/ e = 2 \/ e = 3 \/ e = 4
            \/ e = 5 \/ e = 6 \/ e = 7 \/ e = 8 \/ e = 9
        BY <3>1
      <4>3. positive(e)
        BY <4>1, <4>2, Zenon
      <4> QED BY <4>3 DEF positive
    <3>3. x \in Int
      <4> HIDE DEF uval, e
      <4> QED BY <1>2, <3>2
    <3> HIDE DEF x
    <3>4. (x % 10) + 1 \in 1..10
      BY <3>3
    <3>5. DOMAIN Digit = 1..10
      BY DEF Digit
    <3>6. Digit[(x % 10) + 1] \in Symbols
      BY <3>4, <3>5, OwnSymbols
    <3> QED BY <3>6 DEF x
  <2> HIDE DEF digits, uval
  <2> QED BY <1>3, <2>1 DEF Strings
<1>5. sign \in Strings /\ Len(sign) = IF n < 0 THEN 1 ELSE 0
  <2>1. <<"-">> \in Strings /\ Len(<<"-">>) = 1
    BY OwnSymbols, SymbolIsText
  <2>2. <<>> \in Strings /\ Len(<<>>) = 0
    BY DEF Strings
  <2> QED BY <2>1, <2>2
<1>6. WriteNumber(b, n) = IF Bad(b) THEN b ELSE IF len > SpanSize(span) THEN Fail(span)
                          ELSE Commit(span, sign \o places)
  BY DEF WriteNumber
<1> HIDE DEF span, places, sign, digits, uval
<1>7. sign \o places \in Strings /\ Len(sign \o places) = len /\ len \in Nat
  <2>1. sign \o places \in Strings /\ Len(sign \o places) = Len(sign) + Len(places)
    BY <1>4, <1>5, Joined
  <2> DEFINE one == IF n < 0 THEN 1 ELSE 0
  <2>2. one \in Nat /\ Len(sign) = one
    BY <1>5
  <2> HIDE DEF one
  <2>3. len = digits + one
    BY DEF one
  <2> HIDE DEF len
  <2> QED BY <1>3, <1>4, <2>1, <2>2, <2>3
<1> HIDE DEF len
<1>8. SpanSize(span) \in Nat /\ (len <= SpanSize(span) => Commit(span, sign \o places) \in Sound)
  BY <1>1, <1>7, SpanIsFree
<1> QED BY <1>1, <1>6, <1>7, <1>8, FailKeeps

-----------------------------------------------------------------------------
(* Formatted text, and its expansion in place. *)

(* The room the escapes of a formatted text need (printer.cpp:32-43).      *)
LEMMA ExtraIsNatural ==
  ASSUME NEW s \in Strings
  PROVE  Extra(s) \in Nat
<1> DEFINE n == Len(s)
           add(sum, c) == sum + Len(EscapeSymbol(c)) - 1
           op == [p \in Nat \X (1..n) |-> add(p[1], s[p[2]])]
           summed(f) == f = [S \in SUBSET (DOMAIN s) |->
                               IF S = {} THEN 0 ELSE add(f[S \ {Max(S)}], s[Max(S)])]
           it == CHOOSE f : summed(f)
<1>1. n \in Nat /\ DOMAIN s = 1..n /\ \A k \in 1..n : s[k] \in Symbols
  BY DEF Strings
<1>2. 0 \in Nat
  OBVIOUS
<1>3. \A x \in Nat, k \in 1..n : add(x, s[k]) \in Nat
  BY <1>1, EscapesAreText
<1>4. Extra(s) = it[DOMAIN s]
  BY Zenon DEF Extra, FoldLeft, MapThenFoldSet
<1> HIDE DEF add
<1>5. op \in [Nat \X (1..n) -> Nat]
  BY <1>3
<1>6. PICK f \in [Places(n) -> Nat] : IsFold(f, n, 0, op)
  BY <1>1, <1>5, FoldExists
<1>7. summed(f)
  <2>1. \A S \in Places(n) : S # {} => /\ S \ {Max(S)} \in Places(n) /\ Max(S) \in 1..n
    BY <1>1, LastPlace
  <2>2. \A x \in Nat, k \in 1..n : op[<<x, k>>] = add(x, s[k])
    OBVIOUS
  <2> HIDE DEF op
  <2>3. \A S \in Places(n) : S # {} =>
           op[<<f[S \ {Max(S)}], Max(S)>>] = add(f[S \ {Max(S)}], s[Max(S)])
    BY <1>6, <2>1, <2>2
  <2>4. Places(n) = SUBSET (DOMAIN s)
    BY <1>1 DEF Places
  <2> QED BY <1>6, <2>3, <2>4 DEF IsFold
<1>8. summed(it)
  <2> HIDE DEF summed
  <2> QED BY <1>7
<1>9. SUBSET (DOMAIN s) = Places(n)
  BY <1>1 DEF Places
<1> HIDE DEF it
<1>10. it[{}] \in Nat
  BY <1>2, <1>8
<1>11. ASSUME NEW S \in Places(n), S # {}, it[S \ {Max(S)}] \in Nat
       PROVE  it[S] \in Nat
  <2>1. Max(S) \in 1..n
    BY <1>1, <1>11, LastPlace
  <2>2. it[S] = add(it[S \ {Max(S)}], s[Max(S)])
    BY <1>8, <1>9, <1>11
  <2> QED BY <1>3, <1>11, <2>1, <2>2
<1>12. it[1..n] \in Nat
  <2> HIDE DEF n
  <2> QED BY <1>1, <1>10, <1>11, FoldStays
<1> QED BY <1>1, <1>4, <1>12

(* The expansion in place (printer.cpp:45-89): every place of the longer   *)
(* text is filled with a symbol.                                           *)
LEMMA SpreadIsText ==
  ASSUME NEW s \in Strings, NEW extra \in Nat
  PROVE  Spread(s, extra) \in Strings /\ Len(Spread(s, extra)) = Len(s) + extra
<1> DEFINE n == Len(s)
           m == n + extra
           V == [span : [1..m -> Symbols], to : Int]
           froms == [k \in DOMAIN s |-> n + 1 - k]
           place(acc, from) ==
             [span |-> [k \in DOMAIN acc.span |->
                          IF k > acc.to - Len(EscapeSymbol(acc.span[from])) /\ k <= acc.to
                            THEN EscapeSymbol(acc.span[from])
                                   [k - (acc.to - Len(EscapeSymbol(acc.span[from])))]
                            ELSE acc.span[k]],
              to |-> acc.to - Len(EscapeSymbol(acc.span[from]))]
           base == [span |-> [k \in 1..m |-> IF k <= n THEN s[k] ELSE " "], to |-> m]
           op == [p \in V \X (1..n) |-> place(p[1], froms[p[2]])]
           spread(f) == f = [S \in SUBSET (DOMAIN froms) |->
                               IF S = {} THEN base ELSE place(f[S \ {Max(S)}], froms[Max(S)])]
           it == CHOOSE f : spread(f)
<1>1. n \in Nat /\ m \in Nat /\ n <= m /\ DOMAIN s = 1..n /\ \A k \in 1..n : s[k] \in Symbols
  BY DEF Strings
<1>2. DOMAIN froms = 1..n /\ \A k \in 1..n : froms[k] \in 1..m
  BY <1>1
<1>3. base \in V
  <2> DEFINE space == " "
             span == [k \in 1..m |-> IF k <= n THEN s[k] ELSE space]
  <2>1. space \in Symbols
    BY OwnSymbols
  <2>2. base = [span |-> span, to |-> m]
    OBVIOUS
  <2> HIDE DEF m, n, space, base
  <2>3. \A k \in 1..m : (IF k <= n THEN s[k] ELSE space) \in Symbols
    BY <1>1, <2>1
  <2>4. span \in [1..m -> Symbols]
    BY <2>3
  <2> HIDE DEF span
  <2> QED BY <1>1, <2>2, <2>4
<1>4. ASSUME NEW x \in V, NEW from \in 1..m PROVE place(x, from) \in V
  <2> DEFINE e == EscapeSymbol(x.span[from])
             below == x.to - Len(e)
  <2>1. x.span \in [1..m -> Symbols] /\ x.to \in Int
    OBVIOUS
  <2>2. e \in Strings /\ Len(e) \in Nat
    BY <2>1, EscapesAreText
  <2>3. place(x, from) = [span |-> [k \in DOMAIN x.span |->
                                      IF k > below /\ k <= x.to THEN e[k - below] ELSE x.span[k]],
                          to |-> below]
    OBVIOUS
  <2> HIDE DEF place, e
  <2>4. below \in Int
    BY <2>1, <2>2
  <2>5. ASSUME NEW k \in 1..m
        PROVE  (IF k > below /\ k <= x.to THEN e[k - below] ELSE x.span[k]) \in Symbols
    <3>1. k > below /\ k <= x.to => k - below \in 1..Len(e)
      BY <1>1, <2>1, <2>2, <2>4
    <3>2. \A j \in 1..Len(e) : e[j] \in Symbols
      BY <2>2 DEF Strings
    <3> HIDE DEF below, m
    <3> QED BY <2>1, <3>1, <3>2
  <2> HIDE DEF below, m
  <2> QED BY <2>1, <2>3, <2>4, <2>5
<1>5. Spread(s, extra) = it[DOMAIN froms].span
  BY Zenon DEF Spread, FoldLeft, MapThenFoldSet
<1> HIDE DEF place, base, froms, V
<1>6. op \in [V \X (1..n) -> V]
  BY <1>2, <1>4
<1>7. PICK f \in [Places(n) -> V] : IsFold(f, n, base, op)
  BY <1>1, <1>3, <1>6, FoldExists
<1>8. spread(f)
  <2>1. \A S \in Places(n) : S # {} => /\ S \ {Max(S)} \in Places(n) /\ Max(S) \in 1..n
    BY <1>1, LastPlace
  <2>2. \A x \in V, k \in 1..n : op[<<x, k>>] = place(x, froms[k])
    OBVIOUS
  <2> HIDE DEF op
  <2>3. \A S \in Places(n) : S # {} =>
           op[<<f[S \ {Max(S)}], Max(S)>>] = place(f[S \ {Max(S)}], froms[Max(S)])
    BY <1>7, <2>1, <2>2
  <2>4. Places(n) = SUBSET (DOMAIN froms)
    BY <1>2 DEF Places
  <2> QED BY <1>7, <2>3, <2>4 DEF IsFold
<1>9. spread(it)
  <2> HIDE DEF spread
  <2> QED BY <1>8
<1>10. SUBSET (DOMAIN froms) = Places(n)
  BY <1>2 DEF Places
<1> HIDE DEF it
<1>11. it[{}] \in V
  BY <1>3, <1>9
<1>12. ASSUME NEW S \in Places(n), S # {}, it[S \ {Max(S)}] \in V
       PROVE  it[S] \in V
  <2>1. Max(S) \in 1..n
    BY <1>1, <1>12, LastPlace
  <2>2. it[S] = place(it[S \ {Max(S)}], froms[Max(S)])
    BY <1>9, <1>10, <1>12
  <2> QED BY <1>2, <1>4, <1>12, <2>1, <2>2
<1>13. it[1..n] \in V
  <2> HIDE DEF n
  <2> QED BY <1>1, <1>11, <1>12, FoldStays
<1>14. Spread(s, extra) \in [1..m -> Symbols]
  BY <1>2, <1>5, <1>13 DEF V
<1> HIDE DEF m
<1>15. Spread(s, extra) \in Strings /\ Len(Spread(s, extra)) = m
  BY <1>1, <1>14 DEF Strings
<1> QED BY <1>15 DEF m

(* Printer::vprint (printer.cpp:15-94): the expanded text is committed     *)
(* only if the span holds it.                                              *)
LEMMA VPrintKeeps ==
  ASSUME NEW b \in Sound, NEW escaped \in BOOLEAN, NEW s \in Strings
  PROVE  VPrint(b, escaped, s) \in Sound
<1> DEFINE span == WithSpan(b)
           extra == IF escaped THEN Extra(s) ELSE 0
           text == IF escaped THEN Spread(s, extra) ELSE s
<1>1. span \in Sound
  BY SpanIsFree
<1>2. extra \in Nat /\ Len(s) \in Nat
  BY ExtraIsNatural DEF Strings
<1>3. VPrint(b, escaped, s) =
        IF Bad(b) THEN b
        ELSE IF SpanSize(span) = 0 \/ Len(s) >= SpanSize(span) THEN Fail(span)
        ELSE IF Len(s) + extra > SpanSize(span) THEN Fail(span)
        ELSE Commit(span, text)
  BY DEF VPrint
<1>4. text \in Strings /\ (Len(text) = Len(s) + extra \/ (~escaped /\ Len(text) = Len(s)))
  <2> HIDE DEF extra
  <2> QED BY <1>2, SpreadIsText
<1> HIDE DEF span, text, extra
<1>5. SpanSize(span) \in Nat /\ (Len(text) <= SpanSize(span) => Commit(span, text) \in Sound)
  BY <1>1, <1>4, SpanIsFree
<1> QED BY <1>1, <1>2, <1>3, <1>4, <1>5, FailKeeps

(* A callback's prints and the quotes around them (value.hpp:46-51).       *)
LEMMA WriteCallbackKeeps ==
  ASSUME NEW b \in Sound, NEW prints \in Seq(Strings)
  PROVE  WriteCallback(b, prints) \in Sound
<1> DEFINE n == Len(prints)
           open == Write(b, <<Quote>>).buf
           print(buf, s) == VPrint(buf, TRUE, s)
           op == [p \in Sound \X (1..n) |-> print(p[1], prints[p[2]])]
           printed(f) == f = [S \in SUBSET (DOMAIN prints) |->
                                IF S = {} THEN open ELSE print(f[S \ {Max(S)}], prints[Max(S)])]
           it == CHOOSE f : printed(f)
<1>1. n \in Nat /\ DOMAIN prints = 1..n /\ \A k \in 1..n : prints[k] \in Strings
  OBVIOUS
<1>2. <<Quote>> \in Strings
  BY OwnSymbols, SymbolIsText
<1>3. open \in Sound
  BY <1>2, WriteKeeps
<1>4. \A x \in Sound, k \in 1..n : print(x, prints[k]) \in Sound
  BY <1>1, VPrintKeeps
<1>5. WriteCallback(b, prints) = Write(it[DOMAIN prints], <<Quote>>).buf
  BY Zenon DEF WriteCallback, FoldLeft, MapThenFoldSet
<1> HIDE DEF print, open
<1>6. op \in [Sound \X (1..n) -> Sound]
  BY <1>4
<1>7. PICK f \in [Places(n) -> Sound] : IsFold(f, n, open, op)
  BY <1>1, <1>3, <1>6, FoldExists
<1>8. printed(f)
  <2>1. \A S \in Places(n) : S # {} => /\ S \ {Max(S)} \in Places(n) /\ Max(S) \in 1..n
    BY <1>1, LastPlace
  <2>2. \A x \in Sound, k \in 1..n : op[<<x, k>>] = print(x, prints[k])
    OBVIOUS
  <2> HIDE DEF op
  <2>3. \A S \in Places(n) : S # {} =>
           op[<<f[S \ {Max(S)}], Max(S)>>] = print(f[S \ {Max(S)}], prints[Max(S)])
    BY <1>7, <2>1, <2>2
  <2>4. Places(n) = SUBSET (DOMAIN prints)
    BY <1>1 DEF Places
  <2> QED BY <1>7, <2>3, <2>4 DEF IsFold
<1>9. printed(it)
  <2> HIDE DEF printed
  <2> QED BY <1>8
<1>10. SUBSET (DOMAIN prints) = Places(n)
  BY <1>1 DEF Places
<1> HIDE DEF it
<1>11. it[{}] \in Sound
  BY <1>3, <1>9
<1>12. ASSUME NEW S \in Places(n), S # {}, it[S \ {Max(S)}] \in Sound
       PROVE  it[S] \in Sound
  <2>1. Max(S) \in 1..n
    BY <1>1, <1>12, LastPlace
  <2>2. it[S] = print(it[S \ {Max(S)}], prints[Max(S)])
    BY <1>9, <1>10, <1>12
  <2> QED BY <1>4, <1>12, <2>1, <2>2
<1>13. it[1..n] \in Sound
  <2> HIDE DEF n
  <2> QED BY <1>1, <1>11, <1>12, FoldStays
<1> QED BY <1>1, <1>2, <1>5, <1>13, WriteKeeps

-----------------------------------------------------------------------------
(* The stack of frames. *)

(* The fields of a frame.                                                  *)
LEMMA FrameFields ==
  ASSUME NEW frame \in Frames
  PROVE  /\ frame \in NodeFrames \/ frame \in ItemFrames
         /\ frame.fn \in {"nodes", "level", "array", "stream"}
         /\ frame.fn \in {"nodes", "level"} => frame.list \in Seq(Nodes)
         /\ frame.fn \in {"array", "stream"} => frame.list \in Seq(Values)
         /\ frame.at \in Nat /\ frame.at >= 1 /\ Len(frame.list) \in Nat
         /\ frame.at <= Len(frame.list) + 1
         /\ frame.path \in Seq(Strings) /\ frame.address \in Seq(Nat)
         /\ frame.fn = "level" => LevelOK(frame)
BY DEF Frames, NodeFrames, ItemFrames

(* A frame that begins a list of nodes.                                    *)
LEMMA NewNodeFrame ==
  ASSUME NEW nodes \in Seq(Nodes), NEW path \in Seq(Strings), NEW address \in Seq(Nat),
         NEW fn \in {"nodes", "level"},
         fn = "level" =>
           /\ Apart(Range(nodes))
           /\ \A n \in Range(nodes) : IsPrefix(path, n.path) => Len(path) < Len(n.path)
  PROVE  /\ Frame(fn, nodes, path, address) \in Frames
         /\ Frame(fn, nodes, path, address).fn = fn /\ Frame(fn, nodes, path, address).path = path
<1> DEFINE frame == Frame(fn, nodes, path, address)
<1>1. frame = [fn |-> fn, list |-> nodes, at |-> 1, first |-> TRUE, path |-> path,
               address |-> address]
  BY DEF Frame
<1> HIDE DEF frame
<1>2. frame \in NodeFrames /\ frame.fn = fn /\ frame.path = path /\ frame.list = nodes
      /\ frame.at = 1
  BY <1>1 DEF NodeFrames
<1>3. fn = "level" => LevelOK(frame)
  BY <1>2 DEF LevelOK
<1>4. frame \in Frames
  BY <1>2, <1>3 DEF Frames
<1> QED BY <1>2, <1>4 DEF frame

(* A frame that begins a list of values.                                   *)
LEMMA NewItemFrame ==
  ASSUME NEW items \in Seq(Values), NEW address \in Seq(Nat), NEW fn \in {"array", "stream"}
  PROVE  /\ Frame(fn, items, <<>>, address) \in Frames
         /\ Frame(fn, items, <<>>, address).fn = fn
<1> DEFINE frame == Frame(fn, items, <<>>, address)
<1>1. frame = [fn |-> fn, list |-> items, at |-> 1, first |-> TRUE, path |-> <<>>,
               address |-> address]
  BY DEF Frame
<1> HIDE DEF frame
<1>2. frame \in ItemFrames /\ frame.fn = fn /\ frame.list = items /\ frame.at = 1
  BY <1>1 DEF ItemFrames
<1> QED BY <1>2 DEF Frames, frame

(* The beginning of a value: a sound buffer, and frames of which a level is *)
(* the level of a root.                                                     *)
Begins(begun) ==
  /\ begun.buf \in Sound
  /\ begun.frames \in Seq(Frames)
  /\ \A k \in DOMAIN begun.frames : begun.frames[k].fn = "level" => Root(begun.frames[k])

(* What begins without pushing a frame.                                    *)
LEMMA NothingToPush ==
  ASSUME NEW b \in Sound, NEW reset
  PROVE  Begins(Begun(b, <<>>, reset))
BY DEF Begins, Begun

(* emit_json_nodes (document.cpp:47-88): the level it begins with is a     *)
(* root, which no path ends at.                                            *)
LEMMA NodesBegin ==
  ASSUME NEW b \in Sound, NEW nodes \in Seq(Nodes), Apart(Range(nodes)), NEW address \in Seq(Nat)
  PROVE  Begins(EmitJsonNodes(b, nodes, address))
<1> DEFINE reset == {Append(address, k) : k \in {k \in DOMAIN nodes : Nested(nodes)}}
           fn == IF Nested(nodes) THEN "level" ELSE "nodes"
           frame == Frame(fn, nodes, <<>>, address)
           w == Write(b, <<"{">>)
<1>1. <<"{">> \in Strings /\ <<"{", "}">> \in Strings
  BY OwnSymbols, SymbolIsText, PairIsText
<1>2. CASE nodes = <<>>
  <2>1. EmitJsonNodes(b, nodes, address) = Begun(Write(b, <<"{", "}">>).buf, <<>>, {})
    BY <1>2 DEF EmitJsonNodes
  <2> QED BY <1>1, <2>1, WriteKeeps, NothingToPush
<1>3. CASE nodes # <<>>
  <2>1. w.buf \in Sound
    BY <1>1, WriteKeeps
  <2>2. EmitJsonNodes(b, nodes, address) =
          [buf |-> w.buf, frames |-> IF w.ok THEN <<frame>> ELSE <<>>, reset |-> reset]
    BY <1>3 DEF EmitJsonNodes, Entered, ObjectFrame, Begun
  <2>3. \A n \in Range(nodes) : IsPrefix(<<>>, n.path) => Len(<<>>) < Len(n.path)
    <3> SUFFICES ASSUME NEW n \in Range(nodes) PROVE Len(n.path) > 0
      OBVIOUS
    <3>1. n \in Nodes
      BY DEF Range
    <3>2. n.path \in Seq(Strings) /\ n.path # <<>>
      BY <3>1 DEF Nodes
    <3> QED BY <3>2
  <2>4. frame \in Frames /\ frame.path = <<>>
    <3> DEFINE root == <<>>
    <3>1. fn \in {"nodes", "level"} /\ root \in Seq(Strings)
      OBVIOUS
    <3>2. \A n \in Range(nodes) : IsPrefix(root, n.path) => Len(root) < Len(n.path)
      BY <2>3
    <3> HIDE DEF fn, root
    <3>3. Frame(fn, nodes, root, address) \in Frames /\ Frame(fn, nodes, root, address).path = root
      BY <3>1, <3>2, NewNodeFrame
    <3> QED BY <3>3 DEF root
  <2> HIDE DEF w, frame, reset
  <2> QED BY <2>1, <2>2, <2>4 DEF Begins, Root
<1> QED BY <1>2, <1>3

(* write_json_value (document.cpp:170-224), whatever the value.            *)
LEMMA ValueBegins ==
  ASSUME NEW b \in Sound, NEW value \in Values, NEW address \in Seq(Nat)
  PROVE  Begins(WriteJsonValue(b, value, address))
<1>1. CASE value.v = "number" /\ value.n \in Int
  <2>1. WriteJsonValue(b, value, address) = Begun(WriteNumber(b, value.n), <<>>, {})
    BY <1>1 DEF WriteJsonValue
  <2> QED BY <1>1, <2>1, WriteNumberKeeps, NothingToPush
<1>2. CASE value.v = "string" /\ value.s \in Strings
  <2>1. WriteJsonValue(b, value, address) = Begun(WriteEscaped(b, value.s).buf, <<>>, {})
    BY <1>2 DEF WriteJsonValue
  <2> QED BY <1>2, <2>1, WriteEscapedKeeps, NothingToPush
<1>3. CASE value.v = "literal" /\ value.s \in Strings
  <2>1. WriteJsonValue(b, value, address) = Begun(Write(b, value.s).buf, <<>>, {})
    BY <1>3 DEF WriteJsonValue
  <2> QED BY <1>3, <2>1, WriteKeeps, NothingToPush
<1>4. CASE value.v = "formatted" /\ value.s \in Strings
  <2>1. WriteJsonValue(b, value, address) = Begun(VPrint(b, FALSE, value.s), <<>>, {})
    BY <1>4 DEF WriteJsonValue
  <2> QED BY <1>4, <2>1, VPrintKeeps, NothingToPush
<1>5. CASE value.v = "callback" /\ value.prints \in Seq(Strings)
  <2>1. WriteJsonValue(b, value, address) = Begun(WriteCallback(b, value.prints), <<>>, {})
    BY <1>5 DEF WriteJsonValue
  <2> QED BY <1>5, <2>1, WriteCallbackKeeps, NothingToPush
<1>6. CASE value.v = "document" /\ value.nodes \in Seq(Nodes) /\ Apart(Range(value.nodes))
  <2>1. WriteJsonValue(b, value, address) = EmitJsonNodes(b, value.nodes, address)
    BY <1>6 DEF WriteJsonValue
  <2> QED BY <1>6, <2>1, NodesBegin
<1>7. CASE value.v \in {"array", "stream"} /\ value.items \in Seq(Values)
  <2> DEFINE open == Write(b, <<"[">>).buf
             frame == Frame(value.v, value.items, <<>>, address)
  <2>1. WriteJsonValue(b, value, address) = Begun(open, <<frame>>, {})
    BY <1>7 DEF WriteJsonValue
  <2>2. open \in Sound
    BY OwnSymbols, SymbolIsText, WriteKeeps
  <2>3. frame \in Frames /\ frame.fn # "level"
    BY <1>7, NewItemFrame
  <2> HIDE DEF open, frame
  <2> QED BY <2>1, <2>2, <2>3 DEF Begins, Begun
<1> QED BY <1>1, <1>2, <1>3, <1>4, <1>5, <1>6, <1>7, ValuesAssumption

-----------------------------------------------------------------------------
(* Stacks. *)

(* The first elements of a sequence.                                       *)
LEMMA PrefixIs ==
  ASSUME NEW S, NEW s \in Seq(S), NEW n \in Nat, n <= Len(s)
  PROVE  /\ SubSeq(s, 1, n) \in Seq(S) /\ Len(SubSeq(s, 1, n)) = n
         /\ \A k \in 1..n : SubSeq(s, 1, n)[k] = s[k]
OBVIOUS

(* Two sequences put together.                                             *)
LEMMA JoinedIs ==
  ASSUME NEW S, NEW s \in Seq(S), NEW t \in Seq(S)
  PROVE  /\ s \o t \in Seq(S) /\ Len(s \o t) = Len(s) + Len(t)
         /\ \A k \in 1..Len(s) : (s \o t)[k] = s[k]
         /\ \A k \in 1..Len(t) : (s \o t)[Len(s) + k] = t[k]
OBVIOUS

(* The lower part of a stack of frames is a stack: a root lies under its   *)
(* levels still.                                                           *)
LEMMA PartOfStack ==
  ASSUME NEW stack \in Stacks, NEW n \in Nat, n <= Len(stack)
  PROVE  SubSeq(stack, 1, n) \in Stacks
<1>1. stack \in Seq(Frames) /\ Rooted(stack)
  BY DEF Stacks
<1> DEFINE part == SubSeq(stack, 1, n)
<1>2. part \in Seq(Frames) /\ DOMAIN part = 1..n /\ \A k \in 1..n : part[k] = stack[k]
  BY <1>1
<1> HIDE DEF part
<1>3. Rooted(part)
  <2> SUFFICES ASSUME NEW k \in 1..n, part[k].fn = "level" PROVE \E j \in 1..k : Root(part[j])
    BY <1>2 DEF Rooted
  <2>1. k \in DOMAIN stack
    BY <1>1
  <2>2. PICK j \in 1..k : Root(stack[j])
    BY <1>1, <1>2, <2>1 DEF Rooted
  <2> QED BY <1>2, <2>2
<1> QED BY <1>2, <1>3 DEF Stacks, part

(* The frame on top and the frames under it.                               *)
LEMMA TopOfStack ==
  ASSUME calls \in Stacks, calls # <<>>
  PROVE  /\ Top \in Frames /\ Under \in Stacks
         /\ Len(calls) \in Nat /\ Len(calls) >= 1
         /\ Top = calls[Len(calls)] /\ Len(Under) = Len(calls) - 1
         /\ \A k \in 1..(Len(calls) - 1) : Under[k] = calls[k]
<1>1. calls \in Seq(Frames) /\ Len(calls) \in Nat /\ Len(calls) >= 1
  BY DEF Stacks
<1>2. Under = SubSeq(calls, 1, Len(calls) - 1) /\ Top = calls[Len(calls)]
  BY DEF Under, Top, Front, Last
<1>3. Len(calls) - 1 \in Nat /\ Len(calls) - 1 <= Len(calls)
  BY <1>1
<1>4. Under \in Stacks
  BY <1>2, <1>3, PartOfStack
<1>5. Len(Under) = Len(calls) - 1 /\ \A k \in 1..(Len(calls) - 1) : Under[k] = calls[k]
  BY <1>1, <1>2, <1>3, PrefixIs
<1>6. Top \in Frames
  BY <1>1, <1>2
<1> QED BY <1>1, <1>2, <1>4, <1>5, <1>6

(* Frames pushed on a stack make a stack if the levels among them are      *)
(* roots, or continue a level that has one.                                *)
LEMMA Pushed ==
  ASSUME calls \in Stacks, calls # <<>>,
         NEW top \in Frames, top.fn = Top.fn, top.path = Top.path,
         NEW frames \in Seq(Frames),
         \A k \in DOMAIN frames : frames[k].fn = "level" => Root(frames[k]) \/ Top.fn = "level"
  PROVE  Under \o <<top>> \o frames \in Stacks
<1> DEFINE n == Len(calls)
           stack == Under \o <<top>> \o frames
<1>1. calls \in Seq(Frames) /\ Rooted(calls) /\ n \in Nat /\ n >= 1 /\ Top = calls[n]
      /\ Under \in Seq(Frames) /\ Len(Under) = n - 1 /\ \A k \in 1..(n - 1) : Under[k] = calls[k]
  BY TopOfStack DEF Stacks
<1> HIDE DEF n
<1>2. /\ stack \in Seq(Frames) /\ Len(stack) = n + Len(frames)
      /\ \A k \in 1..(n - 1) : stack[k] = calls[k]
      /\ stack[n] = top
      /\ \A k \in 1..Len(frames) : stack[n + k] = frames[k]
  <2> DEFINE one == <<top>>
             lower == Under \o one
  <2>0. one \in Seq(Frames) /\ Len(one) = 1 /\ one[1] = top
    OBVIOUS
  <2>1. /\ lower \in Seq(Frames) /\ Len(lower) = n /\ lower[n] = top
        /\ \A k \in 1..(n - 1) : lower[k] = calls[k]
    <3> HIDE DEF one
    <3>1. /\ lower \in Seq(Frames) /\ Len(lower) = Len(Under) + Len(one)
          /\ \A k \in 1..Len(Under) : lower[k] = Under[k]
          /\ \A k \in 1..Len(one) : lower[Len(Under) + k] = one[k]
      <4>1. Under \in Seq(Frames) /\ one \in Seq(Frames)
        BY <1>1, <2>0
      <4> QED BY <4>1, JoinedIs
    <3>2. 1 \in 1..Len(one) /\ Len(Under) + 1 = n
      BY <1>1, <2>0
    <3> HIDE DEF lower
    <3> QED BY <1>1, <2>0, <3>1, <3>2
  <2>2. stack = lower \o frames
    OBVIOUS
  <2> HIDE DEF lower
  <2>3. /\ stack \in Seq(Frames) /\ Len(stack) = Len(lower) + Len(frames)
        /\ \A k \in 1..Len(lower) : stack[k] = lower[k]
        /\ \A k \in 1..Len(frames) : stack[Len(lower) + k] = frames[k]
    <3>1. lower \in Seq(Frames) /\ frames \in Seq(Frames)
      BY <2>1
    <3>2. /\ lower \o frames \in Seq(Frames) /\ Len(lower \o frames) = Len(lower) + Len(frames)
          /\ \A k \in 1..Len(lower) : (lower \o frames)[k] = lower[k]
          /\ \A k \in 1..Len(frames) : (lower \o frames)[Len(lower) + k] = frames[k]
      BY <3>1, JoinedIs
    <3> HIDE DEF stack
    <3> QED BY <2>2, <3>2
  <2> HIDE DEF stack
  <2>4. n \in 1..n /\ 1..(n - 1) \subseteq 1..n
    BY <1>1
  <2> QED BY <2>1, <2>3, <2>4
<1> HIDE DEF stack
<1>3. ASSUME NEW k \in 1..n, calls[k].fn = "level" PROVE \E j \in 1..k : Root(stack[j])
  <2>1. PICK j \in 1..k : Root(calls[j])
    BY <1>1, <1>3 DEF Rooted, n
  <2>2. j \in 1..(n - 1) \/ j = n
    BY <1>1
  <2>3. Root(stack[j])
    BY <1>1, <1>2, <2>1, <2>2 DEF Root
  <2> QED BY <2>3
<1>4. ASSUME NEW k \in DOMAIN stack, stack[k].fn = "level" PROVE \E j \in 1..k : Root(stack[j])
  <2>1. CASE k \in 1..n
    <3>1. calls[k].fn = "level"
      <4>1. k \in 1..(n - 1) \/ k = n
        BY <1>1, <2>1
      <4> QED BY <1>1, <1>2, <1>4, <4>1
    <3> QED BY <1>3, <2>1, <3>1
  <2>2. CASE k \notin 1..n
    <3> DEFINE m == k - n
    <3>1. k \in 1..(n + Len(frames)) /\ Len(frames) \in Nat
      BY <1>2
    <3>2. m \in 1..Len(frames) /\ k = n + m /\ k \in Nat /\ n <= k
      <4>1. n \in Nat /\ n >= 1
        BY <1>1
      <4> QED BY <2>2, <3>1, <4>1
    <3>3. stack[k] = frames[m] /\ m \in DOMAIN frames
      BY <1>2, <3>2
    <3>4. CASE Root(frames[m])
      BY <3>2, <3>3, <3>4
    <3>5. CASE Top.fn = "level"
      <4>1. \E j \in 1..n : Root(stack[j])
        BY <1>1, <1>3, <3>5
      <4> QED BY <1>1, <3>2, <4>1
    <3> QED BY <1>4, <3>3, <3>4, <3>5
  <2> QED BY <2>1, <2>2
<1>5. Rooted(stack)
  BY <1>4 DEF Rooted
<1> QED BY <1>2, <1>5 DEF Stacks, stack

(* The frame that a failure unwinds to (document.cpp:38, 84): there is a   *)
(* root to return from.                                                    *)
LEMMA Returned ==
  ASSUME calls \in Stacks, calls # <<>>, Top.fn = "level"
  PROVE  Unwound \in Stacks
<1> DEFINE n == Len(calls)
           roots == {k \in DOMAIN calls : calls[k].fn = "level" /\ calls[k].path = <<>>}
<1>1. calls \in Seq(Frames) /\ Rooted(calls) /\ n \in Nat /\ n >= 1 /\ Top = calls[n]
  BY TopOfStack DEF Stacks
<1>2. roots # {}
  <2>1. n \in DOMAIN calls
    BY <1>1
  <2>2. \E j \in 1..n : Root(calls[j])
    BY <1>1, <2>1 DEF Rooted
  <2> QED BY <1>1, <2>2 DEF Root
<1>3. roots \in SUBSET Nat /\ roots \subseteq 1..n
  BY <1>1
<1>4. IsFiniteSet(roots)
  <2>1. IsFiniteSet(1..n)
    BY <1>1, FS_Interval
  <2> HIDE DEF roots
  <2> QED BY <1>3, <2>1, FS_Subset
<1>5. Unwound = SubSeq(calls, 1, Max(roots) - 1)
  BY DEF Unwound
<1> HIDE DEF roots
<1>6. Max(roots) \in 1..n
  BY <1>2, <1>3, <1>4, MaxIsGreatest
<1> QED BY <1>1, <1>5, <1>6, PartOfStack

-----------------------------------------------------------------------------
(* The frame on top. *)

Kept == out' \in Sound /\ calls' \in Stacks

(* A frame that moves to its next place.                                   *)
LEMMA MovedFrame ==
  ASSUME NEW frame \in Frames, NEW at \in 1..(Len(frame.list) + 1), NEW first \in BOOLEAN
  PROVE  LET moved == [frame EXCEPT !.at = at, !.first = first]
         IN  moved \in Frames /\ moved.fn = frame.fn /\ moved.path = frame.path
<1> DEFINE moved == [frame EXCEPT !.at = at, !.first = first]
<1>1. frame \in NodeFrames \cup ItemFrames /\ (frame.fn = "level" => LevelOK(frame))
      /\ Len(frame.list) \in Nat
  BY FrameFields DEF Frames
<1>2. moved \in NodeFrames \cup ItemFrames /\ moved.fn = frame.fn /\ moved.path = frame.path
      /\ moved.list = frame.list /\ moved.at = at
  <2>0. at \in Nat
    BY <1>1
  <2>1. CASE frame \in NodeFrames
    <3>1. moved \in NodeFrames
      BY <2>0, <2>1 DEF NodeFrames
    <3>2. moved.fn = frame.fn /\ moved.path = frame.path /\ moved.list = frame.list /\ moved.at = at
      BY <2>1 DEF NodeFrames
    <3> QED BY <3>1, <3>2
  <2>2. CASE frame \in ItemFrames
    <3>1. moved \in ItemFrames
      BY <2>0, <2>2 DEF ItemFrames
    <3>2. moved.fn = frame.fn /\ moved.path = frame.path /\ moved.list = frame.list /\ moved.at = at
      BY <2>2 DEF ItemFrames
    <3> QED BY <3>1, <3>2
  <2> QED BY <1>1, <2>1, <2>2
<1> HIDE DEF moved
<1>3. moved \in Frames
  BY <1>1, <1>2 DEF Frames, LevelOK
<1> QED BY <1>2, <1>3 DEF moved

(* What the frame on top stands at: a node of the document, with a path    *)
(* that is not empty, or a value.                                          *)
LEMMA TopFields ==
  ASSUME calls \in Stacks, calls # <<>>
  PROVE  /\ Top \in Frames /\ Top.at \in Nat /\ Top.at >= 1 /\ Len(Top.list) \in Nat
         /\ Top.at <= Len(Top.list) + 1
         /\ Here \in Seq(Nat) /\ Comma \in Seq(Strings)
         /\ Top.fn \in {"nodes", "level"} /\ ~AtEnd =>
              /\ Item \in Nodes /\ Item \in Range(Top.list)
              /\ Item.path \in Seq(Strings) /\ Len(Item.path) >= 1 /\ Item.value \in Values
         /\ Top.fn \in {"array", "stream"} /\ ~AtEnd => Item \in Values
<1>1. Top \in Frames
  BY TopOfStack
<1> DEFINE top == Top
<1>2. /\ top.at \in Nat /\ top.at >= 1 /\ Len(top.list) \in Nat /\ top.at <= Len(top.list) + 1
      /\ top.address \in Seq(Nat)
      /\ top.fn \in {"nodes", "level"} => top.list \in Seq(Nodes)
      /\ top.fn \in {"array", "stream"} => top.list \in Seq(Values)
  BY <1>1, FrameFields
<1>3. Here \in Seq(Nat)
  BY <1>2 DEF Here
<1>4. Comma \in Seq(Strings)
  <2>1. << <<",">> >> \in Seq(Strings)
    BY OwnSymbols, SymbolIsText
  <2>2. <<>> \in Seq(Strings)
    OBVIOUS
  <2> QED BY <2>1, <2>2 DEF Comma
<1>5. ~AtEnd => top.at \in 1..Len(top.list)
  BY <1>2 DEF AtEnd
<1>6. Item = top.list[top.at]
  BY DEF Item
<1> HIDE DEF top
<1>7. ASSUME top.fn \in {"nodes", "level"}, ~AtEnd
      PROVE  /\ Item \in Nodes /\ Item \in Range(top.list)
             /\ Item.path \in Seq(Strings) /\ Len(Item.path) >= 1 /\ Item.value \in Values
  <2>1. Item \in Nodes /\ Item \in Range(top.list)
    BY <1>2, <1>5, <1>6, <1>7 DEF Range
  <2>2. Item.path \in Seq(Strings) /\ Item.path # <<>> /\ Item.value \in Values
    BY <2>1 DEF Nodes
  <2> QED BY <2>1, <2>2
<1>8. top.fn \in {"array", "stream"} /\ ~AtEnd => Item \in Values
  BY <1>2, <1>5, <1>6
<1> QED BY <1>1, <1>2, <1>3, <1>4, <1>7, <1>8 DEF top

(* A value that has begun pushes its frames over the frame on top          *)
(* (value.hpp:52-76).                                                      *)
LEMMA ContinueKeeps ==
  ASSUME calls \in Stacks, calls # <<>>, ~AtEnd,
         NEW begun, begun.buf \in Sound, begun.frames \in Seq(Frames),
         \A k \in DOMAIN begun.frames :
           begun.frames[k].fn = "level" => Root(begun.frames[k]) \/ Top.fn = "level",
         NEW marked, Continue(begun, marked)
  PROVE  Kept
<1> DEFINE frames == begun.frames
           top == Advanced
<1>1. Top \in Frames /\ Top.at + 1 \in 1..(Len(Top.list) + 1) /\ FALSE \in BOOLEAN
  BY TopFields DEF AtEnd
<1>2. top \in Frames /\ top.fn = Top.fn /\ top.path = Top.path
  <2> DEFINE at == Top.at + 1
  <2>1. top = [Top EXCEPT !.at = at, !.first = FALSE]
    BY DEF Advanced
  <2>2. at \in 1..(Len(Top.list) + 1)
    BY <1>1
  <2> HIDE DEF at, top
  <2> QED BY <1>1, <2>1, <2>2, MovedFrame
<1>3. calls' = Under \o <<top>> \o frames /\ out' = begun.buf
  BY DEF Continue
<1> HIDE DEF top
<1>4. Under \o <<top>> \o frames \in Stacks
  BY <1>2, Pushed
<1> QED BY <1>3, <1>4 DEF Kept

(* The frame on top is replaced.                                           *)
LEMMA ReplacedTop ==
  ASSUME calls \in Stacks, calls # <<>>, NEW top \in Frames, top.fn = Top.fn, top.path = Top.path
  PROVE  Under \o <<top>> \in Stacks
<1> DEFINE none == <<>>
<1>1. none \in Seq(Frames) /\ DOMAIN none = {}
  OBVIOUS
<1>2. Under \o <<top>> \o none \in Stacks
  <2> HIDE DEF none
  <2> QED BY <1>1, Pushed
<1>3. Under \in Seq(Frames)
  BY TopOfStack DEF Stacks
<1>4. Under \o <<top>> \in Seq(Frames)
  BY <1>3
<1>5. (Under \o <<top>>) \o none = Under \o <<top>>
  <2> DEFINE s == Under \o <<top>>
  <2> HIDE DEF s
  <2>1. s \in Seq(Frames) => s \o <<>> = s
    OBVIOUS
  <2> QED BY <1>4, <2>1 DEF s
<1> QED BY <1>2, <1>5

(* A node that is passed over (document.cpp:15-17).                        *)
LEMMA SkipKeeps ==
  ASSUME calls \in Stacks, calls # <<>>, ~AtEnd, out \in Sound, SkipNode
  PROVE  Kept
<1> DEFINE at == Top.at + 1
           top == [Top EXCEPT !.at = at]
<1>1. Top \in Frames /\ at \in 1..(Len(Top.list) + 1) /\ Top.first \in BOOLEAN
  BY TopFields DEF AtEnd, Frames, NodeFrames, ItemFrames
<1>2. top = [Top EXCEPT !.at = at, !.first = Top.first]
  BY <1>1 DEF Frames, NodeFrames, ItemFrames
<1>3. calls' = Under \o <<top>> /\ out' = out
  BY DEF SkipNode
<1> HIDE DEF at, top
<1>4. top \in Frames /\ top.fn = Top.fn /\ top.path = Top.path
  BY <1>1, <1>2, MovedFrame
<1> QED BY <1>3, <1>4, ReplacedTop DEF Kept

(* A comma if needed, a key and a colon (document.cpp:19-27).              *)
LEMMA WriteKeyKeeps ==
  ASSUME NEW b \in Sound, calls \in Stacks, calls # <<>>, NEW key \in Strings
  PROVE  WriteKey(b, key).buf \in Sound /\ WriteKey(b, key).ok \in BOOLEAN
<1> DEFINE w1 == WriteAll(b, Comma)
           w2 == IF w1.ok THEN WriteEscaped(w1.buf, key) ELSE w1
           w3 == IF w2.ok THEN Write(w2.buf, <<":">>) ELSE w2
<1>1. w1.buf \in Sound /\ w1.ok \in BOOLEAN
  BY TopFields, WriteAllKeeps
<1>2. <<":">> \in Strings
  BY OwnSymbols, SymbolIsText
<1>3. WriteKey(b, key) = w3
  BY DEF WriteKey, Then
<1> HIDE DEF w1
<1>4. w2.buf \in Sound /\ w2.ok \in BOOLEAN
  BY <1>1, WriteEscapedKeeps
<1> HIDE DEF w2
<1>5. w3.buf \in Sound /\ w3.ok \in BOOLEAN
  BY <1>2, <1>4, WriteKeeps
<1> QED BY <1>3, <1>5

-----------------------------------------------------------------------------
(* The steps of the writer. *)

(* The return to the frames under.                                         *)
LEMMA GiveUpKeeps ==
  ASSUME NEW b \in Sound, NEW rest \in Stacks, GiveUp(b, rest)
  PROVE  Kept
BY DEF GiveUp, Kept

(* The stack without its top.                                              *)
LEMMA Popped ==
  ASSUME calls \in Stacks, calls # <<>>
  PROVE  Under \in Stacks
BY TopOfStack

(* What runs is the frame on top.                                          *)
LEMMA RunningIsTop ==
  ASSUME NEW fn, Running(fn)
  PROVE  calls # <<>> /\ Top.fn = fn
BY DEF Running, Top

(* A value begins at the frame on top. *)
LEMMA ValueContinues ==
  ASSUME calls \in Stacks, calls # <<>>, ~AtEnd, NEW b \in Sound, NEW value \in Values,
         NEW marked, Continue(WriteJsonValue(b, value, Here), marked)
  PROVE  Kept
<1> DEFINE begun == WriteJsonValue(b, value, Here)
<1>1. Begins(begun)
  BY TopFields, ValueBegins
<1>2. Continue(begun, marked)
  OBVIOUS
<1> HIDE DEF begun
<1> QED BY <1>1, <1>2, ContinueKeeps DEF Begins

(* One node of a document all of whose paths are one name long             *)
(* (document.cpp:65-75).                                                   *)
LEMMA FastNodeKeeps ==
  ASSUME calls \in Stacks, out \in Sound, FastNode
  PROVE  Kept
<1>1. calls # <<>> /\ Top.fn = "nodes" /\ ~AtEnd
  BY RunningIsTop DEF FastNode
<1>2. Item.path[1] \in Strings /\ Item.value \in Values
  BY <1>1, TopFields
<1> DEFINE head == WriteKey(out, Item.path[1])
<1>3. head.buf \in Sound
  BY <1>1, <1>2, WriteKeyKeeps
<1>4. CASE SkipNode
  BY <1>1, <1>4, SkipKeeps
<1>5. CASE Continue(WriteJsonValue(head.buf, Item.value, Here), {Here})
  <2> HIDE DEF head
  <2> QED BY <1>1, <1>2, <1>3, <1>5, ValueContinues
<1>6. CASE GiveUp(head.buf, Under)
  <2> HIDE DEF head
  <2> QED BY <1>1, <1>3, <1>6, Popped, GiveUpKeeps
<1> QED BY <1>4, <1>5, <1>6 DEF FastNode

(* The end of such a document (document.cpp:76-77).                        *)
LEMMA FastEndKeeps ==
  ASSUME calls \in Stacks, out \in Sound, FastEnd
  PROVE  Kept
<1> DEFINE w == Write(out, <<"}">>)
<1>1. calls # <<>> /\ GiveUp(w.buf, Under)
  BY RunningIsTop DEF FastEnd
<1>2. w.buf \in Sound
  BY OwnSymbols, SymbolIsText, WriteKeeps
<1> HIDE DEF w
<1> QED BY <1>1, <1>2, Popped, GiveUpKeeps

(* A node of an inner level goes on behind the path of that level. *)
LEMMA LevelGoesOn ==
  ASSUME calls \in Stacks, calls # <<>>, Top.fn = "level", ~AtEnd, ~PassedOver(Item)
  PROVE  /\ Depth \in Nat /\ Len(Item.path) \in Nat /\ Depth + 1 <= Len(Item.path)
         /\ Item.path[Depth + 1] \in Strings
<1>1. /\ Top \in Frames /\ Item \in Range(Top.list)
      /\ Item.path \in Seq(Strings) /\ Len(Item.path) >= 1 /\ Len(Item.path) \in Nat
  BY TopFields
<1>2. Depth \in Nat /\ LevelOK(Top)
  BY <1>1, FrameFields DEF Depth
<1>3. Depth > 0 => IsPrefix(Top.path, Item.path)
  BY DEF PassedOver
<1>4. Depth > 0 => Depth < Len(Item.path)
  BY <1>1, <1>2, <1>3 DEF LevelOK, Depth
<1>5. Depth + 1 <= Len(Item.path)
  BY <1>1, <1>2, <1>4
<1> QED BY <1>1, <1>2, <1>5

(* The level the code recurses into meets no node whose path ends at it,   *)
(* because no path of a document is a prefix of another.                   *)
LEMMA InnerLevel ==
  ASSUME calls \in Stacks, calls # <<>>, Top.fn = "level", ~AtEnd, ~PassedOver(Item),
         Len(Item.path) # Depth + 1
  PROVE  Frame("level", Top.list, SubSeq(Item.path, 1, Depth + 1), Top.address) \in Frames
<1> DEFINE n == Depth + 1
           path == SubSeq(Item.path, 1, n)
<1>1. /\ Top \in Frames /\ Item \in Range(Top.list) /\ Item.path \in Seq(Strings)
  BY TopFields
<1>2. /\ Top.list \in Seq(Nodes) /\ Top.address \in Seq(Nat) /\ Apart(Range(Top.list))
  BY <1>1, FrameFields DEF LevelOK
<1>3. n \in Nat /\ n < Len(Item.path) /\ Len(Item.path) \in Nat
  BY LevelGoesOn
<1> HIDE DEF n
<1>4. path \in Seq(Strings) /\ Len(path) = n
  BY <1>1, <1>3, PrefixIs
<1>5. ASSUME NEW m \in Range(Top.list), IsPrefix(path, m.path) PROVE Len(path) < Len(m.path)
  <2>1. m.path \in Seq(Strings) /\ Len(m.path) \in Nat
    <3>1. m \in Nodes
      BY <1>2 DEF Range
    <3> QED BY <3>1 DEF Nodes
  <2>2. Len(path) <= Len(m.path) /\ SubSeq(path, 1, Len(path)) = SubSeq(m.path, 1, Len(path))
    BY <1>5 DEF IsPrefix
  <2>3. SUFFICES ASSUME Len(m.path) = n PROVE FALSE
    BY <1>4, <2>1, <2>2
  <2>4. SubSeq(m.path, 1, n) = SubSeq(Item.path, 1, n)
    <3>1. SubSeq(path, 1, n) = path
      BY <1>1, <1>3
    <3> QED BY <1>4, <2>2, <3>1
  <2>5. IsPrefix(m.path, Item.path)
    BY <1>3, <2>1, <2>3, <2>4 DEF IsPrefix
  <2>6. Len(Item.path) = Len(m.path)
    BY <1>1, <1>2, <2>5 DEF Apart
  <2> QED BY <1>3, <2>3, <2>6
<1> HIDE DEF path
<1>6. Frame("level", Top.list, path, Top.address) \in Frames
  BY <1>2, <1>4, <1>5, NewNodeFrame
<1> QED BY <1>6 DEF path, n

(* One node of a level (document.cpp:14-43): passed over, written, or the  *)
(* first of a level of its own.                                            *)
LEMMA LevelNodeKeeps ==
  ASSUME calls \in Stacks, out \in Sound, LevelNode
  PROVE  Kept
<1>1. calls # <<>> /\ Top.fn = "level" /\ ~AtEnd
  BY RunningIsTop DEF LevelNode
<1>2. CASE PassedOver(Item)
  <2>1. SkipNode
    BY <1>2 DEF LevelNode
  <2> QED BY <1>1, <2>1, SkipKeeps
<1>3. CASE ~PassedOver(Item)
  <2> DEFINE leaf == Len(Item.path) = Depth + 1
             inner == Frame("level", Top.list, SubSeq(Item.path, 1, Depth + 1), Top.address)
             key == WriteKey(out, Item.path[Depth + 1])
             head == IF leaf THEN key
                     ELSE IF key.ok THEN Write(key.buf, <<"{">>) ELSE key
  <2>1. Item.path[Depth + 1] \in Strings /\ Item.value \in Values
    BY <1>1, <1>3, LevelGoesOn, TopFields
  <2>2. key.buf \in Sound /\ <<"{">> \in Strings
    BY <1>1, <2>1, WriteKeyKeeps, OwnSymbols, SymbolIsText
  <2>3. head.buf \in Sound
    <3> HIDE DEF key, leaf
    <3> QED BY <2>2, WriteKeeps
  <2>4. \/ Continue(WriteJsonValue(head.buf, Item.value, Here), {Here})
        \/ ~leaf /\ Continue(Begun(head.buf, <<inner>>, {}), {})
        \/ GiveUp(head.buf, Unwound)
    BY <1>3 DEF LevelNode, Then
  <2> HIDE DEF head
  <2>5. CASE Continue(WriteJsonValue(head.buf, Item.value, Here), {Here})
    BY <1>1, <2>1, <2>3, <2>5, ValueContinues
  <2>6. CASE ~leaf /\ Continue(Begun(head.buf, <<inner>>, {}), {})
    <3> DEFINE begun == Begun(head.buf, <<inner>>, {})
    <3>1. inner \in Frames
      BY <1>1, <1>3, <2>6, InnerLevel
    <3> HIDE DEF inner
    <3>2. begun.buf \in Sound /\ begun.frames \in Seq(Frames)
      BY <2>3, <3>1 DEF Begun
    <3>3. Continue(begun, {})
      BY <2>6
    <3> HIDE DEF begun
    <3> QED BY <1>1, <3>2, <3>3, ContinueKeeps
  <2>7. CASE GiveUp(head.buf, Unwound)
    BY <1>1, <2>3, <2>7, Returned, GiveUpKeeps
  <2> QED BY <2>4, <2>5, <2>6, <2>7
<1> QED BY <1>2, <1>3

(* The end of a level (document.cpp:38-45), with or without a failure.     *)
LEMMA LevelEndKeeps ==
  ASSUME calls \in Stacks, out \in Sound, LevelEnd
  PROVE  Kept
<1> DEFINE close == Write(out, <<"}">>)
           rest == IF close.ok THEN Under ELSE Unwound
<1>1. calls # <<>> /\ Top.fn = "level" /\ GiveUp(close.buf, rest)
  BY RunningIsTop DEF LevelEnd
<1>2. close.buf \in Sound
  BY OwnSymbols, SymbolIsText, WriteKeeps
<1>3. rest \in Stacks
  BY <1>1, Popped, Returned
<1> HIDE DEF close, rest
<1> QED BY <1>1, <1>2, <1>3, GiveUpKeeps

(* One element of an array (document.hpp:57-65).                           *)
LEMMA ArrayItemKeeps ==
  ASSUME calls \in Stacks, out \in Sound, ArrayItem
  PROVE  Kept
<1> DEFINE b == WriteAll(out, Comma).buf
<1>1. calls # <<>> /\ Top.fn = "array" /\ ~AtEnd
  BY RunningIsTop DEF ArrayItem
<1>2. b \in Sound /\ Item \in Values
  BY <1>1, TopFields, WriteAllKeeps
<1>3. Continue(WriteJsonValue(b, Item, Here), {})
  BY DEF ArrayItem
<1> HIDE DEF b
<1> QED BY <1>1, <1>2, <1>3, ValueContinues

(* One element of a stream (array_emitter.hpp:17-24).                      *)
LEMMA StreamItemKeeps ==
  ASSUME calls \in Stacks, out \in Sound, StreamItem
  PROVE  Kept
<1> DEFINE comma == IF Bad(out) THEN Failed(out) ELSE WriteAll(out, Comma)
           at == Len(Top.list) + 1
           top == [Top EXCEPT !.at = at]
           left == Under \o <<top>>
<1>1. calls # <<>> /\ Top.fn = "stream" /\ ~AtEnd
  BY RunningIsTop DEF StreamItem
<1>2. comma.buf \in Sound /\ Item \in Values
  BY <1>1, TopFields, WriteAllKeeps DEF Failed
<1>3. \/ Continue(WriteJsonValue(comma.buf, Item, Here), {})
      \/ GiveUp(comma.buf, left)
  BY DEF StreamItem
<1> HIDE DEF comma
<1>4. left \in Stacks
  <2>1. Top \in Frames /\ at \in 1..(Len(Top.list) + 1) /\ Top.first \in BOOLEAN
    BY <1>1, TopFields DEF Frames, NodeFrames, ItemFrames
  <2>2. top = [Top EXCEPT !.at = at, !.first = Top.first]
    BY <2>1 DEF Frames, NodeFrames, ItemFrames
  <2> HIDE DEF at, top
  <2>3. top \in Frames /\ top.fn = Top.fn /\ top.path = Top.path
    BY <2>1, <2>2, MovedFrame
  <2> QED BY <1>1, <2>3, ReplacedTop
<1> HIDE DEF left
<1> QED BY <1>1, <1>2, <1>3, <1>4, ValueContinues, GiveUpKeeps

(* The end of an array or a stream (document.hpp:83-90).                   *)
LEMMA ArrayEndKeeps ==
  ASSUME calls \in Stacks, out \in Sound, ArrayEnd
  PROVE  Kept
<1> DEFINE w == Write(out, <<"]">>)
<1>1. calls # <<>> /\ GiveUp(w.buf, Under)
  BY RunningIsTop DEF ArrayEnd
<1>2. w.buf \in Sound
  BY OwnSymbols, SymbolIsText, WriteKeeps
<1> HIDE DEF w
<1> QED BY <1>1, <1>2, Popped, GiveUpKeeps

(* Every step of the writer keeps the buffer sound and the stack whole.    *)
LEMMA WriterKeeps ==
  ASSUME calls \in Stacks, out \in Sound, WriterStep
  PROVE  Kept /\ builder' = builder
<1>1. Kept
  BY FastNodeKeeps, FastEndKeeps, LevelNodeKeeps, LevelEndKeeps, ArrayItemKeeps,
     StreamItemKeeps, ArrayEndKeeps DEF WriterStep
<1>2. builder' = builder
  BY DEF WriterStep, FastNode, FastEnd, LevelNode, LevelEnd, ArrayItem, StreamItem, ArrayEnd
<1> QED BY <1>1, <1>2

-----------------------------------------------------------------------------
(* The job. *)

(* The parts of a job.                                                     *)
LEMMA JobFields ==
  ASSUME job \in Jobs
  PROVE  /\ job.docs \in Seq(Seq(Nodes)) /\ Len(job.docs) \in Nat
         /\ Apart(AllNodes(job)) /\ job.room \in Nat /\ job.emits \in 0..2
         /\ job.text \in Strings /\ job.nodes \in Seq(BindNodes) /\ job.sub \in Seq(BindNodes)
         /\ job.sub # <<>> => job.nodes # <<>>
         /\ Fresh(job.buffer)
<1>1. job.docs \in Seq(Seq(Nodes))
  BY JobsAssumption
<1>2. Apart(AllNodes(job))
  BY JobsAssumption DEF AllNodes
<1>3. /\ job.room \in Nat /\ job.emits \in 0..2 /\ Fresh(job.buffer)
      /\ job.text \in Strings /\ job.nodes \in Seq(BindNodes) /\ job.sub \in Seq(BindNodes)
      /\ job.sub # <<>> => job.nodes # <<>>
  BY JobsAssumption
<1> QED BY <1>1, <1>2, <1>3

(* The buffer a job begins with is sound.                                  *)
LEMMA BufferIsSound ==
  ASSUME job \in Jobs
  PROVE  job.buffer \in Sound
<1> DEFINE b == job.buffer
<1>1. /\ b = [text |-> <<>>, size |-> b.size, expand |-> b.expand, bad |-> FALSE,
              pretty |-> b.pretty]
      /\ b.size \in Nat /\ b.expand \in Nat /\ b.pretty.indent \in Nat
      /\ b.pretty \in {NoDecorator, Decorator(b.pretty.indent)}
  BY JobFields DEF Fresh
<1> HIDE DEF b
<1>2. b.pretty \in Decorators /\ b.pretty.depth = 0
  <2>1. NoDecorator \in Decorators /\ NoDecorator.depth = 0
    BY DEF NoDecorator, Decorators
  <2>2. ASSUME NEW indent \in Nat
        PROVE  Decorator(indent) \in Decorators /\ Decorator(indent).depth = 0
    BY <2>1 DEF Decorator, NoDecorator, Decorators
  <2> QED BY <1>1, <2>1, <2>2
<1>3. b.text = <<>> /\ Len(<<>>) = 0 /\ <<>> \in Strings /\ b.bad = FALSE
  BY <1>1 DEF Strings
<1>4. b \in Buffers
  BY <1>1, <1>2, <1>3 DEF Buffers
<1> QED BY <1>1, <1>2, <1>3, <1>4 DEF Sound, b

(* Builder::add (builder.hpp:26-31) never fills more than its storage.     *)
LEMMA NodesAdded ==
  ASSUME job \in Jobs, BuilderOK, NEW k \in DOMAIN job.docs, Add(job.room, job.docs[k])
  PROVE  /\ builder' \in Seq(Nodes) /\ Range(builder') \subseteq AllNodes(job)
         /\ Len(builder') <= job.room
<1> DEFINE nodes == job.docs[k]
           n == IF Len(nodes) < job.room - Len(builder) THEN Len(nodes)
                ELSE job.room - Len(builder)
           part == SubSeq(nodes, 1, n)
<1>1. /\ nodes \in Seq(Nodes) /\ builder \in Seq(Nodes) /\ job.room \in Nat
      /\ Len(builder) \in Nat /\ Len(builder) <= job.room /\ Len(nodes) \in Nat
      /\ Range(nodes) \subseteq AllNodes(job) /\ Range(builder) \subseteq AllNodes(job)
  BY JobFields DEF BuilderOK, AllNodes
<1> HIDE DEF nodes
<1>2. n \in Nat /\ n <= Len(nodes) /\ n <= job.room - Len(builder)
  BY <1>1
<1> HIDE DEF n
<1>3. part \in Seq(Nodes) /\ Len(part) = n /\ \A i \in 1..n : part[i] = nodes[i]
  BY <1>1, <1>2, PrefixIs
<1>4. builder' = builder \o part
  BY DEF Add, n, nodes
<1>5. \A i \in DOMAIN part : part[i] \in AllNodes(job)
  BY <1>1, <1>2, <1>3 DEF Range
<1> HIDE DEF part
<1>6. /\ builder' \in Seq(Nodes) /\ Len(builder') = Len(builder) + Len(part)
      /\ \A i \in 1..Len(builder) : builder'[i] = builder[i]
      /\ \A i \in 1..Len(part) : builder'[Len(builder) + i] = part[i]
  <2>1. /\ builder \o part \in Seq(Nodes) /\ Len(builder \o part) = Len(builder) + Len(part)
        /\ \A i \in 1..Len(builder) : (builder \o part)[i] = builder[i]
        /\ \A i \in 1..Len(part) : (builder \o part)[Len(builder) + i] = part[i]
    <3>1. builder \in Seq(Nodes) /\ part \in Seq(Nodes)
      BY <1>1, <1>3
    <3> QED BY <3>1, JoinedIs
  <2> QED BY <1>4, <2>1
<1>7. ASSUME NEW i \in DOMAIN builder' PROVE builder'[i] \in AllNodes(job)
  <2>1. i \in 1..Len(builder) \/ i - Len(builder) \in 1..Len(part)
    BY <1>1, <1>2, <1>3, <1>6
  <2>2. CASE i \in 1..Len(builder)
    BY <1>1, <1>6, <2>2 DEF Range
  <2>3. CASE i - Len(builder) \in 1..Len(part)
    <3>1. i = Len(builder) + (i - Len(builder))
      BY <1>1, <1>6
    <3>2. builder'[i] = part[i - Len(builder)]
      BY <1>6, <2>3, <3>1
    <3> QED BY <1>3, <1>5, <2>3, <3>2
  <2> QED BY <2>1, <2>2, <2>3
<1>8. Range(builder') \subseteq AllNodes(job)
  BY <1>7 DEF Range
<1> QED BY <1>1, <1>2, <1>3, <1>6, <1>8

(* The beginning of an emission (builder.hpp:33-46).                       *)
LEMMA EmissionBegins ==
  ASSUME job \in Jobs, BuilderOK, NEW b \in Sound, StartEmit(b)
  PROVE  Kept /\ builder' = builder
<1> DEFINE root == <<>>
           begun == EmitJsonNodes(b, builder, root)
<1>1. builder \in Seq(Nodes) /\ root \in Seq(Nat) /\ Apart(Range(builder))
  BY JobFields DEF BuilderOK, Apart
<1>2. out' = begun.buf /\ calls' = begun.frames /\ builder' = builder
  BY DEF StartEmit
<1> HIDE DEF root
<1>3. Begins(begun)
  BY <1>1, NodesBegin
<1> HIDE DEF begun
<1>4. Rooted(begun.frames)
  <2> SUFFICES ASSUME NEW k \in DOMAIN begun.frames, begun.frames[k].fn = "level"
               PROVE  \E j \in 1..k : Root(begun.frames[j])
    BY DEF Rooted
  <2>1. Root(begun.frames[k]) /\ k \in 1..k
    BY <1>3 DEF Begins
  <2> QED BY <2>1
<1> QED BY <1>2, <1>3, <1>4 DEF Begins, Kept, Stacks

-----------------------------------------------------------------------------
(* The inductive invariant holds throughout. *)

(* The first states satisfy the invariant.                                 *)
LEMMA InitInv == Init => IInv
<1> SUFFICES ASSUME Init PROVE IInv
  OBVIOUS
<1> USE DEF Init
<1>1. job \in Jobs
  OBVIOUS
<1> DEFINE none == <<>>
<1>2. none \in Seq(Nodes) /\ none \in Seq(Frames) /\ none \in Seq(BindNodes) /\ none \in Strings
      /\ none \in Seq(Strings) /\ DOMAIN none = {} /\ Len(none) = 0
  BY DEF Strings
<1>3. StageInv
  <2>1. Len(job.docs) \in Nat
    BY <1>1, JobFields
  <2> QED BY <1>1, <2>1 DEF StageInv, Stages
<1>4. WriterInv
  <2>1. BuilderOK
    <3>1. Range(builder) = {}
      BY <1>2 DEF Range
    <3> QED BY <1>1, <1>2, <3>1, JobFields DEF BuilderOK
  <2>2. out \in Sound
    BY <1>1, BufferIsSound
  <2>3. calls \in Stacks
    BY <1>2 DEF Stacks, Rooted
  <2> QED BY <2>1, <2>2, <2>3 DEF WriterInv
<1>5. ParserInv
  <2>1. StackSize(none) \in Nat /\ StackSize(none) >= 1
    <3> HIDE DEF none
    <3> QED BY <1>2, StackSizeIsPositive
  <2> DEFINE stack == [k \in 1..StackSize(none) |-> none]
  <2>2. stack \in Seq(Strings) /\ Len(stack) = StackSize(none)
    BY <1>2, <2>1
  <2>3. scan = [json |-> none, i |-> 1, depth |-> 0, key |-> none, stack |-> stack,
                nodes |-> none, root |-> none]
    BY DEF Scan
  <2>4. bound = none
    OBVIOUS
  <2> HIDE DEF none, stack, Init
  <2>5. ScanOK
    <3>1. scan \in Scans
      BY <1>2, <2>2, <2>3 DEF Scans
    <3>2. scan.i = 1 /\ scan.depth = 0 /\ scan.json = none /\ scan.nodes = none /\ scan.stack = stack
      BY <2>3
    <3> QED BY <1>2, <2>2, <3>1, <3>2 DEF ScanOK
  <2>6. NamesOK
    BY <2>3 DEF NamesOK
  <2>7. BoundOK
    BY <1>2, <2>3, <2>4 DEF BoundOK
  <2> QED BY <2>5, <2>6, <2>7 DEF ParserInv
<1> QED BY <1>3, <1>4, <1>5 DEF IInv

(* What leaves the writer's state, or the parser's, alone. *)
LEMMA WriterUnchanged ==
  ASSUME WriterInv, UNCHANGED writerVars, job' = job
  PROVE  WriterInv'
BY DEF WriterInv, writerVars, BuilderOK, Sound, Stacks, Rooted, Frames, Root, LevelOK

(* A step that keeps buffer, stack and builder keeps the writer's part.    *)
LEMMA WriterMoved ==
  ASSUME WriterInv, Kept, UNCHANGED builder, job' = job
  PROVE  WriterInv'
<1>1. BuilderOK'
  BY DEF WriterInv, BuilderOK
<1>2. Sound' = Sound
  BY DEF Sound
<1>3. Stacks' = Stacks
  BY DEF Stacks, Rooted, Frames, Root, LevelOK
<1> QED BY <1>1, <1>2, <1>3 DEF WriterInv, Kept

(* Likewise for the parser's.                                              *)
LEMMA ParserUnchanged ==
  ASSUME ParserInv, UNCHANGED parserVars
  PROVE  ParserInv'
BY DEF ParserInv, parserVars, ScanOK, NamesOK, BoundOK

(* There is a state for every binding.                                     *)
LEMMA BoundLength ==
  ASSUME ParserInv
  PROVE  /\ scan.nodes \in Seq(BindNodes) /\ Len(bound) = Len(scan.nodes)
         /\ Len(bound) \in Nat /\ DOMAIN bound = 1..Len(bound)
<1>1. scan.nodes \in Seq(BindNodes) /\ DOMAIN bound = DOMAIN scan.nodes
  BY DEF ParserInv, ScanOK, Scans, BoundOK
<1>2. Len(scan.nodes) \in Nat /\ DOMAIN bound = 1..Len(scan.nodes)
  BY <1>1
<1>3. Len(bound) = Len(scan.nodes)
  BY <1>2
<1> QED BY <1>1, <1>2, <1>3

(* A document is added (builder.hpp:26-31).                                *)
LEMMA AddDocumentInv ==
  ASSUME IInv, AddDocument
  PROVE  IInv'
<1>1. job \in Jobs /\ step \in Nat /\ BuilderOK /\ out \in Sound /\ calls \in Stacks
  BY DEF IInv, StageInv, WriterInv
<1>2. step + 1 \in DOMAIN job.docs /\ Len(job.docs) \in Nat
  BY <1>1, JobFields DEF AddDocument
<1>3. /\ builder' \in Seq(Nodes) /\ Range(builder') \subseteq AllNodes(job)
      /\ Len(builder') <= job.room
  <2> DEFINE k == step + 1
  <2>1. Add(job.room, job.docs[k])
    BY DEF AddDocument
  <2> HIDE DEF k
  <2>2. k \in DOMAIN job.docs
    BY <1>2 DEF k
  <2> QED BY <1>1, <2>1, <2>2, NodesAdded
<1>4. WriterInv'
  <2>1. job' = job /\ out' = out /\ calls' = calls
    BY DEF AddDocument
  <2>2. BuilderOK'
    BY <1>3, <2>1 DEF BuilderOK
  <2>3. out' \in Sound' /\ calls' \in Stacks'
    BY <1>1, <2>1 DEF Sound, Stacks, Rooted, Frames, Root, LevelOK
  <2> QED BY <2>2, <2>3 DEF WriterInv
<1>5. ParserInv'
  BY ParserUnchanged DEF AddDocument, IInv
<1>6. StageInv'
  BY <1>1, <1>2 DEF StageInv, AddDocument, IInv, Stages, parserVars
<1> QED BY <1>4, <1>5, <1>6 DEF IInv

(* The builder is emitted (builder.hpp:39-46).                             *)
LEMMA EmitInv ==
  ASSUME IInv, Emit
  PROVE  IInv'
<1>1. job \in Jobs /\ BuilderOK /\ out \in Sound
  BY DEF IInv, StageInv, WriterInv
<1>2. Kept /\ builder' = builder
  BY <1>1, EmissionBegins DEF Emit
<1>3. WriterInv'
  BY <1>2, WriterMoved DEF Emit, IInv
<1>4. ParserInv'
  BY ParserUnchanged DEF Emit, IInv
<1>5. StageInv'
  BY DEF StageInv, Emit, IInv, Stages
<1> QED BY <1>3, <1>4, <1>5 DEF IInv

(* A step of the writer.                                                   *)
LEMMA WritingInv ==
  ASSUME IInv, Writing
  PROVE  IInv'
<1>1. calls \in Stacks /\ out \in Sound
  BY DEF IInv, WriterInv
<1>2. Kept /\ builder' = builder
  BY <1>1, WriterKeeps DEF Writing
<1>3. WriterInv'
  BY <1>2, WriterMoved DEF Writing, IInv
<1>4. ParserInv'
  BY ParserUnchanged DEF Writing, IInv
<1>5. StageInv'
  BY DEF StageInv, Writing, IInv, Stages, parserVars
<1> QED BY <1>3, <1>4, <1>5 DEF IInv

(* The document is emitted again, to the emptied buffer.                   *)
LEMMA EmitAgainInv ==
  ASSUME IInv, EmitAgain
  PROVE  IInv'
<1>1. job \in Jobs /\ BuilderOK /\ out \in Sound
  BY DEF IInv, StageInv, WriterInv
<1>2. Kept /\ builder' = builder
  <2> DEFINE b == Reset(out)
  <2>1. b \in Sound /\ StartEmit(b)
    BY <1>1, ResetKeeps DEF EmitAgain
  <2> HIDE DEF b
  <2> QED BY <1>1, <2>1, EmissionBegins
<1>3. WriterInv'
  BY <1>2, WriterMoved DEF EmitAgain, IInv
<1>4. ParserInv'
  BY ParserUnchanged DEF EmitAgain, IInv
<1>5. StageInv'
  <2>1. step \in Nat /\ job.emits \in 0..2 /\ step < job.emits
    BY <1>1, JobFields DEF StageInv, EmitAgain, IInv
  <2> QED BY <2>1 DEF StageInv, EmitAgain, EmissionOver, IInv, Stages, parserVars
<1> QED BY <1>3, <1>4, <1>5 DEF IInv

(* A parse begins, of a text the job has, with its bindings. *)
LEMMA ParseInv ==
  ASSUME IInv, NEW json \in Strings, NEW nodes \in {job.nodes, job.sub},
         NEW root \in Seq(Strings), StartParse(json, nodes, root),
         stage' = "parse", step' = 0, job' = job, UNCHANGED writerVars
  PROVE  IInv'
<1>1. job \in Jobs
  BY DEF IInv, StageInv
<1>2. nodes \in Seq(BindNodes)
  BY <1>1, JobFields
<1>3. ParserInv'
  BY <1>2, ParseStarts
<1>4. WriterInv'
  BY WriterUnchanged DEF IInv
<1>5. scan'.nodes = nodes
  BY DEF StartParse, Scan
<1>6. StageInv'
  BY <1>1, <1>5 DEF StageInv, Stages
<1> QED BY <1>3, <1>4, <1>6 DEF IInv

(* What was written is parsed (parser.hpp:222-235).                        *)
LEMMA ReadBackInv ==
  ASSUME IInv, ReadBack
  PROVE  IInv'
<1>1. out.text \in Strings
  BY SoundFields DEF IInv, WriterInv
<1>2. <<>> \in Seq(Strings)
  OBVIOUS
<1> QED BY <1>1, <1>2, ParseInv DEF ReadBack

(* A given text is parsed.                                                 *)
LEMMA ReadTextInv ==
  ASSUME IInv, ReadText
  PROVE  IInv'
<1>1. job.text \in Strings /\ step = 0
  BY JobFields DEF IInv, StageInv, ReadText
<1>2. <<>> \in Seq(Strings)
  OBVIOUS
<1> QED BY <1>1, <1>2, ParseInv DEF ReadText

(* The block of the first binding is parsed again (parser.hpp:237-243); it *)
(* is there, since there is a first binding.                               *)
LEMMA ParseBlockInv ==
  ASSUME IInv, ParseBlock
  PROVE  IInv'
<1>1. job.sub # <<>> /\ job.nodes # <<>> /\ scan.nodes \in {job.nodes, job.sub}
  BY JobFields DEF IInv, StageInv, ParseBlock, MayParseBlock, ExtractionOver
<1>2. scan.nodes \in Seq(BindNodes) /\ scan.nodes # <<>> /\ DOMAIN bound = DOMAIN scan.nodes
  BY <1>1, BoundLength DEF IInv, ParserInv, BoundOK
<1>3. 1 \in DOMAIN scan.nodes /\ 1 \in DOMAIN bound
  BY <1>2
<1>4. scan.nodes[1].path \in Seq(Strings)
  <2>1. scan.nodes[1] \in BindNodes
    BY <1>2, <1>3
  <2> QED BY <2>1 DEF BindNodes
<1>5. bound[1].raw \in Strings
  BY <1>3 DEF IInv, ParserInv, BoundOK
<1> QED BY <1>4, <1>5, ParseInv DEF ParseBlock

(* No turn of the loop changes the bindings.                               *)
LEMMA TurnKeepsNodes ==
  ASSUME ParserInv, ParserStep
  PROVE  scan'.nodes = scan.nodes
<1>1. scan \in Scans
  BY DEF ParserInv, ScanOK
<1>2. CASE Blank
  BY <1>1, <1>2 DEF Blank, Scans
<1>3. CASE OpenObject
  BY <1>1, <1>3 DEF OpenObject, Scans
<1>4. CASE OpenArray
  BY <1>1, <1>4 DEF OpenArray, Scans
<1>5. CASE CloseObject
  BY <1>1, <1>5 DEF CloseObject, Scans
<1>6. CASE Punctuation
  BY <1>1, <1>6 DEF Punctuation, Scans
<1>7. CASE StringToken
  BY <1>1, <1>7 DEF StringToken, Scans
<1>8. CASE Primitive
  BY <1>1, <1>8 DEF Primitive, Scans
<1> QED BY <1>2, <1>3, <1>4, <1>5, <1>6, <1>7, <1>8 DEF ParserStep

(* A turn of the scanning loop (parser.cpp:375-475) keeps the invariant    *)
(* and moves on.                                                           *)
LEMMA ParsingInv ==
  ASSUME IInv, Parsing
  PROVE  IInv' /\ Advances
<1>1. ParserInv' /\ Advances
  BY TurnKeeps DEF IInv, Parsing
<1>2. WriterInv'
  BY WriterUnchanged DEF IInv, Parsing
<1>3. scan'.nodes = scan.nodes
  BY TurnKeepsNodes DEF IInv, Parsing
<1>4. StageInv'
  BY <1>3 DEF StageInv, IInv, Parsing, Stages
<1> QED BY <1>1, <1>2, <1>4 DEF IInv

(* An element is read from a dynamic node (parser.hpp:245-268).            *)
LEMMA ReadElementInv ==
  ASSUME IInv, ReadElement
  PROVE  IInv'
<1>1. ParserInv' /\ scan' = scan
  BY ExtractKeeps DEF IInv, ReadElement, Extract
<1>2. Len(bound') = Len(bound)
  BY <1>1, BoundLength DEF IInv, ParserInv, BoundOK, ReadElement, Extract
<1>3. WriterInv'
  BY WriterUnchanged DEF IInv, ReadElement
<1>4. StageInv'
  BY <1>1, <1>2 DEF StageInv, IInv, ReadElement, Stages
<1> QED BY <1>1, <1>3, <1>4 DEF IInv

(* The steps that only move on to the next stage. *)
LEMMA TurnOverInv ==
  ASSUME IInv, DropIncomplete \/ ParseReturns \/ ReadNext \/ Finish
  PROVE  IInv'
<1>1. job' = job /\ UNCHANGED writerVars /\ UNCHANGED parserVars
  BY DEF DropIncomplete, ParseReturns, ReadNext, Finish
<1>2. WriterInv' /\ ParserInv'
  BY <1>1, WriterUnchanged, ParserUnchanged DEF IInv
<1>3. Len(bound) \in Nat /\ DOMAIN bound = 1..Len(bound) /\ step \in Nat
  BY BoundLength DEF IInv, StageInv
<1>4. bound' = bound /\ scan' = scan
  BY <1>1 DEF parserVars
<1>6. CASE ParseReturns
  <2>1. StageInv'
    BY <1>1, <1>3, <1>4, <1>6 DEF IInv, StageInv, Stages, ParseReturns
  <2> QED BY <1>2, <2>1 DEF IInv
<1>7. CASE ReadNext
  <2>1. StageInv'
    BY <1>1, <1>3, <1>4, <1>7 DEF IInv, StageInv, Stages, ReadNext
  <2> QED BY <1>2, <2>1 DEF IInv
<1>8. CASE Finish
  <2>1. StageInv'
    BY <1>1, <1>3, <1>4, <1>8 DEF IInv, StageInv, Stages, Finish, ExtractionOver
  <2> QED BY <1>2, <2>1 DEF IInv
<1>9. CASE DropIncomplete
  <2>1. StageInv'
    BY <1>1, <1>3, <1>4, <1>9 DEF IInv, StageInv, Stages, DropIncomplete, EmissionOver
  <2> QED BY <1>2, <2>1 DEF IInv
<1> QED BY <1>6, <1>7, <1>8, <1>9

(* Every step keeps the invariant, and every turn of the loop moves on.    *)
LEMMA NextInv == IInv /\ [Next]_vars => IInv' /\ (Parsing => Advances)
<1> SUFFICES ASSUME IInv, [Next]_vars PROVE IInv' /\ (Parsing => Advances)
  OBVIOUS
<1>1. Parsing => Advances
  BY ParsingInv
<1>2. CASE Next
  BY <1>2, AddDocumentInv, EmitInv, WritingInv, EmitAgainInv, ReadBackInv, ReadTextInv,
     ParsingInv, ReadElementInv, ParseBlockInv, TurnOverInv DEF Next
<1>3. CASE UNCHANGED vars
  <2>1. job' = job /\ stage' = stage /\ step' = step /\ UNCHANGED writerVars /\ UNCHANGED parserVars
    BY <1>3 DEF vars, writerVars, parserVars
  <2>2. WriterInv' /\ ParserInv'
    BY <2>1, WriterUnchanged, ParserUnchanged DEF IInv
  <2>3. StageInv'
    <3>1. bound' = bound /\ scan' = scan
      BY <2>1 DEF parserVars
    <3>2. StageInv
      BY DEF IInv
    <3> QED BY <2>1, <3>1, <3>2 DEF StageInv
  <2> QED BY <1>1, <2>2, <2>3 DEF IInv
<1> QED BY <1>1, <1>2, <1>3

(* The invariant implies the bounds of TypeOK.                             *)
LEMMA InvTypes == IInv => TypeOK
<1> SUFFICES ASSUME IInv PROVE TypeOK
  OBVIOUS
<1>1. stage \in Stages /\ job \in Jobs
  BY DEF IInv, StageInv
<1>2. step \in 0..(Len(job.docs) + Len(bound) + 2)
  BY <1>1, JobFields, BoundLength DEF IInv, StageInv, Stages
<1>3. Len(out.text) <= out.size /\ (~Incomplete => out.pretty.depth \in 0..Len(out.text))
  BY SoundFields DEF IInv, WriterInv, Sound, Incomplete
<1>4. \A k \in DOMAIN calls : calls[k].at \in 1..(Len(calls[k].list) + 1)
  <2>1. \A k \in DOMAIN calls : calls[k] \in Frames
    BY DEF IInv, WriterInv, Stacks
  <2> QED BY <2>1 DEF Frames
<1>5. scan.i \in 1..(Len(scan.json) + 3) /\ scan.depth \in 0..Len(scan.json)
      /\ Len(scan.stack) = StackSize(scan.nodes)
  BY DEF IInv, ParserInv, ScanOK, Scans, Strings
<1>6. Len(bound) = Len(scan.nodes)
  BY BoundLength DEF IInv
<1> QED BY <1>1, <1>2, <1>3, <1>4, <1>5, <1>6 DEF TypeOK, Stages

-----------------------------------------------------------------------------

(* The inductive invariant holds throughout: every write into a buffer,    *)
(* every frame of an emission and every turn of the scanning loop keeps    *)
(* it.                                                                     *)
THEOREM Invariance == Spec => []IInv
<1>1. Init => IInv
  BY InitInv
<1>2. IInv /\ [Next]_vars => IInv'
  BY NextInv
<1> QED BY <1>1, <1>2, PTL DEF Spec

(* The positions the code indexes with, and the sizes it trusts: the       *)
(* scanner never stands more than three places behind the text, the depth  *)
(* is never negative nor larger than the text, path_stack keeps its size,  *)
(* no buffer holds more than its storage, and a frame never leaves its     *)
(* list (document.cpp:10-88, buffer.hpp:50-70, parser.cpp:286-475).        *)
THEOREM TypeCorrect == Spec => []TypeOK
<1>1. IInv => TypeOK
  BY InvTypes
<1> QED BY <1>1, Invariance, PTL

(* No turn of the scanning loop stands still, for any text, whole or cut   *)
(* off (parser.cpp:375-475). A turn is taken only at a position of the     *)
(* text, so a parse of n symbols takes at most n turns.                    *)
THEOREM TurnsAdvance == Spec => [][Parsing => scan.i < scan'.i]_vars
<1>1. IInv /\ [Next]_vars => [Parsing => scan.i < scan'.i]_vars
  BY NextInv DEF Advances
<1> QED BY <1>1, Invariance, PTL DEF Spec

(* A StackBuffer never holds more than its MaxSize, whatever is emitted,   *)
(* formatted, escaped, indented or called back into it (buffer.hpp:50-70): *)
(* the size a write checks is the size of the array.                       *)
THEOREM NeverPastTheBuffer ==
  Spec => [](job.buffer.expand = 0 => Len(out.text) <= job.buffer.size)
<1>1. IInv => (job.buffer.expand = 0 => Len(out.text) <= job.buffer.size)
  BY DEF IInv, WriterInv, Sound
<1> QED BY <1>1, Invariance, PTL

(* A catch-all callback is given a path of at least one name, each of      *)
(* which is not empty (parser.cpp:321-334): the stack is read only below   *)
(* the depth, where only the names of open objects are.                    *)
THEOREM NamesReported ==
  Spec => [](\A n \in DOMAIN bound : \A k \in DOMAIN bound[n].seen :
               LET path == bound[n].seen[k][1]
               IN  path # <<>> /\ \A i \in DOMAIN path : path[i] # <<>>)
<1>1. IInv => \A n \in DOMAIN bound : \A k \in DOMAIN bound[n].seen :
                LET path == bound[n].seen[k][1]
                IN  path # <<>> /\ \A i \in DOMAIN path : path[i] # <<>>
  <2> SUFFICES ASSUME IInv, NEW n \in DOMAIN bound, NEW k \in DOMAIN bound[n].seen
               PROVE  LET path == bound[n].seen[k][1]
                      IN  path # <<>> /\ \A i \in DOMAIN path : path[i] # <<>>
    OBVIOUS
  <2>1. bound[n].seen \in Seq(Reports)
    BY DEF IInv, ParserInv, BoundOK
  <2>2. bound[n].seen[k] \in Reports
    BY <2>1
  <2> QED BY <2>2 DEF Reports
<1> QED BY <1>1, Invariance, PTL

(* A level that takes a node finds a name at its depth in the node's path, *)
(* so that get_element(depth) stays within the path's elements             *)
(* (document.cpp:26): whatever documents are merged, nested or left out,   *)
(* as long as no path goes on where another ends.                          *)
THEOREM KeysInPaths ==
  Spec => [](Running("level") /\ ~AtEnd /\ ~PassedOver(Item) => Depth < Len(Item.path))
<1>1. IInv => (Running("level") /\ ~AtEnd /\ ~PassedOver(Item) => Depth < Len(Item.path))
  <2> SUFFICES ASSUME IInv, Running("level"), ~AtEnd, ~PassedOver(Item)
               PROVE  Depth < Len(Item.path)
    OBVIOUS
  <2>1. calls \in Stacks /\ calls # <<>> /\ Top.fn = "level"
    BY RunningIsTop DEF IInv, WriterInv
  <2>2. Depth \in Nat /\ Len(Item.path) \in Nat /\ Depth + 1 <= Len(Item.path)
    BY <2>1, LevelGoesOn
  <2> QED BY <2>2
<1> QED BY <1>1, Invariance, PTL

(* A level that fails has the root's level under it, where its failure     *)
(* ends (document.cpp:38, 84), in nested documents too.                    *)
THEOREM UnwindsToRoot ==
  Spec => [](Running("level") => \E k \in DOMAIN calls : calls[k].fn = "level" /\ calls[k].path = <<>>)
<1>1. IInv => (Running("level") =>
                 \E k \in DOMAIN calls : calls[k].fn = "level" /\ calls[k].path = <<>>)
  <2> SUFFICES ASSUME IInv, Running("level")
               PROVE  \E k \in DOMAIN calls : Root(calls[k])
    BY DEF Root
  <2>1. calls \in Seq(Frames) /\ calls # <<>> /\ Rooted(calls)
    BY RunningIsTop DEF IInv, WriterInv, Stacks
  <2>2. Len(calls) \in DOMAIN calls /\ calls[Len(calls)].fn = "level" /\ DOMAIN calls = 1..Len(calls)
        /\ Len(calls) \in Nat
    BY <2>1 DEF Running, Last
  <2>3. PICK j \in 1..Len(calls) : Root(calls[j])
    BY <2>1, <2>2 DEF Rooted
  <2> QED BY <2>2, <2>3
<1> QED BY <1>1, Invariance, PTL
=============================================================================
