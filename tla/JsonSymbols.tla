----------------------------- MODULE JsonSymbols -----------------------------
(***************************************************************************)
(* The symbols JSON texts are made of.  A text is a sequence of symbols.   *)
(* A symbol is a character; the literals true, false and null, which the   *)
(* code only compares as a whole, are one symbol each; "ctl" is a control  *)
(* character without a short escape (0x1B); a byte above 0x7F is its       *)
(* decimal number, "194".                                                  *)
(***************************************************************************)
EXTENDS Integers, Sequences, SequencesExt, FiniteSets

Quote == "\""
Backslash == "\\"

Digit == <<"0", "1", "2", "3", "4", "5", "6", "7", "8", "9">>

CONSTANT Symbols      \* those that texts are made of

(* What the code writes of its own accord is among them. *)
ASSUME SymbolsAssumption ==
  /\ {"{", "}", "[", "]", ",", ":", "-", " ", "\n", Quote, Backslash} \subseteq Symbols
  /\ {"n", "t", "u", "b"} \cup {Digit[k] : k \in DOMAIN Digit} \subseteq Symbols

Strings == Seq(Symbols)

(* The escapes of the JSON grammar for the symbols used here. *)
ShortEscape == [c \in {Quote, Backslash, "\n", "\t"} |->
                  CASE c = Quote     -> <<Backslash, Quote>>
                    [] c = Backslash -> <<Backslash, Backslash>>
                    [] c = "\n"      -> <<Backslash, "n">>
                    [] c = "\t"      -> <<Backslash, "t">>]
LongEscape == [c \in {"ctl"} |-> <<Backslash, "u", "0", "0", "1", "b">>]

NeedsEscape(c) == c \in DOMAIN ShortEscape \cup DOMAIN LongEscape
EscapeOf(c) == IF c \in DOMAIN ShortEscape THEN ShortEscape[c] ELSE LongEscape[c]
EscapeSymbol(c) == IF NeedsEscape(c) THEN EscapeOf(c) ELSE <<c>>
Escaped(s) == FlattenSeq([k \in DOMAIN s |-> EscapeSymbol(s[k])])
Quoted(s) == <<Quote>> \o Escaped(s) \o <<Quote>>
=============================================================================
