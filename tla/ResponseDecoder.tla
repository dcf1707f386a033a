--------------------------- MODULE ResponseDecoder ---------------------------
(***************************************************************************)
(* The response decoder: a number, a bit field or a string of bytes cut    *)
(* out of a payload (ResponseDecoder::decode), and the formula applied to  *)
(* it (FormulaParser).  Sequential algorithms, checked against reference   *)
(* definitions: what the digits of a number are, and the grammar of        *)
(* formulas.                                                               *)
(*                                                                         *)
(* The widths are scaled: a byte has ByteBits bits (8 in the code), a word *)
(* WordBytes bytes (8).  Floating-point values, texts and regular          *)
(* expressions are left out.  A formula is a sequence of tokens, and its   *)
(* value the tree of the operations applied: "*" stands for "/" and "%"    *)
(* too, "abs" and "min" for the functions of one and of two arguments.     *)
(***************************************************************************)
EXTENDS Integers, Sequences, SequencesExt, FiniteSets

CONSTANTS ByteBits, WordBytes,
          Payloads,   \* answers of instruments
          Formulas,   \* texts of formulas
          MaxTokens   \* bound: the length of a formula

ASSUME DecoderAssumption == {ByteBits, WordBytes, MaxTokens} \subseteq Nat \ {0}

VARIABLES payload,  \* the answer
          cut,      \* offset, length and byte order of the value in it
          formula   \* the formula

decoderVars == <<payload, cut, formula>>

DecoderInit == payload = <<>> /\ cut = [offset |-> 0, length |-> 0, little |-> FALSE] /\ formula = <<>>

WordBits == ByteBits * WordBytes

-------------------------------------------------------------------------------
(***************************************************************************)
(* Numbers.                                                                *)
(***************************************************************************)

\* What does not fit into a word is shifted out of it.
UnsignedValue(bytes, little) ==
  FoldLeft(LAMBDA result, byte : (result * 2^ByteBits + byte) % 2^WordBits, 0,
           IF little THEN Reverse(bytes) ELSE bytes)

\* A word as a signed number.
Signed(word) == IF word >= 2^(WordBits - 1) THEN word - 2^WordBits ELSE word

\* The sign is taken to the top of the word.
SignedValue(bytes, little) ==
  LET raw == UnsignedValue(bytes, little)
      bits == Len(bytes) * ByteBits
  IN Signed(IF bits < WordBits /\ raw >= 2^(bits - 1) THEN raw + 2^WordBits - 2^bits ELSE raw)

\* raw >> offset: undefined where the word has no such bit.
ShiftedRight(raw, offset) == IF offset < WordBits THEN {raw \div 2^offset} ELSE 0..2^WordBits - 1

NoValue == {}

\* A length below zero means the rest of the payload.
LengthOf(bytes, c) == IF c.length < 0 THEN Len(bytes) - c.offset ELSE c.length

InPayload(bytes, c) ==
  /\ c.offset >= 0 /\ LengthOf(bytes, c) > 0
  /\ c.offset <= Len(bytes) /\ LengthOf(bytes, c) <= Len(bytes) - c.offset

ChosenBytes(bytes, c) == SubSeq(bytes, c.offset + 1, c.offset + LengthOf(bytes, c))

\* A mutant: a selection wider than a word is decoded as far as it fits.
MutantFitsType(bytes, bits) ==
  LET expected == IF bits = 0 THEN Len(bytes) ELSE bits \div ByteBits IN expected = Len(bytes)

\* "uint" and "int" have the width of the selection, "uint16" and the like their own.
FitsType(bytes, bits) ==
  LET expected == IF bits = 0 THEN Len(bytes) ELSE bits \div ByteBits IN
    expected = Len(bytes) /\ expected <= WordBytes

\* decode: the values it may give, none if it reports an error.
Decode(bytes, c, type) ==
  IF ~InPayload(bytes, c) THEN NoValue
  ELSE LET chosen == ChosenBytes(bytes, c) IN
    CASE type.kind = "bits" ->
           IF type.offset < 0 \/ type.length <= 0 \/ type.length > WordBits
              \/ type.offset + type.length > Len(chosen) * ByteBits
           THEN NoValue
           ELSE {v % 2^type.length : v \in ShiftedRight(UnsignedValue(chosen, c.little), type.offset)}
      [] type.kind = "uint" ->
           IF FitsType(chosen, type.length) THEN {UnsignedValue(chosen, c.little)} ELSE NoValue
      [] type.kind = "int" ->
           IF FitsType(chosen, type.length) THEN {SignedValue(chosen, c.little)} ELSE NoValue

-------------------------------------------------------------------------------
(***************************************************************************)
(* Formulas: the parser has one text and three registers for all its       *)
(* activations, the position, result_ and rhs_.                            *)
(***************************************************************************)

At(p, token) == p.ok /\ p.position <= Len(p.text) /\ p.text[p.position] = token
Skip(p) == [p EXCEPT !.position = @ + 1]
Fail(p) == [p EXCEPT !.ok = FALSE]
\* match(token), and the failure without it.
Expect(p, token) == IF At(p, token) THEN Skip(p) ELSE Fail(p)
WithRhs(p, value) == IF p.ok THEN [p EXCEPT !.rhs = value] ELSE p

RECURSIVE Expression(_), Sums(_, _), Term(_), Products(_, _), Factor(_)

\* expression
Expression(p) == LET first == Term(p) IN IF first.ok THEN Sums(first, first.rhs) ELSE first

Sums(p, value) ==
  IF At(p, "+") \/ At(p, "-")
  THEN LET next == Term(Skip(p)) IN
         IF next.ok THEN Sums(next, <<p.text[p.position], value, next.rhs>>) ELSE next
  ELSE [p EXCEPT !.result = value]

\* term
Term(p) == LET first == Factor(p) IN IF first.ok THEN Products(first, first.rhs) ELSE first

Products(p, value) ==
  IF At(p, "*")
  THEN LET next == Factor(Skip(p)) IN IF next.ok THEN Products(next, <<"*", value, next.rhs>>) ELSE next
  ELSE [p EXCEPT !.rhs = value]

\* factor
Factor(p) ==
  CASE At(p, "+") -> Factor(Skip(p))
    [] At(p, "-") -> LET inner == Factor(Skip(p)) IN WithRhs(inner, <<"neg", inner.rhs>>)
    [] At(p, "(") -> LET inner == Expression(Skip(p)) IN WithRhs(Expect(inner, ")"), inner.result)
    [] At(p, "1") \/ At(p, "x") -> WithRhs(Skip(p), <<p.text[p.position]>>)
    [] At(p, "abs") ->
         LET inner == Expression(Expect(Skip(p), "(")) IN
           WithRhs(Expect(inner, ")"), <<"abs", inner.result>>)
    [] At(p, "min") ->
         LET first == Expression(Expect(Skip(p), "("))
             second == Expression(Expect(first, ","))
         IN WithRhs(Expect(second, ")"), <<"min", first.result, second.result>>)
    [] OTHER -> Fail(p)

\* parse: the value of the formula, or nothing.
Parse(text) ==
  LET zero == <<"0">>
      end == Expression([text |-> text, position |-> 1, result |-> zero, rhs |-> zero, ok |-> TRUE])
  IN IF end.ok /\ end.position = Len(text) + 1 THEN {end.result} ELSE NoValue

-------------------------------------------------------------------------------
(***************************************************************************)
(* Operations.                                                             *)
(***************************************************************************)

\* A plugin hands over the answer of an instrument.
DecodeAnswer(bytes, c) ==
  /\ payload' = bytes /\ cut' = c
  /\ UNCHANGED formula

ApplyFormula(text) ==
  /\ formula' = text
  /\ UNCHANGED <<payload, cut>>

\* Every call is one of its own.
DecoderNext ==
  /\ payload = <<>> /\ formula = <<>>
  /\ \/ \E bytes \in Payloads, offset, length \in -1..3, little \in BOOLEAN :
          DecodeAnswer(bytes, [offset |-> offset, length |-> length, little |-> little])
     \/ \E text \in Formulas : ApplyFormula(text)

-------------------------------------------------------------------------------

\* The k-th byte of the selection, from the one that counts least.
ByteOfValue(chosen, little, k) == chosen[IF little THEN k ELSE Len(chosen) + 1 - k]

\* Whatever offset, length, byte order and type a configuration names, a value comes
\* from within the payload (ResponseDecoder.cpp:247), or is refused.  An integer has the
\* bytes of the selection as its digits and the sign of its own width; one that does not
\* fit into a word is refused.  A bit field has the bits it names, wide as the selection
\* may be, if it ends within the lowest word of it.  One that reaches beyond is not refused
\* (259-266): its bits beyond the word are zeros, and one that begins there is whatever the
\* undefined shift leaves.
DecodingExact ==
  LET in == cut.offset >= 0 /\ LengthOf(payload, cut) > 0
              /\ cut.offset + LengthOf(payload, cut) <= Len(payload)
      chosen == ChosenBytes(payload, cut)
      size == Len(chosen)
      values(kind, o, l) == Decode(payload, cut, [kind |-> kind, offset |-> o, length |-> l])
      digits(v) == \A k \in 1..size :
        (v \div 2^(ByteBits * (k - 1))) % 2^ByteBits = ByteOfValue(chosen, cut.little, k)
      bit(j) == (ByteOfValue(chosen, cut.little, j \div ByteBits + 1) \div 2^(j % ByteBits)) % 2
  IN payload # <<>> =>
       /\ ~in => \A kind \in {"bits", "uint", "int"} : values(kind, 0, 1) = NoValue
       /\ in => \A bits \in 0..WordBits + ByteBits :
            LET right == size <= WordBytes /\ (bits = 0 \/ bits \div ByteBits = size) IN
              /\ right <=> values("uint", 0, bits) # NoValue
              /\ right <=> values("int", 0, bits) # NoValue
              /\ \A v \in values("uint", 0, bits) : v \in 0..2^(ByteBits * size) - 1 /\ digits(v)
              /\ \A v \in values("int", 0, bits) :
                   LET half == 2^(ByteBits * size - 1) IN
                     v \in -half..half - 1 /\ digits(IF v < 0 THEN v + 2 * half ELSE v)
       /\ in => \A o \in -1..WordBits + ByteBits, l \in 0..WordBits + 1 :
            LET right == o >= 0 /\ l \in 1..WordBits /\ o + l <= ByteBits * size IN
              /\ right <=> values("bits", o, l) # NoValue
              /\ \A v \in values("bits", o, l) : v \in 0..2^l - 1
              /\ right /\ o < WordBits =>
                   /\ Cardinality(values("bits", o, l)) = 1
                   /\ \A v \in values("bits", o, l), j \in 0..l - 1 :
                        (v \div 2^j) % 2 = IF o + j < WordBits THEN bit(o + j) ELSE 0

\* The sentences of the grammar, each with its tree: products before sums, equal
\* operators from the left.
Sentences ==
  LET Sized(S, n) == {s \in S : Len(s.text) = n}
      Pairs(S, T, n) == UNION {Sized(S, k) \X Sized(T, n - k) : k \in 1..n - 1}
      Leaves == {[text |-> <<t>>, tree |-> <<t>>] : t \in {"1", "x"}}
      Wrapped(g, n) ==
        {[text |-> <<"+">> \o s.text, tree |-> s.tree] : s \in Sized(g.factor, n - 1)}
        \cup {[text |-> <<"-">> \o s.text, tree |-> <<"neg", s.tree>>] : s \in Sized(g.factor, n - 1)}
        \cup {[text |-> <<"(">> \o s.text \o <<")">>, tree |-> s.tree] : s \in Sized(g.sum, n - 2)}
        \cup {[text |-> <<"abs", "(">> \o s.text \o <<")">>, tree |-> <<"abs", s.tree>>] :
                s \in Sized(g.sum, n - 3)}
        \cup {[text |-> <<"min", "(">> \o s[1].text \o <<",">> \o s[2].text \o <<")">>,
               tree |-> <<"min", s[1].tree, s[2].tree>>] : s \in Pairs(g.sum, g.sum, n - 4)}
      Joined(S, T, operators, n) ==
        {[text |-> s[1].text \o <<o>> \o s[2].text, tree |-> <<o, s[1].tree, s[2].tree>>] :
           o \in operators, s \in Pairs(S, T, n - 1)}
      UpTo[n \in 0..MaxTokens] ==
        IF n = 0 THEN [factor |-> {}, term |-> {}, sum |-> {}]
        ELSE LET g == UpTo[n - 1]
                 factor == g.factor \cup (IF n = 1 THEN Leaves ELSE Wrapped(g, n))
                 term == g.term \cup Sized(factor, n) \cup Joined(g.term, g.factor, {"*"}, n)
                 sum == g.sum \cup Sized(term, n) \cup Joined(g.sum, g.term, {"+", "-"}, n)
             IN [factor |-> factor, term |-> term, sum |-> sum]
  IN UpTo[MaxTokens].sum

Texts == {s.text : s \in Sentences}

\* A formula is accepted if and only if it is a sentence, and its value is that of its
\* tree: the registers that all activations of the parser share (ResponseDecoder.cpp:194)
\* lose no operand of an outer one.
FormulaExact ==
  formula # <<>> =>
    /\ \A value \in Parse(formula) : [text |-> formula, tree |-> value] \in Sentences
    /\ Parse(formula) = NoValue => formula \notin Texts

DecoderSound == DecodingExact /\ FormulaExact
===============================================================================
