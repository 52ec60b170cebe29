------------------------------- MODULE JsonLexer ------------------------------
(***************************************************************************)
(* The scanner of json.hpp.  pos is the number of characters consumed: get *)
(* reads the one after them, and unget is not consuming the character that *)
(* ended a token.  A token is a record with its type, the position after   *)
(* it, and token_buffer or the number it stands for.                       *)
(***************************************************************************)
EXTENDS JsonBytes, TLC

Token(type, pos) == [type |-> type, pos |-> pos]
ParseError(pos) == Token("parse_error", pos)

-----------------------------------------------------------------------------
HexValue(c) == CASE c \in 48..57 -> c - 48
                 [] c \in 65..70 -> c - 55
                 [] c \in 97..102 -> c - 87
                 [] OTHER -> -1

\* The four hex digits after \u; -1 when one of them is none.
get_codepoint(text, pos) ==
    LET h == [i \in 1..4 |-> HexValue(At(text, pos + i - 1))]
    IN  IF \E i \in 1..4 : h[i] = -1 THEN -1
        ELSE h[1] * 4096 + h[2] * 256 + h[3] * 16 + h[4]

Tails == 128..191

\* What may follow a leading byte; an ill-formed one has no entry.
Utf8Leads == 194..244
Utf8Ranges(c) ==
    CASE c \in 194..223 -> <<Tails>>
      [] c = 224 -> <<160..191, Tails>>
      [] c = 237 -> <<128..159, Tails>>
      [] c \in 225..239 \ {237} -> <<Tails, Tails>>
      [] c = 240 -> <<144..191, Tails, Tails>>
      [] c \in 241..243 -> <<Tails, Tails, Tails>>
      [] c = 244 -> <<128..143, Tails, Tails>>

next_byte_in_range(text, pos, ranges) ==
    \A i \in 1..Len(ranges) : At(text, pos + i - 1) \in ranges[i]

\* The UTF-8 bytes of a code point.
Utf8(cp) ==
    CASE cp < 128 -> <<cp>>
      [] cp \in 128..2047 -> <<192 + cp \div 64, 128 + (cp % 64)>>
      [] cp \in 2048..65535 ->
            <<224 + cp \div 4096, 128 + ((cp \div 64) % 64), 128 + (cp % 64)>>
      [] OTHER -> <<240 + cp \div 262144, 128 + ((cp \div 4096) % 64),
                    128 + ((cp \div 64) % 64), 128 + (cp % 64)>>

HighSurrogates == 55296..56319
LowSurrogates == 56320..57343

\* An escape, pos after the backslash: the bytes it adds and the position
\* after it, or ok = FALSE.
Escape(text, pos) ==
    LET c == At(text, pos)
        simple == [x \in {34, 92, 47, 98, 102, 110, 114, 116} |->
                     CASE x = 98 -> 8 [] x = 102 -> 12 [] x = 110 -> 10
                       [] x = 114 -> 13 [] x = 116 -> 9 [] OTHER -> x]
        first == get_codepoint(text, pos + 1)
        second == get_codepoint(text, pos + 7)
        pair == /\ At(text, pos + 5) = 92 /\ At(text, pos + 6) = 117
                /\ second \in LowSurrogates
    IN  CASE c \in DOMAIN simple ->
               [ok |-> TRUE, add |-> <<simple[c]>>, pos |-> pos + 1]
          [] c = 117 /\ first # -1 /\ first \notin HighSurrogates /\ first \notin LowSurrogates ->
               [ok |-> TRUE, add |-> Utf8(first), pos |-> pos + 5]
          [] c = 117 /\ first \in HighSurrogates /\ pair ->
               [ok |-> TRUE, pos |-> pos + 11,
                add |-> Utf8((first - 55296) * 1024 + (second - 56320) + 65536)]
          [] OTHER -> [ok |-> FALSE, add |-> <<>>, pos |-> pos]

\* What stands for itself, and what may only be escaped.
Plain == 32..127 \ {34, 92}
Control == 0..31

\* pos after the opening quote; buf is token_buffer.
RECURSIVE scan_string(_, _, _), AfterEscape(_, _, _)
scan_string(text, pos, buf) ==
    LET c == At(text, pos)
        ranges == Utf8Ranges(c)
    IN  CASE c = 34 -> [type |-> "value_string", pos |-> pos + 1, str |-> buf]
          [] c = 92 -> AfterEscape(text, Escape(text, pos + 1), buf)
          [] c \in Control -> ParseError(pos)
          [] c \in Plain -> scan_string(text, pos + 1, Append(buf, c))
          [] c \in Utf8Leads /\ next_byte_in_range(text, pos + 1, ranges) ->
                scan_string(text, pos + 1 + Len(ranges),
                            buf \o SubSeq(text, pos + 1, pos + 1 + Len(ranges)))
          [] OTHER -> ParseError(pos)

AfterEscape(text, esc, buf) ==
    IF esc.ok THEN scan_string(text, esc.pos, buf \o esc.add) ELSE ParseError(esc.pos)

-----------------------------------------------------------------------------
\* pos after the first slash.  The position after the comment, or -1: a
\* block that is not closed, or neither / nor * after the slash.
RECURSIVE LineComment(_, _)
LineComment(text, pos) ==
    IF At(text, pos) \in {10, 13, EOF, 0} THEN pos + 1 ELSE LineComment(text, pos + 1)

RECURSIVE BlockComment(_, _)
BlockComment(text, pos) ==
    CASE At(text, pos) \in {EOF, 0} -> -1
      [] At(text, pos) = 42 /\ At(text, pos + 1) = 47 -> pos + 2
      [] OTHER -> BlockComment(text, pos + 1)

scan_comment(text, pos) ==
    CASE At(text, pos) = 47 -> LineComment(text, pos + 1)
      [] At(text, pos) = 42 -> BlockComment(text, pos + 1)
      [] OTHER -> -1

-----------------------------------------------------------------------------
\* The automaton of scan_number: a state has a successor on a class of
\* characters, is left as "done" when it may end a number, or is an error.
CharClass(c) == CASE c = 48 -> "zero" [] c \in 49..57 -> "1-9"
                  [] c \in {69, 101} -> "e" [] c = 43 -> "plus"
                  [] c = 45 -> "minus" [] c = 46 -> "point" [] OTHER -> "other"

On(class, to) == [x \in {class} |-> to]
OnDigit(to) == [x \in {"zero", "1-9"} |-> to]

\* Variant that goes on reading digits after a leading zero.
IntegerStatesLeadingZeros ==
    [init |-> [zero |-> "any1", minus |-> "minus"] @@ On("1-9", "any1"),
     minus |-> OnDigit("any1"),
     zero |-> [e |-> "exponent", point |-> "decimal1"],
     any1 |-> [e |-> "exponent", point |-> "decimal1"] @@ OnDigit("any1")]

IntegerStates ==
    [init |-> [zero |-> "zero", minus |-> "minus"] @@ On("1-9", "any1"),
     minus |-> [zero |-> "zero"] @@ On("1-9", "any1"),
     zero |-> [e |-> "exponent", point |-> "decimal1"],
     any1 |-> [e |-> "exponent", point |-> "decimal1"] @@ OnDigit("any1")]

FractionStates ==
    [decimal1 |-> OnDigit("decimal2"),
     decimal2 |-> [e |-> "exponent"] @@ OnDigit("decimal2")]

ExponentStates ==
    [exponent |-> [plus |-> "sign", minus |-> "sign"] @@ OnDigit("any2"),
     sign |-> OnDigit("any2"),
     any2 |-> OnDigit("any2")]

NumberStates == IntegerStates @@ FractionStates @@ ExponentStates
MayEnd == {"zero", "any1", "decimal2", "any2"}

\* The position after the longest number from pos on, or -1.
RECURSIVE NumberEnd(_, _, _)
NumberEnd(text, pos, state) ==
    LET next == NumberStates[state]
        class == CharClass(At(text, pos))
    IN  CASE class \in DOMAIN next -> NumberEnd(text, pos + 1, next[class])
          [] class \notin DOMAIN next /\ state \in MayEnd -> pos
          [] OTHER -> -1

\* The places of the digits up to the first other character.
RECURSIVE DigitsFrom(_, _)
DigitsFrom(s, i) == IF i <= Len(s) /\ IsDigit(s[i]) THEN <<s[i]>> \o DigitsFrom(s, i + 1)
                    ELSE <<>>

\* An exponent; beyond a thousand every exponent is out of range.
RECURSIVE SmallInt(_, _)
SmallInt(digits, acc) == IF digits = <<>> \/ acc > 1000 THEN acc
                         ELSE SmallInt(Tail(digits), acc * 10 + digits[1] - 48)

\* External: strtod on a number the automaton accepts.
strtod(s) ==
    LET neg == s[1] = 45
        whole == DigitsFrom(s, IF neg THEN 2 ELSE 1)
        afterWhole == Len(whole) + (IF neg THEN 2 ELSE 1)
        fraction == IF At(s, afterWhole - 1) = 46 THEN DigitsFrom(s, afterWhole + 1) ELSE <<>>
        afterFraction == afterWhole + (IF fraction = <<>> THEN 0 ELSE Len(fraction) + 1)
        hasExp == At(s, afterFraction - 1) \in {69, 101}
        signed == hasExp /\ At(s, afterFraction) \in {43, 45}
        magnitude == SmallInt(DigitsFrom(s, afterFraction + (IF signed THEN 2 ELSE 1)), 0)
        exponent == CASE ~hasExp -> 0
                      [] hasExp /\ At(s, afterFraction) = 45 -> -magnitude
                      [] OTHER -> magnitude
        digits == whole \o fraction
    IN  Double(neg, [i \in 1..Len(digits) |-> digits[i] - 48], Len(whole) + exponent)

\* scan_number_done: integers of 64 bits, everything else is a double.
Converted(s, pos) ==
    LET integral == \A i \in 1..Len(s) : s[i] = 45 \/ IsDigit(s[i])
        neg == s[1] = 45
        n == StrToWord(IF neg THEN Tail(s) ELSE s)
        isUnsigned == integral /\ ~neg /\ ~n.overflow
        inLongLong == ~IsNegative(n.word) \/ n.word = <<128, 0, 0, 0, 0, 0, 0, 0>>
        isInteger == integral /\ neg /\ ~n.overflow /\ inLongLong
    IN  CASE isUnsigned -> [type |-> "value_unsigned", pos |-> pos, word |-> n.word]
          [] isInteger -> [type |-> "value_integer", pos |-> pos, word |-> Negate(n.word)]
          [] OTHER -> [type |-> "value_float", pos |-> pos, float |-> strtod(s)]

\* pos of the number's first character.
scan_number(text, pos) ==
    LET end == NumberEnd(text, pos, "init")
    IN  IF end = -1 THEN ParseError(pos) ELSE Converted(SubSeq(text, pos + 1, end), end)

-----------------------------------------------------------------------------
TrueText == Ascii("true")
FalseText == Ascii("false")
NullText == Ascii("null")

\* pos of the literal's first character, which scan has compared.
scan_literal(text, pos, literal, type) ==
    IF Bytes(text, pos, Len(literal)) = literal
    THEN Token(type, pos + Len(literal)) ELSE ParseError(pos)

\* The byte order mark, which only the first token of a text may follow:
\* the position after it, or -1 for a part of one.
skip_bom(text) ==
    CASE At(text, 0) # 239 -> 0
      [] At(text, 1) = 187 /\ At(text, 2) = 191 -> 3
      [] OTHER -> -1

RECURSIVE skip_whitespace(_, _)
skip_whitespace(text, pos) ==
    IF At(text, pos) \in {32, 9, 10, 13} THEN skip_whitespace(text, pos + 1) ELSE pos

\* Whitespace, and comments between it where they are ignored; -1 after an
\* ill-formed comment.
RECURSIVE SkipToToken(_, _, _)
SkipToToken(text, pos, ignoreComments) ==
    LET p == skip_whitespace(text, pos)
        after == scan_comment(text, p + 1)
    IN  IF ignoreComments /\ At(text, p) = 47
        THEN IF after = -1 THEN -1 ELSE SkipToToken(text, after, ignoreComments)
        ELSE p

Structural == [c \in {91, 93, 123, 125, 58, 44} |->
    CASE c = 91 -> "begin_array" [] c = 93 -> "end_array" [] c = 123 -> "begin_object"
      [] c = 125 -> "end_object" [] c = 58 -> "name_separator" [] c = 44 -> "value_separator"]

scan(text, pos, ignoreComments) ==
    LET start == IF pos = 0 THEN skip_bom(text) ELSE pos
        p == SkipToToken(text, start, ignoreComments)
        c == At(text, p)
    IN  CASE start = -1 \/ p = -1 -> ParseError(pos)
          [] c \in DOMAIN Structural -> Token(Structural[c], p + 1)
          [] c = 116 -> scan_literal(text, p, TrueText, "literal_true")
          [] c = 102 -> scan_literal(text, p, FalseText, "literal_false")
          [] c = 110 -> scan_literal(text, p, NullText, "literal_null")
          [] c = 34 -> scan_string(text, p + 1, <<>>)
          [] c = 45 \/ IsDigit(c) -> scan_number(text, p)
          [] c \in {0, EOF} -> Token("end_of_input", p + 1)
          [] OTHER -> ParseError(p)

\* The tokens get_token returns one after the other, up to the first the
\* parser cannot pass: reading ahead of it changes nothing.
RECURSIVE TokensFrom(_, _)
TokensFrom(text, tokens) ==
    LET last == IF tokens = <<>> THEN Token("uninitialized", 0) ELSE Last(tokens)
    IN  IF last.type \in {"end_of_input", "parse_error"} THEN tokens
        ELSE TokensFrom(text, Append(tokens, scan(text, last.pos, FALSE)))

Tokens(text) == TokensFrom(text, <<>>)
=============================================================================
