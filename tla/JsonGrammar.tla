------------------------------ MODULE JsonGrammar -----------------------------
(***************************************************************************)
(* The grammar of RFC 8259, as the scanner's comments cite it: when a text *)
(* is a JSON text, by splitting it into parts, with no reference to how a  *)
(* scanner reads it.  The property AcceptsTheGrammar compares the two.     *)
(* Two things are as the library wants them: a zero byte ends the text     *)
(* (json.hpp:8889-8893), and a number has the range of a double            *)
(* (json.hpp:12370-12375), as section 6 of the RFC allows.                 *)
(***************************************************************************)
EXTENDS JsonBytes

Slice(s, i, j) == SubSeq(s, i, j)
AllIn(s, bytes) == \A i \in DOMAIN s : s[i] \in bytes
Space == {32, 9, 10, 13}
Digit == 48..57
Hex == 48..57 \cup 65..70 \cup 97..102

IsInt(s) == s # <<>> /\ AllIn(s, Digit) /\ (Len(s) > 1 => s[1] # 48)
IsDigits(s) == s # <<>> /\ AllIn(s, Digit)
IsFrac(s) == s = <<>> \/ (s[1] = 46 /\ IsDigits(Tail(s)))
IsExp(s) == \/ s = <<>>
            \/ /\ s[1] \in {69, 101}
               /\ \/ IsDigits(Tail(s))
                  \/ Len(s) > 2 /\ s[2] \in {43, 45} /\ IsDigits(Slice(s, 3, Len(s)))

IsNumberText(s) ==
    LET u == IF s # <<>> /\ s[1] = 45 THEN Tail(s) ELSE s
    IN  \E i \in 0..Len(u) : \E j \in i..Len(u) :
           IsInt(Slice(u, 1, i)) /\ IsFrac(Slice(u, i + 1, j)) /\ IsExp(Slice(u, j + 1, Len(u)))

\* A number is below 1.7976931348623158 * 10^308, to 17 digits, or zero.
ValueOf(digits) == FoldLeft(LAMBDA n, c : 10 * n + c - 48, 0, digits)
IsE(c) == c \in {69, 101}
InRange(s) ==
    LET e == SelectInSeq(s, IsE)
        mantissa == IF e = 0 THEN s ELSE Slice(s, 1, e - 1)
        power == IF e = 0 THEN <<48>> ELSE Slice(s, e + 1, Len(s))
        ten == IF power[1] = 45 THEN -ValueOf(Tail(power))
               ELSE ValueOf(SelectSeq(power, LAMBDA c : c \in Digit))
        point == SelectInSeq(mantissa, LAMBDA c : c = 46)
        whole == SelectSeq(IF point = 0 THEN mantissa ELSE Slice(mantissa, 1, point - 1),
                           LAMBDA c : c \in Digit)
        digits == SelectSeq(mantissa, LAMBDA c : c \in Digit)
        lead == SelectInSeq(digits, LAMBDA c : c # 48)
        order == Len(whole) - lead + ten
        significant == [i \in 1..(Len(digits) - lead + 1) |-> digits[i + lead - 1] - 48]
    IN  lead = 0 \/ order < 308 \/ (order = 308 /\ ~ExceedsLargest(significant))

\* Well-formed UTF-8 of one code point of more than a byte: no overlong
\* form, no surrogate, nothing beyond U+10FFFF.
IsMultiByte(s) ==
    LET tail(i) == s[i] \in 128..191
        value == CASE Len(s) = 2 -> (s[1] - 192) * 64 + s[2] - 128
                   [] Len(s) = 3 -> (s[1] - 224) * 4096 + (s[2] - 128) * 64 + s[3] - 128
                   [] OTHER -> (s[1] - 240) * 262144 + (s[2] - 128) * 4096
                               + (s[3] - 128) * 64 + s[4] - 128
    IN  \/ Len(s) = 2 /\ s[1] \in 192..223 /\ tail(2) /\ value >= 128
        \/ /\ Len(s) = 3 /\ s[1] \in 224..239 /\ tail(2) /\ tail(3)
           /\ value >= 2048 /\ value \notin 55296..57343
        \/ /\ Len(s) = 4 /\ s[1] \in 240..247 /\ tail(2) /\ tail(3) /\ tail(4)
           /\ value \in 65536..1114111

\* \uXXXX, with the range its first two digits leave.
IsUnicode(s) == Len(s) = 6 /\ s[1] = 92 /\ s[2] = 117 /\ AllIn(Slice(s, 3, 6), Hex)
IsSurrogate(s, third) == IsUnicode(s) /\ s[3] \in {68, 100} /\ s[4] \in third
HighThird == {56, 57, 65, 66, 97, 98}
LowThird == {67, 68, 69, 70, 99, 100, 101, 102}

IsCharText(s) ==
    \/ Len(s) = 1 /\ s[1] \in 32..127 \ {34, 92}
    \/ IsMultiByte(s)
    \/ Len(s) = 2 /\ s[1] = 92 /\ s[2] \in {34, 92, 47, 98, 102, 110, 114, 116}
    \/ IsUnicode(s) /\ ~IsSurrogate(s, HighThird \cup LowThird)
    \/ /\ Len(s) = 12
       /\ IsSurrogate(Slice(s, 1, 6), HighThird)
       /\ IsSurrogate(Slice(s, 7, 12), LowThird)

RECURSIVE AreChars(_)
AreChars(s) == \/ s = <<>>
               \/ \E n \in {1, 2, 3, 4, 6, 12} :
                     /\ n <= Len(s)
                     /\ IsCharText(Slice(s, 1, n))
                     /\ AreChars(Slice(s, n + 1, Len(s)))

IsStringText(s) == /\ Len(s) >= 2 /\ s[1] = 34 /\ s[Len(s)] = 34
                   /\ AreChars(Slice(s, 2, Len(s) - 1))

RECURSIVE Trimmed(_)
Trimmed(s) == CASE s # <<>> /\ s[1] \in Space -> Trimmed(Tail(s))
                [] s # <<>> /\ s[1] \notin Space /\ s[Len(s)] \in Space -> Trimmed(Front(s))
                [] OTHER -> s

RECURSIVE IsValueText(_), AreElements(_), AreMembers(_)
IsValueText(text) ==
    LET s == Trimmed(text)
        inner == Slice(s, 2, Len(s) - 1)
        enclosed(a, b) == Len(s) >= 2 /\ s[1] = a /\ s[Len(s)] = b
    IN  \/ s \in {Ascii("true"), Ascii("false"), Ascii("null")}
        \/ IsNumberText(s) /\ InRange(s)
        \/ IsStringText(s)
        \/ enclosed(91, 93) /\ (Trimmed(inner) = <<>> \/ AreElements(inner))
        \/ enclosed(123, 125) /\ (Trimmed(inner) = <<>> \/ AreMembers(inner))

AreElements(s) ==
    \/ IsValueText(s)
    \/ \E k \in DOMAIN s : /\ s[k] = 44
                           /\ IsValueText(Slice(s, 1, k - 1))
                           /\ AreElements(Slice(s, k + 1, Len(s)))

IsMember(s) == \E k \in DOMAIN s : /\ s[k] = 58
                                   /\ IsStringText(Trimmed(Slice(s, 1, k - 1)))
                                   /\ IsValueText(Slice(s, k + 1, Len(s)))
AreMembers(s) ==
    \/ IsMember(s)
    \/ \E k \in DOMAIN s : /\ s[k] = 44
                           /\ IsMember(Slice(s, 1, k - 1))
                           /\ AreMembers(Slice(s, k + 1, Len(s)))

\* A byte order mark may come first.
WithoutBom(s) == IF Bytes(s, 0, 3) = <<239, 187, 191>> THEN SubSeq(s, 4, Len(s)) ELSE s
UpToZero(s) == IF 0 \in Range(s) THEN Slice(s, 1, SelectInSeq(s, LAMBDA c : c = 0) - 1) ELSE s
IsJsonText(s) == IsValueText(WithoutBom(UpToZero(s)))
=============================================================================
