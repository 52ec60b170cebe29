------------------------------- MODULE JsonBytes ------------------------------
(***************************************************************************)
(* What the JSON library's modules compute with: a text is a sequence of   *)
(* bytes 0..255, and the 64-bit numbers of number_integer_t and            *)
(* number_unsigned_t are words of eight bytes, most significant first, in  *)
(* two's complement.  A double is a decimal [neg, digits, exp], which is   *)
(* 0.d1d2... * 10^exp, without leading or trailing zeros: two texts of at  *)
(* most 17 digits with the same decimal read as the same double.           *)
(***************************************************************************)
EXTENDS Integers, Sequences, SequencesExt

EOF == -1

\* get_character: the byte after the first p ones.
At(text, p) == IF p < Len(text) THEN text[p + 1] ELSE EOF

\* The n bytes after the first p ones, fewer at the end of the input.
Bytes(text, p, n) == SubSeq(text, p + 1, IF p + n < Len(text) THEN p + n ELSE Len(text))

\* Printable characters, with \ in the place of the backquote, which no
\* TLA+ string holds.
Printable ==
    " !\"#$%&'()*+,-./0123456789:;<=>?@ABCDEFGHIJKLMNOPQRSTUVWXYZ[\\]^_\\abcdefghijklmnopqrstuvwxyz{|}~"

Char(c) == CHOOSE k \in 32..126 \ {96} : SubSeq(Printable, k - 31, k - 31) = c
Ascii(s) == [i \in 1..Len(s) |-> Char(SubSeq(s, i, i))]

IsDigit(c) == c \in 48..57

-----------------------------------------------------------------------------
Zero == <<0, 0, 0, 0, 0, 0, 0, 0>>
Ones == <<255, 255, 255, 255, 255, 255, 255, 255>>

\* w * m + d over the bytes left of a word, from the last, and the carry
\* out of them.
RECURSIVE MulAddBytes(_, _, _, _)
MulAddBytes(w, m, carry, low) ==
    IF w = <<>> THEN [word |-> low, overflow |-> carry > 0]
    ELSE LET n == Last(w) * m + carry
         IN  MulAddBytes(Front(w), m, n \div 256, <<n % 256>> \o low)

MulAdd(w, m, d) == MulAddBytes(w, m, d, <<>>)

\* Long division from the first byte.
RECURSIVE DivModBytes(_, _, _, _)
DivModBytes(w, m, rest, high) ==
    IF w = <<>> THEN [div |-> high, mod |-> rest]
    ELSE LET n == rest * 256 + Head(w)
         IN  DivModBytes(Tail(w), m, n % m, Append(high, n \div m))

DivMod(w, m) == DivModBytes(w, m, 0, <<>>)

\* Two's complement: ~w, and -w.
Complement(w) == <<255 - w[1], 255 - w[2], 255 - w[3], 255 - w[4],
                   255 - w[5], 255 - w[6], 255 - w[7], 255 - w[8]>>
Negate(w) == MulAdd(Complement(w), 1, 1).word

IsNegative(w) == w[1] >= 128

\* Extending n bytes to a word, without and with the sign.
Unsigned(bytes) == SubSeq(Zero, 1, 8 - Len(bytes)) \o bytes
Signed(bytes) ==
    SubSeq(IF bytes # <<>> /\ bytes[1] >= 128 THEN Ones ELSE Zero, 1, 8 - Len(bytes)) \o bytes

\* The n low bytes, and whether they are the whole number.
Low(w, n) == SubSeq(w, 9 - n, 8)
FitsUnsigned(w, n) == Unsigned(Low(w, n)) = w
FitsSigned(w, n) == Signed(Low(w, n)) = w

Word(n) == Unsigned(<<(n \div 16777216) % 256, (n \div 65536) % 256,
                      (n \div 256) % 256, n % 256>>)

\* A size: no container of the model is larger than the bound, a length
\* that is claims more than any input holds.
MaxSize == 1000000
Size(w) == IF FitsUnsigned(w, 3) /\ w[6] * 65536 + w[7] * 256 + w[8] <= MaxSize
           THEN w[6] * 65536 + w[7] * 256 + w[8]
           ELSE MaxSize + 1

-----------------------------------------------------------------------------
\* The order of std::string: unsigned bytes, a prefix first.
RECURSIVE LexLess(_, _)
LexLess(s, t) ==
    \/ s = <<>> /\ t # <<>>
    \/ /\ s # <<>> /\ t # <<>>
       /\ \/ s[1] < t[1]
          \/ s[1] = t[1] /\ LexLess(Tail(s), Tail(t))

\* The value of decimal digits, if it has 64 bits.
RECURSIVE DigitsToWord(_, _)
DigitsToWord(digits, acc) ==
    IF digits = <<>> \/ acc.overflow THEN acc
    ELSE DigitsToWord(Tail(digits), MulAdd(acc.word, 10, digits[1] - 48))

StrToWord(digits) == DigitsToWord(digits, [word |-> Zero, overflow |-> FALSE])

RECURSIVE TrimLeft(_)
TrimLeft(d) == IF d # <<>> /\ d[1] = 0 THEN TrimLeft(Tail(d)) ELSE d
RECURSIVE TrimRight(_)
TrimRight(d) == IF d # <<>> /\ Last(d) = 0 THEN TrimRight(Front(d)) ELSE d

\* External: strtod's nearest double, which 17 digits identify, and the
\* ends of the exponent's range.  The numbers with more of these digits than
\* LargestDigits before 10^308 are infinite.
LargestDigits == <<1, 7, 9, 7, 6, 9, 3, 1, 3, 4, 8, 6, 2, 3, 1, 5, 8>>
ExceedsLargest(d) ==
    \E i \in DOMAIN LargestDigits \cap DOMAIN d :
        d[i] > LargestDigits[i] /\ \A j \in 1..(i - 1) : d[j] = LargestDigits[j]

Infinity(neg) == [neg |-> neg, digits |-> <<>>, exp |-> 1]
NaN == [neg |-> FALSE, digits |-> <<>>, exp |-> 2]
ZeroDouble(neg) == [neg |-> neg, digits |-> <<>>, exp |-> 0]
IsFinite(f) == f.digits # <<>> \/ f.exp = 0

RECURSIVE RoundUp(_)
RoundUp(d) == IF d = <<>> THEN <<1>>
              ELSE IF Last(d) = 9 THEN RoundUp(Front(d)) ELSE [d EXCEPT ![Len(d)] = @ + 1]

Double(neg, digits, exp) ==
    LET d == TrimLeft(digits)
        e == exp - (Len(digits) - Len(d))
        up == Len(d) > 17 /\ d[18] >= 5
        head == SubSeq(d, 1, 17)
        allNines == \A i \in 1..Len(head) : head[i] = 9
        r == IF ~up THEN d ELSE RoundUp(head)
        kept == TrimRight(SubSeq(r, 1, IF Len(r) < 17 THEN Len(r) ELSE 17))
        e1 == IF up /\ allNines THEN e + 1 ELSE e
    IN  IF kept = <<>> \/ e1 < -323 THEN ZeroDouble(neg)
        ELSE IF e1 > 309 \/ (e1 = 309 /\ ExceedsLargest(kept)) THEN Infinity(neg)
        ELSE [neg |-> neg, digits |-> kept, exp |-> e1]
=============================================================================
