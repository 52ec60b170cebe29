---------------------------- MODULE JsonSerializer ----------------------------
(***************************************************************************)
(* serializer::dump: a value as a text.  A dump is [ok, out]; ok is FALSE  *)
(* when the strict handler throws 316 for a string that is not UTF-8.      *)
(* A setting is [pretty, ascii, step, handler].                            *)
(***************************************************************************)
EXTENDS JsonValue

Written(out) == [ok |-> TRUE, out |-> out]
Thrown == [ok |-> FALSE, out |-> <<>>]

-----------------------------------------------------------------------------
\* decode: the automaton of utf8d, 0 accepts and 1 rejects.
ByteType(b) ==
    CASE b \in 0..127 -> 0 [] b \in 128..143 -> 1 [] b \in 144..159 -> 9
      [] b \in 160..191 -> 7 [] b \in 194..223 -> 2 [] b = 224 -> 10
      [] b = 237 -> 4 [] b \in 225..239 \ {237} -> 3 [] b = 240 -> 11
      [] b = 244 -> 5 [] b \in 241..243 -> 6 [] OTHER -> 8

Utf8Next ==
    LET to(types, state) == [t \in types |-> state]
    IN  [s \in 0..8 |->
           CASE s = 0 -> [t \in {0, 2, 3, 4, 5, 6, 10, 11} |->
                            CASE t = 0 -> 0 [] t = 2 -> 2 [] t = 3 -> 3 [] t = 4 -> 5
                              [] t = 5 -> 8 [] t = 6 -> 7 [] t = 10 -> 4 [] t = 11 -> 6]
             [] s = 1 -> <<>>
             [] s = 2 -> to({1, 7, 9}, 0)
             [] s = 3 -> to({1, 7, 9}, 2)
             [] s = 4 -> to({7}, 2)
             [] s = 5 -> to({1, 9}, 2)
             [] s = 6 -> to({7, 9}, 3)
             [] s = 7 -> to({1, 7, 9}, 3)
             [] s = 8 -> to({1}, 3)]

\* (0xFF >> type) & byte: the payload of a leading byte.
Payload(b) == CASE b < 128 -> b [] b \in 192..223 -> b % 32 [] b \in 224..239 -> b % 16
                [] b \in 240..247 -> b % 8 [] OTHER -> 0

decode(state, codepoint, byte) ==
    LET row == Utf8Next[state]
        type == ByteType(byte)
    IN  [state |-> IF type \in DOMAIN row THEN row[type] ELSE 1,
         codepoint |-> IF state # 0 THEN (codepoint % 4194304) * 64 + (byte % 64)
                       ELSE Payload(byte)]

-----------------------------------------------------------------------------
HexDigit(n) == IF n < 10 THEN 48 + n ELSE 87 + n
UEscape(n) == <<92, 117, HexDigit(n \div 4096), HexDigit((n \div 256) % 16),
                HexDigit((n \div 16) % 16), HexDigit(n % 16)>>

ShortEscape == [c \in {8, 9, 10, 12, 13, 34, 92} |->
    <<92, CASE c = 8 -> 98 [] c = 9 -> 116 [] c = 10 -> 110 [] c = 12 -> 102
            [] c = 13 -> 114 [] OTHER -> c>>]

\* Variant that escapes code points beyond the basic plane as one unit.
EscapedCodepointOneUnit(cp, byte, ascii) ==
    CASE cp \in DOMAIN ShortEscape -> ShortEscape[cp]
      [] cp \notin DOMAIN ShortEscape /\ (cp <= 31 \/ (ascii /\ cp >= 127)) ->
            UEscape(cp % 65536)
      [] OTHER -> <<byte>>

\* What an accepted code point adds, its last byte being byte.
EscapedCodepoint(cp, byte, ascii) ==
    CASE cp \in DOMAIN ShortEscape -> ShortEscape[cp]
      [] cp \notin DOMAIN ShortEscape /\ (cp <= 31 \/ (ascii /\ cp >= 127)) ->
            IF cp <= 65535 THEN UEscape(cp)
            ELSE UEscape(55232 + cp \div 1024) \o UEscape(56320 + (cp % 1024))
      [] OTHER -> <<byte>>

Replacement(ascii) == IF ascii THEN UEscape(65533) ELSE <<239, 191, 189>>

\* The loop of dump_escaped at byte i: out so far, of which the first
\* accepted bytes are complete, and the bytes of a code point not written.
RECURSIVE EscapeFrom(_, _, _, _)
EscapeFrom(s, i, st, setting) ==
    LET d == decode(st.state, st.codepoint, s[i])
        escaped == EscapedCodepoint(d.codepoint, s[i], setting.ascii)
        kept == SubSeq(st.out, 1, st.accepted)
        replaced == IF setting.handler = "replace" THEN kept \o Replacement(setting.ascii)
                    ELSE kept
    IN  CASE i > Len(s) /\ st.state = 0 -> Written(st.out)
          [] i > Len(s) /\ st.state # 0 ->
               IF setting.handler = "strict" THEN Thrown ELSE Written(replaced)
          [] i <= Len(s) /\ d.state = 0 ->
               EscapeFrom(s, i + 1,
                  [state |-> 0, codepoint |-> 0, out |-> st.out \o escaped, undumped |-> 0,
                   accepted |-> Len(st.out) + Len(escaped)], setting)
          [] i <= Len(s) /\ d.state = 1 ->
               IF setting.handler = "strict" THEN Thrown
               ELSE EscapeFrom(s, IF st.undumped > 0 THEN i ELSE i + 1,
                  [state |-> 0, codepoint |-> 0, out |-> replaced, undumped |-> 0,
                   accepted |-> Len(replaced)], setting)
          [] OTHER ->
               EscapeFrom(s, i + 1,
                  [st EXCEPT !.state = d.state, !.codepoint = d.codepoint, !.undumped = @ + 1,
                             !.out = IF setting.ascii THEN @ ELSE Append(@, s[i])], setting)

dump_escaped(s, setting) ==
    EscapeFrom(s, 1, [state |-> 0, codepoint |-> 0, out |-> <<>>, accepted |-> 0,
                      undumped |-> 0], setting)

-----------------------------------------------------------------------------
\* remove_sign: -(x + 1) + 1, which has no overflow.
remove_sign(w) == MulAdd(Complement(w), 1, 1).word

\* Two digits at a time, from the last.
RECURSIVE Digits(_)
Digits(w) ==
    LET d == DivMod(w, 100)
        small == w[8]
    IN  CASE FitsUnsigned(w, 1) /\ small < 10 -> <<48 + small>>
          [] FitsUnsigned(w, 1) /\ small \in 10..99 -> <<48 + small \div 10, 48 + (small % 10)>>
          [] OTHER -> Digits(d.div) \o <<48 + d.mod \div 10, 48 + (d.mod % 10)>>

dump_integer(w, isSigned) ==
    IF isSigned /\ IsNegative(w) THEN <<45>> \o Digits(remove_sign(w)) ELSE Digits(w)

-----------------------------------------------------------------------------
Zeros(n) == [i \in 1..n |-> 48]

append_exponent(e) ==
    LET k == IF e < 0 THEN -e ELSE e
    IN  <<IF e < 0 THEN 45 ELSE 43>> \o
        (IF k < 100 THEN <<48 + k \div 10, 48 + (k % 10)>>
         ELSE <<48 + k \div 100, 48 + ((k \div 10) % 10), 48 + (k % 10)>>)

MinExp == -4
MaxExp == 15

\* d, digits whose decimal point is before place n + 1.
format_buffer(d, n) ==
    LET k == Len(d)
    IN  CASE k <= n /\ n <= MaxExp -> d \o Zeros(n - k) \o <<46, 48>>
          [] 0 < n /\ n < k /\ n <= MaxExp -> SubSeq(d, 1, n) \o <<46>> \o SubSeq(d, n + 1, k)
          [] MinExp < n /\ n <= 0 -> <<48, 46>> \o Zeros(-n) \o d
          [] OTHER -> (IF k = 1 THEN d ELSE <<d[1], 46>> \o Tail(d)) \o <<101>>
                      \o append_exponent(n - 1)

\* The digits are those of the double: what grisu2 computes.
to_chars(f) ==
    (IF f.neg THEN <<45>> ELSE <<>>) \o
    (IF f.digits = <<>> THEN <<48, 46, 48>>
     ELSE format_buffer([i \in 1..Len(f.digits) |-> 48 + f.digits[i]], f.exp))

dump_float(f) == IF IsFinite(f) THEN to_chars(f) ELSE Ascii("null")

-----------------------------------------------------------------------------
Spaces(n) == [i \in 1..n |-> 32]

\* Dumps joined: by a comma, on lines of their own when pretty.
RECURSIVE Joined(_, _, _)
Joined(dumps, pretty, indent) ==
    LET first == (IF pretty THEN Spaces(indent) ELSE <<>>) \o dumps[1].out
        rest == Joined(Tail(dumps), pretty, indent)
    IN  IF Len(dumps) = 1 THEN first
        ELSE first \o (IF pretty THEN <<44, 10>> ELSE <<44>>) \o rest

Surrounded(dumps, opening, closing, setting, indent) ==
    CASE \E i \in DOMAIN dumps : ~dumps[i].ok -> Thrown
      [] dumps = <<>> -> Written(<<opening, closing>>)
      [] setting.pretty /\ dumps # <<>> ->
            Written(<<opening, 10>> \o Joined(dumps, TRUE, indent + setting.step)
                    \o <<10>> \o Spaces(indent) \o <<closing>>)
      [] OTHER -> Written(<<opening>> \o Joined(dumps, FALSE, 0) \o <<closing>>)

Quoted(s, setting) ==
    LET d == dump_escaped(s, setting)
    IN  IF d.ok THEN Written(<<34>> \o d.out \o <<34>>) ELSE Thrown

Colon(setting) == IF setting.pretty THEN <<58, 32>> ELSE <<58>>

\* A byte of a binary, a subtype.
Small(n) == dump_integer(Word(n), FALSE)

\* A binary is written as an object of its bytes and its subtype.
BytesList(bytes, pretty) ==
    FoldLeft(LAMBDA out, i : out \o (IF i = 1 THEN <<>> ELSE IF pretty THEN <<44, 32>> ELSE <<44>>)
                                 \o Small(bytes[i]),
             <<>>, [i \in 1..Len(bytes) |-> i])

DumpBinary(v, setting, indent) ==
    LET bytes == Written(Ascii("\"bytes\"") \o Colon(setting) \o <<91>>
                         \o BytesList(Content(v), setting.pretty) \o <<93>>)
        subtype == Written(Ascii("\"subtype\"") \o Colon(setting)
                           \o (IF v[3] = -1 THEN Ascii("null") ELSE Small(v[3])))
    IN  Surrounded(<<bytes, subtype>>, 123, 125, setting, indent)

DumpScalar(v) ==
    CASE Type(v) = "boolean" -> IF Content(v) THEN Ascii("true") ELSE Ascii("false")
      [] Type(v) = "number_integer" -> dump_integer(Content(v), TRUE)
      [] Type(v) = "number_unsigned" -> dump_integer(Content(v), FALSE)
      [] Type(v) = "number_float" -> dump_float(Content(v))
      [] Type(v) = "null" -> Ascii("null")
      [] Type(v) = "discarded" -> Ascii("<discarded>")

RECURSIVE DumpAt(_, _, _)
DumpAt(v, setting, indent) ==
    LET inner == indent + (IF setting.pretty THEN setting.step ELSE 0)
        keys == Keys(v)
        member(k) == LET key == Quoted(k, setting)
                         value == DumpAt(Content(v)[k], setting, inner)
                     IN  IF key.ok /\ value.ok
                         THEN Written(key.out \o Colon(setting) \o value.out) ELSE Thrown
    IN  CASE Type(v) = "object" ->
               Surrounded([i \in 1..Len(keys) |-> member(keys[i])], 123, 125, setting, indent)
          [] Type(v) = "array" ->
               Surrounded([i \in 1..Len(Content(v)) |-> DumpAt(Content(v)[i], setting, inner)],
                          91, 93, setting, indent)
          [] Type(v) = "string" -> Quoted(Content(v), setting)
          [] Type(v) = "binary" -> DumpBinary(v, setting, indent)
          [] OTHER -> Written(DumpScalar(v))

dump(v, setting) == DumpAt(v, setting, 0)
=============================================================================
