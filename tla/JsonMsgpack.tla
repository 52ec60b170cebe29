------------------------------ MODULE JsonMsgpack -----------------------------
(***************************************************************************)
(* binary_reader's MessagePack functions and binary_writer::write_msgpack. *)
(* The cases the source lists byte by byte are ranges here.                *)
(***************************************************************************)
EXTENDS JsonBinary

\* A big-endian length of n bytes at pos, as a size.
msgpack_length(in, pos, n) ==
    LET number == get_number(in, pos, n, FALSE)
    IN  [ok |-> number.ok, pos |-> number.pos, size |-> Size(Unsigned(number.bytes))]

\* len bytes after a length that was read.
AfterLength(in, length) ==
    LET bytes == get_bytes(in, length.pos, length.size)
    IN  [bytes EXCEPT !.ok = length.ok /\ @]

\* The string whose first byte is at pos: fixstr, or str 8, 16 or 32.
OfLength(in, pos, length) ==
    LET string == get_bytes(in, length.pos, length.size)
    IN  IF length.ok /\ string.ok THEN string ELSE [ok |-> FALSE, pos |-> pos, id |-> 110]

get_msgpack_string(in, pos) ==
    LET c == At(in, pos)
        width == CASE c = 217 -> 1 [] c = 218 -> 2 [] OTHER -> 4
    IN  CASE c \in 160..191 ->
               OfLength(in, pos, [ok |-> TRUE, pos |-> pos + 1, size |-> c - 160])
          [] c \in 217..219 -> OfLength(in, pos, msgpack_length(in, pos + 1, width))
          [] OTHER -> [ok |-> FALSE, pos |-> pos, id |-> IF c = EOF THEN 110 ELSE 113]

\* The binary of a first byte: bin or ext 8, 16 and 32, or one of the fixext
\* sizes.  An ext has a subtype, of which the byte is kept.
get_msgpack_binary(in, pos) ==
    LET c == At(in, pos)
        length == IF c \in 212..216
                  THEN [ok |-> TRUE, pos |-> pos + 1, size |-> 2 ^ (c - 212)]
                  ELSE msgpack_length(in, pos + 1, CASE c \in {196, 199} -> 1
                                                     [] c \in {197, 200} -> 2
                                                     [] OTHER -> 4)
        ext == c \notin 196..198
        bytes == AfterLength(in, IF ext THEN [length EXCEPT !.pos = @ + 1] ELSE length)
    IN  [ok |-> bytes.ok, pos |-> bytes.pos,
         value |-> Binary(bytes.bytes, IF ext THEN At(in, length.pos) ELSE -1)]

RECURSIVE parse_msgpack_internal(_, _, _), MsgpackContainer(_, _, _, _), MsgpackFix(_, _, _),
          MsgpackItems(_, _, _, _), MoreItems(_, _, _), MsgpackMembers(_, _, _, _),
          Member(_, _, _), MoreMembers(_, _, _)

BinaryOf(events, binary) ==
    IF binary.ok THEN Value(events, binary.pos, binary.value) ELSE Fail(events, binary.pos, 110)
IntegerOf(events, number, signed) ==
    CASE ~number.ok -> Fail(events, number.pos, 110)
      [] number.ok /\ signed -> Value(events, number.pos, Integer(Signed(number.bytes)))
      [] OTHER -> Value(events, number.pos, UnsignedInt(Unsigned(number.bytes)))

\* A first byte that holds a small map's or array's size.
MsgpackFix(in, pos, events) ==
    LET c == At(in, pos)
        known(n) == [ok |-> TRUE, pos |-> pos + 1, size |-> n]
    IN  MsgpackContainer(in, known(c % 16), c < 144, events)

\* A first byte that announces a value without parts.
MsgpackScalar(in, pos, events) ==
    LET c == At(in, pos)
        number(n) == get_number(in, pos + 1, n, FALSE)
    IN  CASE c \in 160..191 \cup 217..219 -> StringAfter(events, get_msgpack_string(in, pos))
          [] c = 192 -> Value(events, pos + 1, Null)
          [] c \in {194, 195} -> Value(events, pos + 1, Boolean(c = 195))
          [] c \in 196..201 \cup 212..216 -> BinaryOf(events, get_msgpack_binary(in, pos))
          [] c \in {202, 203} -> FloatAfter(events, number(IF c = 202 THEN 4 ELSE 8))
          [] c \in 204..211 -> IntegerOf(events, number(2 ^ (c % 4)), c >= 208)
          [] c \in 224..255 -> Value(events, pos + 1, Integer(Signed(<<c>>)))
          [] OTHER -> Fail(events, pos, IF c = EOF THEN 110 ELSE 112)

\* An item at pos.
parse_msgpack_internal(in, pos, events) ==
    LET c == At(in, pos)
    IN  CASE c \in 0..127 -> Value(events, pos + 1, UnsignedInt(Word(c)))
          [] c \in 128..159 -> MsgpackFix(in, pos, events)
          [] c \in 220..223 ->
               MsgpackContainer(in, msgpack_length(in, pos + 1, IF c % 2 = 0 THEN 2 ELSE 4),
                                c >= 222, events)
          [] OTHER -> MsgpackScalar(in, pos, events)

MsgpackContainer(in, length, isObject, events) ==
    CASE ~length.ok -> Fail(events, length.pos, 110)
      [] length.ok /\ isObject -> MsgpackMembers(in, length.pos, length.size, Append(events, StartObject))
      [] OTHER -> MsgpackItems(in, length.pos, length.size, Append(events, StartArray))

\* get_msgpack_array: count items.
MsgpackItems(in, pos, count, events) ==
    IF count = 0 THEN Done(Append(events, EndArray), pos)
    ELSE MoreItems(in, parse_msgpack_internal(in, pos, events), count - 1)

MoreItems(in, item, count) ==
    IF Failed(item.events) THEN item ELSE MsgpackItems(in, item.pos, count, item.events)

\* get_msgpack_object: count keys, each a string, and their values.
MsgpackMembers(in, pos, count, events) ==
    IF count = 0 THEN Done(Append(events, EndObject), pos)
    ELSE MoreMembers(in, Member(in, get_msgpack_string(in, pos), events), count - 1)

Member(in, key, events) ==
    IF ~key.ok THEN Fail(events, key.pos, key.id)
    ELSE parse_msgpack_internal(in, key.pos, Append(events, KeyEvent(key.bytes)))

MoreMembers(in, value, count) ==
    IF Failed(value.events) THEN value ELSE MsgpackMembers(in, value.pos, count, value.events)

msgpack_events(in) ==
    LET read == parse_msgpack_internal(in, 0, <<>>) IN Strict(in, read, read.pos).events
from_msgpack(in) == Dom(msgpack_events(in))

-----------------------------------------------------------------------------
\* The shortest form of an integer, by sign.
write_msgpack_unsigned(w) ==
    CASE FitsUnsigned(w, 1) /\ w[8] < 128 -> Low(w, 1)
      [] FitsUnsigned(w, 1) /\ w[8] >= 128 -> <<204>> \o Low(w, 1)
      [] FitsUnsigned(w, 2) /\ ~FitsUnsigned(w, 1) -> <<205>> \o Low(w, 2)
      [] FitsUnsigned(w, 4) /\ ~FitsUnsigned(w, 2) -> <<206>> \o Low(w, 4)
      [] OTHER -> <<207>> \o w

\* Variant whose negative fixnum reaches too far down.
write_msgpack_negative_fix64(w) ==
    CASE FitsSigned(w, 1) /\ w[8] >= 192 -> Low(w, 1)
      [] FitsSigned(w, 1) /\ w[8] < 192 -> <<208>> \o Low(w, 1)
      [] FitsSigned(w, 2) /\ ~FitsSigned(w, 1) -> <<209>> \o Low(w, 2)
      [] FitsSigned(w, 4) /\ ~FitsSigned(w, 2) -> <<210>> \o Low(w, 4)
      [] OTHER -> <<211>> \o w

write_msgpack_negative(w) ==
    CASE FitsSigned(w, 1) /\ w[8] >= 224 -> Low(w, 1)
      [] FitsSigned(w, 1) /\ w[8] < 224 -> <<208>> \o Low(w, 1)
      [] FitsSigned(w, 2) /\ ~FitsSigned(w, 1) -> <<209>> \o Low(w, 2)
      [] FitsSigned(w, 4) /\ ~FitsSigned(w, 2) -> <<210>> \o Low(w, 4)
      [] OTHER -> <<211>> \o w

\* A length n: in the first byte up to limit, or after one of the prefixes
\* of 1, 2 and 4 bytes, of which arrays and maps have only the last two.
write_msgpack_length(n, limit, fix, prefixes) ==
    LET w == Word(n)
    IN  CASE n <= limit -> <<fix + n>>
          [] n > limit /\ FitsUnsigned(w, 1) /\ prefixes[1] # 0 -> <<prefixes[1]>> \o Low(w, 1)
          [] n > limit /\ FitsUnsigned(w, 2) /\ ~(FitsUnsigned(w, 1) /\ prefixes[1] # 0) ->
               <<prefixes[2]>> \o Low(w, 2)
          [] OTHER -> <<prefixes[3]>> \o Low(w, 4)

write_msgpack_binary(v) ==
    LET n == Len(Content(v))
        ext == v[3] # -1
        fixed == {i \in 0..4 : 2 ^ i = n}
    IN  (IF ext /\ fixed # {} THEN <<212 + CHOOSE i \in fixed : TRUE>>
         ELSE write_msgpack_length(n, -1, 0, IF ext THEN <<199, 200, 201>> ELSE <<196, 197, 198>>))
        \o (IF ext THEN Low(Word(v[3]), 1) ELSE <<>>) \o Content(v)

RECURSIVE write_msgpack(_), write_msgpack_object(_, _)
write_msgpack_object(v, keys) ==
    write_msgpack_length(Len(keys), 15, 128, <<0, 222, 223>>) \o
    Concat([i \in 1..Len(keys) |->
              write_msgpack(String(keys[i])) \o write_msgpack(Content(v)[keys[i]])])

write_msgpack(v) ==
    LET negative == Type(v) = "number_integer" /\ IsNegative(Content(v))
    IN  CASE Type(v) = "null" -> <<192>>
          [] Type(v) = "boolean" -> <<IF Content(v) THEN 195 ELSE 194>>
          [] negative -> write_msgpack_negative(Content(v))
          [] Type(v) \in {"number_integer", "number_unsigned"} /\ ~negative ->
               write_msgpack_unsigned(Content(v))
          [] Type(v) = "number_float" -> write_compact_float(Content(v), 202, 203)
          [] Type(v) = "string" ->
               write_msgpack_length(Len(Content(v)), 31, 160, <<217, 218, 219>>) \o Content(v)
          [] Type(v) = "binary" -> write_msgpack_binary(v)
          [] Type(v) = "array" ->
               write_msgpack_length(Len(Content(v)), 15, 144, <<0, 220, 221>>) \o
               Concat([i \in 1..Len(Content(v)) |-> write_msgpack(Content(v)[i])])
          [] Type(v) = "object" -> write_msgpack_object(v, Keys(v))
          [] OTHER -> <<>>
=============================================================================
