-------------------------------- MODULE JsonCbor -------------------------------
(***************************************************************************)
(* binary_reader's CBOR functions and binary_writer::write_cbor.  The      *)
(* first byte of an item is a major type, byte \div 32, and a low part     *)
(* that is its argument or says how many bytes hold it: the cases the      *)
(* source lists one by one.                                                *)
(***************************************************************************)
EXTENDS JsonBinary

Major(c) == c \div 32
LowPart(c) == c % 32
Indefinite == 31

\* The argument of the item whose first byte is at pos.
Argument(in, pos) ==
    LET low == LowPart(At(in, pos))
        n == CASE low = 24 -> 1 [] low = 25 -> 2 [] low = 26 -> 4 [] low = 27 -> 8 [] OTHER -> 0
        number == get_number(in, pos + 1, n, FALSE)
    IN  IF low < 24 THEN [ok |-> TRUE, pos |-> pos + 1, word |-> Word(low)]
        ELSE [ok |-> low <= 27 /\ number.ok, pos |-> number.pos, word |-> Unsigned(number.bytes)]

\* The error of an item that Argument does not take: the end of the input,
\* or a byte that means nothing.
ArgumentError(in, pos) == IF LowPart(At(in, pos)) \in 28..31 THEN 112 ELSE 110

\* get_cbor_string (major 3) and get_cbor_binary (major 2): a length and the
\* bytes, or chunks up to a break.
NoBytes(pos, id) == [ok |-> FALSE, pos |-> pos, id |-> id]
OfLength(in, pos, arg) ==
    LET bytes == get_bytes(in, arg.pos, Size(arg.word))
    IN  IF arg.ok /\ bytes.ok THEN bytes ELSE NoBytes(pos, 110)

RECURSIVE get_cbor_bytes(_, _, _), CborChunks(_, _, _, _), MoreChunks(_, _, _, _)
get_cbor_bytes(in, pos, major) ==
    LET c == At(in, pos)
    IN  CASE c = EOF -> NoBytes(pos, 110)
          [] c # EOF /\ Major(c) = major /\ LowPart(c) = Indefinite ->
               CborChunks(in, pos + 1, major, <<>>)
          [] c # EOF /\ Major(c) = major /\ LowPart(c) <= 27 -> OfLength(in, pos, Argument(in, pos))
          [] OTHER -> NoBytes(pos, 113)

CborChunks(in, pos, major, acc) ==
    IF At(in, pos) = 255 THEN [ok |-> TRUE, pos |-> pos + 1, bytes |-> acc]
    ELSE MoreChunks(in, get_cbor_bytes(in, pos, major), major, acc)

MoreChunks(in, chunk, major, acc) ==
    IF chunk.ok THEN CborChunks(in, chunk.pos, major, acc \o chunk.bytes) ELSE chunk

\* Tags 6..20, and those with bytes of their own.
IsTag(c) == c \in 198..212 \cup 216..219

\* A length of all ones is what stands for no length.
Count(w) == IF w = Ones THEN -1 ELSE Size(w)

FloatWidth == (249 :> 2) @@ (250 :> 4) @@ (251 :> 8)

BinaryOf(events, bytes, subtype) ==
    IF bytes.ok THEN Value(events, bytes.pos, Binary(bytes.bytes, subtype))
    ELSE Fail(events, bytes.pos, bytes.id)

RECURSIVE parse_cbor_internal(_, _, _, _), CborItem(_, _, _, _, _),
          CborContainer(_, _, _, _, _), CborTag(_, _, _, _, _), CborItems(_, _, _, _, _),
          MoreItems(_, _, _, _), CborMembers(_, _, _, _, _), Member(_, _, _, _),
          MoreMembers(_, _, _, _)

\* An item at pos, by its first byte.
parse_cbor_internal(in, pos, tags, events) == CborItem(in, pos, tags, events, Argument(in, pos))

\* Majors 0 and 1: n, and -1 - n, which is ~n.
CborInteger(in, pos, events, arg) ==
    CASE ~arg.ok -> Fail(events, pos, ArgumentError(in, pos))
      [] arg.ok /\ Major(At(in, pos)) = 0 -> Value(events, arg.pos, UnsignedInt(arg.word))
      [] OTHER -> Value(events, arg.pos, Integer(Complement(arg.word)))

\* Majors 2 and 3.
CborBytes(in, pos, events) ==
    CASE LowPart(At(in, pos)) \in 28..30 -> Fail(events, pos, 112)
      [] LowPart(At(in, pos)) \notin 28..30 /\ Major(At(in, pos)) = 2 ->
           BinaryOf(events, get_cbor_bytes(in, pos, 2), -1)
      [] OTHER -> StringAfter(events, get_cbor_bytes(in, pos, 3))

\* Majors 4 and 5.
CborContainer(in, pos, tags, events, arg) ==
    LET indefinite == LowPart(At(in, pos)) = Indefinite
        count == IF indefinite THEN -1 ELSE Count(arg.word)
        start == IF indefinite THEN pos + 1 ELSE arg.pos
    IN  CASE ~indefinite /\ ~arg.ok -> Fail(events, pos, ArgumentError(in, pos))
          [] (indefinite \/ arg.ok) /\ Major(At(in, pos)) = 4 ->
               CborItems(in, start, count, tags, Append(events, StartArray))
          [] OTHER -> CborMembers(in, start, count, tags, Append(events, StartObject))

\* A tag is an error, or skipped, or with bytes of its own the subtype of a
\* binary.
CborTag(in, pos, tags, events, arg) ==
    LET ofSubtype == tags = "store" /\ At(in, pos) >= 216
    IN  CASE tags = "error" -> Fail(events, pos, 112)
          [] tags # "error" /\ ~ofSubtype -> parse_cbor_internal(in, arg.pos, tags, events)
          [] OTHER ->
               IF arg.ok THEN BinaryOf(events, get_cbor_bytes(in, arg.pos, 2), Size(arg.word))
               ELSE Fail(events, pos, 110)

CborItem(in, pos, tags, events, arg) ==
    LET c == At(in, pos)
    IN  CASE c = EOF -> Fail(events, pos, 110)
          [] c \in 0..63 -> CborInteger(in, pos, events, arg)
          [] c \in 64..127 -> CborBytes(in, pos, events)
          [] c \in 128..191 -> CborContainer(in, pos, tags, events, arg)
          [] IsTag(c) -> CborTag(in, pos, tags, events, arg)
          [] c \in {244, 245} -> Value(events, pos + 1, Boolean(c = 245))
          [] c = 246 -> Value(events, pos + 1, Null)
          [] c \in DOMAIN FloatWidth ->
               FloatAfter(events, get_number(in, pos + 1, FloatWidth[c], FALSE))
          [] OTHER -> Fail(events, pos, 112)

\* get_cbor_array: count items, or items up to a break when it is -1.
CborItems(in, pos, count, tags, events) ==
    CASE count = 0 -> Done(Append(events, EndArray), pos)
      [] count = -1 /\ At(in, pos) = 255 -> Done(Append(events, EndArray), pos + 1)
      [] OTHER -> MoreItems(in, parse_cbor_internal(in, pos, tags, events), count, tags)

Left(count) == IF count = -1 THEN -1 ELSE count - 1
MoreItems(in, item, count, tags) ==
    IF Failed(item.events) THEN item ELSE CborItems(in, item.pos, Left(count), tags, item.events)

\* get_cbor_object: the same for keys, which are strings, and values.
CborMembers(in, pos, count, tags, events) ==
    CASE count = 0 -> Done(Append(events, EndObject), pos)
      [] count = -1 /\ At(in, pos) = 255 -> Done(Append(events, EndObject), pos + 1)
      [] OTHER -> MoreMembers(in, Member(in, get_cbor_bytes(in, pos, 3), tags, events), count, tags)

Member(in, key, tags, events) ==
    IF ~key.ok THEN Fail(events, key.pos, key.id)
    ELSE parse_cbor_internal(in, key.pos, tags, Append(events, KeyEvent(key.bytes)))

MoreMembers(in, value, count, tags) ==
    IF Failed(value.events) THEN value
    ELSE CborMembers(in, value.pos, Left(count), tags, value.events)

cbor_events(in, tags) ==
    LET read == parse_cbor_internal(in, 0, tags, <<>>) IN Strict(in, read, read.pos).events
from_cbor(in, tags) == Dom(cbor_events(in, tags))

-----------------------------------------------------------------------------
\* Variant with an off-by-one: 24 is taken for an argument of the byte.
write_argument_off_by_one(major, w) ==
    CASE FitsUnsigned(w, 1) /\ w[8] <= 24 -> <<major * 32 + w[8]>>
      [] FitsUnsigned(w, 1) /\ w[8] > 24 -> <<major * 32 + 24>> \o Low(w, 1)
      [] FitsUnsigned(w, 2) /\ ~FitsUnsigned(w, 1) -> <<major * 32 + 25>> \o Low(w, 2)
      [] FitsUnsigned(w, 4) /\ ~FitsUnsigned(w, 2) -> <<major * 32 + 26>> \o Low(w, 4)
      [] OTHER -> <<major * 32 + 27>> \o w

\* The shortest first bytes for an argument.
write_argument(major, w) ==
    CASE FitsUnsigned(w, 1) /\ w[8] < 24 -> <<major * 32 + w[8]>>
      [] FitsUnsigned(w, 1) /\ w[8] >= 24 -> <<major * 32 + 24>> \o Low(w, 1)
      [] FitsUnsigned(w, 2) /\ ~FitsUnsigned(w, 1) -> <<major * 32 + 25>> \o Low(w, 2)
      [] FitsUnsigned(w, 4) /\ ~FitsUnsigned(w, 2) -> <<major * 32 + 26>> \o Low(w, 4)
      [] OTHER -> <<major * 32 + 27>> \o w

\* The tag of a subtype: never one of the byte itself.
write_subtype(subtype) ==
    LET w == Word(subtype)
    IN  CASE subtype = -1 -> <<>>
          [] subtype # -1 /\ FitsUnsigned(w, 1) -> <<216>> \o Low(w, 1)
          [] subtype # -1 /\ ~FitsUnsigned(w, 1) /\ FitsUnsigned(w, 2) -> <<217>> \o Low(w, 2)
          [] OTHER -> <<218>> \o Low(w, 4)

write_cbor_float(float) ==
    CASE float = NaN -> <<249, 126, 0>>
      [] float # NaN /\ ~IsFinite(float) -> <<249, IF float.neg THEN 252 ELSE 124, 0>>
      [] OTHER -> write_compact_float(float, 250, 251)

RECURSIVE write_cbor(_), write_cbor_array(_), write_cbor_object(_, _)
write_cbor_binary(v) ==
    write_subtype(v[3]) \o write_argument(2, Word(Len(Content(v)))) \o Content(v)

write_cbor_array(v) ==
    write_argument(4, Word(Len(Content(v)))) \o
    Concat([i \in 1..Len(Content(v)) |-> write_cbor(Content(v)[i])])

write_cbor_object(v, keys) ==
    write_argument(5, Word(Len(keys))) \o
    Concat([i \in 1..Len(keys) |->
              write_cbor(String(keys[i])) \o write_cbor(Content(v)[keys[i]])])

write_cbor(v) ==
    LET negative == Type(v) = "number_integer" /\ IsNegative(Content(v))
    IN  CASE Type(v) = "null" -> <<246>>
          [] Type(v) = "boolean" -> <<IF Content(v) THEN 245 ELSE 244>>
          [] negative -> write_argument(1, Complement(Content(v)))
          [] Type(v) \in {"number_integer", "number_unsigned"} /\ ~negative ->
               write_argument(0, Content(v))
          [] Type(v) = "number_float" -> write_cbor_float(Content(v))
          [] Type(v) = "string" -> write_argument(3, Word(Len(Content(v)))) \o Content(v)
          [] Type(v) = "binary" -> write_cbor_binary(v)
          [] Type(v) = "array" -> write_cbor_array(v)
          [] Type(v) = "object" -> write_cbor_object(v, Keys(v))
          [] OTHER -> <<>>
=============================================================================
