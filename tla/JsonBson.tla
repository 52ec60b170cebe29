-------------------------------- MODULE JsonBson -------------------------------
(***************************************************************************)
(* binary_reader's BSON functions and binary_writer::write_bson.  A        *)
(* document is its size, elements, and a zero byte; an element is a type,  *)
(* a name that ends in a zero byte, and a value.  The reader does not look *)
(* at the sizes the writer calculates.                                     *)
(***************************************************************************)
EXTENDS JsonBinary, JsonSerializer

\* get_bson_cstr: the position of the zero byte of the name that starts at
\* pos, or -1.
NameEnd(in, pos) ==
    LET zeros == {p \in pos..Len(in) - 1 : At(in, p) = 0}
    IN  IF zeros = {} THEN -1 ELSE CHOOSE p \in zeros : \A q \in zeros : p <= q

\* A length of four bytes; it has a sign.
bson_length(in, pos) ==
    LET number == get_number(in, pos, 4, TRUE)
        w == Signed(number.bytes)
    IN  [ok |-> number.ok, pos |-> number.pos, negative |-> IsNegative(w), size |-> Size(w)]

\* get_bson_string: its zero byte, whatever it is, must be there: if not,
\* the reader gives up without a parse error, which is error 0 here.
get_bson_string(in, pos, events) ==
    LET length == bson_length(in, pos)
        string == get_bytes(in, length.pos, length.size - 1)
    IN  CASE ~length.ok -> Fail(events, pos, 110)
          [] length.ok /\ (length.negative \/ length.size = 0) -> Fail(events, length.pos, 112)
          [] length.ok /\ ~length.negative /\ length.size > 0 /\ ~string.ok -> Fail(events, pos, 110)
          [] OTHER -> IF string.pos < Len(in)
                      THEN Value(events, string.pos + 1, String(string.bytes))
                      ELSE Fail(events, string.pos, 0)

\* get_bson_binary: a byte of subtype between the length and the bytes.
get_bson_binary(in, pos, events) ==
    LET length == bson_length(in, pos)
        bytes == get_bytes(in, length.pos + 1, length.size)
    IN  CASE ~length.ok -> Fail(events, pos, 110)
          [] length.ok /\ length.negative -> Fail(events, length.pos, 112)
          [] length.ok /\ ~length.negative /\ ~bytes.ok -> Fail(events, pos, 110)
          [] OTHER -> Value(events, bytes.pos, Binary(bytes.bytes, At(in, length.pos)))

NumberSize == (1 :> 8) @@ (16 :> 4) @@ (18 :> 8)

\* A double, and integers of two sizes.
bson_number(type, number, pos, events) ==
    CASE ~number.ok -> Fail(events, pos, 110)
      [] number.ok /\ type = 1 -> Value(events, number.pos, Float(FloatOf(number.bytes)))
      [] OTHER -> Value(events, number.pos, Integer(Signed(number.bytes)))

RECURSIVE parse_bson_document(_, _, _, _), parse_bson_element_list(_, _, _, _),
          NextElement(_, _, _), parse_bson_element_internal(_, _, _, _)

EndDocument(list, isArray) ==
    IF Failed(list.events) THEN list
    ELSE Done(Append(list.events, IF isArray THEN EndArray ELSE EndObject), list.pos)

\* parse_bson_internal and parse_bson_array.
parse_bson_document(in, pos, isArray, events) ==
    LET started == Append(events, IF isArray THEN StartArray ELSE StartObject)
    IN  IF pos + 4 > Len(in) THEN Fail(events, pos, 110)
        ELSE EndDocument(parse_bson_element_list(in, pos + 4, isArray, started), isArray)

\* The names of an array's elements are not looked at.
parse_bson_element_list(in, pos, isArray, events) ==
    LET type == At(in, pos)
        end == NameEnd(in, pos + 1)
        keyed == IF isArray THEN events
                 ELSE Append(events, KeyEvent(Bytes(in, pos + 1, end - pos - 1)))
    IN  CASE type = 0 -> Done(events, pos + 1)
          [] type # 0 /\ (type = EOF \/ end = -1) -> Fail(events, pos, 110)
          [] OTHER -> NextElement(in, parse_bson_element_internal(in, end + 1, type, keyed), isArray)

NextElement(in, element, isArray) ==
    IF Failed(element.events) THEN element
    ELSE parse_bson_element_list(in, element.pos, isArray, element.events)

parse_bson_element_internal(in, pos, type, events) ==
    CASE type \in DOMAIN NumberSize ->
           bson_number(type, get_number(in, pos, NumberSize[type], TRUE), pos, events)
      [] type = 2 -> get_bson_string(in, pos, events)
      [] type \in {3, 4} -> parse_bson_document(in, pos, type = 4, events)
      [] type = 5 -> get_bson_binary(in, pos, events)
      [] type = 8 -> Value(events, pos + 1, Boolean(At(in, pos) # 0))
      [] type = 10 -> Value(events, pos, Null)
      [] OTHER -> Fail(events, pos, 114)

bson_events(in) ==
    LET read == parse_bson_document(in, 0, FALSE, <<>>) IN Strict(in, read, read.pos).events
from_bson(in) == Dom(bson_events(in))

-----------------------------------------------------------------------------
\* The elements of a document: members of an object by key, or items of an
\* array by index.
BsonElements(v) ==
    LET keys == Keys(v)
    IN  IF IsObject(v)
        THEN [i \in 1..Len(keys) |-> [name |-> keys[i], value |-> Content(v)[keys[i]]]]
        ELSE [i \in 1..Len(Content(v)) |->
                [name |-> Digits(Word(i - 1)), value |-> Content(v)[i]]]

\* An int32 when the number is one, by the type it has.
IsInt32(v) == /\ FitsSigned(Content(v), 4)
              /\ Type(v) = "number_unsigned" => ~IsNegative(Content(v))

\* calc_bson_object_size, calc_bson_array_size and calc_bson_element_size.
RECURSIVE calc_bson_size(_), calc_bson_element_size(_, _), calc_bson_elements(_)
calc_bson_size(v) == 4 + calc_bson_elements(BsonElements(v)) + 1

calc_bson_elements(elements) ==
    IF elements = <<>> THEN 0
    ELSE calc_bson_element_size(elements[1].name, elements[1].value) +
         calc_bson_elements(Tail(elements))

\* Variant that forgets the zero byte a string ends in.
calc_bson_element_size_no_zero(name, v) ==
    1 + Len(name) + 1 +
    CASE IsStructured(v) -> calc_bson_size(v)
      [] Type(v) = "binary" -> 4 + Len(Content(v)) + 1
      [] Type(v) = "string" -> 4 + Len(Content(v))
      [] Type(v) = "boolean" -> 1
      [] Type(v) = "number_float" -> 8
      [] Type(v) \in {"number_integer", "number_unsigned"} -> IF IsInt32(v) THEN 4 ELSE 8
      [] Type(v) = "null" -> 0

calc_bson_element_size(name, v) ==
    1 + Len(name) + 1 +
    CASE IsStructured(v) -> calc_bson_size(v)
      [] Type(v) \in {"binary", "string"} -> 4 + Len(Content(v)) + 1
      [] Type(v) = "boolean" -> 1
      [] Type(v) = "number_float" -> 8
      [] Type(v) \in {"number_integer", "number_unsigned"} -> IF IsInt32(v) THEN 4 ELSE 8
      [] Type(v) = "null" -> 0

BsonLength(n) == write_number(Word(n), 4, TRUE)
BsonType(v) ==
    CASE Type(v) = "number_float" -> 1 [] Type(v) = "string" -> 2 [] Type(v) = "object" -> 3
      [] Type(v) = "array" -> 4 [] Type(v) = "binary" -> 5 [] Type(v) = "boolean" -> 8
      [] Type(v) = "null" -> 10
      [] Type(v) \in {"number_integer", "number_unsigned"} -> IF IsInt32(v) THEN 16 ELSE 18

RECURSIVE write_bson_document(_), write_bson_element(_, _)
write_bson_document(v) ==
    LET elements == BsonElements(v)
    IN  BsonLength(calc_bson_size(v)) \o
        Concat([i \in 1..Len(elements) |-> write_bson_element(elements[i].name, elements[i].value)])
        \o <<0>>

write_bson_element(name, v) ==
    <<BsonType(v)>> \o name \o <<0>> \o
    CASE IsStructured(v) -> write_bson_document(v)
      [] Type(v) = "binary" ->
           BsonLength(Len(Content(v))) \o <<IF v[3] = -1 THEN 0 ELSE Low(Word(v[3]), 1)[1]>> \o Content(v)
      [] Type(v) = "boolean" -> <<IF Content(v) THEN 1 ELSE 0>>
      [] Type(v) = "number_float" -> Reverse(IeeeOf(Content(v)).double) \o <<>>
      [] Type(v) \in {"number_integer", "number_unsigned"} ->
           write_number(Content(v), IF IsInt32(v) THEN 4 ELSE 8, TRUE)
      [] Type(v) = "string" -> BsonLength(Len(Content(v)) + 1) \o Content(v) \o <<0>>
      [] Type(v) = "null" -> <<>>

RECURSIVE ZeroInKey(_), TooLarge(_)
ZeroInKey(v) == \/ IsObject(v) /\ \E k \in DOMAIN Content(v) : 0 \in {k[i] : i \in DOMAIN k}
                \/ IsStructured(v) /\ \E k \in DOMAIN Content(v) : ZeroInKey(Content(v)[k])
TooLarge(v) == \/ Type(v) = "number_unsigned" /\ IsNegative(Content(v))
               \/ IsStructured(v) /\ \E k \in DOMAIN Content(v) : TooLarge(Content(v)[k])

\* write_bson: the bytes, or the error it throws.
write_bson(v) ==
    CASE ~IsObject(v) -> [ok |-> FALSE, id |-> 317]
      [] IsObject(v) /\ ZeroInKey(v) -> [ok |-> FALSE, id |-> 409]
      [] IsObject(v) /\ ~ZeroInKey(v) /\ TooLarge(v) -> [ok |-> FALSE, id |-> 407]
      [] OTHER -> [ok |-> TRUE, out |-> write_bson_document(v)]
=============================================================================
