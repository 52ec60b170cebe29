------------------------------- MODULE JsonBinary -----------------------------
(***************************************************************************)
(* What binary_reader and binary_writer share for CBOR, MessagePack,       *)
(* UBJSON, BJData and BSON.  A reader turns bytes into the SAX events that *)
(* json_sax_dom_parser takes; it has done its events and reached pos, and  *)
(* after an error, the last event, it reads no further (parse_error        *)
(* throws).                                                                *)
(***************************************************************************)
EXTENDS JsonValue

CONSTANT
    Ieee        \* external: what IEEE 754 makes of the doubles in use, a set
                \* of records [float, half, single, double]; half and single
                \* are empty for a double they cannot hold.

Done(events, pos) == [events |-> events, pos |-> pos]
Fail(events, pos, id) == Done(Append(events, ErrorEvent(id)), pos)
Value(events, pos, v) == Done(Append(events, ValueEvent(v)), pos)

\* get_number: n bytes as a number; big endian unless the format is little.
\* unexpect_eof makes a number that is cut short an error.
get_number(in, pos, n, little) ==
    LET bytes == Bytes(in, pos, n)
    IN  [ok |-> Len(bytes) = n, pos |-> pos + n,
         bytes |-> IF little THEN Reverse(bytes) \o <<>> ELSE bytes]

\* get_string and get_binary: len bytes, or a string that is cut short.
get_bytes(in, pos, len) ==
    [ok |-> pos + len <= Len(in), pos |-> pos + len, bytes |-> Bytes(in, pos, len)]

write_number(w, n, little) == IF little THEN Reverse(Low(w, n)) \o <<>> ELSE Low(w, n)

\* External: the double of IEEE 754 bytes, and back.
FloatOf(bytes) ==
    LET with == {f \in Ieee : bytes \in {f.half, f.single, f.double}}
    IN  IF with = {} THEN NaN ELSE (CHOOSE f \in with : TRUE).float
IeeeOf(float) == CHOOSE f \in Ieee : f.float = float

\* What a reader makes of a number that is a double, and of a string.
FloatAfter(events, number) ==
    IF number.ok THEN Value(events, number.pos, Float(FloatOf(number.bytes)))
    ELSE Fail(events, number.pos, 110)
StringAfter(events, string) ==
    IF string.ok THEN Value(events, string.pos, String(string.bytes))
    ELSE Fail(events, string.pos, string.id)

\* write_compact_float: four bytes for a double a float can hold.
write_compact_float(float, singlePrefix, doublePrefix) ==
    LET f == IeeeOf(float)
    IN  IF f.single # <<>> /\ IsFinite(float) THEN <<singlePrefix>> \o f.single
        ELSE <<doublePrefix>> \o f.double

\* Concatenation of what a writer wrote for each part.
RECURSIVE Concat(_)
Concat(parts) == IF parts = <<>> THEN <<>> ELSE Head(parts) \o Concat(Tail(parts))

\* from_cbor and its like in strict mode: nothing may follow the value.
Strict(in, read, end) ==
    IF ~Failed(read.events) /\ end < Len(in) THEN Fail(read.events, end, 110) ELSE read
=============================================================================
