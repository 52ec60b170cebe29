--------------------------- MODULE JsonUbjsonWriter ---------------------------
(***************************************************************************)
(* binary_writer::write_ubjson, for UBJSON and BJData.  A format is        *)
(* [count, type, bj]: whether a container has its size, and its items'     *)
(* type, in front, and use_bjdata.                                         *)
(***************************************************************************)
EXTENDS JsonUbjson

\* The markers write_number_with_ubjson_prefix tries, in its order.
WriterMarkers(bj) ==
    IF bj THEN <<Marker.i, Marker.U, Marker.I, Marker.u, Marker.l, Marker.m, Marker.L, Marker.M>>
    ELSE <<Marker.i, Marker.U, Marker.I, Marker.l, Marker.L>>

\* Those ubjson_prefix tries: for an unsigned number there is no m.
PrefixMarkers(v, bj) ==
    SelectSeq(WriterMarkers(bj), LAMBDA c : c # Marker.m \/ Type(v) = "number_integer")

\* A number of 64 bits without a sign fits only M.
FitsMarker(v, marker) ==
    LET w == Content(v)
        n == Width[marker]
    IN  CASE Type(v) = "number_unsigned" /\ IsNegative(w) -> marker = Marker.M
          [] ~(Type(v) = "number_unsigned" /\ IsNegative(w)) /\ marker \in SignedMarkers ->
               FitsSigned(w, n)
          [] OTHER -> ~IsNegative(w) /\ FitsUnsigned(w, n)

FirstFit(v, markers) ==
    LET fit == {k \in DOMAIN markers : FitsMarker(v, markers[k])}
    IN  IF fit = {} THEN Marker.H ELSE markers[CHOOSE k \in fit : \A j \in fit : k <= j]

\* write_number_with_ubjson_prefix, for integers.  The text of a high-
\* precision number has a size of its own, which is written like a number.
RECURSIVE write_ubjson_integer(_, _, _)
write_ubjson_integer(v, addPrefix, bj) ==
    LET marker == FirstFit(v, WriterMarkers(bj))
        text == dump_integer(Content(v), Type(v) = "number_integer")
    IN  (IF addPrefix THEN <<marker>> ELSE <<>>) \o
        (IF marker = Marker.H THEN write_ubjson_integer(UnsignedInt(Word(Len(text))), TRUE, bj) \o text
         ELSE write_number(Content(v), Width[marker], bj))

UbjsonSize(n, bj) == write_ubjson_integer(UnsignedInt(Word(n)), TRUE, bj)

\* Variant that takes every integer for one of a byte.
ubjson_prefix_byte(v, bj) ==
    CASE Type(v) = "null" -> Marker.Z
      [] Type(v) = "boolean" -> IF Content(v) THEN Marker.T ELSE Marker.F
      [] Type(v) \in {"number_integer", "number_unsigned"} -> Marker.i
      [] Type(v) = "number_float" -> Marker.D
      [] Type(v) = "string" -> Marker.S
      [] Type(v) \in {"array", "binary"} -> OpenArray
      [] Type(v) = "object" -> OpenObject
      [] OTHER -> Marker.N

\* The marker of a value.
ubjson_prefix(v, bj) ==
    CASE Type(v) = "null" -> Marker.Z
      [] Type(v) = "boolean" -> IF Content(v) THEN Marker.T ELSE Marker.F
      [] Type(v) \in {"number_integer", "number_unsigned"} -> FirstFit(v, PrefixMarkers(v, bj))
      [] Type(v) = "number_float" -> Marker.D
      [] Type(v) = "string" -> Marker.S
      [] Type(v) \in {"array", "binary"} -> OpenArray
      [] Type(v) = "object" -> OpenObject
      [] OTHER -> Marker.N

\* The items of a container, in order.
Items(v) == IF IsArray(v) THEN Content(v)
            ELSE LET keys == Keys(v) IN [k \in 1..Len(keys) |-> Content(v)[keys[k]]]

\* The type in front: the marker all items share, where it may be one.
SharedPrefix(v, format) ==
    LET prefixes == {ubjson_prefix(Items(v)[k], format.bj) : k \in 1..Len(Items(v))}
        shared == CHOOSE p \in prefixes : TRUE
    IN  IF /\ format.type /\ \E p \in prefixes : prefixes = {p}
           /\ ~(format.bj /\ shared \in bjd_optimized_type_markers)
        THEN <<Dollar, shared>> ELSE <<>>

UbjsonHeader(opening, addPrefix, shared, size, format) ==
    (IF addPrefix THEN <<opening>> ELSE <<>>) \o shared \o
    (IF format.count THEN <<Hash>> \o UbjsonSize(size, format.bj) ELSE <<>>)

\* A binary is an array of bytes.
write_ubjson_binary(v, addPrefix, format) ==
    LET n == Len(Content(v))
        shared == IF format.type /\ n > 0 THEN <<Dollar, Marker.U>> ELSE <<>>
    IN  UbjsonHeader(OpenArray, addPrefix, shared, n, format) \o
        (IF format.type THEN Content(v)
         ELSE Concat([k \in 1..n |-> <<Marker.U, Content(v)[k]>>])) \o
        (IF format.count THEN <<>> ELSE <<CloseArray>>)

-----------------------------------------------------------------------------
\* What an object in JData's format says its data is.  On a type that is no
\* string and a size that is no number, which are not used here, the code throws.
NdMarker(v) ==
    LET type == Content(v)[ArrayTypeKey]
        markers == {c \in DOMAIN bjd_types_map : bjd_types_map[c] = Content(type)}
    IN  IF markers = {} THEN 0 ELSE CHOOSE c \in markers : TRUE

NdSize(v) ==
    LET dims == Items(Content(v)[ArraySizeKey])
    IN  IF dims = <<>> THEN 0 ELSE Product([k \in 1..Len(dims) |-> Size(Content(dims[k]))])

\* write_bjdata_ndarray turns the object back into an array when its type is
\* known and its data has the size it should.
IsNdarray(v) ==
    /\ DOMAIN Content(v) = {ArrayTypeKey, ArraySizeKey, ArrayDataKey}
    /\ NdMarker(v) # 0
    /\ Len(Items(Content(v)[ArrayDataKey])) = NdSize(v)

\* An item of the data is written as the type says, whatever it is.
NdItem(item, marker) ==
    CASE marker \in DOMAIN Width -> write_number(Content(item), Width[marker], TRUE)
      [] marker = Marker.C -> write_number(Content(item), 1, TRUE)
      [] marker = Marker.d -> Reverse(IeeeOf(Content(item)).single) \o <<>>
      [] marker = Marker.D -> Reverse(IeeeOf(Content(item)).double) \o <<>>

RECURSIVE write_ubjson(_, _, _), write_ubjson_object(_, _, _, _), write_bjdata_ndarray(_, _)
write_bjdata_ndarray(v, format) ==
    LET data == Items(Content(v)[ArrayDataKey])
    IN  <<OpenArray, Dollar, NdMarker(v), Hash>> \o
        write_ubjson(Content(v)[ArraySizeKey], TRUE, [format EXCEPT !.bj = TRUE]) \o
        Concat([k \in 1..Len(data) |-> NdItem(data[k], NdMarker(v))])

write_ubjson_object(v, keys, addPrefix, format) ==
    LET shared == SharedPrefix(v, format)
        member(key) == UbjsonSize(Len(key), format.bj) \o key
                       \o write_ubjson(Content(v)[key], shared = <<>>, format)
    IN  IF format.bj /\ IsNdarray(v) THEN write_bjdata_ndarray(v, format)
        ELSE UbjsonHeader(OpenObject, addPrefix, shared, Len(keys), format) \o
             Concat([k \in 1..Len(keys) |-> member(keys[k])]) \o
             (IF format.count THEN <<>> ELSE <<CloseObject>>)

write_ubjson_float(float, bj) ==
    IF bj THEN Reverse(IeeeOf(float).double) \o <<>> ELSE IeeeOf(float).double

write_ubjson(v, addPrefix, format) ==
    LET items == Items(v)
        shared == SharedPrefix(v, format)
    IN  CASE Type(v) \in {"null", "boolean"} ->
               IF addPrefix THEN <<ubjson_prefix(v, format.bj)>> ELSE <<>>
          [] Type(v) \in {"number_integer", "number_unsigned"} ->
               write_ubjson_integer(v, addPrefix, format.bj)
          [] Type(v) = "number_float" ->
               (IF addPrefix THEN <<Marker.D>> ELSE <<>>) \o write_ubjson_float(Content(v), format.bj)
          [] Type(v) = "string" ->
               (IF addPrefix THEN <<Marker.S>> ELSE <<>>)
               \o UbjsonSize(Len(Content(v)), format.bj) \o Content(v)
          [] Type(v) = "binary" -> write_ubjson_binary(v, addPrefix, format)
          [] Type(v) = "array" ->
               UbjsonHeader(OpenArray, addPrefix, shared, Len(items), format) \o
               Concat([k \in 1..Len(items) |-> write_ubjson(items[k], shared = <<>>, format)]) \o
               (IF format.count THEN <<>> ELSE <<CloseArray>>)
          [] Type(v) = "object" -> write_ubjson_object(v, Keys(v), addPrefix, format)
          [] OTHER -> <<>>

to_ubjson(v, format) == write_ubjson(v, TRUE, format)
=============================================================================
