------------------------------ MODULE JsonUbjson ------------------------------
(***************************************************************************)
(* binary_reader's and binary_writer's UBJSON and BJData functions; bj is  *)
(* input_format == bjdata, and use_bjdata.  A value is a marker, a letter, *)
(* and what it announces.  pos is the position after the bytes consumed.   *)
(***************************************************************************)
EXTENDS JsonBinary, JsonLexer, JsonSerializer

\* The markers by their letters.
Marker == [T |-> 84, F |-> 70, Z |-> 90, N |-> 78, U |-> 85, i |-> 105, I |-> 73, u |-> 117,
           l |-> 108, m |-> 109, L |-> 76, M |-> 77, h |-> 104, d |-> 100, D |-> 68, H |-> 72,
           C |-> 67, S |-> 83]
OpenArray == 91
CloseArray == 93
OpenObject == 123
CloseObject == 125
Dollar == 36
Hash == 35

\* The integers by marker: the bytes of each, and whether they have a sign.
Width == (Marker.i :> 1) @@ (Marker.U :> 1) @@ (Marker.I :> 2) @@ (Marker.u :> 2)
         @@ (Marker.l :> 4) @@ (Marker.m :> 4) @@ (Marker.L :> 8) @@ (Marker.M :> 8)
SignedMarkers == {Marker.i, Marker.I, Marker.l, Marker.L}
BjdataMarkers == {Marker.u, Marker.m, Marker.M}
IntegerMarkers(bj) == DOMAIN Width \ (IF bj THEN {} ELSE BjdataMarkers)

get_ubjson_integer(in, pos, marker, bj) ==
    LET number == get_number(in, pos, Width[marker], bj)
    IN  [ok |-> number.ok, pos |-> number.pos,
         word |-> IF marker \in SignedMarkers THEN Signed(number.bytes) ELSE Unsigned(number.bytes)]

\* get_ignore_noop: the position of the next byte that is not N.
RECURSIVE SkipNoop(_, _)
SkipNoop(in, pos) == IF At(in, pos) = Marker.N THEN SkipNoop(in, pos + 1) ELSE pos

\* get_ubjson_string, its length's marker at pos.  A negative length is
\* that of an empty string.
get_ubjson_string(in, pos, bj) ==
    LET c == At(in, pos)
        length == get_ubjson_integer(in, pos + 1, c, bj)
        negative == c \in SignedMarkers /\ IsNegative(length.word)
        string == get_bytes(in, length.pos, IF negative THEN 0 ELSE Size(length.word))
        failed(id) == [ok |-> FALSE, pos |-> pos, id |-> id]
    IN  CASE c = EOF -> failed(110)
          [] c # EOF /\ c \notin IntegerMarkers(bj) -> failed(113)
          [] OTHER -> IF length.ok /\ string.ok THEN string ELSE failed(110)

-----------------------------------------------------------------------------
\* The size and the type of a container, with the events so far: size -1 is
\* npos, type 0 is none; nd says that the size is that of an n-dimensional
\* array, whose dimensions are events already.
SizeType(events, pos, size, type, nd) ==
    [events |-> events, pos |-> pos, size |-> size, type |-> type, nd |-> nd]
SizeFails(events, pos, id) == SizeType(Append(events, ErrorEvent(id)), pos, 0, 0, FALSE)

\* No input holds the items of a product beyond MaxSize, whether or not it
\* overflows.
RECURSIVE Product(_)
Product(dim) == IF dim = <<>> THEN 1
                ELSE LET p == Head(dim) * Product(Tail(dim))
                     IN  IF p > MaxSize THEN MaxSize + 1 ELSE p

\* What the dimensions of an array make of its size: a plain array when
\* there is only one or the first of two is 1, an empty one when there are
\* none or one is 0, and an object in JData's format otherwise.
ArraySizeKey == Ascii("_ArraySize_")
ArrayTypeKey == Ascii("_ArrayType_")
ArrayDataKey == Ascii("_ArrayData_")

Dimensions(list) ==
    LET dim == list.dim
        n == Len(dim)
        values == [k \in 1..n |-> ValueEvent(UnsignedInt(Word(dim[k])))]
    IN  CASE Failed(list.events) -> list
          [] ~Failed(list.events) /\ (n = 1 \/ (n = 2 /\ dim[1] = 1)) ->
               SizeType(list.events, list.pos, dim[n], 0, FALSE)
          [] ~Failed(list.events) /\ (n = 0 \/ (n > 1 /\ ~(n = 2 /\ dim[1] = 1) /\ 0 \in {dim[k] : k \in 1..n})) ->
               SizeType(list.events, list.pos, 0, 0, FALSE)
          [] OTHER ->
               SizeType(list.events \o <<StartObject, KeyEvent(ArraySizeKey), StartArray>>
                        \o values \o <<EndArray>>, list.pos, Product(dim), 0, TRUE)

IntegerSize(events, pos, number, signed) ==
    CASE ~number.ok -> SizeFails(events, pos, 110)
      [] number.ok /\ signed /\ IsNegative(number.word) -> SizeFails(events, number.pos, 113)
      [] OTHER -> SizeType(events, number.pos, Size(number.word), 0, FALSE)

RECURSIVE get_ubjson_size_value(_, _, _, _, _, _), get_ubjson_ndarray_size(_, _),
          DimensionList(_, _, _, _, _, _), NextDimension(_, _, _, _, _),
          get_ubjson_size_type(_, _, _, _, _)

\* The size at pos, whose marker is prefix; canNest is FALSE where an array
\* of dimensions may not be one.
get_ubjson_size_value(in, pos, prefix, bj, canNest, events) ==
    CASE prefix \in IntegerMarkers(bj) ->
           IntegerSize(events, pos, get_ubjson_integer(in, pos, prefix, bj), prefix \in SignedMarkers)
      [] prefix = OpenArray /\ bj /\ canNest ->
           Dimensions(get_ubjson_ndarray_size(in, get_ubjson_size_type(in, pos, TRUE, TRUE, events)))
      [] OTHER -> SizeFails(events, pos, 113)

\* The dimensions after their size and type: a typed list, a counted one, or
\* one up to ].
get_ubjson_ndarray_size(in, st) ==
    CASE Failed(st.events) -> st
      [] ~Failed(st.events) /\ st.size # -1 /\ st.type = Marker.N ->
           [events |-> st.events, pos |-> st.pos, dim |-> <<>>]
      [] OTHER -> DimensionList(in, st.pos, st.size, st.type, st.events, <<>>)

\* A count of -1 is a list up to ].
DimensionList(in, pos, count, type, events, dim) ==
    LET start == SkipNoop(in, pos)
        marker == IF type # 0 THEN type ELSE At(in, start)
        from == IF type # 0 THEN pos ELSE start + 1
    IN  CASE count = 0 -> [events |-> events, pos |-> pos, dim |-> dim]
          [] count = -1 /\ marker = CloseArray ->
               [events |-> events, pos |-> start + 1, dim |-> dim]
          [] OTHER -> NextDimension(in, get_ubjson_size_value(in, from, marker, TRUE, FALSE, events),
                                    IF count = -1 THEN -1 ELSE count - 1, type, dim)

NextDimension(in, size, count, type, dim) ==
    IF Failed(size.events) THEN size
    ELSE DimensionList(in, size.pos, count, type, size.events, Append(dim, size.size))

\* The types BJData does not let a container have.
bjd_optimized_type_markers ==
    {Marker.F, Marker.H, Marker.N, Marker.S, Marker.T, Marker.Z, OpenArray, OpenObject}

\* The size of a container of a type; an array with dimensions needs one,
\* and cannot be one of dimensions.
Sized(size, type, insideNdarray) ==
    IF size.nd /\ (type = 0 \/ insideNdarray) THEN SizeFails(size.events, size.pos, 112)
    ELSE [events |-> size.events, pos |-> size.pos, size |-> size.size, type |-> type, nd |-> size.nd]

\* $ and a type, then # and a size, or only a size, or neither.
get_ubjson_size_type(in, pos, bj, insideNdarray, events) ==
    LET start == SkipNoop(in, pos)
        typed == At(in, start) = Dollar
        type == IF typed THEN At(in, start + 1) ELSE 0
        hash == IF typed THEN SkipNoop(in, start + 2) ELSE start
        sizeAt == SkipNoop(in, hash + 1)
        failed(id) == SizeFails(events, start, id)
    IN  CASE bj /\ type \in bjd_optimized_type_markers -> failed(112)
          [] ~(bj /\ type \in bjd_optimized_type_markers) /\ At(in, hash) = Hash /\ type # EOF ->
               Sized(get_ubjson_size_value(in, sizeAt + 1, At(in, sizeAt), bj, TRUE, events),
                     type, insideNdarray)
          [] OTHER -> IF ~typed THEN SizeType(events, start, -1, 0, FALSE)
                      ELSE IF type = EOF \/ At(in, hash) = EOF THEN failed(110) ELSE failed(112)

-----------------------------------------------------------------------------
\* get_ubjson_high_precision_number: the text of a number, after its size.
NumberOf(events, pos, tokens) ==
    LET number == tokens[1]
    IN  CASE Len(tokens) # 2 \/ tokens[2].type # "end_of_input" -> Fail(events, pos, 115)
          [] number.type = "value_integer" -> Value(events, pos, Integer(number.word))
          [] number.type = "value_unsigned" -> Value(events, pos, UnsignedInt(number.word))
          [] number.type = "value_float" -> Value(events, pos, Float(number.float))
          [] OTHER -> Fail(events, pos, 115)

NumberText(in, size) ==
    LET text == get_bytes(in, size.pos, size.size)
    IN  CASE Failed(size.events) -> size
          [] ~Failed(size.events) /\ ~text.ok -> Fail(size.events, size.pos, 110)
          [] OTHER -> NumberOf(size.events, text.pos, Tokens(text.bytes))

HighPrecision(in, pos, bj, events) ==
    LET sizeAt == SkipNoop(in, pos)
    IN  NumberText(in, get_ubjson_size_value(in, sizeAt + 1, At(in, sizeAt), bj, FALSE, events))

\* What a BJData array with dimensions holds, by its type.
bjd_types_map ==
    (Marker.C :> Ascii("char")) @@ (Marker.D :> Ascii("double")) @@ (Marker.I :> Ascii("int16"))
    @@ (Marker.L :> Ascii("int64")) @@ (Marker.M :> Ascii("uint64")) @@ (Marker.U :> Ascii("uint8"))
    @@ (Marker.d :> Ascii("single")) @@ (Marker.i :> Ascii("int8")) @@ (Marker.l :> Ascii("int32"))
    @@ (Marker.m :> Ascii("uint32")) @@ (Marker.u :> Ascii("uint16"))

RECURSIVE get_ubjson_value(_, _, _, _, _), UbjsonItems(_, _, _, _, _, _),
          MoreItems(_, _, _, _, _), UbjsonMembers(_, _, _, _, _, _),
          MoreMembers(_, _, _, _, _), Member(_, _, _, _, _),
          get_ubjson_array(_, _, _), get_ubjson_object(_, _, _)

FloatWidth == (Marker.h :> 2) @@ (Marker.d :> 4) @@ (Marker.D :> 8)

IntegerOf(events, pos, number, signed) ==
    CASE ~number.ok -> Fail(events, pos, 110)
      [] number.ok /\ signed -> Value(events, number.pos, Integer(number.word))
      [] OTHER -> Value(events, number.pos, UnsignedInt(number.word))

\* The value whose marker is prefix, from pos.
get_ubjson_value(in, pos, prefix, bj, events) ==
    LET char == At(in, pos)
        failed(id) == Fail(events, pos, id)
    IN  CASE prefix = EOF -> failed(110)
          [] prefix \in {Marker.T, Marker.F} -> Value(events, pos, Boolean(prefix = Marker.T))
          [] prefix = Marker.Z -> Value(events, pos, Null)
          [] prefix \in IntegerMarkers(bj) ->
               IntegerOf(events, pos, get_ubjson_integer(in, pos, prefix, bj), prefix \in SignedMarkers)
          [] prefix \in {Marker.d, Marker.D} \/ (prefix = Marker.h /\ bj) ->
               FloatAfter(events, get_number(in, pos, FloatWidth[prefix], bj))
          [] prefix = Marker.H -> HighPrecision(in, pos, bj, events)
          [] prefix = Marker.C ->
               IF char = EOF THEN failed(110) ELSE IF char > 127 THEN failed(113)
               ELSE Value(events, pos + 1, String(<<char>>))
          [] prefix = Marker.S -> StringAfter(events, get_ubjson_string(in, pos, bj))
          [] prefix = OpenArray ->
               get_ubjson_array(in, get_ubjson_size_type(in, pos, bj, FALSE, events), bj)
          [] prefix = OpenObject ->
               get_ubjson_object(in, get_ubjson_size_type(in, pos, bj, FALSE, events), bj)
          [] OTHER -> failed(112)

\* count items of a type, or of any when it is 0, and the events at the end;
\* a count of -1 is up to ].
UbjsonItems(in, st, count, type, bj, end) ==
    LET start == SkipNoop(in, st.pos)
        pos == IF type = 0 THEN start + 1 ELSE st.pos
        marker == IF type = 0 THEN At(in, start) ELSE type
    IN  CASE count = 0 -> Done(st.events \o end, st.pos)
          [] count = -1 /\ At(in, start) = CloseArray -> Done(st.events \o end, start + 1)
          [] OTHER -> MoreItems(in, get_ubjson_value(in, pos, marker, bj, st.events), 
                                [count |-> IF count = -1 THEN -1 ELSE count - 1, type |-> type], bj, end)

MoreItems(in, item, left, bj, end) ==
    IF Failed(item.events) THEN item ELSE UbjsonItems(in, item, left.count, left.type, bj, end)

\* Items of type N are none.  The data of an array with dimensions is a
\* member of the object that get_ubjson_size_value started.
get_ubjson_array(in, st, bj) ==
    LET start == IF st.nd THEN <<KeyEvent(ArrayTypeKey), ValueEvent(String(bjd_types_map[st.type])),
                                 KeyEvent(ArrayDataKey), StartArray>>
                 ELSE <<StartArray>>
        end == IF st.nd THEN <<EndArray, EndObject>> ELSE <<EndArray>>
        count == IF ~st.nd /\ st.size # -1 /\ st.type = Marker.N THEN 0 ELSE st.size
        type == IF st.nd /\ st.type = Marker.C THEN Marker.U ELSE st.type
    IN  CASE Failed(st.events) -> st
          [] ~Failed(st.events) /\ st.nd /\ st.type \notin DOMAIN bjd_types_map ->
               Fail(st.events, st.pos, 112)
          [] OTHER -> UbjsonItems(in, Done(st.events \o start, st.pos), count, type, bj, end)

\* The same for keys and values.  Before a key only the reader of a list up
\* to } skips N: get_ubjson_string does not.
UbjsonMembers(in, pos, count, type, bj, events) ==
    LET start == IF count = -1 THEN SkipNoop(in, pos) ELSE pos
    IN  CASE count = 0 -> Done(Append(events, EndObject), pos)
          [] count = -1 /\ At(in, start) = CloseObject -> Done(Append(events, EndObject), start + 1)
          [] OTHER -> MoreMembers(in, Member(in, get_ubjson_string(in, start, bj), type, bj, events),
                                  IF count = -1 THEN -1 ELSE count - 1, type, bj)

Member(in, key, type, bj, events) ==
    LET keyed == Append(events, KeyEvent(key.bytes))
        marker == SkipNoop(in, key.pos)
    IN  IF ~key.ok THEN Fail(events, key.pos, key.id)
        ELSE get_ubjson_value(in, IF type = 0 THEN marker + 1 ELSE key.pos,
                              IF type = 0 THEN At(in, marker) ELSE type, bj, keyed)

MoreMembers(in, value, count, type, bj) ==
    IF Failed(value.events) THEN value
    ELSE UbjsonMembers(in, value.pos, count, type, bj, value.events)

get_ubjson_object(in, st, bj) ==
    CASE Failed(st.events) -> st
      [] ~Failed(st.events) /\ st.nd -> Fail(st.events, st.pos, 112)
      [] OTHER -> UbjsonMembers(in, st.pos, st.size, st.type, bj, Append(st.events, StartObject))

\* from_ubjson and from_bjdata: what follows the value may be N.
ubjson_events(in, bj) ==
    LET start == SkipNoop(in, 0)
        read == get_ubjson_value(in, start + 1, At(in, start), bj, <<>>)
    IN  Strict(in, read, SkipNoop(in, read.pos)).events
from_ubjson(in, bj) == Dom(ubjson_events(in, bj))
=============================================================================
