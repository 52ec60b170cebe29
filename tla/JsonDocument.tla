----------------------------- MODULE JsonDocument -----------------------------
(***************************************************************************)
(* A program that uses the JSON library as the drone mission does, and     *)
(* more: text arrives in fragments and is loaded when it parses, and the   *)
(* document is changed in place.  The properties compare the components of *)
(* the library with each other and with references on what is reached.     *)
(***************************************************************************)
EXTENDS JsonOperations

CONSTANTS
    Ieee,           \* see JsonBinary
    Alphabets,      \* records [begin, fragments, max]: the texts of begin and
                    \* up to max of the fragments, all sequences of bytes
    Samples,        \* documents that are not changed
    Drafts,         \* documents to change
    Names,          \* the keys that operations use
    Additions,      \* the values that they add
    Operations,     \* operations of patches
    Merges,         \* merge patches
    Callbacks,      \* see JsonCallback
    RefTokens,      \* reference tokens
    Settings,       \* of dump, see JsonSerializer
    MaxEdits        \* how often a draft is changed

P == INSTANCE JsonCallback
G == INSTANCE JsonGrammar
Cbor == INSTANCE JsonCbor
Msgpack == INSTANCE JsonMsgpack
Ubjson == INSTANCE JsonUbjsonWriter
Bson == INSTANCE JsonBson

VARIABLES
    alphabet,       \* the text to come
    text,           \* the fragments that came
    doc,            \* the document
    edits           \* how many more changes of it are looked at

vars == <<alphabet, text, doc, edits>>

RECURSIVE Places(_)
Places(v) ==
    {<<>>} \cup
    (IF IsStructured(v)
     THEN UNION {{<<k>> \o p : p \in Places(Content(v)[k])} : k \in DOMAIN Content(v)}
     ELSE {})

Silent == [begin |-> <<>>, fragments |-> {}, max |-> 0]

Init ==
    \/ alphabet \in Alphabets /\ text = <<alphabet.begin>> /\ doc = Null /\ edits = 0
    \/ alphabet = Silent /\ text = <<>> /\ doc \in Samples /\ edits = 0
    \/ alphabet = Silent /\ text = <<>> /\ doc \in Drafts /\ edits = MaxEdits

Receive ==
    /\ Len(text) <= alphabet.max
    /\ \E f \in alphabet.fragments : text' = Append(text, f)
    /\ UNCHANGED <<alphabet, doc, edits>>

\* parse, in a try block: a text that does not parse changes nothing.
Load ==
    /\ text # <<>>
    /\ doc' = P!parse(FlattenSeq(text))
    /\ doc' # Discarded
    /\ text' = <<>>
    /\ alphabet' = Silent
    /\ UNCHANGED edits

\* Changing what is at a place.
Change(place, result) ==
    /\ edits > 0
    /\ doc' = Put(doc, place, result.value)
    /\ edits' = edits - 1
    /\ UNCHANGED <<alphabet, text>>

PushBack == \E p \in Places(doc), x \in Additions : Change(p, push_back(Get(doc, p), x, 308))
Emplace == \E p \in Places(doc), k \in Names, x \in Additions : Change(p, emplace(Get(doc, p), k, x, 311))
PushBackPair ==
    \E p \in Places(doc), k \in Names, x \in Additions : Change(p, push_back_pair(Get(doc, p), k, x))
AccessIndex == \E p \in Places(doc), i \in 0..2 : Change(p, SubscriptIndex(Get(doc, p), i))
AccessKey == \E p \in Places(doc), k \in Names : Change(p, SubscriptKey(Get(doc, p), k))
Clear == \E p \in Places(doc) : Change(p, Did(clear(Get(doc, p))))
Insert ==
    \E p \in Places(doc), x \in Additions : \E i \in 0..Count(Get(doc, p)) :
        Change(p, insert(Get(doc, p), i, x))
InsertElements ==
    \E p \in Places(doc), x \in {y \in Additions : IsArray(y)} :
        \E i \in 0..Count(Get(doc, p)), first \in 0..Count(x) : \E last \in first..Count(x) :
            Change(p, InsertRange(Get(doc, p), i, x, first, last))
InsertAll == \E p \in Places(doc), x \in Additions : Change(p, InsertMembers(Get(doc, p), x))
Erase ==
    \E p \in Places(doc) :
        \/ \E i \in 0..2 : Change(p, EraseIndex(Get(doc, p), i))
        \/ \E k \in Names : Change(p, EraseKey(Get(doc, p), k))
EraseIterators ==
    \E p \in Places(doc) :
        \/ \E i \in 0..(Count(Get(doc, p)) - 1) : Change(p, EraseAt(Get(doc, p), i))
        \/ \E i \in 0..Count(Get(doc, p)) : \E j \in i..Count(Get(doc, p)) :
              Change(p, EraseRange(Get(doc, p), i, j))
Update ==
    \E p \in Places(doc), x \in Additions, merge_objects \in BOOLEAN :
        Change(p, update(Get(doc, p), x, merge_objects))
SwapContent ==
    \E p \in Places(doc), x \in Additions :
        Change(p, Swap(Get(doc, p), x, {"array", "object", "string", "binary"}))

\* The element at a pointer, made if it is missing, and set.
Assign ==
    \E s \in RefTokens, t \in RefTokens, x \in Additions :
        LET place == get_unchecked(doc, <<s, t>>)
        IN  Change(<<>>, Did(IF place.error = 0 THEN Put(place.value, place.path, x)
                             ELSE place.value))

Patch == \E o \in Operations : Change(<<>>, patch_inplace(doc, Array(<<o>>)))
MergeWith(m) == Change(<<>>, Did(merge_patch(doc, m)))
Merge == \E m \in Merges : MergeWith(m)

Next ==
    \/ Receive \/ Load
    \/ PushBack \/ Emplace \/ PushBackPair \/ AccessIndex \/ AccessKey \/ Clear
    \/ Insert \/ InsertElements \/ InsertAll \/ Erase \/ EraseIterators
    \/ Update \/ SwapContent \/ Assign \/ Patch \/ Merge

Spec == Init /\ [][Next]_vars

-----------------------------------------------------------------------------
\* The document does not change while text arrives: it is looked at before.
Settled == text = <<>>

\* Reading what was written gives the value back, and no input that ends within
\* its first eleven bytes is read as anything.
Cut(out) == {SubSeq(out, 1, n) : n \in 0..(IF Len(out) < 12 THEN Len(out) - 1 ELSE 11)}
IsBack(result, whole, v) == IF whole THEN Equal(result, v) ELSE result = Discarded
ReadsBack(out, Read(_), v) ==
    \A part \in Cut(out) \cup {out} : IsBack(Read(part), part = out, v)

\* A text is accepted if and only if what comes before its first zero byte is
\* a JSON text of RFC 8259 whose numbers have the range of a double, wherever
\* it was cut: what scan, get_token and sax_parse_internal do with it.
AcceptsTheGrammar == P!accept(FlattenSeq(text)) <=> G!IsJsonText(FlattenSeq(text))

\* A binary has no text, and a number that is not finite is dumped as null.
\* Strings are dumped and scanned byte by byte, so that short ones will do.
MaxString == 32
RECURSIVE HasText(_)
HasText(v) ==
    /\ Type(v) # "binary"
    /\ Type(v) = "string" => Len(Content(v)) <= MaxString
    /\ Type(v) = "number_float" => IsFinite(Content(v))
    /\ IsStructured(v) => \A k \in DOMAIN Content(v) : HasText(Content(v)[k])

\* A string is UTF-8 if it is with another character for each ASCII one.
InUtf8(s) == G!AreChars(<<>> \o [i \in DOMAIN s |-> IF s[i] < 128 THEN 65 ELSE s[i]])

RECURSIVE IsUtf8(_)
IsUtf8(v) ==
    /\ Type(v) = "string" => InUtf8(Content(v))
    /\ IsStructured(v) => \A k \in DOMAIN Content(v) : IsUtf8(Content(v)[k])
    /\ IsObject(v) => \A k \in DOMAIN Content(v) : InUtf8(k)

IsTextOf(result, isUtf8) == IF isUtf8 THEN Equal(result, doc) ELSE result # Discarded

\* Whatever a string holds, only the strict handler may throw; what another
\* one makes of bytes that are not UTF-8 is a text still.
IsDumped(d, setting, isUtf8) ==
    IF d.ok THEN IsTextOf(P!parse(d.out), isUtf8) ELSE setting.handler = "strict" /\ ~isUtf8

\* What dump writes, under every setting, is a text that parse reads as the
\* same value, whatever numbers, escapes and nesting it takes.
DumpReadsBack ==
    Settled /\ HasText(doc) =>
        \A setting \in Settings : IsDumped(dump(doc, setting), setting, IsUtf8(doc))

\* The value the parser with a callback should build: without the members,
\* or the objects at a depth, that the callback does not keep.
RECURSIVE Pruned(_, _, _)
Rejects(callback, v, depth) ==
    callback.event \in {"object_start", "object_end"} /\ IsObject(v) /\ depth \in callback.depths

Pruned(v, depth, callback) ==
    LET kept(x) == ~Rejects(callback, x, depth + 1)
        keyKept(k) == ~(callback.event = "key" /\ depth + 1 \in callback.depths /\ k \in callback.keys)
        elements == SelectSeq(Content(v), kept)
        members == {k \in DOMAIN Content(v) : keyKept(k) /\ kept(Content(v)[k])}
    IN  CASE IsArray(v) -> Array([i \in DOMAIN elements |-> Pruned(elements[i], depth + 1, callback)])
          [] IsObject(v) -> Object([k \in members |-> Pruned(Content(v)[k], depth + 1, callback)])
          [] OTHER -> v

\* A parse with a callback gives the value of the parse without one, less
\* what the callback rejected and no more: ref_stack, keep_stack and the
\* erasing of discarded values in json_sax_dom_callback_parser.
PrunesEvents(events, plain) ==
    \A callback \in Callbacks :
        P!parse_with_callback(events, callback)
        = (IF Rejects(callback, plain, 0) THEN Null ELSE Pruned(plain, 0, callback))
Prunes(events) == P!Failed(events) \/ PrunesEvents(events, P!Dom(events))
CallbackPrunes == Prunes(P!Events(FlattenSeq(text)))

\* The documents whose doubles Ieee has.
RECURSIVE Encodable(_)
Encodable(v) ==
    /\ Type(v) = "number_float" => \E f \in Ieee : f.float = Content(v)
    /\ IsStructured(v) => \A k \in DOMAIN Content(v) : Encodable(Content(v)[k])

\* CBOR: whatever form is chosen for a length or a number, it is read as what
\* was written; an input that ends within its first bytes is refused.
RECURSIVE WithoutSubtypes(_)
WithoutSubtypes(v) ==
    CASE Type(v) = "binary" -> Binary(Content(v), -1)
      [] IsStructured(v) -> <<Type(v), [k \in DOMAIN Content(v) |-> WithoutSubtypes(Content(v)[k])]>>
      [] OTHER -> v
CborReadsBack ==
    Settled /\ Encodable(doc) =>
        \A tags \in {"store", "ignore"} :
            ReadsBack(Cbor!write_cbor(doc), LAMBDA in : Cbor!from_cbor(in, tags),
                      IF tags = "store" THEN doc ELSE WithoutSubtypes(doc))

\* MessagePack: the same; a binary without a subtype has none again.
MsgpackReadsBack ==
    Settled /\ Encodable(doc) => ReadsBack(Msgpack!write_msgpack(doc), Msgpack!from_msgpack, doc)

\* UBJSON and BJData have no binary type: it comes back as an array.
RECURSIVE BinaryAsArray(_)
BinaryAsArray(v) ==
    CASE Type(v) = "binary" ->
            Array([i \in DOMAIN Content(v) |-> UnsignedInt(Word(Content(v)[i]))])
      [] IsStructured(v) -> <<Type(v), [k \in DOMAIN Content(v) |-> BinaryAsArray(Content(v)[k])]>>
      [] OTHER -> v

\* What a typed container of BJData does not bring back: its prefix knows no
\* marker m, which its elements are written with.
RECURSIVE HasUint32(_)
HasUint32(v) ==
    \/ Type(v) = "number_unsigned" /\ FitsUnsigned(Content(v), 4) /\ ~FitsSigned(Content(v), 4)
    \/ IsStructured(v) /\ \E k \in DOMAIN Content(v) : HasUint32(Content(v)[k])

Formats == {f \in [count : BOOLEAN, type : BOOLEAN, bj : BOOLEAN] : f.type => f.count}

\* UBJSON and BJData, with and without counts and types: what is written is
\* read as what was written, and an input that ends early is refused, cut as
\* for CBOR.
UbjsonReadsBack ==
    Settled /\ Encodable(doc) =>
        \A f \in {g \in Formats : ~(g.type /\ g.bj /\ HasUint32(doc))} :
            ReadsBack(Ubjson!to_ubjson(doc, f), LAMBDA in : Ubjson!from_ubjson(in, f.bj),
                      BinaryAsArray(doc))

\* BSON has no binary without a subtype: it comes back with the generic one.
RECURSIVE WithSubtypes(_)
WithSubtypes(v) ==
    CASE Type(v) = "binary" /\ v[3] = -1 -> Binary(Content(v), 0)
      [] IsStructured(v) -> <<Type(v), [k \in DOMAIN Content(v) |-> WithSubtypes(Content(v)[k])]>>
      [] OTHER -> v

\* BSON: the sizes that calc_bson_size computes before anything is written
\* are the sizes of what is then written, and it is read back.
BsonIsBack(v, written) ==
    written.ok => /\ Bson!calc_bson_size(v) = Len(written.out)
                  /\ Equal(Bson!from_bson(written.out), WithSubtypes(v))
InObject == IF IsObject(doc) THEN doc ELSE With(Object(<<>>), <<97>>, doc)
BsonReadsBack == Settled /\ Encodable(doc) => BsonIsBack(InObject, Bson!write_bson(InObject))

Pointers == {<<>>} \cup {<<s>> : s \in RefTokens} \cup {<<s, t>> : s \in RefTokens, t \in RefTokens}

\* contains, at and operator[] agree on what a pointer points to, and the
\* text of a pointer is read as the pointer, whatever its tokens hold.  Where
\* contains throws, at throws the same; for a token that is no index at all it
\* answers, where at throws 106 or 109.
PointersAgree ==
    Settled => \A tokens \in Pointers :
        LET checked == get_checked(doc, tokens)
            looked == contains_pointer(doc, tokens)
        IN  /\ split(to_string(tokens)) = [error |-> 0, tokens |-> tokens]
            /\ looked.found <=> checked.error = 0
            /\ looked.error # 0 => looked.error = checked.error /\ looked.error \in {404, 410}
            /\ checked.error = 0 => get_unchecked(doc, tokens) = checked

\* An empty container is flattened to null, and an object that has a key
\* "0" among its keys may come back as an array.
RECURSIVE EmptyAsNull(_), HasKeyZero(_)
EmptyAsNull(v) ==
    IF IsStructured(v)
    THEN IF Content(v) = <<>> THEN Null
         ELSE <<Type(v), [k \in DOMAIN Content(v) |-> EmptyAsNull(Content(v)[k])]>>
    ELSE v
HasKeyZero(v) ==
    IsStructured(v) /\ \/ IsObject(v) /\ <<48>> \in DOMAIN Content(v)
                       \/ \E k \in DOMAIN Content(v) : HasKeyZero(Content(v)[k])

\* unflatten restores what was flattened, in whatever order the pointers of
\* an array of more than ten elements are sorted.
FlattenRestores ==
    Settled /\ IsStructured(doc) /\ ~HasKeyZero(doc) =>
        unflatten(flatten(doc)) = [error |-> 0, value |-> EmptyAsNull(doc)]

\* The difference of two documents, as a patch, turns one into the other, in
\* both directions: a change takes several operations, each of which sees
\* the indices that the ones before it left.
Restores(v, w) ==
    LET patched == patch_inplace(v, Array(diff(v, w, <<>>)))
    IN  patched.ok /\ Equal(patched.value, w)
DiffRestores == [][Restores(doc, doc') /\ Restores(doc', doc)]_doc

\* What a merge patch leaves: the members it names have its values, those it
\* makes null are gone, and all others are as before.
RECURSIVE Shows(_, _, _)
Shows(after, before, m) ==
    IF ~IsObject(m) THEN after = m
    ELSE LET old == IF IsObject(before) THEN Content(before) ELSE <<>>
             nulls == {k \in DOMAIN Content(m) : Content(m)[k] = Null}
         IN  /\ IsObject(after)
             /\ DOMAIN Content(after) = (DOMAIN old \cup DOMAIN Content(m)) \ nulls
             /\ \A k \in DOMAIN Content(after) :
                   IF k \in DOMAIN Content(m)
                   THEN Shows(Content(after)[k], IF k \in DOMAIN old THEN old[k] ELSE Null,
                              Content(m)[k])
                   ELSE Content(after)[k] = old[k]
MergeApplies == [][\A m \in Merges : MergeWith(m) => Shows(doc', doc, m)]_doc
=============================================================================
