------------------------------- MODULE JsonValue ------------------------------
(***************************************************************************)
(* The values of basic_json.  A value is a tuple of its type and what it   *)
(* holds: a word, a double, bytes, a sequence of values, or a function     *)
(* from keys (std::map) to values.  A binary has a subtype, -1 for none.   *)
(***************************************************************************)
EXTENDS JsonBytes, FiniteSets, TLC

Null == <<"null">>
Discarded == <<"discarded">>
Boolean(b) == <<"boolean", b>>
Integer(w) == <<"number_integer", w>>
UnsignedInt(w) == <<"number_unsigned", w>>
Float(f) == <<"number_float", f>>
String(s) == <<"string", s>>
Array(a) == <<"array", a>>
Object(o) == <<"object", o>>
Binary(bytes, subtype) == <<"binary", bytes, subtype>>

Type(v) == v[1]
Content(v) == v[2]
IsObject(v) == Type(v) = "object"
IsArray(v) == Type(v) = "array"
IsStructured(v) == Type(v) \in {"object", "array"}

\* The keys of an object as std::map iterates them.
Keys(v) ==
    LET keys == DOMAIN Content(v)
    IN  [i \in 1..Cardinality(keys) |->
           CHOOSE k \in keys : Cardinality({j \in keys : LexLess(j, k)}) = i - 1]

Has(v, key) == IsObject(v) /\ key \in DOMAIN Content(v)
With(v, key, x) == Object((key :> x) @@ Content(v))
Without(v, key) == Object([k \in DOMAIN Content(v) \ {key} |-> Content(v)[k]])

\* External: the conversion of an integer to double.
RECURSIVE WordDigits(_)
WordDigits(w) == IF w = Zero THEN <<>>
                 ELSE LET d == DivMod(w, 10) IN Append(WordDigits(d.div), d.mod)

ToDouble(v) ==
    LET neg == Type(v) = "number_integer" /\ IsNegative(Content(v))
        digits == WordDigits(IF neg THEN Negate(Content(v)) ELSE Content(v))
    IN  IF Type(v) = "number_float" THEN Content(v) ELSE Double(neg, digits, Len(digits))

DoubleEqual(f, g) ==
    /\ NaN \notin {f, g}
    /\ \/ f = g
       \/ f.digits = <<>> /\ g.digits = <<>> /\ f.exp = 0 /\ g.exp = 0

\* operator==.  An unsigned number is compared with an integer as an
\* integer of the same bits.
IsNumber(v) == Type(v) \in {"number_integer", "number_unsigned", "number_float"}

RECURSIVE Equal(_, _)
Equal(a, b) ==
    CASE IsNumber(a) /\ IsNumber(b) ->
            IF "number_float" \in {Type(a), Type(b)}
            THEN DoubleEqual(ToDouble(a), ToDouble(b))
            ELSE Content(a) = Content(b)
      [] Type(a) = Type(b) /\ IsArray(a) ->
            /\ Len(Content(a)) = Len(Content(b))
            /\ \A i \in DOMAIN Content(a) : Equal(Content(a)[i], Content(b)[i])
      [] Type(a) = Type(b) /\ IsObject(a) ->
            /\ DOMAIN Content(a) = DOMAIN Content(b)
            /\ \A k \in DOMAIN Content(a) : Equal(Content(a)[k], Content(b)[k])
      [] Type(a) = Type(b) /\ ~IsNumber(a) /\ ~IsStructured(a) ->
            a = b /\ a # Discarded
      [] OTHER -> FALSE

-----------------------------------------------------------------------------
(* A parsed text or binary input is a sequence of SAX events; json_sax_dom_ *)
(* parser builds the value from it.                                         *)
ValueEvent(v) == <<"value", v>>
KeyEvent(s) == <<"key", s>>
StartObject == <<"start_object">>
EndObject == <<"end_object">>
StartArray == <<"start_array">>
EndArray == <<"end_array">>
ErrorEvent(id) == <<"error", id>>

\* The value at a path of keys and indices, replaced.
RECURSIVE Put(_, _, _)
Put(root, path, v) ==
    IF path = <<>> THEN v
    ELSE <<Type(root), [Content(root) EXCEPT ![path[1]] = Put(@, Tail(path), v)]>>

RECURSIVE Get(_, _)
Get(root, path) == IF path = <<>> THEN root ELSE Get(Content(root)[path[1]], Tail(path))

\* The parser's state: the value so far, and ref_stack and object_element,
\* the paths of the open containers and of the element of the last key.
EmptyDom == [root |-> Null, refs |-> <<>>, element |-> <<>>]

\* Where handle_value puts v, and the value with v in it.
HandleValue(dom, v) ==
    LET ref == Last(dom.refs)
        parent == Get(dom.root, ref)
        place == Append(ref, Len(Content(parent)) + 1)
    IN  CASE dom.refs = <<>> -> [root |-> v, at |-> <<>>]
          [] dom.refs # <<>> /\ IsArray(parent) ->
               [root |-> Put(dom.root, ref, Array(Append(Content(parent), v))), at |-> place]
          [] OTHER -> [root |-> Put(dom.root, dom.element, v), at |-> dom.element]

Open(dom, container) ==
    LET handled == HandleValue(dom, container)
    IN  [dom EXCEPT !.root = handled.root, !.refs = Append(@, handled.at)]

\* A key that repeats keeps its element, which the next value overwrites.
DomKey(dom, key) ==
    LET ref == Last(dom.refs)
        object == Get(dom.root, ref)
        old == IF Has(object, key) THEN Content(object)[key] ELSE Null
    IN  [dom EXCEPT !.root = Put(dom.root, ref, With(object, key, old)),
                    !.element = Append(ref, key)]

DomEvent(dom, event) ==
    CASE event[1] = "value" -> [dom EXCEPT !.root = HandleValue(dom, event[2]).root]
      [] event[1] = "key" -> DomKey(dom, event[2])
      [] event = StartObject -> Open(dom, Object(<<>>))
      [] event = StartArray -> Open(dom, Array(<<>>))
      [] event \in {EndObject, EndArray} -> [dom EXCEPT !.refs = Front(@)]
      [] OTHER -> dom

Failed(events) == events # <<>> /\ Last(events)[1] = "error"

RECURSIVE AfterEvents(_, _)
AfterEvents(dom, events) ==
    IF events = <<>> THEN dom ELSE AfterEvents(DomEvent(dom, Head(events)), Tail(events))

\* basic_json's result of a parse: discarded after an error.
Dom(events) == IF Failed(events) THEN Discarded ELSE AfterEvents(EmptyDom, events).root
=============================================================================
