---------------------------- MODULE JsonOperations ----------------------------
(***************************************************************************)
(* The operations of basic_json that change a value.  Each leaves          *)
(* [error, value]: error 0 and the new value, or the id of what it threw   *)
(* and the value as the exception leaves it.  Iterators are positions from *)
(* 0, into an object in the order of its keys.                             *)
(***************************************************************************)
EXTENDS JsonPatch

Did(v) == [error |-> 0, value |-> v]
Threw(v, id) == [error |-> id, value |-> v]

\* size and empty.
Count(v) == CASE v = Null -> 0
              [] IsArray(v) -> Len(Content(v))
              [] IsObject(v) -> Cardinality(DOMAIN Content(v))
              [] OTHER -> 1

\* clear keeps the type; the subtype of a binary too.
clear(v) ==
    CASE Type(v) \in {"number_integer", "number_unsigned"} -> <<Type(v), Zero>>
      [] Type(v) = "number_float" -> Float(ZeroDouble(FALSE))
      [] Type(v) = "boolean" -> Boolean(FALSE)
      [] Type(v) = "binary" -> Binary(<<>>, v[3])
      [] Type(v) \in {"string", "array", "object"} -> <<Type(v), <<>>>>
      [] OTHER -> v

\* push_back of a value, emplace_back with another error.
push_back(v, x, error) ==
    CASE v = Null -> Did(Array(<<x>>))
      [] IsArray(v) -> Did(Array(Append(Content(v), x)))
      [] OTHER -> Threw(v, error)

\* push_back of a member, emplace with another error: a key that is there
\* keeps its value.
emplace(v, key, x, error) ==
    CASE v = Null -> Did(With(Object(<<>>), key, x))
      [] IsObject(v) -> Did(IF Has(v, key) THEN v ELSE With(v, key, x))
      [] OTHER -> Threw(v, error)

\* An initializer list of a string and a value is a member of an object,
\* an element of anything else.
push_back_pair(v, key, x) ==
    IF IsObject(v) THEN emplace(v, key, x, 308)
    ELSE push_back(v, Array(<<String(key), x>>), 308)

\* operator[] with an index and with a key.
SubscriptIndex(v, index) ==
    IF v = Null \/ IsArray(v) THEN Did(ElementAt(v, index)) ELSE Threw(v, 305)

SubscriptKey(v, key) ==
    IF v = Null \/ IsObject(v) THEN Did(ElementOfKey(v, key)) ELSE Threw(v, 305)

\* insert before a position: one value, count of them, or those of another
\* array from first up to last.
insert(v, position, x) ==
    IF IsArray(v) THEN Did(Array(InsertAt(Content(v), position + 1, x))) ELSE Threw(v, 309)

InsertRange(v, position, other, first, last) ==
    IF IsArray(v)
    THEN Did(Array(SubSeq(Content(v), 1, position) \o SubSeq(Content(other), first + 1, last)
                   \o SubSeq(Content(v), position + 1, Len(Content(v)))))
    ELSE Threw(v, 309)

\* insert of the members of another object, of which those that are there
\* already are left out.
InsertMembers(v, other) ==
    CASE ~IsObject(v) -> Threw(v, 309)
      [] IsObject(v) /\ ~IsObject(other) -> Threw(v, 202)
      [] OTHER -> Did(Object(Content(v) @@ Content(other)))

\* erase of an element, of a key and of the positions from first up to last.
\* A value that is not structured is one element, and then null.
EraseIndex(v, index) ==
    CASE ~IsArray(v) -> Threw(v, 307)
      [] IsArray(v) /\ index >= Len(Content(v)) -> Threw(v, 401)
      [] OTHER -> Did(Array(RemoveAt(Content(v), index + 1)))

EraseKey(v, key) == IF IsObject(v) THEN Did(Without(v, key)) ELSE Threw(v, 307)

EraseRange(v, first, last) ==
    LET keys == Keys(v)
        gone == {keys[i] : i \in first + 1..last}
    IN  CASE IsArray(v) -> Did(Array(SubSeq(Content(v), 1, first)
                                     \o SubSeq(Content(v), last + 1, Len(Content(v)))))
          [] IsObject(v) -> Did(Object([k \in DOMAIN Content(v) \ gone |-> Content(v)[k]]))
          [] v \in {Null, Discarded} -> Threw(v, 307)
          [] OTHER -> IF first = 0 /\ last = 1 THEN Did(Null) ELSE Threw(v, 204)

EraseAt(v, position) ==
    CASE IsStructured(v) \/ v \in {Null, Discarded} -> EraseRange(v, position, position + 1)
      [] OTHER -> IF position = 0 THEN Did(Null) ELSE Threw(v, 205)

\* update: members of j replace those of v, or with merge_objects objects
\* are updated in turn.  What was updated before an error stays.
RECURSIVE update(_, _, _), UpdateMembers(_, _, _, _)
update(v, j, merge_objects) ==
    LET object == IF v = Null THEN Object(<<>>) ELSE v
    IN  IF IsObject(object) /\ IsObject(j)
        THEN UpdateMembers(object, j, Keys(j), merge_objects)
        ELSE Threw(object, 312)

UpdateMembers(v, j, keys, merge_objects) ==
    LET key == Head(keys)
        x == Content(j)[key]
        merged == update(Content(v)[key], x, TRUE)
    IN  CASE keys = <<>> -> Did(v)
          [] keys # <<>> /\ merge_objects /\ IsObject(x) /\ Has(v, key) ->
               IF merged.error # 0 THEN Threw(With(v, key, merged.value), merged.error)
               ELSE UpdateMembers(With(v, key, merged.value), j, Tail(keys), TRUE)
          [] OTHER -> UpdateMembers(With(v, key, x), j, Tail(keys), merge_objects)

\* swap with the content of another value of the same type.
Swap(v, other, types) ==
    IF Type(v) = Type(other) /\ Type(v) \in types
    THEN [error |-> 0, value |-> other, other |-> v]
    ELSE [error |-> 310, value |-> v, other |-> other]
=============================================================================
