------------------------------ MODULE JsonPointer -----------------------------
(***************************************************************************)
(* json_pointer: a pointer is the sequence of its reference tokens.  What  *)
(* it points to is a place in a value: a path of keys and of indices from  *)
(* 1, as in JsonValue.  A resolution is [error, path, value], value being  *)
(* the document after what the access created on its way.                  *)
(***************************************************************************)
EXTENDS JsonSerializer

Tilde == 126
Slash == 47
Dash == <<45>>

\* replace_substring: each f in s, from the left, by t.
RECURSIVE replace_substring(_, _, _)
replace_substring(s, f, t) ==
    CASE s = <<>> -> <<>>
      [] s # <<>> /\ Bytes(s, 0, Len(f)) = f -> t \o replace_substring(SubSeq(s, Len(f) + 1, Len(s)), f, t)
      [] OTHER -> <<Head(s)>> \o replace_substring(Tail(s), f, t)

escape(s) == replace_substring(replace_substring(s, <<Tilde>>, <<Tilde, 48>>),
                               <<Slash>>, <<Tilde, 49>>)
\* Variant of unescape in the other order: "~01" becomes a slash.
unescape_tilde_first(s) ==
    replace_substring(replace_substring(s, <<Tilde, 48>>, <<Tilde>>),
                      <<Tilde, 49>>, <<Slash>>)

unescape(s) == replace_substring(replace_substring(s, <<Tilde, 49>>, <<Slash>>),
                                 <<Tilde, 48>>, <<Tilde>>)

RECURSIVE to_string(_)
to_string(tokens) ==
    IF tokens = <<>> THEN <<>> ELSE <<Slash>> \o escape(Head(tokens)) \o to_string(Tail(tokens))

\* The parts of s between slashes.
RECURSIVE Parts(_)
Parts(s) ==
    LET slashes == {i \in DOMAIN s : s[i] = Slash}
        first == CHOOSE i \in slashes : \A j \in slashes : i <= j
    IN  IF slashes = {} THEN <<s>>
        ELSE <<SubSeq(s, 1, first - 1)>> \o Parts(SubSeq(s, first + 1, Len(s)))

EscapedWell(part) ==
    \A i \in DOMAIN part : part[i] = Tilde => i < Len(part) /\ part[i + 1] \in {48, 49}

\* split: [error, tokens].
split(s) ==
    LET parts == Parts(Tail(s))
        failed(id) == [error |-> id, tokens |-> <<>>]
    IN  CASE s = <<>> -> failed(0)
          [] s # <<>> /\ s[1] # Slash -> failed(107)
          [] OTHER -> IF \E i \in DOMAIN parts : ~EscapedWell(parts[i]) THEN failed(108)
                      ELSE [error |-> 0, tokens |-> [i \in DOMAIN parts |-> unescape(parts[i])]]

\* std::to_string of an index.
IndexToken(i) == Digits(Word(i))

\* array_index: [error, index], index from 0.
array_index(token) ==
    LET number == StrToWord(token)
        digits == token # <<>> /\ \A i \in DOMAIN token : IsDigit(token[i])
        error == CASE Len(token) > 1 /\ token[1] = 48 -> 106
                   [] Len(token) > 1 /\ token[1] \notin 49..57 -> 109
                   [] (Len(token) <= 1 \/ token[1] \in 49..57) /\ (~digits \/ number.overflow) -> 404
                   [] OTHER -> IF number.word = Ones THEN 410 ELSE 0
    IN  [error |-> error, index |-> IF error = 0 THEN Size(number.word) ELSE 0]

-----------------------------------------------------------------------------
Resolved(path, value) == [error |-> 0, path |-> path, value |-> value]
Unresolved(id, value) == [error |-> id, path |-> <<>>, value |-> value]

\* get_checked: nothing is created, an index is checked.
CheckedStep(v, token, index) ==
    LET step(error, k) == [error |-> error, step |-> k]
    IN  CASE IsObject(v) -> step(IF Has(v, token) THEN 0 ELSE 403, token)
          [] IsArray(v) /\ (token = Dash \/ index.error # 0) ->
               step(IF token = Dash THEN 402 ELSE index.error, 0)
          [] IsArray(v) /\ token # Dash /\ index.error = 0 ->
               step(IF index.index < Len(Content(v)) THEN 0 ELSE 401, index.index + 1)
          [] OTHER -> step(404, 0)

RECURSIVE CheckedFrom(_, _, _), AfterStep(_, _, _, _)
CheckedFrom(root, tokens, path) ==
    IF tokens = <<>> THEN Resolved(path, root)
    ELSE AfterStep(root, tokens, path,
                   CheckedStep(Get(root, path), Head(tokens), array_index(Head(tokens))))

AfterStep(root, tokens, path, step) ==
    IF step.error # 0 THEN Unresolved(step.error, root)
    ELSE CheckedFrom(root, Tail(tokens), Append(path, step.step))

get_checked(root, tokens) == CheckedFrom(root, tokens, <<>>)

\* operator[] with a key and with an index: null becomes a container, a
\* missing element null, and the elements before a missing index too.
ElementOfKey(v, key) ==
    LET object == IF v = Null THEN Object(<<>>) ELSE v
    IN  IF Has(object, key) THEN object ELSE With(object, key, Null)

\* Variant that adds one element, not those before it.
ElementAtNoFill(v, index) ==
    LET a == IF v = Null THEN <<>> ELSE Content(v)
    IN  IF index < Len(a) THEN v ELSE Array(Append(a, Null))

ElementAt(v, index) ==
    LET a == IF v = Null THEN <<>> ELSE Content(v)
    IN  IF index < Len(a) THEN v ELSE Array(a \o [i \in 1..(index + 1 - Len(a)) |-> Null])

\* A step of get_unchecked and get_and_create: the element of a key or of an
\* index is made where it is missing.
Made(root, path, container, step) ==
    [root |-> Put(root, path, container), path |-> Append(path, step)]
MadeKey(root, path, token) == Made(root, path, ElementOfKey(Get(root, path), token), token)
MadeIndex(root, path, index) == Made(root, path, ElementAt(Get(root, path), index), index + 1)

\* get_unchecked of a value that may change.
RECURSIVE UncheckedFrom(_, _, _)
UncheckedFrom(root, tokens, path) ==
    LET v == Get(root, path)
        token == Head(tokens)
        asArray == token = Dash \/ \A i \in DOMAIN token : IsDigit(token[i])
        index == array_index(token)
        made == CASE IsObject(v) \/ (v = Null /\ ~asArray) -> MadeKey(root, path, token)
                  [] IsArray(v) /\ token = Dash -> MadeIndex(root, path, Len(Content(v)))
                  [] v = Null /\ token = Dash -> MadeIndex(root, path, 0)
                  [] OTHER -> MadeIndex(root, path, index.index)
        noIndex == (IsArray(v) \/ (v = Null /\ asArray)) /\ token # Dash /\ index.error # 0
    IN  CASE tokens = <<>> -> Resolved(path, root)
          [] tokens # <<>> /\ noIndex ->
               Unresolved(index.error, IF v = Null THEN Put(root, path, Array(<<>>)) ELSE root)
          [] tokens # <<>> /\ ~noIndex /\ (v = Null \/ IsStructured(v)) ->
               UncheckedFrom(made.root, Tail(tokens), made.path)
          [] OTHER -> Unresolved(404, root)

get_unchecked(root, tokens) == UncheckedFrom(root, tokens, <<>>)

\* get_and_create: only the token "0" starts an array.
RECURSIVE CreateFrom(_, _, _)
CreateFrom(root, tokens, path) ==
    LET v == Get(root, path)
        token == Head(tokens)
        index == array_index(token)
        made == CASE v = Null /\ token = <<48>> -> MadeIndex(root, path, 0)
                  [] IsArray(v) -> MadeIndex(root, path, index.index)
                  [] OTHER -> MadeKey(root, path, token)
    IN  CASE tokens = <<>> -> Resolved(path, root)
          [] tokens # <<>> /\ IsArray(v) /\ index.error # 0 -> Unresolved(index.error, root)
          [] tokens # <<>> /\ (v = Null \/ IsObject(v) \/ (IsArray(v) /\ index.error = 0)) ->
               CreateFrom(made.root, Tail(tokens), made.path)
          [] OTHER -> Unresolved(313, root)

\* contains: [error, found].  A token that cannot be an index is not found;
\* of the others array_index refuses the empty one and a number too large.
RECURSIVE contains_pointer(_, _)
contains_pointer(v, tokens) ==
    LET token == Head(tokens)
        is(found) == [error |-> 0, found |-> found]
        noIndex == \/ token = Dash
                   \/ Len(token) = 1 /\ ~IsDigit(token[1])
                   \/ Len(token) > 1 /\ ~(token[1] \in 49..57 /\ \A i \in DOMAIN token : IsDigit(token[i]))
        index == array_index(token)
        inRange == index.index < Len(Content(v))
    IN  CASE tokens = <<>> -> is(TRUE)
          [] tokens # <<>> /\ IsObject(v) ->
               IF Has(v, token) THEN contains_pointer(Content(v)[token], Tail(tokens)) ELSE is(FALSE)
          [] tokens # <<>> /\ IsArray(v) /\ ~noIndex ->
               IF index.error # 0 THEN [error |-> index.error, found |-> FALSE]
               ELSE IF inRange THEN contains_pointer(Content(v)[index.index + 1], Tail(tokens))
               ELSE is(FALSE)
          [] OTHER -> is(FALSE)

-----------------------------------------------------------------------------
\* flatten: an object from pointers to the values that are not structured;
\* an empty container is null.
RECURSIVE FlattenFrom(_, _), FlattenAll(_, _, _)
FlattenFrom(prefix, v) ==
    LET children == IF IsArray(v) THEN [i \in DOMAIN Content(v) |-> i] ELSE Keys(v)
    IN  CASE ~IsStructured(v) -> (prefix :> v)
          [] IsStructured(v) /\ Content(v) = <<>> -> (prefix :> Null)
          [] OTHER -> FlattenAll(prefix, v, children)

\* A later reference string does not overwrite an earlier one: they differ.
FlattenAll(prefix, v, children) ==
    IF children = <<>> THEN <<>>
    ELSE LET child == Head(children)
             token == IF IsArray(v) THEN IndexToken(child - 1) ELSE escape(child)
         IN  FlattenFrom(prefix \o <<Slash>> \o token, Content(v)[child])
             @@ FlattenAll(prefix, v, Tail(children))

flatten(v) == Object(FlattenFrom(<<>>, v))

\* unflatten: [error, value], the members in the order of their keys.
RECURSIVE UnflattenFrom(_, _, _)
UnflattenFrom(flat, keys, result) ==
    LET pointer == split(Head(keys))
        element == Content(flat)[Head(keys)]
        place == CreateFrom(result, pointer.tokens, <<>>)
        error == CASE IsStructured(element) -> 315
                   [] ~IsStructured(element) /\ pointer.error # 0 -> pointer.error
                   [] OTHER -> place.error
    IN  IF keys = <<>> THEN [error |-> 0, value |-> result]
        ELSE IF error # 0 THEN [error |-> error, value |-> Null]
        ELSE UnflattenFrom(flat, Tail(keys), Put(place.value, place.path, element))

unflatten(v) ==
    IF IsObject(v) THEN UnflattenFrom(v, Keys(v), Null) ELSE [error |-> 314, value |-> Null]
=============================================================================
