------------------------------ MODULE JsonParser ------------------------------
(***************************************************************************)
(* parser::sax_parse_internal, and parse and accept on top of it.  The     *)
(* automaton keeps a stack of the open containers and emits SAX events;    *)
(* an error is the last event.                                             *)
(***************************************************************************)
EXTENDS JsonLexer, JsonValue

\* What an automaton has done: its events, and the position it reached.
Done(events, pos) == [events |-> events, pos |-> pos]
Fail(events, pos, id) == Done(Append(events, ErrorEvent(id)), pos)

\* The event of a token that is a value by itself.
Literals == [literal_true |-> Boolean(TRUE), literal_false |-> Boolean(FALSE),
             literal_null |-> Null]

Scalar(token) ==
    CASE token.type \in DOMAIN Literals -> Literals[token.type]
      [] token.type = "value_string" -> String(token.str)
      [] token.type = "value_integer" -> Integer(token.word)
      [] token.type = "value_unsigned" -> UnsignedInt(token.word)
      [] token.type = "value_float" -> Float(token.float)

Scalars == DOMAIN Literals \cup
           {"value_string", "value_integer", "value_unsigned", "value_float"}

\* tokens[at] is last_token; states the open containers, the innermost last.
RECURSIVE ParseValue(_, _, _, _), ParseMember(_, _, _, _), AfterValue(_, _, _, _)

ParseValue(tokens, at, states, events) ==
    LET token == tokens[at]
        first == tokens[at + 1].type
        isOverflow == token.type = "value_float" /\ ~IsFinite(token.float)
    IN  CASE token.type = "begin_object" /\ first = "end_object" ->
               AfterValue(tokens, at + 2, states, events \o <<StartObject, EndObject>>)
          [] token.type = "begin_object" /\ first # "end_object" ->
               ParseMember(tokens, at + 1, Append(states, "object"), Append(events, StartObject))
          [] token.type = "begin_array" /\ first = "end_array" ->
               AfterValue(tokens, at + 2, states, events \o <<StartArray, EndArray>>)
          [] token.type = "begin_array" /\ first # "end_array" ->
               ParseValue(tokens, at + 1, Append(states, "array"), Append(events, StartArray))
          [] isOverflow -> Fail(events, at, 406)
          [] token.type \in Scalars /\ ~isOverflow ->
               AfterValue(tokens, at + 1, states, Append(events, ValueEvent(Scalar(token))))
          [] OTHER -> Fail(events, at, 101)

\* A key, the colon, and then the value.
ParseMember(tokens, at, states, events) ==
    IF tokens[at].type # "value_string" THEN Fail(events, at, 101)
    ELSE LET keyed == Append(events, KeyEvent(tokens[at].str))
         IN  IF tokens[at + 1].type # "name_separator" THEN Fail(keyed, at + 1, 101)
             ELSE ParseValue(tokens, at + 2, states, keyed)

\* The state evaluation, after a value.
AfterValue(tokens, at, states, events) ==
    LET type == tokens[at].type
        inArray == Last(states) = "array"
    IN  CASE states = <<>> -> Done(events, at)
          [] states # <<>> /\ type = "value_separator" ->
               IF inArray THEN ParseValue(tokens, at + 1, states, events)
               ELSE ParseMember(tokens, at + 1, states, events)
          [] states # <<>> /\ type = (IF inArray THEN "end_array" ELSE "end_object") ->
               AfterValue(tokens, at + 1, Front(states),
                          Append(events, IF inArray THEN EndArray ELSE EndObject))
          [] OTHER -> Fail(events, at, 101)

\* In strict mode nothing may follow the value.
sax_parse(tokens, strict) ==
    LET parsed == ParseValue(tokens, 1, <<>>, <<>>)
    IN  IF ~Failed(parsed.events) /\ strict /\ tokens[parsed.pos].type # "end_of_input"
        THEN Fail(parsed.events, parsed.pos, 101)
        ELSE parsed

\* The events of a text, as parse and accept ask for them.
Events(text) == sax_parse(Tokens(text), TRUE).events
accept(text) == ~Failed(Events(text))

\* json::parse with exceptions off: discarded when it would throw.
parse(text) == Dom(Events(text))
=============================================================================
