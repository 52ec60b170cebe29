----------------------------- MODULE JsonCallback -----------------------------
(***************************************************************************)
(* json_sax_dom_callback_parser: a parse that asks a callback what to      *)
(* keep.  The callbacks here say no to one kind of event, at some depths   *)
(* and, for a key, to some keys: a record [event, depths, keys].           *)
(***************************************************************************)
EXTENDS JsonParser

Keeps(callback, depth, event, key) ==
    ~(/\ event = callback.event
      /\ depth \in callback.depths
      /\ event = "key" => key \in callback.keys)

\* A pointer is <<path>>, the null pointer empty: in ref_stack, a container
\* that is not kept.
NoRef == <<>>

\* ref_stack, keep_stack, key_keep_stack and object_element.
EmptyCallbackDom == [root |-> Null, refs |-> <<>>, keep |-> <<TRUE>>,
                     keyKeep |-> <<>>, element |-> NoRef]

\* handle_value: the new state, and the place v got, or NoRef.
StoreValue(dom, v) ==
    LET ref == Last(dom.refs)
        parent == Get(dom.root, ref[1])
        isArray == IsArray(parent)
        place == IF isArray THEN <<Append(ref[1], Len(Content(parent)) + 1)>> ELSE dom.element
        popped == [dom EXCEPT !.keyKeep = Front(@)]
    IN  CASE dom.refs = <<>> -> [dom |-> [dom EXCEPT !.root = v], at |-> << <<>> >>]
          [] dom.refs # <<>> /\ ref = NoRef -> [dom |-> dom, at |-> NoRef]
          [] dom.refs # <<>> /\ ref # NoRef /\ isArray ->
               [dom |-> [dom EXCEPT !.root = Put(@, ref[1], Array(Append(Content(parent), v)))],
                at |-> place]
          [] OTHER ->
               IF Last(dom.keyKeep)
               THEN [dom |-> [popped EXCEPT !.root = Put(@, place[1], v)], at |-> place]
               ELSE [dom |-> popped, at |-> NoRef]

\* A value of a container that is not kept is not even shown to the callback.
CallbackValue(dom, v, callback) ==
    IF Last(dom.keep) /\ Keeps(callback, Len(dom.refs), "value", <<>>)
    THEN StoreValue(dom, v).dom ELSE dom

CallbackStart(dom, v, callback) ==
    LET event == IF IsObject(v) THEN "object_start" ELSE "array_start"
        keep == Keeps(callback, Len(dom.refs), event, <<>>)
        kept == [dom EXCEPT !.keep = Append(@, keep)]
        stored == IF keep THEN StoreValue(kept, v) ELSE [dom |-> kept, at |-> NoRef]
    IN  [stored.dom EXCEPT !.refs = Append(@, stored.at)]

\* The element of a key that is kept is discarded until its value comes.
CallbackKey(dom, key, callback) ==
    LET keep == Keeps(callback, Len(dom.refs), "key", key)
        ref == Last(dom.refs)
        pushed == [dom EXCEPT !.keyKeep = Append(@, keep)]
    IN  IF keep /\ ref # NoRef
        THEN [pushed EXCEPT !.root = Put(@, ref[1], With(Get(@, ref[1]), key, Discarded)),
                            !.element = <<Append(ref[1], key)>>]
        ELSE pushed

\* The first element that is discarded, removed.
EraseDiscarded(v) ==
    LET discarded == {k \in DOMAIN Content(v) : Content(v)[k] = Discarded}
        first == IF IsArray(v) THEN CHOOSE i \in discarded : \A j \in discarded : i <= j
                 ELSE CHOOSE k \in discarded : \A j \in discarded : ~LexLess(j, k)
    IN  IF discarded = {} THEN v
        ELSE IF IsArray(v) THEN Array(RemoveAt(Content(v), first)) ELSE Without(v, first)

\* The container the innermost reference is to, discarded unless it is kept.
Judged(dom, event, callback) ==
    LET ref == Last(dom.refs)
        keep == ref = NoRef \/ Keeps(callback, Len(dom.refs) - 1, event, <<>>)
    IN  [keep |-> keep,
         dom |-> [dom EXCEPT !.root = IF keep THEN @ ELSE Put(@, ref[1], Discarded),
                             !.refs = Front(@), !.keep = Front(@)]]

\* Variant that leaves the parent as it is.
CallbackEndObjectNoErase(dom, callback) == Judged(dom, "object_end", callback).dom

\* end_object removes one discarded element of the parent.
CallbackEndObject(dom, callback) ==
    LET after == Judged(dom, "object_end", callback).dom
        parent == Last(after.refs)
    IN  IF /\ after.refs # <<>> /\ parent # NoRef
                /\ IsStructured(Get(after.root, parent[1]))
        THEN [after EXCEPT !.root = Put(@, parent[1], EraseDiscarded(Get(@, parent[1])))]
        ELSE after

\* end_array removes the array from a parent that is one.
CallbackEndArray(dom, callback) ==
    LET judged == Judged(dom, "array_end", callback)
        after == judged.dom
        parent == Last(after.refs)
    IN  IF ~judged.keep /\ after.refs # <<>> /\ IsArray(Get(after.root, parent[1]))
        THEN [after EXCEPT !.root = Put(@, parent[1], Array(Front(Content(Get(@, parent[1])))))]
        ELSE after

CallbackEvent(dom, event, callback) ==
    CASE event[1] = "value" -> CallbackValue(dom, event[2], callback)
      [] event[1] = "key" -> CallbackKey(dom, event[2], callback)
      [] event = StartObject -> CallbackStart(dom, Object(<<>>), callback)
      [] event = StartArray -> CallbackStart(dom, Array(<<>>), callback)
      [] event = EndObject -> CallbackEndObject(dom, callback)
      [] event = EndArray -> CallbackEndArray(dom, callback)
      [] OTHER -> dom

RECURSIVE AfterCallbackEvents(_, _, _)
AfterCallbackEvents(dom, events, callback) ==
    IF events = <<>> THEN dom
    ELSE AfterCallbackEvents(CallbackEvent(dom, Head(events), callback), Tail(events), callback)

\* parser::parse with a callback, on the events of a text: a root that is
\* discarded is null.
parse_with_callback(events, callback) ==
    LET root == AfterCallbackEvents(EmptyCallbackDom, events, callback).root
    IN  IF Failed(events) THEN Discarded ELSE IF root = Discarded THEN Null ELSE root
=============================================================================
