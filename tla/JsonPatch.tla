------------------------------- MODULE JsonPatch ------------------------------
(***************************************************************************)
(* patch_inplace, diff and merge_patch.  A patch is a value: an array of   *)
(* objects with the members op, path, value and from.  What an operation   *)
(* leaves is [ok, value]: when it throws, the value is as far as it got.   *)
(***************************************************************************)
EXTENDS JsonPointer

opName == Ascii("op")
pathName == Ascii("path")
valueName == Ascii("value")
fromName == Ascii("from")
add == Ascii("add")
remove == Ascii("remove")
replace == Ascii("replace")
move == Ascii("move")
copy == Ascii("copy")
test == Ascii("test")

Patched(v) == [ok |-> TRUE, value |-> v]
NotPatched(v) == [ok |-> FALSE, value |-> v]

\* The reference tokens of a member that must be a string and a pointer.
MemberPointer(operation, member) ==
    IF Has(operation, member) /\ Type(Content(operation)[member]) = "string"
    THEN split(Content(Content(operation)[member]))
    ELSE [error |-> 105, tokens |-> <<>>]

\* operation_add.  A parent that is neither a container nor null, which the
\* code calls impossible, ends in a failed assertion.
AddAt(result, at, last, index, val) ==
    LET parent == Get(result, at.path)
        replaced(container) == Patched(Put(result, at.path, container))
    IN  CASE at.error # 0 -> NotPatched(result)
          [] parent = Null \/ IsObject(parent) ->
               replaced(With(ElementOfKey(parent, last), last, val))
          [] IsArray(parent) /\ last = Dash -> replaced(Array(Append(Content(parent), val)))
          [] IsArray(parent) /\ index.error = 0 /\ index.index <= Len(Content(parent)) ->
               replaced(Array(InsertAt(Content(parent), index.index + 1, val)))
          [] OTHER -> NotPatched(result)

operation_add(result, tokens, val) ==
    CASE tokens = <<>> -> Patched(val)
      [] Len(tokens) > 1 /\ get_checked(result, <<Head(tokens)>>).error # 0 -> NotPatched(result)
      [] OTHER -> AddAt(result, get_checked(result, Front(tokens)), Last(tokens),
                        array_index(Last(tokens)), val)

\* operation_remove.  Below a value that is not a container it does nothing.
RemoveElement(result, at, last, index) ==
    LET parent == Get(result, at.path)
        n == Len(Content(parent))
    IN  CASE at.error # 0 \/ (IsObject(parent) /\ ~Has(parent, last))
             \/ (IsArray(parent) /\ (index.error # 0 \/ index.index >= n)) -> NotPatched(result)
          [] IsObject(parent) -> Patched(Put(result, at.path, Without(parent, last)))
          [] IsArray(parent) ->
               Patched(Put(result, at.path, Array(RemoveAt(Content(parent), index.index + 1))))
          [] OTHER -> Patched(result)

operation_remove(result, tokens) ==
    IF tokens = <<>> THEN NotPatched(result)
    ELSE RemoveElement(result, get_checked(result, Front(tokens)), Last(tokens),
                       array_index(Last(tokens)))

\* replace and test, of the element at a place.
operation_replace(result, at, val) ==
    IF at.error # 0 THEN NotPatched(result) ELSE Patched(Put(result, at.path, val))

operation_test(result, at, val) ==
    IF at.error = 0 /\ Equal(Get(result, at.path), val) THEN Patched(result) ELSE NotPatched(result)

\* move and copy: the value at source, added after what removed it.
AddMoved(result, source, removed, tokens) ==
    IF source.error # 0 \/ ~removed.ok THEN NotPatched(result)
    ELSE operation_add(removed.value, tokens, Get(result, source.path))

MoveOrCopy(result, isMove, from, tokens) ==
    IF from.error # 0 THEN NotPatched(result)
    ELSE AddMoved(result, get_checked(result, from.tokens),
                  IF isMove THEN operation_remove(result, from.tokens) ELSE Patched(result), tokens)

\* One operation of a patch, of the name op at the pointer ptr: the cases of
\* patch_inplace.
ApplyNamed(result, operation, op, ptr) ==
    LET val == Content(operation)[valueName]
        at == get_checked(result, ptr.tokens)
    IN  CASE ptr.error # 0 \/ (op \in {add, replace, test} /\ ~Has(operation, valueName)) ->
               NotPatched(result)
          [] ptr.error = 0 /\ op = remove -> operation_remove(result, ptr.tokens)
          [] ptr.error = 0 /\ op \in {move, copy} ->
               MoveOrCopy(result, op = move, MemberPointer(operation, fromName), ptr.tokens)
          [] ptr.error = 0 /\ op = add /\ Has(operation, valueName) ->
               operation_add(result, ptr.tokens, val)
          [] ptr.error = 0 /\ op = replace /\ Has(operation, valueName) ->
               operation_replace(result, at, val)
          [] ptr.error = 0 /\ op = test /\ Has(operation, valueName) -> operation_test(result, at, val)
          [] OTHER -> NotPatched(result)

ApplyOperation(result, operation) ==
    IF Has(operation, opName) /\ Type(Content(operation)[opName]) = "string"
    THEN ApplyNamed(result, operation, Content(Content(operation)[opName]),
                    MemberPointer(operation, pathName))
    ELSE NotPatched(result)

RECURSIVE ApplyAll(_, _)
ApplyAll(result, operations) ==
    LET applied == ApplyOperation(result, Head(operations))
    IN  CASE operations = <<>> -> Patched(result)
          [] operations # <<>> /\ ~applied.ok -> applied
          [] OTHER -> ApplyAll(applied.value, Tail(operations))

patch_inplace(result, json_patch) ==
    IF IsArray(json_patch) THEN ApplyAll(result, Content(json_patch)) ELSE NotPatched(result)

-----------------------------------------------------------------------------
Operation(op, path) == (opName :> String(op)) @@ (pathName :> String(path))
WithValue(operation, v) == Object(operation @@ (valueName :> v))

\* Variant that removes from the first of them on.
RemoveRestForward(path, n, i) ==
    [k \in 1..(n - i) |-> Object(Operation(remove, path \o <<Slash>> \o IndexToken(i + k - 1)))]

\* The operations for the elements of source behind the first i: a removal
\* goes before the ones already there, so that the last comes first.
RemoveRest(path, n, i) ==
    [k \in 1..(n - i) |-> Object(Operation(remove, path \o <<Slash>> \o IndexToken(n - k)))]

RECURSIVE diff(_, _, _), DiffElements(_, _, _, _), DiffMembers(_, _, _, _)

\* Common elements from i on, in place.
DiffElements(source, target, path, i) ==
    IF i > Len(Content(source)) \/ i > Len(Content(target)) THEN <<>>
    ELSE diff(Content(source)[i], Content(target)[i], path \o <<Slash>> \o IndexToken(i - 1))
         \o DiffElements(source, target, path, i + 1)

DiffMembers(source, target, path, keys) ==
    IF keys = <<>> THEN <<>>
    ELSE LET key == Head(keys)
             path_key == path \o <<Slash>> \o escape(key)
         IN  (IF Has(target, key) THEN diff(Content(source)[key], Content(target)[key], path_key)
              ELSE <<Object(Operation(remove, path_key))>>)
             \o DiffMembers(source, target, path, Tail(keys))

AddRest(target, path, i) ==
    [k \in 1..(Len(Content(target)) - i) |->
        WithValue(Operation(add, path \o <<Slash>> \o Dash), Content(target)[i + k])]

AddMembers(source, target, path) ==
    LET added == SelectSeq(Keys(target), LAMBDA key : ~Has(source, key))
    IN  [k \in DOMAIN added |->
           WithValue(Operation(add, path \o <<Slash>> \o escape(added[k])),
                     Content(target)[added[k]])]

\* diff, as the sequence of its operations.
diff(source, target, path) ==
    LET n == Len(Content(source))
        m == Len(Content(target))
        common == IF n < m THEN n ELSE m
    IN  CASE Equal(source, target) -> <<>>
          [] ~Equal(source, target) /\ Type(source) = Type(target) /\ IsArray(source) ->
               DiffElements(source, target, path, 1) \o RemoveRest(path, n, common)
               \o AddRest(target, path, common)
          [] ~Equal(source, target) /\ Type(source) = Type(target) /\ IsObject(source) ->
               DiffMembers(source, target, path, Keys(source)) \o AddMembers(source, target, path)
          [] OTHER -> <<WithValue(Operation(replace, path), target)>>

-----------------------------------------------------------------------------
RECURSIVE merge_patch(_, _), MergeMembers(_, _, _)
merge_patch(v, apply_patch) ==
    IF IsObject(apply_patch)
    THEN MergeMembers(IF IsObject(v) THEN v ELSE Object(<<>>), apply_patch, Keys(apply_patch))
    ELSE apply_patch

\* Variant of MergeMembers that stores nulls.
MergeMembersKeepNull(v, apply_patch, keys) ==
    IF keys = <<>> THEN v
    ELSE LET key == Head(keys)
             old == Content(ElementOfKey(v, key))[key]
         IN  MergeMembers(With(v, key, merge_patch(old, Content(apply_patch)[key])),
                          apply_patch, Tail(keys))

\* A null removes its key; operator[] makes a missing one null first.
MergeMembers(v, apply_patch, keys) ==
    IF keys = <<>> THEN v
    ELSE LET key == Head(keys)
             x == Content(apply_patch)[key]
             old == Content(ElementOfKey(v, key))[key]
         IN  MergeMembers(IF x = Null THEN Without(v, key)
                          ELSE With(v, key, merge_patch(old, x)),
                          apply_patch, Tail(keys))

=============================================================================
