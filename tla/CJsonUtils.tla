------------------------------ MODULE CJsonUtils ------------------------------
(***************************************************************************)
(* cJSON_Utils.c: JSON pointers, patches and merge patches.  A place in a  *)
(* document is the sequence of the positions that lead to it; a JSON       *)
(* pointer, like a name, is a sequence of bytes.  Memory never runs out.   *)
(***************************************************************************)
EXTENDS CJsonText

Nowhere == <<0>>
Tilde == 126
\* A value that is not there: NULL.
Nothing == [Value EXCEPT !.type = "nothing"]

Item(v, place) == FoldLeft(LAMBDA x, i : x.items[i], v, place)
RECURSIVE With(_, _, _)
With(v, place, w) ==
  IF place = <<>> THEN w
  ELSE [v EXCEPT !.items[Head(place)] = With(@, Tail(place), w)]

\* cJSON_Duplicate: the copy's lists know their last member again.
RECURSIVE Duplicate(_)
Duplicate(v) ==
  [v EXCEPT !.items = [i \in DOMAIN @ |-> Duplicate(@[i])], !.tail = Len(v.items)]
-----------------------------------------------------------------------------
(* The members of one array or object.                                      *)

\* The new one follows the one that is thought to be the last: the members after
\* that one are lost, and so is the new one when there is none.
AddItemToArray(v, item) ==
  IF v.items = <<>> THEN [v EXCEPT !.items = <<item>>, !.tail = 1]
  ELSE IF v.tail = 0 THEN v
  ELSE [v EXCEPT !.items = Append(SubSeq(@, 1, v.tail), item), !.tail = @ + 1]

AddItemToObject(v, name, item) == AddItemToArray(v, As(name, item))

\* cJSON_DetachItemViaPointer, detach_item_from_array.  (A list whose end is
\* said to be a member that was detached is one that was sorted before.)
Without(v, i) ==
  [v EXCEPT !.items = RemoveAt(@, i),
            !.tail = IF i = Len(v.items) THEN IF i = 1 THEN 0 ELSE i - 1
                     ELSE IF i < @ THEN @ - 1 ELSE IF i = @ THEN 0 ELSE @]

DeleteItemFromObject(v, name, case_sensitive) ==
  LET i == get_object_item(v, name, case_sensitive) IN IF i = 0 THEN v ELSE Without(v, i)

\* `which' members go before the new one; the end of the list is known.
insert_item_in_array(v, which, item) ==
  IF which = Len(v.items) THEN AddItemToArray(v, item)
  ELSE [v EXCEPT !.items = InsertAt(@, which + 1, item),
                 !.tail = IF @ > which THEN @ + 1 ELSE @]

\* The sign of the difference of two names; NULL is greater than everything.
compare_strings(a, b, case_sensitive) ==
  LET c(s, i) == IF i > Len(s) THEN NUL ELSE IF case_sensitive THEN s[i] ELSE tolower(s[i])
      differ == {i \in 1..Max({Len(a), Len(b)}) : c(a, i) # c(b, i)}
  IN  CASE a = NoName \/ b = NoName -> 1
        [] a # NoName /\ b # NoName /\ differ = {} -> 0
        [] OTHER -> c(a, Min(differ)) - c(b, Min(differ))

\* sort_list: of equal names the later one comes first.  The new first member's
\* prev is what it was if it was the first one, and NULL otherwise.
sort_object(v, case_sensitive) ==
  LET n == Len(v.items)
      less(i, j) == compare_strings(v.items[i].name, v.items[j].name, case_sensitive) < 0
      order == SetToSortSeq(1..n, LAMBDA i, j : less(i, j) \/ (~less(j, i) /\ i > j))
  IN  IF \A i \in 1..n - 1 : less(i, i + 1) THEN v
      ELSE [v EXCEPT !.items = [i \in 1..n |-> v.items[order[i]]],
                     !.tail = IF order[1] = 1 THEN SelectInSeq(order, LAMBDA i : i = v.tail) ELSE 0]

\* Whether they are the same, and what the comparison leaves of each: the objects
\* it reaches are sorted.
RECURSIVE compare_json(_, _, _)

\* r with the members at i compared too, until two differ.
ComparePair(r, i, case_sensitive) ==
  LET x == r.a.items[i]
      y == r.b.items[i]
      Both(c) == [same |-> c.same, a |-> [r.a EXCEPT !.items[i] = c.a],
                  b |-> [r.b EXCEPT !.items[i] = c.b]]
  IN  IF ~r.same THEN r
      ELSE IF r.a.type = "object" /\ compare_strings(x.name, y.name, case_sensitive) # 0
      THEN [r EXCEPT !.same = FALSE]
      ELSE Both(compare_json(x, y, case_sensitive))

CompareMembers(a, b, case_sensitive) ==
  [FoldLeft(LAMBDA r, i : ComparePair(r, i, case_sensitive), [same |-> TRUE, a |-> a, b |-> b],
            [i \in 1..Min({Len(a.items), Len(b.items)}) |-> i])
     EXCEPT !.same = @ /\ Len(a.items) = Len(b.items)]

compare_json(a, b, case_sensitive) ==
  LET Sorted(v) == IF v.type = "object" THEN sort_object(v, case_sensitive) ELSE v
  IN  CASE a.type # b.type \/ a = Nothing \/ b = Nothing -> [same |-> FALSE, a |-> a, b |-> b]
        [] a.type = b.type /\ a.type \in {"array", "object"} ->
             CompareMembers(Sorted(a), Sorted(b), case_sensitive)
        [] OTHER -> [same |-> a.num = b.num /\ (a.type = "string" => a.str = b.str), a |-> a, b |-> b]
-----------------------------------------------------------------------------
(* Pointers.                                                                *)

\* Mutant: a slash is left as it is.
encode_string_as_pointer_tilde(s) ==
  FlattenSeq([i \in DOMAIN s |-> IF s[i] = Tilde THEN <<Tilde, Digit(0)>> ELSE <<s[i]>>])

encode_string_as_pointer(s) ==
  FlattenSeq([i \in DOMAIN s |-> IF s[i] = Slash THEN <<Tilde, Digit(1)>>
                                 ELSE IF s[i] = Tilde THEN <<Tilde, Digit(0)>> ELSE <<s[i]>>])

Child(path, name) == Append(path, Slash) \o encode_string_as_pointer(name)

\* A pointer as far as the next slash.
Token(p) == SubSeq(p, 1, SelectInSeq(Append(p, Slash), LAMBDA c : c = Slash) - 1)

compare_pointers(name, pointer, case_sensitive) ==
  name # NoName /\ SameName(encode_string_as_pointer(name), Token(pointer), case_sensitive)

\* The pointer to the item at a place.
RECURSIVE FindPointerFromObjectTo(_, _)
FindPointerFromObjectTo(v, place) ==
  LET m == v.items[Head(place)]
      token == IF v.type = "array" THEN Decimal(Head(place) - 1) ELSE encode_string_as_pointer(m.name)
  IN  IF place = <<>> THEN <<>>
      ELSE <<Slash>> \o token \o FindPointerFromObjectTo(m, Tail(place))

\* -1 if it is none.  After a first digit every byte from '0' up is taken for one,
\* and no byte at all is index 0.
decode_array_index_from_pointer(p) ==
  LET digits == IF p # <<>> /\ p[1] > 57 THEN 0
                ELSE SelectInSeq(Append(p, NUL), LAMBDA c : c < 48) - 1
      zeroes == Len(p) > 1 /\ p[1] = 48 /\ p[2] # Slash
      ends == digits = Len(p) \/ p[digits + 1] = Slash
  IN  IF zeroes \/ ~ends THEN -1
      ELSE FoldLeft(LAMBDA n, c : 10 * n + (c - 48), 0, SubSeq(p, 1, digits))

get_array_item(v, index) == IF index \in 0..Len(v.items) - 1 THEN index + 1 ELSE 0

RECURSIVE get_item_from_pointer(_, _, _)
get_item_from_pointer(v, p, case_sensitive) ==
  LET q == Tail(p)
      i == CASE v.type = "array"  -> get_array_item(v, decode_array_index_from_pointer(q))
             [] v.type = "object" ->
                  SelectInSeq(v.items, LAMBDA m : compare_pointers(m.name, q, case_sensitive))
             [] OTHER -> 0
      below == get_item_from_pointer(v.items[i], SubSeq(q, Len(Token(q)) + 1, Len(q)), case_sensitive)
  IN  IF p = <<>> \/ p[1] # Slash THEN <<>>
      ELSE IF i = 0 \/ below = Nowhere THEN Nowhere ELSE <<i>> \o below

\* s with its bytes from `at' on decoded to `to' on: the escapes are written,
\* the other bytes stay where they are.
RECURSIVE DecodeFrom(_, _, _)
DecodeFrom(s, at, to) ==
  CASE at > Len(s) -> SubSeq(s, 1, to - 1)
    [] at <= Len(s) /\ s[at] # Tilde -> DecodeFrom(s, at + 1, to + 1)
    [] At(s, at, <<Tilde, Digit(0)>>) -> DecodeFrom([s EXCEPT ![to] = Tilde], at + 2, to + 1)
    [] At(s, at, <<Tilde, Digit(1)>>) -> DecodeFrom([s EXCEPT ![to + 1] = Slash], at + 2, to + 1)
    [] OTHER -> s
decode_pointer_inplace(s) == DecodeFrom(s, 1, 1)

\* strrchr, and the pointer split there in the parent's and the child's.
LastSlash(p) == SelectLastInSeq(p, LAMBDA c : c = Slash)
ParentOf(p) == SubSeq(p, 1, LastSlash(p) - 1)
ChildOf(p) == decode_pointer_inplace(SubSeq(p, LastSlash(p) + 1, Len(p)))

\* The place that detach_path takes the item from; in an object its name is
\* looked up without regard to case.
ChildAt(parent, child) ==
  CASE parent.type = "array"  -> get_array_item(parent, decode_array_index_from_pointer(child))
    [] parent.type = "object" -> get_object_item(parent, child, FALSE)
    [] OTHER -> 0
detach_path(v, path, case_sensitive) ==
  LET Of(place, i) == IF i = 0 THEN Nowhere ELSE Append(place, i)
      In(place) == IF place = Nowhere THEN Nowhere
                   ELSE Of(place, ChildAt(Item(v, place), ChildOf(path)))
  IN  IF LastSlash(path) = 0 THEN Nowhere
      ELSE In(get_item_from_pointer(v, ParentOf(path), case_sensitive))

Detach(v, place) == With(v, Front(place), Without(Item(v, Front(place)), Last(place)))
-----------------------------------------------------------------------------
(* Patches.                                                                 *)

Key == [op |-> <<111, 112>>, path |-> <<112, 97, 116, 104>>, from |-> <<102, 114, 111, 109>>,
        value |-> <<118, 97, 108, 117, 101>>]
Op == [add |-> <<97, 100, 100>>, remove |-> <<114, 101, 109, 111, 118, 101>>,
       replace |-> <<114, 101, 112, 108, 97, 99, 101>>, move |-> <<109, 111, 118, 101>>,
       copy |-> <<99, 111, 112, 121>>, test |-> <<116, 101, 115, 116>>]

decode_patch_operation(operation) ==
  LET ops == {o \in DOMAIN Op : operation.type = "string" /\ operation.str = Op[o]}
  IN  IF ops = {} THEN "INVALID" ELSE CHOOSE o \in ops : TRUE

Done(status, doc) == [status |-> status, doc |-> doc]

\* What an array or object is with the value in it, and apply_patch's status.
PlaceInArray(parent, child, index, value) ==
  CASE child = <<Minus>> -> Done(0, AddItemToArray(parent, value))
    [] child # <<Minus>> /\ index = -1 -> Done(11, parent)
    [] child # <<Minus>> /\ index > Len(parent.items) -> Done(10, parent)
    [] OTHER -> Done(0, insert_item_in_array(parent, index, value))

PlaceIn(parent, child, value, case_sensitive) ==
  CASE parent.type = "array" ->
         PlaceInArray(parent, child, decode_array_index_from_pointer(child), value)
    [] parent.type = "object" ->
         Done(0, AddItemToObject(DeleteItemFromObject(parent, child, case_sensitive), child, value))
    [] OTHER -> Done(9, parent)

\* What adding a value at a path leaves of a document.
Place(v, path, value, case_sensitive) ==
  LET In(at) == [PlaceIn(Item(v, at), ChildOf(path), value, case_sensitive)
                   EXCEPT !.doc = With(v, at, @)]
      Found(at) == IF at = Nowhere THEN Done(9, v) ELSE In(at)
  IN  IF LastSlash(path) = 0 THEN Done(9, v)
      ELSE Found(get_item_from_pointer(v, ParentOf(path), case_sensitive))

PatchMember(patch, k, case_sensitive) ==
  LET i == get_object_item(patch, Key[k], case_sensitive)
  IN  IF i = 0 THEN Nothing ELSE patch.items[i]

\* The operations; `at' is the item they find, Nowhere if they find none.
Tested(v, at, value, case_sensitive) ==
  LET Compared(c) == Done(IF c.same THEN 0 ELSE 1, With(v, at, c.a))
  IN  IF at = Nowhere THEN Done(1, v)
      ELSE Compared(compare_json(Item(v, at), value, case_sensitive))

WholeDocument(v, op, value) ==
  IF op = "remove" THEN Done(0, Literal("invalid"))
  ELSE IF value = Nothing THEN Done(7, v)
  ELSE Done(0, As(NoName, Duplicate(value)))

Added(v, path, value, case_sensitive) ==
  IF value = Nothing THEN Done(7, v) ELSE Place(v, path, Duplicate(value), case_sensitive)

RemovedOrReplaced(v, op, path, at, value, case_sensitive) ==
  IF at = Nowhere THEN Done(13, v)
  ELSE IF op = "remove" THEN Done(0, Detach(v, at))
  ELSE Added(Detach(v, at), path, value, case_sensitive)

\* A move's `from' is a string.
Moved(v, path, at, case_sensitive) ==
  IF at = Nowhere THEN Done(5, v) ELSE Place(Detach(v, at), path, Item(v, at), case_sensitive)

Copied(v, path, from, at, case_sensitive) ==
  IF at = Nowhere \/ from.type # "string" THEN Done(5, v)
  ELSE Place(v, path, Duplicate(Item(v, at)), case_sensitive)

Applied(v, op, path, value, from, case_sensitive) ==
  CASE op = "INVALID" -> Done(3, v)
    [] op = "test" ->
         Tested(v, get_item_from_pointer(v, path, case_sensitive), value, case_sensitive)
    [] op \in {"remove", "add", "replace"} /\ path = <<>> -> WholeDocument(v, op, value)
    [] op \in {"remove", "replace"} /\ path # <<>> ->
         RemovedOrReplaced(v, op, path, detach_path(v, path, case_sensitive), value, case_sensitive)
    [] op = "add" /\ path # <<>> -> Added(v, path, value, case_sensitive)
    [] op \in {"move", "copy"} /\ from = Nothing -> Done(4, v)
    [] op = "move" /\ from # Nothing ->
         Moved(v, path, detach_path(v, from.str, case_sensitive), case_sensitive)
    [] op = "copy" /\ from # Nothing ->
         Copied(v, path, from, get_item_from_pointer(v, from.str, case_sensitive), case_sensitive)

\* One patch: what is left of the document, in success (status 0) or not.  (What a
\* test sorts in its own value is left out.)
apply_patch(v, patch, case_sensitive) ==
  LET Member(k) == PatchMember(patch, k, case_sensitive)
  IN  IF Member("path").type # "string" THEN Done(2, v)
      ELSE Applied(v, decode_patch_operation(Member("op")), Member("path").str,
                   Member("value"), Member("from"), case_sensitive)

\* cJSONUtils_ApplyPatches, ApplyPatchesCaseSensitive: one patch after the other, and
\* no more after one that fails.
ApplyPatches(v, patches, case_sensitive) ==
  IF patches.type # "array" THEN Done(1, v)
  ELSE FoldLeft(LAMBDA r, patch :
                  IF r.status # 0 THEN r ELSE apply_patch(r.doc, patch, case_sensitive),
                Done(0, v), patches.items)

\* compose_patch, cJSONUtils_AddPatchToArray: one more patch.
compose_patch(patches, op, path, value) ==
  LET members == <<As(Key["op"], String(Op[op])), As(Key["path"], String(path))>>
                 \o IF value = Nothing THEN <<>> ELSE <<As(Key["value"], Duplicate(value))>>
  IN  AddItemToArray(patches, List("object", members))

\* The sign of the difference of the names at i and at j; a list that is over comes last.
Difference(from, to, i, j, case_sensitive) ==
  CASE i > Len(from.items) -> 1
    [] i <= Len(from.items) /\ j > Len(to.items) -> -1
    [] OTHER -> compare_strings(from.items[i].name, to.items[j].name, case_sensitive)

\* What there is to do at `path' for from to become to is added to the patches; the
\* objects that are walked in from and in to are sorted.
RECURSIVE create_patches(_, _, _), Walk(_, _, _, _, _)

\* Mutant: the index goes on over the elements that are removed.
RemoveLeftOver_next(r, path, from, to) ==
  FoldLeft(LAMBDA p, i : compose_patch(p, "remove", Child(path, Decimal(i - 1)), Nothing),
           r, [i \in 1..Len(from.items) - Len(to.items) |-> Len(to.items) + i])

\* They are removed at the same index, one after the other.
RemoveLeftOver(r, path, from, to) ==
  FoldLeft(LAMBDA p, i : compose_patch(p, "remove", Child(path, Decimal(Len(to.items))), Nothing),
           r, [i \in 1..Len(from.items) - Len(to.items) |-> i])

create_patches(r, path, case_sensitive) ==
  LET from == r.from
      to == r.to
      Sorted(v) == sort_object(v, case_sensitive)
      replaced == [r EXCEPT !.patches = compose_patch(@, "replace", path, to)]
      Element(q, i) ==
        LET e == create_patches([q EXCEPT !.from = from.items[i], !.to = to.items[i]],
                                Append(path, Slash) \o Decimal(i - 1), case_sensitive)
        IN  [patches |-> e.patches, from |-> [q.from EXCEPT !.items[i] = e.from],
             to |-> [q.to EXCEPT !.items[i] = e.to]]
      both == FoldLeft(Element, r, [i \in 1..Min({Len(from.items), Len(to.items)}) |-> i])
      less == RemoveLeftOver(both.patches, path, from, to)
      more == FoldLeft(LAMBDA p, v : compose_patch(p, "add", path \o <<Slash, Minus>>, v),
                       less, SubSeq(to.items, Len(from.items) + 1, Len(to.items)))
  IN  CASE from.type # to.type -> replaced
        [] from.type = to.type /\ from.type = "number" -> IF from.num # to.num THEN replaced ELSE r
        [] from.type = to.type /\ from.type = "string" -> IF from.str # to.str THEN replaced ELSE r
        [] from.type = to.type /\ from.type = "array" -> [both EXCEPT !.patches = more]
        [] from.type = to.type /\ from.type = "object" ->
             Walk([r EXCEPT !.from = Sorted(@), !.to = Sorted(@)], path, 1, 1, case_sensitive)
        [] OTHER -> r

\* Two sorted objects, from their members at i and at j on.
Walk(r, path, i, j, case_sensitive) ==
  LET x == r.from.items[i]
      y == r.to.items[j]
      Inside(e) == [patches |-> e.patches, from |-> [r.from EXCEPT !.items[i] = e.from],
                    to |-> [r.to EXCEPT !.items[j] = e.to]]
      Compose(op, name, v) == [r EXCEPT !.patches = compose_patch(@, op, Child(path, name), v)]
      Step(d) ==
        CASE d = 0 -> Walk(Inside(create_patches([r EXCEPT !.from = x, !.to = y], Child(path, x.name),
                                                 case_sensitive)), path, i + 1, j + 1, case_sensitive)
          [] d < 0 -> Walk(Compose("remove", x.name, Nothing), path, i + 1, j, case_sensitive)
          [] OTHER -> Walk(Compose("add", y.name, y), path, i, j + 1, case_sensitive)
  IN  IF i > Len(r.from.items) /\ j > Len(r.to.items) THEN r
      ELSE Step(Difference(r.from, r.to, i, j, case_sensitive))

GeneratePatches(from, to, case_sensitive) ==
  create_patches([patches |-> List("array", <<>>), from |-> from, to |-> to], <<>>, case_sensitive)
-----------------------------------------------------------------------------
(* Merge patches.                                                           *)

RECURSIVE merge_patch(_, _, _)
merge_patch(target, patch, case_sensitive) ==
  LET Detached(v, m) == DeleteItemFromObject(v, m.name, case_sensitive)
      Member(v, m) ==
        LET i == get_object_item(v, m.name, case_sensitive)
            old == IF i = 0 THEN Nothing ELSE v.items[i]
        IN  IF m.type = "null" THEN Detached(v, m)
            ELSE AddItemToObject(Detached(v, m), m.name, merge_patch(old, m, case_sensitive))
  IN  IF patch.type # "object" THEN Duplicate(patch)
      ELSE FoldLeft(Member, IF target.type = "object" THEN target ELSE List("object", <<>>), patch.items)

\* The patch, Nothing if there is nothing to do, and from and to with the objects
\* that are walked sorted.  Below the root the case is never regarded.
RECURSIVE generate_merge_patch(_, _, _), MergeWalk(_, _, _, _)
generate_merge_patch(from, to, case_sensitive) ==
  LET Sorted(v) == sort_object(v, case_sensitive)
      Filled(r) == IF r.patch.items = <<>> THEN [r EXCEPT !.patch = Nothing] ELSE r
  IN  CASE to = Nothing -> [patch |-> Literal("null"), from |-> from, to |-> to]
        [] to # Nothing /\ (to.type # "object" \/ from.type # "object") ->
             [patch |-> Duplicate(to), from |-> from, to |-> to]
        [] OTHER -> Filled(MergeWalk([patch |-> List("object", <<>>), from |-> Sorted(from),
                                      to |-> Sorted(to)], 1, 1, case_sensitive))

WithMember(r, name, m) ==
  IF m = Nothing THEN r ELSE [r EXCEPT !.patch = AddItemToObject(@, name, m)]

\* Two members of a name; c is what comparing them leaves of them.
MergePair(r, i, j, c) ==
  LET Left(e) == [WithMember(r, r.to.items[j].name, e.patch)
                    EXCEPT !.from.items[i] = e.from, !.to.items[j] = e.to]
  IN  Left(IF c.same THEN [patch |-> Nothing, from |-> c.a, to |-> c.b]
           ELSE generate_merge_patch(c.a, c.b, FALSE))

\* One step of the walk; d is the difference of the names.
MergeStep(r, i, j, d, case_sensitive) ==
  LET x == r.from.items[i]
      y == r.to.items[j]
  IN  CASE d = 0 -> MergeWalk(MergePair(r, i, j, compare_json(x, y, case_sensitive)),
                              i + 1, j + 1, case_sensitive)
        [] d < 0 -> MergeWalk(WithMember(r, x.name, Literal("null")), i + 1, j, case_sensitive)
        [] OTHER -> MergeWalk(WithMember(r, y.name, Duplicate(y)), i, j + 1, case_sensitive)

MergeWalk(r, i, j, case_sensitive) ==
  IF i > Len(r.from.items) /\ j > Len(r.to.items) THEN r
  ELSE MergeStep(r, i, j, Difference(r.from, r.to, i, j, TRUE), case_sensitive)
=============================================================================
