------------------------------ MODULE CJsonTree ------------------------------
(***************************************************************************)
(* cJSON.c's trees, pointer by pointer, in the lists of CJsonLists.  Each  *)
(* function of the API is an action (the library is sequential), and any   *)
(* of its allocations may fail.                                            *)
(***************************************************************************)
EXTENDS CJsonLists, FiniteSets, SequencesExt

CONSTANTS
  MaxStrings, \* the strings the memory holds, and the references
  MaxRefs,
  Budgets,    \* how many allocations of a call succeed, at most
  ConstName,  \* the names that are constants of the client
  Lower       \* of each name, the one tolower() makes of it

MaxItems == Cardinality(Node)

ASSUME ConstantsAssumption ==
  /\ IsFiniteSet(Node) /\ Client \notin Node \cup {NULL}
  /\ MaxStrings \in Nat /\ MaxRefs \in Nat /\ Budgets \subseteq Nat
  /\ NoKey \notin Name /\ ConstName \subseteq Name /\ Lower \in [Name -> Name]

Free == [kind |-> "free", ref |-> FALSE, const |-> FALSE, key |-> NoKey, text |-> NULL,
         next |-> NULL, prev |-> NULL, child |-> NULL]

VARIABLES
  item,      \* the memory
  strings,   \* how many strings are allocated
  roots      \* the items that belong to the client

vars == <<item, strings, roots>>

Memory == [item |-> item, strings |-> strings, left |-> 0, got |-> NULL]
With(left) == [Memory EXCEPT !.left = left]
-----------------------------------------------------------------------------
(* Allocation *)

\* Which place an item gets makes no difference: the free ones are alike.
cJSON_New_Item(m, kind) ==
  LET free == {i \in Node : m.item[i].kind = "free"}
      i == CHOOSE i \in free : TRUE
  IN  IF m.left = 0 \/ free = {} THEN Got(m, NULL)
      ELSE [m EXCEPT !.item[i] = [Free EXCEPT !.kind = kind], !.left = @ - 1, !.got = i]

\* cJSON_strdup, into a field of item i; got is NULL when it fails.
Strdup(m, i, field, value) ==
  IF m.left = 0 \/ m.strings = MaxStrings THEN Got(m, NULL)
  ELSE [m EXCEPT !.item[i][field] = value, !.strings = @ + 1, !.left = @ - 1, !.got = i]

OwnsKey(n)  == ~n.const /\ n.key # NoKey
OwnsText(n) == ~n.ref /\ n.text # NULL
One(b) == IF b THEN 1 ELSE 0

\* Mutant: the valuestring of a reference is freed with it.
RECURSIVE cJSON_Delete_shared(_, _)
cJSON_Delete_shared(m, i) ==
  IF i = NULL THEN m
  ELSE LET n == m.item[i]
           inner == IF n.ref THEN m ELSE cJSON_Delete_shared(m, n.child)
       IN  cJSON_Delete_shared([inner EXCEPT !.item[i] = Free,
             !.strings = @ - One(n.text # NULL) - One(OwnsKey(n))], n.next)

RECURSIVE cJSON_Delete(_, _)
cJSON_Delete(m, i) ==
  IF i = NULL THEN m
  ELSE LET n == m.item[i]
           inner == IF n.ref THEN m ELSE cJSON_Delete(m, n.child)
       IN  cJSON_Delete([inner EXCEPT !.item[i] = Free,
             !.strings = @ - One(OwnsText(n)) - One(OwnsKey(n))], n.next)

\* CreateNull, CreateNumber, ..., CreateArray, CreateObject: an item, no string.
CreateOther(m) == cJSON_New_Item(m, "other")

\* CreateString, CreateRaw.
CreateString(m) ==
  LET a == cJSON_New_Item(m, "string")
      b == Strdup(a, a.got, "text", a.got)
  IN  IF a.got = NULL THEN a
      ELSE IF b.got = NULL THEN Got(cJSON_Delete(b, a.got), NULL) ELSE b

Create(m, kind) == IF kind = "other" THEN CreateOther(m) ELSE CreateString(m)
-----------------------------------------------------------------------------
(* Lists *)

RECURSIVE Chain(_, _, _)
\* The list that starts at item i, as far as `most' items.
Chain(it, i, most) ==
  IF i = NULL \/ most = 0 THEN <<>> ELSE <<i>> \o Chain(it, it[i].next, most - 1)

Members(m, list) == Chain(m.item, m.item[list].child, MaxItems + 1)

\* Looking for a name as it is, an item without one ends the search.
get_object_item(m, list, name, case_sensitive) ==
  LET s == Members(m, list)
      Is(i) == LET k == m.item[i].key
               IN  IF case_sensitive THEN k \in {name, NoKey}
                   ELSE k # NoKey /\ Lower[k] = Lower[name]
      n == SelectInSeq(s, Is)
  IN  IF n = 0 \/ m.item[s[n]].key = NoKey THEN NULL ELSE s[n]

\* Mutant: the name it had is not freed.
add_item_to_object_keeps(m, list, name, i, const) ==
  LET n == m.item[i]
      named == IF const THEN Got([m EXCEPT !.item[i].key = name], i)
               ELSE Strdup(m, i, "key", name)
  IN  IF named.got = NULL THEN named
      ELSE add_item_to_array([named EXCEPT !.item[i].const = const], list, i)

\* The item is named before it is added; got is NULL when there is no memory.
add_item_to_object(m, list, name, i, const) ==
  LET n == m.item[i]
      named == IF const THEN Got([m EXCEPT !.item[i].key = name], i)
               ELSE Strdup(m, i, "key", name)
  IN  IF named.got = NULL THEN named
      ELSE add_item_to_array([named EXCEPT !.item[i].const = const,
                                           !.strings = @ - One(OwnsKey(n))], list, i)

\* CreateStringReference; CreateObjectReference and CreateArrayReference.
CreateStringReference(m) ==
  LET a == cJSON_New_Item(m, "string")
  IN  IF a.got = NULL THEN a
      ELSE [a EXCEPT !.item[a.got].ref = TRUE, !.item[a.got].text = Client]

CreateListReference(m, child) ==
  LET a == cJSON_New_Item(m, "other")
  IN  IF a.got = NULL THEN a
      ELSE [a EXCEPT !.item[a.got].ref = TRUE, !.item[a.got].child = child]

create_reference(m, i) ==
  LET r == cJSON_New_Item(m, m.item[i].kind)
  IN  IF r.got = NULL THEN r
      ELSE [r EXCEPT !.item[r.got] = [m.item[i] EXCEPT !.key = NoKey, !.ref = TRUE,
                                      !.next = NULL, !.prev = NULL]]

\* Mutant: the replacement goes to the end of the list.
ReplaceItemViaPointer_last(m, list, i, new) ==
  cJSON_Delete(add_item_to_array(DetachItemViaPointer(m, list, i), list, new), i)

ReplaceItemViaPointer(m, list, i, new) ==
  cJSON_Delete(put_in_its_place(m, list, i, new), i)

\* The name of the new item is changed first, whatever comes of the call.
replace_item_in_object(m, list, name, new, case_sensitive) ==
  LET n == m.item[new]
      freed == [m EXCEPT !.item[new].key = NoKey, !.strings = @ - One(OwnsKey(n))]
      named == Strdup(freed, new, "key", name)
      i == get_object_item(named, list, name, case_sensitive)
      ready == [named EXCEPT !.item[new].const = FALSE]
  IN  IF named.got = NULL THEN named
      ELSE IF i = NULL THEN Got(ready, NULL)
      ELSE ReplaceItemViaPointer(ready, list, i, new)

\* x.got, which is i or the last of its members so far, is followed by c.got.
LinkNext(x, i, c) ==
  IF x.got = NULL \/ c.got = NULL THEN Got(IF x.got = NULL THEN x ELSE c, NULL)
  ELSE IF x.got = i THEN [c EXCEPT !.item[i].child = c.got]
  ELSE [c EXCEPT !.item = suffix_object(@, x.got, c.got)]

\* i with its members, or NULL if one of them could not be made, and i is deleted
\* with what it has.
Filled(x, i) ==
  IF x.got = NULL THEN Got(cJSON_Delete(x, i), NULL)
  ELSE IF x.got = i THEN x
  ELSE Got([x EXCEPT !.item[x.item[i].child].prev = x.got], i)

\* CreateIntArray, CreateFloatArray, CreateDoubleArray, CreateStringArray.
CreateFilled(m, kind, count) ==
  LET a == CreateOther(m)
      Link(x, k) == LinkNext(x, a.got, Create(x, kind))
  IN  IF a.got = NULL THEN a
      ELSE Filled(FoldLeft(Link, a, [k \in 1..count |-> k]), a.got)

RECURSIVE Duplicate(_, _, _)
\* A name that is not the library's is shared with the copy, a reference is not.
Duplicate(m, i, recurse) ==
  LET n == m.item[i]
      s == Members(m, i)
      a == cJSON_New_Item(m, n.kind)
      b == IF n.text = NULL THEN a ELSE Strdup(a, a.got, "text", a.got)
      c == CASE b.got # NULL /\ n.key # NoKey /\ n.const -> [b EXCEPT !.item[a.got].key = n.key]
             [] b.got # NULL /\ n.key # NoKey /\ ~n.const -> Strdup(b, a.got, "key", n.key)
             [] OTHER -> b
      flagged == [c EXCEPT !.item[a.got].const = n.const]
      Link(x, j) == LinkNext(x, a.got, Duplicate(x, j, TRUE))
  IN  IF a.got = NULL THEN a
      ELSE IF c.got = NULL THEN Got(cJSON_Delete(c, a.got), NULL)
      ELSE Filled(FoldLeft(Link, flagged, IF recurse THEN s ELSE <<>>), a.got)
-----------------------------------------------------------------------------
(* The client.  It adds an item once, never to its own descendant; while a *)
(* reference shows a list or a string, it leaves that list as it is and    *)
(* deletes neither.                                                        *)

RECURSIVE Tree(_), Reach(_)
Children(i) == ToSet(Chain(item, item[i].child, MaxItems))
Tree(i)  == {i} \cup IF item[i].ref THEN {} ELSE UNION {Tree(c) : c \in Children(i)}
Reach(i) == {i} \cup UNION {Reach(c) : c \in Children(i)}

Known == UNION {Tree(i) : i \in roots}
Shows(r, i) == item[r].ref /\ (item[r].text = i \/ (item[r].child # NULL /\ item[r].child = item[i].child))

Lists == {i \in Known : /\ item[i].kind = "other" /\ ~item[i].ref
                        /\ ~\E r \in Known : Shows(r, i)}
MayAdd(list, i) == i \in roots /\ list \notin Reach(i)
MayDelete(i) == \A r \in Known \ Tree(i), j \in Tree(i) : ~Shows(r, j) /\ item[r].text # j

\* What a call leaves, for each number of its allocations that may succeed.
Tried(call(_)) == {[call(With(left)) EXCEPT !.left = 0] : left \in Budgets}

\* How the client sees it: the memory as it is then, and what is the client's.
Leaves(m, mine) == item' = m.item /\ strings' = m.strings /\ roots' = mine
Returns(m) == Leaves(m, IF m.got = NULL THEN roots ELSE roots \cup {m.got})
\* The item i is the library's if the call succeeds.
Takes(m, i) == Leaves(m, IF m.got = NULL THEN roots ELSE roots \ {i})

MakeItem ==
  \E kind \in Kinds :
    \/ \E m \in Tried(LAMBDA x : Create(x, kind)) : Returns(m)
    \/ \E count \in 1..MaxItems - 1 :
         \E m \in Tried(LAMBDA x : CreateFilled(x, kind, count)) : Returns(m)

MoreReferences == Cardinality({i \in Node : item[i].ref}) < MaxRefs

MakeReference ==
  /\ MoreReferences
  /\ \/ \E m \in Tried(CreateStringReference) : Returns(m)
     \/ \E child \in {item[i].child : i \in Known} \ {NULL} :
          \E m \in Tried(LAMBDA x : CreateListReference(x, child)) : Returns(m)

AddItemToArray(list, i) ==
  MayAdd(list, i) /\ Leaves(add_item_to_array(Memory, list, i), roots \ {i})

AddItemToObject(list, i) ==
  /\ MayAdd(list, i)
  /\ \E const \in BOOLEAN, name \in Name :
       /\ const => name \in ConstName
       /\ \E m \in Tried(LAMBDA x : add_item_to_object(x, list, name, i, const)) : Takes(m, i)

\* A reference that cannot be named is not deleted.
AddReference(list, i) ==
  LET Added(r, Add(_)) == IF r.got = NULL THEN r ELSE Add(r)
      ToArray(x) == Added(create_reference(x, i), LAMBDA r : add_item_to_array(r, list, r.got))
      ToObject(x, name) ==
        Added(create_reference(x, i), LAMBDA r : add_item_to_object(r, list, name, r.got, FALSE))
  IN  /\ MoreReferences /\ list \notin Reach(i)
      /\ \E m \in Tried(ToArray) \cup UNION {Tried(LAMBDA x : ToObject(x, name)) : name \in Name} :
           Leaves(m, roots)

\* AddNullToObject, ..., AddArrayToObject.
AddNew(list) ==
  LET New(x, kind, name) ==
        LET a == Create(x, kind)
            b == add_item_to_object(a, list, name, a.got, FALSE)
        IN  IF a.got = NULL THEN a ELSE IF b.got = NULL THEN cJSON_Delete(b, a.got) ELSE b
  IN  \E m \in UNION {Tried(LAMBDA x : New(x, kind, name)) : kind \in Kinds, name \in Name} :
        Leaves(m, roots)

\* The items a call can name by their index or by their name.
Named(list) ==
  {get_array_item(Memory, list, index) : index \in 0..MaxItems}
    \cup {get_object_item(Memory, list, name, cs) : name \in Name, cs \in BOOLEAN}

DetachItem(list, i) ==
  i \in Named(list) /\ Returns(DetachItemViaPointer(Memory, list, i))

DeleteItem(list, i) ==
  /\ i \in Named(list) /\ MayDelete(i)
  /\ Leaves(cJSON_Delete(DetachItemViaPointer(Memory, list, i), i), roots)

InsertItem(list, i) ==
  /\ MayAdd(list, i)
  /\ \E m \in {InsertItemInArray(Memory, list, which, i) : which \in 0..MaxItems} :
       Leaves(m, roots \ {i})

ReplaceItemInArray(list, i, new) ==
  /\ MayAdd(list, new) /\ MayDelete(i)
  /\ i \in {get_array_item(Memory, list, index) : index \in 0..MaxItems}
  /\ Leaves(ReplaceItemViaPointer(Memory, list, i, new), roots \ {new})

ReplaceItemInObject(list, new) ==
  /\ MayAdd(list, new)
  /\ \E name \in Name, cs \in BOOLEAN :
       LET i == get_object_item(Memory, list, name, cs)
       IN  /\ i # NULL => MayDelete(i)
           /\ \E m \in Tried(LAMBDA x : replace_item_in_object(x, list, name, new, cs)) :
                Takes(m, new)

DuplicateItem(i) ==
  \E m \in UNION {Tried(LAMBDA x : Duplicate(x, i, recurse)) : recurse \in BOOLEAN} : Returns(m)

Delete(i) == MayDelete(i) /\ Leaves(cJSON_Delete(Memory, i), roots \ {i})

Init == item = [i \in Node |-> Free] /\ strings = 0 /\ roots = {}

Next ==
  \/ MakeItem \/ MakeReference
  \/ \E i \in Known : DuplicateItem(i)
  \/ \E i \in roots : Delete(i)
  \/ \E list \in Lists :
       \/ AddNew(list)
       \/ \E i \in Known : AddReference(list, i)
       \/ \E i \in roots :
            \/ AddItemToArray(list, i) \/ InsertItem(list, i)
            \/ AddItemToObject(list, i) \/ ReplaceItemInObject(list, i)
       \/ \E i \in Children(list) :
            \/ DetachItem(list, i) \/ DeleteItem(list, i)
            \/ \E new \in roots : ReplaceItemInArray(list, i, new)

Spec == Init /\ [][Next]_vars
-----------------------------------------------------------------------------
(* Properties *)

TypeOK == item \in [Node -> Item] /\ strings \in Nat /\ roots \subseteq Node

\* Every list is one that IsList describes; an item that is the client's is in no
\* list, so that cJSON_Delete, which goes on to `next', deletes it and nothing else.
ListsIntact ==
  /\ \A i \in roots : item[i].next = NULL
  /\ \A i \in Known :
       LET s == Chain(item, item[i].child, MaxItems + 1)
       IN  IsList(item, i, s) /\ \A k \in DOMAIN s : item[s[k]].kind # "free"

\* Every item has one owner: the client, or the list that it is in, even after a
\* call that ran out of memory.  What nobody owns is lost: the one case is a
\* reference for whose name there was no memory.
OwnedOnce ==
  /\ \A i \in Known : item[i].kind # "free"
  /\ \A i \in Known :
       Cardinality({k \in Known : ~item[k].ref /\ i \in Children(k)}) = One(i \notin roots)
  /\ \A i \in Node \ Known :
       item[i].kind = "free" \/ (item[i].ref /\ item[i].key = NoKey)

\* Each allocated string is the text or the name of one item, so none is lost and
\* none is freed twice; a shared text is that of an item that is still there.
StringsBalanced ==
  /\ strings = Cardinality({i \in Node : OwnsText(item[i])})
               + Cardinality({i \in Node : OwnsKey(item[i])})
  /\ \A i \in Known : LET t == item[i].text
                      IN  t \in Node => item[t].text = t /\ (~item[i].ref => t = i)

\* Without its pointers, a tree of cJSON is a tree of JsonTree.
Abstract ==
  INSTANCE JsonTree WITH
    Kinds <- Kinds \cup {"free"}, used <- Known, refs <- {i \in Node : item[i].ref},
    kind <- [i \in Node |-> item[i].kind], key <- [i \in Node |-> item[i].key],
    members <- [i \in Node |-> Chain(item, item[i].child, MaxItems)]

\* Every function does to the pointers what its name says of the tree.
Refines == Abstract!Spec
=============================================================================
