------------------------------- MODULE JsonTree -------------------------------
(***************************************************************************)
(* What cJSON's functions on trees promise, without pointers: an array or  *)
(* object has a sequence of members, a tree belongs to its client until it *)
(* is added to another, and what is deleted is gone whole.  A reference    *)
(* shows members that belong to another item.                              *)
(***************************************************************************)
EXTENDS Naturals, Sequences, SequencesExt, FiniteSets

CONSTANTS Node, Kinds, Name, NoKey

VARIABLES
  used,       \* the items there are
  kind, key,  \* of each item
  members,    \* of each array or object
  refs,       \* the items whose members belong to another
  roots       \* the items that belong to the client

vars == <<used, kind, key, members, refs, roots>>
-----------------------------------------------------------------------------
RECURSIVE Tree(_), Value(_)
\* The items deleted with item i.
Tree(i) == {i} \cup IF i \in refs THEN {} ELSE UNION {Tree(c) : c \in ToSet(members[i])}

\* An item as a JSON value.
Value(i) == [kind |-> kind[i], key |-> key[i],
             items |-> [k \in DOMAIN members[i] |-> Value(members[i][k])]]
Bare(i)  == [Value(i) EXCEPT !.items = <<>>]

Init ==
  /\ used = {} /\ refs = {} /\ roots = {}
  /\ kind \in [Node -> Kinds] /\ key \in [Node -> Name \cup {NoKey}]
  /\ members \in [Node -> Seq(Node)]

\* Nothing changes but the members of `lists', and the names of `named'.
Only(lists, named) ==
  \A i \in used \cap used' :
    /\ kind'[i] = kind[i] /\ (i \in refs' <=> i \in refs)
    /\ i \in named \/ key'[i] = key[i]
    /\ i \in lists \/ members'[i] = members[i]

New(i) ==
  /\ roots' = roots \cup {i} /\ used' = used \cup Tree(i)'
  /\ i \notin used /\ used \cap Tree(i)' = {} /\ Only({}, {})

\* The client makes a reference, an item alone, or an array with its members.
Make ==
  \E i \in roots' \ roots :
    /\ New(i) /\ \A j \in Tree(i)' : key'[j] = NoKey
    /\ i \in refs' \/ \A c \in ToSet(members'[i]) : members'[c] = <<>>

Copy(j) ==
  \E i \in roots' \ roots :
    New(i) /\ Value(i)' \in {Value(j), Bare(j)} /\ refs' \ refs = {}

\* Item i, which the client has, becomes the member number n of `list'.
Add(list, n, i) ==
  /\ i \in roots /\ roots' = roots \ {i} /\ UNCHANGED used
  /\ list \notin Tree(i) /\ n \in 1..Len(members[list]) + 1
  /\ members'[list] = InsertAt(members[list], n, i) /\ Only({list}, {i})

\* A new item becomes the last member of `list'.
AddNew(list) ==
  /\ UNCHANGED roots
  /\ \E i \in used' \ used :
       /\ used' = used \cup {i} /\ (i \in refs' \/ members'[i] = <<>>)
       /\ members'[list] = Append(members[list], i) /\ Only({list}, {i})

Detach(list, n) ==
  /\ roots' = roots \cup {members[list][n]} /\ UNCHANGED used
  /\ members'[list] = RemoveAt(members[list], n) /\ Only({list}, {})

DeleteMember(list, n) ==
  /\ UNCHANGED roots /\ used' = used \ Tree(members[list][n])
  /\ members'[list] = RemoveAt(members[list], n) /\ Only({list}, {})

ReplaceMember(list, n, i) ==
  /\ i \in roots /\ roots' = roots \ {i} /\ list \notin Tree(i)
  /\ used' = used \ Tree(members[list][n])
  /\ members'[list] = ReplaceAt(members[list], n, i) /\ Only({list}, {i})

Delete(i) ==
  /\ i \in roots /\ roots' = roots \ {i} /\ used' = used \ Tree(i)
  /\ Only({}, {})

\* A call that fails changes nothing but the name of the item it was given.
Fail(i) == i \in roots /\ UNCHANGED <<used, roots>> /\ Only({}, {i})

Next ==
  \/ Make
  \/ \E i \in used : Copy(i)
  \/ \E i \in roots : Delete(i) \/ Fail(i)
  \/ \E list \in used \ refs :
       \/ AddNew(list)
       \/ \E i \in roots, n \in 1..Len(members[list]) + 1 : Add(list, n, i)
       \/ \E n \in DOMAIN members[list] :
            Detach(list, n) \/ DeleteMember(list, n) \/ \E i \in roots : ReplaceMember(list, n, i)

Spec == Init /\ [][Next]_vars
=============================================================================
