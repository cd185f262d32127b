------------------------------ MODULE CJsonLists ------------------------------
(***************************************************************************)
(* The lists of cJSON.c.  Every item of a list knows the next one and the  *)
(* previous one, the first one's `prev' is the last, and a container knows *)
(* the first one.  These are the functions that change a list, pointer by  *)
(* pointer, in the order of the code's assignments; CJsonTree is the API.  *)
(***************************************************************************)
EXTENDS Naturals, Sequences

CONSTANTS
  Node,       \* the places for items in memory
  NULL,
  Client,     \* a text that is the client's
  Name,       \* the names of members
  NoKey       \* the `string' of an item without a name

ASSUME PlacesAssumption == NULL \notin Node

Kinds == {"string", "other"}

\* struct cJSON.  The functions look at the type of an item only for
\* cJSON_IsReference and cJSON_StringIsConst; the kinds are the items with a
\* valuestring and those without.  `text' is the item whose valuestring it is.
Item == [kind : Kinds \cup {"free"}, ref : BOOLEAN, const : BOOLEAN, key : Name \cup {NoKey},
         text : Node \cup {NULL, Client}, next : Node \cup {NULL},
         prev : Node \cup {NULL}, child : Node \cup {NULL}]

\* A function gets the memory, with how many of its allocations will succeed, and
\* returns it with its result in `got'.
Memories == [item : [Node -> Item], strings : Nat, left : Nat, got : Node \cup {NULL}]
Got(m, i) == [m EXCEPT !.got = i]
-----------------------------------------------------------------------------
\* The item that the loop is at after `index' steps, if the list goes so far.
get_array_item(m, list, index) ==
  LET at[k \in 0..index] ==
        IF k = 0 THEN m.item[list].child
        ELSE IF at[k - 1] = NULL THEN NULL ELSE m.item[at[k - 1]].next
  IN  at[index]

suffix_object(it, prev, i) == [it EXCEPT ![prev].next = i, ![i].prev = prev]

add_item_to_array(m, list, i) ==
  LET first == m.item[list].child
  IN  IF first = NULL
      THEN [m EXCEPT !.item[list].child = i, !.item[i].prev = i, !.item[i].next = NULL]
      ELSE IF m.item[first].prev = NULL THEN m
      ELSE [m EXCEPT !.item = [suffix_object(@, m.item[first].prev, i)
                                 EXCEPT ![first].prev = i]]

\* Mutant: the last item's place is not kept up to date.
DetachItemViaPointer_last(m, list, i) ==
  LET n == m.item[i]
      first == m.item[list].child
      skip  == IF i # first THEN [m.item EXCEPT ![n.prev].next = n.next] ELSE m.item
      back  == IF n.next # NULL THEN [skip EXCEPT ![n.next].prev = n.prev] ELSE skip
      head  == IF i = first THEN [back EXCEPT ![list].child = n.next] ELSE back
  IN  Got([m EXCEPT !.item = [head EXCEPT ![i].prev = NULL, ![i].next = NULL]], i)

DetachItemViaPointer(m, list, i) ==
  LET n == m.item[i]
      first == m.item[list].child
      skip  == IF i # first THEN [m.item EXCEPT ![n.prev].next = n.next] ELSE m.item
      back  == IF n.next # NULL THEN [skip EXCEPT ![n.next].prev = n.prev] ELSE skip
      head  == IF i = first THEN [back EXCEPT ![list].child = n.next]
               ELSE IF n.next = NULL THEN [back EXCEPT ![first].prev = n.prev] ELSE back
  IN  IF i = NULL \/ (i # first /\ n.prev = NULL) THEN Got(m, NULL)
      ELSE Got([m EXCEPT !.item = [head EXCEPT ![i].prev = NULL, ![i].next = NULL]], i)

\* Mutant: the head of the list stays.
InsertItemInArray_head(m, list, which, i) ==
  LET after == get_array_item(m, list, which)
      put == [m.item EXCEPT ![i].next = after, ![i].prev = m.item[after].prev,
                            ![after].prev = i]
  IN  IF after = NULL THEN add_item_to_array(m, list, i) ELSE [m EXCEPT !.item = put]

InsertItemInArray(m, list, which, i) ==
  LET after == get_array_item(m, list, which)
      put == [m.item EXCEPT ![i].next = after, ![i].prev = m.item[after].prev,
                            ![after].prev = i]
  IN  IF after = NULL THEN add_item_to_array(m, list, i)
      ELSE IF after # m.item[list].child /\ m.item[after].prev = NULL THEN m
      ELSE IF after = m.item[list].child THEN [m EXCEPT !.item = [put EXCEPT ![list].child = i]]
      ELSE [m EXCEPT !.item = [put EXCEPT ![put[i].prev].next = i]]

\* ReplaceItemViaPointer, up to the deletion of i, which then points nowhere.
put_in_its_place(m, list, i, new) ==
  LET n == m.item[i]
      first == m.item[list].child
      put  == [m.item EXCEPT ![new].next = n.next, ![new].prev = n.prev]
      back == IF n.next # NULL THEN [put EXCEPT ![n.next].prev = new] ELSE put
      head == IF first = i
              THEN [back EXCEPT ![list].child = new,
                                ![new].prev = IF back[first].prev = first THEN new
                                              ELSE n.prev]
              ELSE LET skip == IF n.prev # NULL THEN [back EXCEPT ![n.prev].next = new]
                               ELSE back
                   IN  IF n.next = NULL THEN [skip EXCEPT ![first].prev = new] ELSE skip
  IN  [m EXCEPT !.item = [head EXCEPT ![i].next = NULL, ![i].prev = NULL]]
-----------------------------------------------------------------------------
\* The members of `list' are those of s, in that order, and can be walked both ways:
\* next ends the list, prev leads back, and the first one's prev is the last one.
IsList(it, list, s) ==
  /\ s \in Seq(Node) /\ \A k, n \in DOMAIN s : s[k] = s[n] => k = n
  /\ it[list].child = IF s = <<>> THEN NULL ELSE s[1]
  /\ \A k \in DOMAIN s :
       /\ it[s[k]].next = IF k = Len(s) THEN NULL ELSE s[k + 1]
       /\ it[s[k]].prev = s[IF k = 1 THEN Len(s) ELSE k - 1]
=============================================================================
