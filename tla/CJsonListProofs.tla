--------------------------- MODULE CJsonListProofs ---------------------------
(***************************************************************************)
(* What the functions on lists do to a list, whatever its length, where    *)
(* the memory has any number of items: the list that is left is the one    *)
(* that the function's name says, every list with other members stays, and *)
(* no item changes in anything but its links.                              *)
(***************************************************************************)
EXTENDS CJsonLists, SequencesExt, SequenceTheorems, WellFoundedInduction, NaturalsInduction, TLAPS

\* The members of a list.
Of(s) == {s[k] : k \in DOMAIN s}

\* What a function did to the lists other than `list': nothing, unless a member of them
\* is in `touched'; and nothing to what an item is, says and is called.
OnlyLinks(before, after, list, touched) ==
  \A j \in Node :
    /\ after[j].kind = before[j].kind /\ after[j].key = before[j].key
    /\ after[j].text = before[j].text
    /\ after[j].ref = before[j].ref /\ after[j].const = before[j].const
    /\ j # list => after[j].child = before[j].child
    /\ j \notin touched => after[j].next = before[j].next /\ after[j].prev = before[j].prev

\* A list none of whose members a function touched stays as it is.
THEOREM OthersStay ==
  ASSUME NEW it, NEW it2, NEW list, NEW touched, OnlyLinks(it, it2, list, touched),
         NEW l \in Node, l # list, NEW t, IsList(it, l, t), Of(t) \cap touched = {}
  PROVE  IsList(it2, l, t)
<1>1. t \in Seq(Node) /\ \A k \in DOMAIN t : t[k] \in Node /\ t[k] \notin touched
  BY LenProperties DEF IsList, Of
<1>2. it2[l].child = it[l].child
  BY DEF OnlyLinks
<1>3. \A k \in DOMAIN t : it2[t[k]].next = it[t[k]].next /\ it2[t[k]].prev = it[t[k]].prev
  BY <1>1 DEF OnlyLinks
<1>. QED  BY <1>1, <1>2, <1>3 DEF IsList

\* The data stays what it is; and so do the pointers, but for one of item i.
SameData(it, it2) ==
  \A j \in Node :
    /\ it2[j].kind = it[j].kind /\ it2[j].key = it[j].key /\ it2[j].text = it[j].text
    /\ it2[j].ref = it[j].ref /\ it2[j].const = it[j].const
NextIs(it, it2, i, v) ==
  /\ it2 \in [Node -> Item] /\ SameData(it, it2)
  /\ \A j \in Node : /\ it2[j].child = it[j].child /\ it2[j].prev = it[j].prev
                     /\ it2[j].next = IF j = i THEN v ELSE it[j].next
PrevIs(it, it2, i, v) ==
  /\ it2 \in [Node -> Item] /\ SameData(it, it2)
  /\ \A j \in Node : /\ it2[j].child = it[j].child /\ it2[j].next = it[j].next
                     /\ it2[j].prev = IF j = i THEN v ELSE it[j].prev
ChildIs(it, it2, i, v) ==
  /\ it2 \in [Node -> Item] /\ SameData(it, it2)
  /\ \A j \in Node : /\ it2[j].next = it[j].next /\ it2[j].prev = it[j].prev
                     /\ it2[j].child = IF j = i THEN v ELSE it[j].child

\* The assignments to one pointer of one item.
SetNext(it, i, v)  == [it EXCEPT ![i].next = v]
SetPrev(it, i, v)  == [it EXCEPT ![i].prev = v]
SetChild(it, i, v) == [it EXCEPT ![i].child = v]

\* ... change it alone.
LEMMA PointerSet ==
  ASSUME NEW it \in [Node -> Item], NEW i \in Node, NEW v \in Node \cup {NULL}
  PROVE  /\ NextIs(it, SetNext(it, i, v), i, v)
         /\ PrevIs(it, SetPrev(it, i, v), i, v)
         /\ ChildIs(it, SetChild(it, i, v), i, v)
<1>1. NextIs(it, SetNext(it, i, v), i, v)
  BY DEF Item, SameData, NextIs, SetNext
<1>2. PrevIs(it, SetPrev(it, i, v), i, v)
  BY DEF Item, SameData, PrevIs, SetPrev
<1>3. ChildIs(it, SetChild(it, i, v), i, v)
  BY DEF Item, SameData, ChildIs, SetChild
<1>. QED  BY <1>1, <1>2, <1>3

\* Data that two assignments leave alone is the same after both.
LEMMA SameDataTwice ==
  ASSUME NEW it, NEW it2, NEW it3, SameData(it, it2), SameData(it2, it3)
  PROVE  SameData(it, it3)
  BY DEF SameData

\* A set of numbers has a smallest one.
LEMMA Smallest ==
  ASSUME NEW T \in SUBSET Nat, T # {}
  PROVE  \E x \in T : \A y \in T : ~(y < x)
<1>1. PICK x \in T : \A y \in T : ~(<<y, x>> \in OpToRel(<, Nat))
  BY NatLessThanWellFounded, WFMin
<1>2. \A y \in T : <<y, x>> \in OpToRel(<, Nat) <=> y < x
  BY DEF OpToRel
<1>. QED  BY <1>1, <1>2

\* IsList, said of the n members one by one.
Linked(it, list, s, n) ==
  /\ s \in Seq(Node) /\ Len(s) = n
  /\ \A k \in 1..n : s[k] \in Node /\ s[k] # NULL
  /\ \A k, l \in 1..n : s[k] = s[l] => k = l
  /\ n = 0 => it[list].child = NULL
  /\ n # 0 => it[list].child = s[1] /\ it[s[n]].next = NULL /\ it[s[1]].prev = s[n]
  /\ \A k \in 1..n : k < n => it[s[k]].next = s[k + 1]
  /\ \A k \in 1..n : k > 1 => it[s[k]].prev = s[k - 1]

\* A list is linked, with as many members as its sequence has.
LEMMA ListIsLinked ==
  ASSUME NEW it, NEW list, NEW s, IsList(it, list, s)
  PROVE  \E n \in Nat : Linked(it, list, s, n)
<1>1. s \in Seq(Node) /\ \A k, l \in DOMAIN s : s[k] = s[l] => k = l
  BY DEF IsList
<1>2. PICK n \in Nat : n = Len(s) /\ DOMAIN s = 1..n
  BY <1>1, LenProperties
<1>3. \A k \in 1..n : s[k] \in Node /\ s[k] # NULL
  BY <1>1, <1>2, ElementOfSeq, PlacesAssumption
<1>4. it[list].child = IF n = 0 THEN NULL ELSE s[1]
  <2>1. s = <<>> <=> n = 0
    BY <1>1, <1>2, EmptySeq
  <2>. QED  BY <2>1 DEF IsList
<1>5. \A k \in 1..n : /\ it[s[k]].next = IF k = n THEN NULL ELSE s[k + 1]
                      /\ it[s[k]].prev = s[IF k = 1 THEN n ELSE k - 1]
  <2>. SUFFICES ASSUME NEW k \in 1..n
                PROVE  /\ it[s[k]].next = IF k = n THEN NULL ELSE s[k + 1]
                       /\ it[s[k]].prev = s[IF k = 1 THEN n ELSE k - 1]
    OBVIOUS
  <2>. QED  BY <1>2, Zenon DEF IsList
<1>6. n # 0 => n \in 1..n /\ 1 \in 1..n
  OBVIOUS
<1>7. n # 0 => it[s[n]].next = NULL /\ it[s[1]].prev = s[n]
  BY <1>5, <1>6
<1>8. \A k \in 1..n : k < n => it[s[k]].next = s[k + 1]
  BY <1>5
<1>9. \A k \in 1..n : k > 1 => it[s[k]].prev = s[k - 1]
  BY <1>5
<1>10. \A k, l \in 1..n : s[k] = s[l] => k = l
  BY <1>1, <1>2
<1>11. Linked(it, list, s, n)
  BY <1>1, <1>2, <1>3, <1>4, <1>7, <1>8, <1>9, <1>10 DEF Linked
<1>. QED  BY <1>11

\* Members that are linked one by one are a list.
LEMMA LinkedIsList ==
  ASSUME NEW it, NEW list, NEW s, NEW n \in Nat, Linked(it, list, s, n)
  PROVE  IsList(it, list, s)
<1>1. s \in Seq(Node) /\ Len(s) = n /\ DOMAIN s = 1..n
  BY LenProperties DEF Linked
<1>2. s = <<>> <=> n = 0
  BY <1>1, EmptySeq
<1>3. \A k, l \in DOMAIN s : s[k] = s[l] => k = l
  BY <1>1 DEF Linked
<1>4. it[list].child = IF s = <<>> THEN NULL ELSE s[1]
  BY <1>2 DEF Linked
<1>5. ASSUME NEW k \in 1..n
      PROVE  /\ it[s[k]].next = IF k = n THEN NULL ELSE s[k + 1]
             /\ it[s[k]].prev = s[IF k = 1 THEN n ELSE k - 1]
  <2>1. n # 0 /\ (k # n => k < n) /\ (k # 1 => k > 1)
    OBVIOUS
  <2>2. CASE k = n
    <3>1. it[s[k]].next = NULL
      BY <2>1, <2>2 DEF Linked
    <3>2. it[s[k]].prev = s[IF k = 1 THEN n ELSE k - 1]
      BY <2>1, <2>2 DEF Linked
    <3>. QED  BY <2>2, <3>1, <3>2
  <2>3. CASE k # n
    <3>1. it[s[k]].next = s[k + 1]
      BY <2>1, <2>3 DEF Linked
    <3>2. it[s[k]].prev = s[IF k = 1 THEN n ELSE k - 1]
      BY <2>1, <2>3 DEF Linked
    <3>. QED  BY <2>3, <3>1, <3>2
  <2>. QED  BY <2>2, <2>3
<1>. QED  BY <1>1, <1>3, <1>4, <1>5, Zenon DEF IsList
-----------------------------------------------------------------------------
(* get_array_item *)

\* Where k steps lead in the list of s.
At(s, k) == IF k < Len(s) THEN s[k + 1] ELSE NULL
\* ... and one step from item i.
Step(it, i) == IF i = NULL THEN NULL ELSE it[i].next

\* The loop of get_array_item is at the first member after no step, and goes from each
\* member to the next.
LEMMA StepIs ==
  ASSUME NEW it, NEW list, NEW s, IsList(it, list, s), NEW k \in Nat
  PROVE  /\ At(s, 0) = it[list].child
         /\ At(s, k + 1) = Step(it, At(s, k))
<1>1. PICK n \in Nat : Linked(it, list, s, n)
  BY ListIsLinked
<1>2. /\ Len(s) = n /\ \A j \in 1..n : s[j] # NULL
      /\ n = 0 => it[list].child = NULL
      /\ n # 0 => it[list].child = s[1] /\ it[s[n]].next = NULL
      /\ \A j \in 1..n : j < n => it[s[j]].next = s[j + 1]
  BY <1>1 DEF Linked
<1>3. At(s, 0) = it[list].child
  <2>1. CASE n = 0
    BY <1>2, <2>1 DEF At
  <2>2. CASE n # 0
    BY <1>2, <2>2 DEF At
  <2>. QED  BY <2>1, <2>2
<1>4. CASE k + 1 < n
  <2>1. k < n /\ k + 1 \in 1..n /\ s[k + 1] # NULL /\ it[s[k + 1]].next = s[k + 1 + 1]
    BY <1>2, <1>4
  <2>. QED  BY <1>2, <1>3, <1>4, <2>1 DEF At, Step
<1>5. CASE k + 1 = n
  <2>1. k < n /\ ~(k + 1 < n) /\ n # 0 /\ n \in 1..n
    BY <1>5
  <2>2. At(s, k) = s[n] /\ At(s, k + 1) = NULL /\ s[n] # NULL /\ it[s[n]].next = NULL
    BY <1>2, <1>5, <2>1 DEF At
  <2>. QED  BY <1>3, <2>2 DEF Step
<1>6. CASE k + 1 > n
  BY <1>2, <1>3, <1>6 DEF At, Step
<1>. QED  BY <1>4, <1>5, <1>6

\* get_array_item returns the member at an index, counted from 0, or NULL.
THEOREM ItemAtIndex ==
  ASSUME NEW m, NEW list, NEW s, IsList(m.item, list, s), NEW index \in Nat
  PROVE  get_array_item(m, list, index) = At(s, index)
<1>. DEFINE Is(f) == f = [k \in 0..index |->
                           IF k = 0 THEN m.item[list].child
                           ELSE IF f[k - 1] = NULL THEN NULL ELSE m.item[f[k - 1]].next]
            at == CHOOSE f : Is(f)
            g == [k \in 0..index |-> At(s, k)]
<1>1. Is(g)
  <2>1. ASSUME NEW k \in 0..index
        PROVE  At(s, k) = IF k = 0 THEN m.item[list].child
                          ELSE IF g[k - 1] = NULL THEN NULL ELSE m.item[g[k - 1]].next
    <3>1. CASE k = 0
      BY <3>1, StepIs
    <3>2. CASE k # 0
      <4>1. k - 1 \in Nat /\ k - 1 \in 0..index /\ (k - 1) + 1 = k
        BY <3>2
      <4>2. At(s, k) = Step(m.item, At(s, k - 1))
        BY <4>1, StepIs
      <4>3. g[k - 1] = At(s, k - 1)
        BY <4>1
      <4>. QED  BY <3>2, <4>2, <4>3 DEF Step
    <3>. QED  BY <3>1, <3>2
  <2>. QED  BY <2>1
<1>2. Is(at)
  BY <1>1
<1>3. get_array_item(m, list, index) = at[index]
  BY DEF get_array_item
<1>. HIDE DEF at
<1>4. \A k \in 0..index : at[k] = At(s, k)
  <2>. DEFINE T == {k \in 0..index : at[k] # At(s, k)}
  <2>. SUFFICES ASSUME T # {} PROVE FALSE
    OBVIOUS
  <2>0. T \in SUBSET Nat
    OBVIOUS
  <2>1. PICK k \in T : \A y \in T : ~(y < k)
    <3>. HIDE DEF T
    <3>. QED  BY <2>0, Smallest
  <2>2. CASE k = 0
    BY <1>2, <2>2, StepIs
  <2>3. CASE k # 0
    <3>1. k \in Nat /\ k - 1 \in Nat /\ k - 1 \in 0..index /\ (k - 1) + 1 = k /\ k - 1 < k
      BY <2>3
    <3>2. at[k - 1] = At(s, k - 1)
      BY <2>1, <3>1
    <3>3. At(s, k) = Step(m.item, At(s, k - 1))
      BY <3>1, StepIs
    <3>4. at[k] = Step(m.item, at[k - 1])
      BY <1>2, <2>3, <3>1 DEF Step
    <3>. QED  BY <3>2, <3>3, <3>4
  <2>. QED  BY <2>2, <2>3
<1>. QED  BY <1>3, <1>4

\* A container has one list.
LEMMA OneList ==
  ASSUME NEW it, NEW list, NEW s, NEW t, IsList(it, list, s), IsList(it, list, t)
  PROVE  s = t
<1>. DEFINE T == {k \in Nat : At(s, k) # At(t, k)}
<1>1. T = {}
  <2>. SUFFICES ASSUME T # {} PROVE FALSE
    OBVIOUS
  <2>0. T \in SUBSET Nat
    OBVIOUS
  <2>1. PICK k \in T : \A y \in T : ~(y < k)
    <3>. HIDE DEF T
    <3>. QED  BY <2>0, Smallest
  <2>2. k # 0
    BY StepIs
  <2>3. k - 1 \in Nat /\ (k - 1) + 1 = k /\ k - 1 < k
    BY <2>2
  <2>4. At(s, k - 1) = At(t, k - 1)
    BY <2>1, <2>3
  <2>. QED  BY <2>3, <2>4, StepIs
<1>2. \A k \in Nat : At(s, k) = At(t, k)
  BY <1>1
<1>. HIDE DEF T
<1>3. /\ s \in Seq(Node) /\ Len(s) \in Nat /\ \A k \in 1..Len(s) : s[k] # NULL
      /\ t \in Seq(Node) /\ Len(t) \in Nat /\ \A k \in 1..Len(t) : t[k] # NULL
  BY ListIsLinked DEF Linked
<1>4. ASSUME NEW n \in Nat, NEW u, NEW v, Len(u) = n, Len(v) \in Nat, n < Len(v),
             v[n + 1] # NULL, At(u, n) = At(v, n)
      PROVE  FALSE
  BY <1>4 DEF At
<1>5. ~(Len(s) < Len(t))
  <2>. SUFFICES ASSUME Len(s) < Len(t) PROVE FALSE
    OBVIOUS
  <2>1. Len(s) + 1 \in 1..Len(t)
    BY <1>3
  <2>. QED  BY <1>2, <1>3, <1>4, <2>1
<1>6. ~(Len(t) < Len(s))
  <2>. SUFFICES ASSUME Len(t) < Len(s) PROVE FALSE
    OBVIOUS
  <2>1. Len(t) + 1 \in 1..Len(s)
    BY <1>3
  <2>. QED  BY <1>2, <1>3, <1>4, <2>1
<1>7. PICK n \in Nat : n = Len(s) /\ n = Len(t)
  BY <1>3, <1>5, <1>6
<1>8. \A k \in 1..n : s[k] = t[k]
  <2>. SUFFICES ASSUME NEW k \in 1..n PROVE s[k] = t[k]
    OBVIOUS
  <2>1. k - 1 \in Nat /\ k - 1 < n /\ (k - 1) + 1 = k
    OBVIOUS
  <2>2. At(s, k - 1) = s[k] /\ At(t, k - 1) = t[k]
    BY <1>7, <2>1 DEF At
  <2>. QED  BY <1>2, <2>1, <2>2
<1>. QED  BY <1>3, <1>7, <1>8, SeqEqual
-----------------------------------------------------------------------------
(* add_item_to_array *)

\* A list of the memory is linked, and its members are other items than those that are
\* not in it.
LEMMA Ready ==
  ASSUME NEW m \in Memories, NEW list, NEW s, IsList(m.item, list, s)
  PROVE  \E it \in [Node -> Item], n \in Nat :
           /\ it = m.item /\ Linked(it, list, s, n)
           /\ \A k \in 1..n : s[k] \in Of(s)
           /\ \A i : i \notin Of(s) => \A k \in 1..n : s[k] # i
<1>1. PICK it \in [Node -> Item] : it = m.item
  BY DEF Memories
<1>2. PICK n \in Nat : Linked(it, list, s, n)
  BY <1>1, ListIsLinked
<1>3. \A k \in 1..n : s[k] \in Of(s)
  BY <1>2, LenProperties DEF Of, Linked
<1>. QED  BY <1>1, <1>2, <1>3

\* add_item_to_array makes an item that is in no list the last member.
THEOREM AddAppends ==
  ASSUME NEW m \in Memories, NEW list \in Node, NEW s, IsList(m.item, list, s),
         NEW i \in Node, i \notin Of(s), m.item[i].next = NULL
  PROVE  /\ IsList(add_item_to_array(m, list, i).item, list, Append(s, i))
         /\ OnlyLinks(m.item, add_item_to_array(m, list, i).item, list, Of(s) \cup {i})
         /\ add_item_to_array(m, list, i) \in Memories
<1>. DEFINE t == Append(s, i)
<1>1. PICK it \in [Node -> Item], n \in Nat :
        /\ it = m.item /\ Linked(it, list, s, n)
        /\ \A k \in 1..n : s[k] \in Of(s) /\ s[k] # i
  BY Ready
<1>2. s \in Seq(Node) /\ Len(s) = n /\ \A k \in 1..n : s[k] \in Node
  BY <1>1 DEF Linked
<1>3. /\ t \in Seq(Node) /\ Len(t) = n + 1 /\ t[n + 1] = i
      /\ \A k \in 1..n : t[k] = s[k]
  BY <1>2, AppendProperties
<1>4. \A k \in 1..(n + 1) : t[k] \in Node /\ t[k] # NULL
  BY <1>2, <1>3, PlacesAssumption
<1>5. \A k, l \in 1..(n + 1) : t[k] = t[l] => k = l
  BY <1>1, <1>3 DEF Linked
<1>. HIDE DEF t
<1>6. CASE n = 0
  <2>. DEFINE it2 == [it EXCEPT ![list].child = i, ![i].prev = i, ![i].next = NULL]
  <2>0. it2 \in [Node -> Item]
    <3>. DEFINE p == SetChild(it, list, i)
                q == SetPrev(p, i, i)
    <3>1. it2 = SetNext(q, i, NULL)
      BY DEF SetNext, SetPrev, SetChild
    <3>2. p \in [Node -> Item]
      BY PointerSet DEF ChildIs
    <3>. HIDE DEF p, it2
    <3>3. q \in [Node -> Item]
      BY <3>2, PointerSet DEF PrevIs
    <3>. HIDE DEF q
    <3>4. NULL \in Node \cup {NULL}
      OBVIOUS
    <3>. QED  BY <3>1, <3>3, <3>4, PointerSet DEF NextIs
  <2>1. add_item_to_array(m, list, i).item = it2 /\ add_item_to_array(m, list, i) \in Memories
    <3>1. add_item_to_array(m, list, i) = [m EXCEPT !.item = it2]
      BY <1>1, <1>6 DEF add_item_to_array, Linked
    <3>. HIDE DEF it2
    <3>. QED  BY <2>0, <3>1 DEF Memories
  <2>2. /\ it2[list].child = i /\ it2[i].prev = i /\ it2[i].next = NULL
        /\ OnlyLinks(it, it2, list, Of(s) \cup {i})
    BY DEF OnlyLinks, Item
  <2>. HIDE DEF it2
  <2>3. t[1] = i /\ Len(t) = 1
    BY <1>3, <1>6
  <2>4. Linked(it2, list, t, 1)
    BY <1>3, <1>4, <1>6, <2>2, <2>3 DEF Linked
  <2>5. IsList(it2, list, t)
    BY <2>4, LinkedIsList
  <2>. QED  BY <1>1, <2>1, <2>2, <2>5 DEF t
<1>7. CASE n # 0
  <2>. DEFINE it2 == [suffix_object(it, s[n], i) EXCEPT ![s[1]].prev = i]
  <2>0. /\ n \in 1..n /\ 1 \in 1..n /\ it[list].child = s[1] /\ it[s[n]].next = NULL
        /\ it[s[1]].prev = s[n] /\ s[1] \in Node /\ s[n] \in Node /\ s[1] # NULL /\ s[n] # NULL
        /\ s[1] # i /\ s[n] # i /\ s[1] \in Of(s) /\ s[n] \in Of(s)
    BY <1>1, <1>7 DEF Linked
  <2>1. add_item_to_array(m, list, i).item = it2 /\ add_item_to_array(m, list, i) \in Memories
    <3>1. add_item_to_array(m, list, i) = [m EXCEPT !.item = it2]
      BY <1>1, <2>0 DEF add_item_to_array, Memories
    <3>2. it2 \in [Node -> Item]
      BY <2>0 DEF suffix_object, Item
    <3>. HIDE DEF it2
    <3>. QED  BY <3>1, <3>2 DEF Memories
  <2>2. \A j \in Node :
          /\ it2[j].child = it[j].child
          /\ it2[j].next = IF j = s[n] THEN i ELSE it[j].next
          /\ it2[j].prev = IF j = s[1] THEN i ELSE IF j = i THEN s[n] ELSE it[j].prev
          /\ it2[j].kind = it[j].kind /\ it2[j].key = it[j].key /\ it2[j].text = it[j].text
          /\ it2[j].ref = it[j].ref /\ it2[j].const = it[j].const
    BY <2>0 DEF suffix_object, Item
  <2>. HIDE DEF it2
  <2>3. OnlyLinks(it, it2, list, Of(s) \cup {i})
    <3>1. s[n] \in Of(s) \cup {i} /\ s[1] \in Of(s) \cup {i} /\ i \in Of(s) \cup {i}
      BY <2>0
    <3>2. \A j \in Node \ (Of(s) \cup {i}) : it2[j].next = it[j].next /\ it2[j].prev = it[j].prev
      BY <2>2, <3>1
    <3>. QED  BY <2>2, <3>2 DEF OnlyLinks
  <2>4. IsList(it2, list, t)
    <3>1. it2[list].child = t[1] /\ it2[t[n + 1]].next = NULL /\ it2[t[1]].prev = t[n + 1]
      BY <1>1, <1>3, <2>0, <2>2
    <3>2. ASSUME NEW k \in 1..(n + 1), k < n + 1
          PROVE  it2[t[k]].next = t[k + 1]
      <4>1. CASE k = n
        BY <1>3, <2>0, <2>2, <4>1
      <4>2. CASE k # n
        <5>1. k \in 1..n /\ k < n /\ k + 1 \in 1..n
          BY <3>2, <4>2
        <5>2. t[k] = s[k] /\ t[k + 1] = s[k + 1] /\ s[k] # s[n] /\ s[k] \in Node
          BY <1>1, <1>2, <1>3, <2>0, <4>2, <5>1 DEF Linked
        <5>3. it[s[k]].next = s[k + 1]
          BY <1>1, <5>1 DEF Linked
        <5>. QED  BY <2>2, <5>2, <5>3
      <4>. QED  BY <4>1, <4>2
    <3>3. ASSUME NEW k \in 1..(n + 1), k > 1
          PROVE  it2[t[k]].prev = t[k - 1]
      <4>1. CASE k = n + 1
        <5>1. k - 1 = n
          BY <4>1
        <5>. QED  BY <1>3, <2>0, <2>2, <4>1, <5>1
      <4>2. CASE k # n + 1
        <5>1. k \in 1..n /\ k # 1 /\ k - 1 \in 1..n
          BY <3>3, <4>2
        <5>2. t[k] = s[k] /\ t[k - 1] = s[k - 1] /\ s[k] # s[1] /\ s[k] \in Node /\ s[k] # i
          BY <1>1, <1>2, <1>3, <2>0, <5>1 DEF Linked
        <5>3. it[s[k]].prev = s[k - 1]
          BY <1>1, <3>3, <5>1 DEF Linked
        <5>. QED  BY <2>2, <5>2, <5>3
      <4>. QED  BY <4>1, <4>2
    <3>4. Linked(it2, list, t, n + 1)
      BY <1>3, <1>4, <1>5, <3>1, <3>2, <3>3 DEF Linked
    <3>. QED  BY <3>4, LinkedIsList
  <2>. QED  BY <1>1, <2>1, <2>3, <2>4 DEF t
<1>. QED  BY <1>6, <1>7
-----------------------------------------------------------------------------
(* cJSON_DetachItemViaPointer *)

\* A sequence without its element k.
LEMMA RemoveAtIs ==
  ASSUME NEW S, NEW s \in Seq(S), NEW k \in 1..Len(s)
  PROVE  /\ RemoveAt(s, k) \in Seq(S) /\ Len(RemoveAt(s, k)) = Len(s) - 1
         /\ \A j \in 1..(Len(s) - 1) : RemoveAt(s, k)[j] = IF j < k THEN s[j] ELSE s[j + 1]
<1>0. PICK n \in Nat : n = Len(s)
  BY LenProperties
<1>. DEFINE a == SubSeq(s, 1, k - 1)
            b == SubSeq(s, k + 1, n)
<1>1. \A j \in 1..n : s[j] \in S
  BY <1>0, ElementOfSeq
<1>2. k \in 1..n /\ k - 1 \in Int /\ k + 1 \in Int /\ n \in Int /\ 1 \in Int
  BY <1>0
<1>3. /\ a \in Seq(S) /\ Len(a) = k - 1
      /\ \A j \in 1..(k - 1) : a[j] = s[j]
  <2>1. \A j \in 1..(k - 1) : s[j] \in S
    BY <1>1, <1>2
  <2>2. /\ a \in Seq(S) /\ Len(a) = IF 1 <= k - 1 THEN k - 1 - 1 + 1 ELSE 0
        /\ \A j \in 1..(k - 1 - 1 + 1) : a[j] = s[1 + j - 1]
    BY <1>2, <2>1, SubSeqProperties
  <2>3. \A j \in 1..(k - 1) : j \in 1..(k - 1 - 1 + 1) /\ 1 + j - 1 = j
    BY <1>2
  <2>4. (IF 1 <= k - 1 THEN k - 1 - 1 + 1 ELSE 0) = k - 1
    BY <1>2
  <2>. QED  BY <2>2, <2>3, <2>4
<1>4. /\ b \in Seq(S) /\ Len(b) = n - k
      /\ \A j \in 1..(n - k) : b[j] = s[k + j]
  <2>1. \A j \in (k + 1)..n : s[j] \in S
    BY <1>1, <1>2
  <2>2. /\ b \in Seq(S) /\ Len(b) = IF k + 1 <= n THEN n - (k + 1) + 1 ELSE 0
        /\ \A j \in 1..(n - (k + 1) + 1) : b[j] = s[(k + 1) + j - 1]
    BY <1>2, <2>1, SubSeqProperties
  <2>3. \A j \in 1..(n - k) : j \in 1..(n - (k + 1) + 1) /\ (k + 1) + j - 1 = k + j
    BY <1>2
  <2>4. (IF k + 1 <= n THEN n - (k + 1) + 1 ELSE 0) = n - k
    BY <1>2
  <2>. QED  BY <2>2, <2>3, <2>4
<1>5. RemoveAt(s, k) = a \o b
  BY <1>0 DEF RemoveAt
<1>. HIDE DEF a, b
<1>6. /\ a \o b \in Seq(S) /\ Len(a \o b) = Len(a) + Len(b)
      /\ \A j \in 1..(Len(a) + Len(b)) :
           (a \o b)[j] = IF j <= Len(a) THEN a[j] ELSE b[j - Len(a)]
  BY <1>3, <1>4, ConcatProperties
<1>7. Len(a) + Len(b) = n - 1
  BY <1>2, <1>3, <1>4
<1>8. \A j \in 1..(n - 1) : (a \o b)[j] = IF j < k THEN s[j] ELSE s[j + 1]
  <2>. SUFFICES ASSUME NEW j \in 1..(n - 1)
                PROVE  (a \o b)[j] = IF j < k THEN s[j] ELSE s[j + 1]
    OBVIOUS
  <2>1. (a \o b)[j] = IF j <= k - 1 THEN a[j] ELSE b[j - (k - 1)]
    BY <1>3, <1>6, <1>7
  <2>2. CASE j < k
    <3>1. j <= k - 1 /\ j \in 1..(k - 1)
      BY <1>2, <2>2
    <3>. QED  BY <1>3, <2>1, <2>2, <3>1
  <2>3. CASE ~(j < k)
    <3>1. ~(j <= k - 1) /\ j - (k - 1) \in 1..(n - k) /\ k + (j - (k - 1)) = j + 1
      BY <1>2, <2>3
    <3>2. b[j - (k - 1)] = s[k + (j - (k - 1))]
      BY <1>4, <3>1
    <3>. QED  BY <2>1, <2>3, <3>1, <3>2
  <2>. QED  BY <2>2, <2>3
<1>. QED  BY <1>0, <1>5, <1>6, <1>7, <1>8

\* The pointers that cJSON_DetachItemViaPointer leaves, where a is the item before i
\* and b the one after it.
LEMMA DetachIs ==
  ASSUME NEW m \in Memories, NEW list \in Node, NEW i \in Node,
         NEW it, it = m.item, NEW it2, it2 = DetachItemViaPointer(m, list, i).item,
         NEW first, first = it[list].child, NEW a, a = it[i].prev, NEW b, b = it[i].next,
         i # first => a # NULL /\ first # NULL
  PROVE  /\ DetachItemViaPointer(m, list, i) \in Memories
         /\ DetachItemViaPointer(m, list, i).got = i
         /\ \A j \in Node :
              /\ it2[j].child = IF j = list /\ i = first THEN b ELSE it[j].child
              /\ it2[j].next = IF j = i THEN NULL
                               ELSE IF i # first /\ j = a THEN b ELSE it[j].next
              /\ it2[j].prev = IF j = i THEN NULL
                               ELSE IF j = b THEN a
                               ELSE IF i # first /\ b = NULL /\ j = first THEN a ELSE it[j].prev
              /\ it2[j].kind = it[j].kind /\ it2[j].key = it[j].key /\ it2[j].text = it[j].text
              /\ it2[j].ref = it[j].ref /\ it2[j].const = it[j].const
<1>. DEFINE skip == IF i # first THEN [it EXCEPT ![a].next = b] ELSE it
            back == IF b # NULL THEN [skip EXCEPT ![b].prev = a] ELSE skip
            head == IF i = first THEN [back EXCEPT ![list].child = b]
                    ELSE IF b = NULL THEN [back EXCEPT ![first].prev = a] ELSE back
            done == [head EXCEPT ![i].prev = NULL, ![i].next = NULL]
<1>1. /\ it \in [Node -> Item] /\ i # NULL /\ a \in Node \cup {NULL} /\ b \in Node \cup {NULL}
      /\ first \in Node \cup {NULL}
  BY PlacesAssumption DEF Memories, Item
<1>2. DetachItemViaPointer(m, list, i) = [m EXCEPT !.item = done, !.got = i]
  BY <1>1 DEF DetachItemViaPointer, Got
<1>3. /\ skip \in [Node -> Item] /\ SameData(it, skip)
      /\ \A j \in Node :
           /\ skip[j].child = it[j].child /\ skip[j].prev = it[j].prev
           /\ skip[j].next = IF i # first /\ j = a THEN b ELSE it[j].next
  <2>1. CASE i # first
    <3>1. a \in Node /\ skip = SetNext(it, a, b)
      BY <1>1, <2>1 DEF SetNext
    <3>2. NextIs(it, SetNext(it, a, b), a, b)
      BY <1>1, <3>1, PointerSet
    <3>. HIDE DEF skip
    <3>. QED  BY <2>1, <3>1, <3>2 DEF NextIs
  <2>2. CASE i = first
    <3>1. skip = it
      BY <2>2
    <3>. HIDE DEF skip
    <3>. QED  BY <1>1, <2>2, <3>1 DEF SameData
  <2>. QED  BY <2>1, <2>2
<1>. HIDE DEF skip
<1>4. /\ back \in [Node -> Item] /\ SameData(skip, back)
      /\ \A j \in Node :
           /\ back[j].child = skip[j].child /\ back[j].next = skip[j].next
           /\ back[j].prev = IF j = b THEN a ELSE skip[j].prev
  <2>1. CASE b # NULL
    <3>1. b \in Node /\ back = SetPrev(skip, b, a)
      BY <1>1, <2>1 DEF SetPrev
    <3>2. PrevIs(skip, SetPrev(skip, b, a), b, a)
      BY <1>1, <1>3, <3>1, PointerSet
    <3>. HIDE DEF back
    <3>. QED  BY <3>1, <3>2 DEF PrevIs
  <2>2. CASE b = NULL
    <3>1. back = skip
      BY <2>2
    <3>2. \A j \in Node : j # b
      BY <2>2, PlacesAssumption
    <3>. HIDE DEF back
    <3>. QED  BY <1>3, <3>1, <3>2 DEF SameData
  <2>. QED  BY <2>1, <2>2
<1>. HIDE DEF back
<1>5. /\ head \in [Node -> Item] /\ SameData(back, head)
      /\ \A j \in Node :
           /\ head[j].child = IF j = list /\ i = first THEN b ELSE back[j].child
           /\ head[j].next = back[j].next
           /\ head[j].prev = IF i # first /\ b = NULL /\ j = first THEN a ELSE back[j].prev
  <2>1. CASE i = first
    <3>1. head = SetChild(back, list, b)
      BY <2>1 DEF SetChild
    <3>2. ChildIs(back, SetChild(back, list, b), list, b)
      BY <1>1, <1>4, PointerSet
    <3>. HIDE DEF head
    <3>. QED  BY <2>1, <3>1, <3>2 DEF ChildIs
  <2>2. CASE i # first /\ b = NULL
    <3>1. first \in Node /\ head = SetPrev(back, first, a)
      BY <1>1, <2>2 DEF SetPrev
    <3>2. PrevIs(back, SetPrev(back, first, a), first, a)
      BY <1>1, <1>4, <3>1, PointerSet
    <3>. HIDE DEF head
    <3>. QED  BY <2>2, <3>1, <3>2 DEF PrevIs
  <2>3. CASE i # first /\ b # NULL
    <3>1. head = back
      BY <2>3
    <3>. HIDE DEF head
    <3>. QED  BY <1>4, <2>3, <3>1 DEF SameData
  <2>. QED  BY <2>1, <2>2, <2>3
<1>. HIDE DEF head
<1>6. /\ done \in [Node -> Item] /\ SameData(head, done)
      /\ \A j \in Node :
           /\ done[j].child = head[j].child
           /\ done[j].next = IF j = i THEN NULL ELSE head[j].next
           /\ done[j].prev = IF j = i THEN NULL ELSE head[j].prev
  <2>. DEFINE half == SetPrev(head, i, NULL)
  <2>1. done = SetNext(half, i, NULL)
    BY DEF SetPrev, SetNext
  <2>. HIDE DEF done
  <2>2. PrevIs(head, half, i, NULL)
    BY <1>5, PointerSet
  <2>. HIDE DEF half
  <2>3. half \in [Node -> Item]
    BY <2>2 DEF PrevIs
  <2>4. NextIs(half, done, i, NULL)
    BY <2>1, <2>3, PointerSet
  <2>5. SameData(head, done)
    BY <2>2, <2>4, SameDataTwice DEF NextIs, PrevIs
  <2>. QED  BY <2>2, <2>4, <2>5 DEF NextIs, PrevIs
<1>. HIDE DEF done
<1>7. /\ DetachItemViaPointer(m, list, i) \in Memories
      /\ DetachItemViaPointer(m, list, i).got = i /\ it2 = done
  BY <1>2, <1>6 DEF Memories
<1>8. SameData(it, it2)
  <2>1. SameData(it, back)
    BY <1>3, <1>4, SameDataTwice
  <2>2. SameData(it, head)
    BY <1>5, <2>1, SameDataTwice
  <2>. QED  BY <1>6, <1>7, <2>2, SameDataTwice
<1>9. ASSUME NEW j \in Node
      PROVE  /\ it2[j].child = IF j = list /\ i = first THEN b ELSE it[j].child
             /\ it2[j].next = IF j = i THEN NULL
                              ELSE IF i # first /\ j = a THEN b ELSE it[j].next
  <2>1. /\ it2[j].child = head[j].child
        /\ it2[j].next = IF j = i THEN NULL ELSE head[j].next
    BY <1>6, <1>7
  <2>2. /\ head[j].child = IF j = list /\ i = first THEN b ELSE it[j].child
        /\ head[j].next = back[j].next
    BY <1>3, <1>4, <1>5
  <2>3. back[j].next = IF i # first /\ j = a THEN b ELSE it[j].next
    BY <1>3, <1>4
  <2>. QED  BY <2>1, <2>2, <2>3
<1>10. ASSUME NEW j \in Node
       PROVE  it2[j].prev = IF j = i THEN NULL
                            ELSE IF j = b THEN a
                            ELSE IF i # first /\ b = NULL /\ j = first THEN a ELSE it[j].prev
  <2>1. it2[j].prev = IF j = i THEN NULL ELSE head[j].prev
    BY <1>6, <1>7
  <2>2. head[j].prev = IF i # first /\ b = NULL /\ j = first THEN a ELSE back[j].prev
    BY <1>5
  <2>3. back[j].prev = IF j = b THEN a ELSE it[j].prev
    BY <1>3, <1>4
  <2>. QED  BY <2>1, <2>2, <2>3
<1>. QED  BY <1>7, <1>8, <1>9, <1>10 DEF SameData

\* cJSON_DetachItemViaPointer takes the member i out of the list, which is then the
\* list of the other members, in their order; i is returned, and points nowhere.
THEOREM DetachRemoves ==
  ASSUME NEW m \in Memories, NEW list \in Node, NEW s, IsList(m.item, list, s),
         NEW k \in DOMAIN s, NEW m2, m2 = DetachItemViaPointer(m, list, s[k])
  PROVE  /\ IsList(m2.item, list, RemoveAt(s, k))
         /\ OnlyLinks(m.item, m2.item, list, Of(s))
         /\ m2 \in Memories /\ m2.got = s[k]
         /\ m2.item[s[k]].next = NULL /\ m2.item[s[k]].prev = NULL
<1>1. PICK it \in [Node -> Item], n \in Nat :
        /\ it = m.item /\ Linked(it, list, s, n)
        /\ \A j \in 1..n : s[j] \in Of(s)
  BY Ready
<1>2. /\ s \in Seq(Node) /\ Len(s) = n /\ k \in 1..n
      /\ \A j \in 1..n : s[j] \in Node /\ s[j] # NULL
      /\ \A j, l \in 1..n : s[j] = s[l] => j = l
  BY <1>1, LenProperties DEF Linked
<1>3. /\ it[list].child = s[1] /\ it[s[n]].next = NULL /\ it[s[1]].prev = s[n]
      /\ \A j \in 1..n : j < n => it[s[j]].next = s[j + 1]
      /\ \A j \in 1..n : j > 1 => it[s[j]].prev = s[j - 1]
  BY <1>1, <1>2 DEF Linked
<1>4. 1 \in 1..n /\ n \in 1..n /\ (k # n => k < n /\ k + 1 \in 1..n)
      /\ (k # 1 => k > 1 /\ k - 1 \in 1..n)
  BY <1>2
<1>. DEFINE t == RemoveAt(s, k)
            b == it[s[k]].next
            a == it[s[k]].prev
<1>5. /\ b = IF k = n THEN NULL ELSE s[k + 1]
      /\ a = IF k = 1 THEN s[n] ELSE s[k - 1]
  <2>1. k = n => b = NULL
    BY <1>3
  <2>2. k # n => b = s[k + 1]
    BY <1>2, <1>3, <1>4
  <2>3. k = 1 => a = s[n]
    BY <1>3
  <2>4. k # 1 => a = s[k - 1]
    BY <1>2, <1>3, <1>4
  <2>. QED  BY <2>1, <2>2, <2>3, <2>4
<1>6. PICK it2 : it2 = m2.item
  OBVIOUS
<1>7. /\ m2 \in Memories /\ m2.got = s[k]
      /\ \A j \in Node :
           /\ it2[j].child = IF j = list /\ s[k] = s[1] THEN b ELSE it[j].child
           /\ it2[j].next = IF j = s[k] THEN NULL
                            ELSE IF s[k] # s[1] /\ j = a THEN b ELSE it[j].next
           /\ it2[j].prev = IF j = s[k] THEN NULL
                            ELSE IF j = b THEN a
                            ELSE IF s[k] # s[1] /\ b = NULL /\ j = s[1] THEN a ELSE it[j].prev
           /\ it2[j].kind = it[j].kind /\ it2[j].key = it[j].key /\ it2[j].text = it[j].text
           /\ it2[j].ref = it[j].ref /\ it2[j].const = it[j].const
  <2>1. s[k] \in Node /\ s[1] # NULL /\ (s[k] # s[1] => a # NULL)
    BY <1>2, <1>4, <1>5
  <2>. QED  BY <1>1, <1>3, <1>6, <2>1, DetachIs
<1>. HIDE DEF a, b
<1>8. OnlyLinks(it, it2, list, Of(s))
  <2>1. s[k] \in Of(s) /\ s[1] \in Of(s) /\ (s[k] # s[1] => a \in Of(s)) /\ (b # NULL => b \in Of(s))
    BY <1>1, <1>2, <1>4, <1>5
  <2>2. \A j \in Node : j \notin Of(s) => it2[j].next = it[j].next /\ it2[j].prev = it[j].prev
    <3>. SUFFICES ASSUME NEW j \in Node, j \notin Of(s)
                  PROVE  it2[j].next = it[j].next /\ it2[j].prev = it[j].prev
      OBVIOUS
    <3>1. j # s[k] /\ j # s[1] /\ j # b /\ ~(s[k] # s[1] /\ j = a)
      BY <2>1, PlacesAssumption
    <3>. QED  BY <1>7, <3>1
  <2>3. \A j \in Node : j # list => it2[j].child = it[j].child
    BY <1>7
  <2>. QED  BY <1>7, <2>2, <2>3 DEF OnlyLinks
<1>9. /\ it2[list].child = IF k = 1 THEN b ELSE s[1]
      /\ it2[s[k]].next = NULL /\ it2[s[k]].prev = NULL
  BY <1>2, <1>3, <1>4, <1>7
<1>10. \A j \in 1..n : j # k =>
         /\ it2[s[j]].next = IF k # 1 /\ j = k - 1 THEN b ELSE it[s[j]].next
         /\ it2[s[j]].prev = IF j = k + 1 THEN a
                             ELSE IF k # 1 /\ k = n /\ j = 1 THEN a ELSE it[s[j]].prev
  <2>. SUFFICES ASSUME NEW j \in 1..n, j # k
                PROVE  /\ it2[s[j]].next = IF k # 1 /\ j = k - 1 THEN b ELSE it[s[j]].next
                       /\ it2[s[j]].prev = IF j = k + 1 THEN a
                             ELSE IF k # 1 /\ k = n /\ j = 1 THEN a ELSE it[s[j]].prev
    OBVIOUS
  <2>1. s[j] \in Node /\ s[j] # s[k] /\ (s[k] # s[1] <=> k # 1) /\ (s[j] = s[1] <=> j = 1)
    BY <1>2, <1>4
  <2>2. k # 1 => (s[j] = a <=> j = k - 1)
    BY <1>2, <1>4, <1>5
  <2>3. (s[j] = b <=> j = k + 1) /\ (b = NULL <=> k = n)
    <3>1. CASE k = n
      <4>1. j # k + 1
        BY <3>1
      <4>. QED  BY <1>2, <1>5, <3>1, <4>1
    <3>2. CASE k # n
      BY <1>2, <1>4, <1>5, <3>2
    <3>. QED  BY <3>1, <3>2
  <2>4. it2[s[j]].next = IF s[k] # s[1] /\ s[j] = a THEN b ELSE it[s[j]].next
    BY <1>7, <2>1
  <2>5. it2[s[j]].prev = IF s[j] = b THEN a
             ELSE IF s[k] # s[1] /\ b = NULL /\ s[j] = s[1] THEN a ELSE it[s[j]].prev
    BY <1>7, <2>1
  <2>. QED  BY <2>1, <2>2, <2>3, <2>4, <2>5
<1>11. PICK p \in Nat : p = n - 1
  BY <1>2
<1>12. /\ t \in Seq(Node) /\ Len(t) = p
       /\ \A j \in 1..p : t[j] = IF j < k THEN s[j] ELSE s[j + 1]
  <2>0. s \in Seq(Node) /\ Len(s) = n /\ k \in 1..n /\ n \in Nat
    BY <1>2
  <2>1. /\ t \in Seq(Node) /\ Len(t) = n - 1
        /\ \A j \in 1..(n - 1) : t[j] = IF j < k THEN s[j] ELSE s[j + 1]
    BY <2>0, RemoveAtIs
  <2>. HIDE DEF t
  <2>. QED  BY <1>11, <2>1, Zenon
<1>. HIDE DEF t
<1>13. /\ \A j \in 1..p : j < k => j \in 1..n /\ j # k /\ t[j] = s[j]
       /\ \A j \in 1..p : j >= k => j + 1 \in 1..n /\ j + 1 # k /\ t[j] = s[j + 1]
  BY <1>2, <1>11, <1>12
<1>14. \A j \in 1..p : t[j] \in Node /\ t[j] # NULL
  BY <1>2, <1>13
<1>15. \A j, l \in 1..p : t[j] = t[l] => j = l
  <2>. SUFFICES ASSUME NEW j \in 1..p, NEW l \in 1..p, t[j] = t[l] PROVE j = l
    OBVIOUS
  <2>1. j < k \/ j >= k
    BY <1>2
  <2>2. l < k \/ l >= k
    BY <1>2
  <2>. QED  BY <1>2, <1>13, <2>1, <2>2
<1>16. p = 0 => it2[list].child = NULL
  BY <1>2, <1>5, <1>9, <1>11
<1>17. ASSUME p # 0
       PROVE  it2[list].child = t[1] /\ it2[t[p]].next = NULL /\ it2[t[1]].prev = t[p]
  <2>0. 1 \in 1..p /\ p \in 1..p /\ n # 1 /\ p + 1 = n
    BY <1>11, <1>17
  <2>1. CASE k = 1
    <3>1. t[1] = s[2] /\ t[p] = s[n] /\ b = s[2] /\ a = s[n] /\ 2 \in 1..n
      BY <1>4, <1>5, <1>13, <2>0, <2>1
    <3>. QED  BY <1>3, <1>4, <1>9, <1>10, <2>0, <2>1, <3>1
  <2>2. CASE k # 1 /\ k = n
    <3>1. t[1] = s[1] /\ t[p] = s[p] /\ b = NULL /\ a = s[p] /\ p = k - 1 /\ p \in 1..n /\ p # k
      BY <1>2, <1>4, <1>5, <1>13, <2>0, <2>2
    <3>2. it2[s[p]].next = b
      BY <1>10, <2>2, <3>1
    <3>3. it2[s[1]].prev = a
      BY <1>4, <1>10, <2>2, <3>1
    <3>. QED  BY <1>9, <2>2, <3>1, <3>2, <3>3
  <2>3. CASE k # 1 /\ k # n
    <3>1. t[1] = s[1] /\ t[p] = s[n] /\ n # k - 1
      BY <1>2, <1>4, <1>13, <2>0, <2>3
    <3>2. it2[s[n]].next = NULL
      BY <1>3, <1>4, <1>10, <2>3, <3>1
    <3>3. it2[s[1]].prev = s[n]
      <4>1. 1 # k /\ 1 # k + 1
        BY <1>2, <2>3
      <4>. QED  BY <1>3, <1>4, <1>10, <2>3, <4>1
    <3>. QED  BY <1>9, <2>3, <3>1, <3>2, <3>3
  <2>. QED  BY <2>1, <2>2, <2>3
<1>18. ASSUME NEW j \in 1..p, j < p
       PROVE  it2[t[j]].next = t[j + 1]
  <2>0. j + 1 \in 1..p
    BY <1>18
  <2>1. CASE j < k /\ j # k - 1
    <3>1. j + 1 < k
      BY <1>2, <2>1
    <3>2. j \in 1..n /\ j # k /\ t[j] = s[j] /\ t[j + 1] = s[j + 1] /\ j < n
      BY <1>11, <1>13, <1>18, <2>0, <2>1, <3>1
    <3>. QED  BY <1>3, <1>10, <2>1, <3>2
  <2>2. CASE j = k - 1
    <3>1. k # 1 /\ j < k /\ k = j + 1 /\ k >= k /\ k # n /\ k \in 1..p
      BY <1>2, <1>11, <1>18, <2>2
    <3>2. t[j] = s[j] /\ j \in 1..n /\ j # k /\ t[k] = s[k + 1]
      BY <1>13, <3>1
    <3>3. it2[s[j]].next = b
      BY <1>10, <2>2, <3>1, <3>2
    <3>. QED  BY <1>5, <3>1, <3>2, <3>3
  <2>3. CASE j >= k
    <3>1. j + 1 >= k /\ j + 1 < n /\ j + 1 # k - 1
      BY <1>2, <1>11, <1>18, <2>3
    <3>2. j + 1 \in 1..n /\ j + 1 # k /\ t[j] = s[j + 1] /\ t[j + 1] = s[j + 1 + 1]
      BY <1>13, <2>0, <2>3, <3>1
    <3>3. it2[s[j + 1]].next = it[s[j + 1]].next
      BY <1>10, <3>1, <3>2
    <3>4. it[s[j + 1]].next = s[j + 1 + 1]
      BY <1>3, <3>1, <3>2
    <3>. QED  BY <3>2, <3>3, <3>4
  <2>. QED  BY <1>2, <2>1, <2>2, <2>3
<1>19. ASSUME NEW j \in 1..p, j > 1
       PROVE  it2[t[j]].prev = t[j - 1]
  <2>0. j - 1 \in 1..p
    BY <1>19
  <2>1. CASE j < k
    <3>1. j - 1 < k /\ j # k + 1 /\ j # 1
      BY <1>2, <1>19, <2>1
    <3>2. j \in 1..n /\ j # k /\ t[j] = s[j] /\ t[j - 1] = s[j - 1]
      BY <1>13, <2>0, <2>1, <3>1
    <3>. QED  BY <1>3, <1>10, <1>19, <3>1, <3>2
  <2>2. CASE j = k
    <3>1. k # 1 /\ j - 1 < k /\ j >= k
      BY <1>2, <1>19, <2>2
    <3>2. k + 1 \in 1..n /\ k + 1 # k /\ t[j] = s[k + 1] /\ t[j - 1] = s[k - 1]
      BY <1>13, <2>0, <2>2, <3>1
    <3>3. it2[s[k + 1]].prev = a
      BY <1>10, <3>2
    <3>. QED  BY <1>5, <3>1, <3>2, <3>3
  <2>3. CASE j > k
    <3>1. j - 1 >= k /\ j >= k /\ j + 1 # k + 1 /\ j + 1 # 1 /\ j + 1 > 1 /\ (j - 1) + 1 = j
          /\ (j + 1) - 1 = j
      BY <1>2, <2>3
    <3>2. j + 1 \in 1..n /\ j + 1 # k /\ t[j] = s[j + 1] /\ t[j - 1] = s[j]
      BY <1>13, <2>0, <3>1
    <3>3. it2[s[j + 1]].prev = it[s[j + 1]].prev
      BY <1>10, <3>1, <3>2
    <3>4. it[s[j + 1]].prev = s[j]
      BY <1>3, <3>1, <3>2
    <3>. QED  BY <3>2, <3>3, <3>4
  <2>. QED  BY <1>2, <2>1, <2>2, <2>3
<1>20. Linked(it2, list, t, p)
  BY <1>12, <1>14, <1>15, <1>16, <1>17, <1>18, <1>19 DEF Linked
<1>21. IsList(it2, list, t)
  BY <1>20, LinkedIsList
<1>. QED  BY <1>1, <1>6, <1>7, <1>8, <1>9, <1>21 DEF t
-----------------------------------------------------------------------------
(* cJSON_InsertItemInArray *)

\* A sequence with e in place k, before the element that was there.
LEMMA InsertAtIs ==
  ASSUME NEW S, NEW s \in Seq(S), NEW e \in S, NEW k \in 1..Len(s)
  PROVE  /\ InsertAt(s, k, e) \in Seq(S) /\ Len(InsertAt(s, k, e)) = Len(s) + 1
         /\ InsertAt(s, k, e)[k] = e
         /\ \A j \in 1..(Len(s) + 1) : j < k => InsertAt(s, k, e)[j] = s[j]
         /\ \A j \in 1..(Len(s) + 1) : j > k => InsertAt(s, k, e)[j] = s[j - 1]
<1>0. PICK n \in Nat : n = Len(s)
  BY LenProperties
<1>. DEFINE a == SubSeq(s, 1, k - 1)
            b == SubSeq(s, k, n)
            c == a \o <<e>>
<1>1. \A j \in 1..n : s[j] \in S
  BY <1>0, ElementOfSeq
<1>2. k \in 1..n /\ k - 1 \in Int /\ k \in Int /\ n \in Int /\ 1 \in Int
  BY <1>0
<1>3. /\ a \in Seq(S) /\ Len(a) = k - 1
      /\ \A j \in 1..(k - 1) : a[j] = s[j]
  <2>1. \A j \in 1..(k - 1) : s[j] \in S
    BY <1>1, <1>2
  <2>2. /\ a \in Seq(S) /\ Len(a) = IF 1 <= k - 1 THEN k - 1 - 1 + 1 ELSE 0
        /\ \A j \in 1..(k - 1 - 1 + 1) : a[j] = s[1 + j - 1]
    BY <1>2, <2>1, SubSeqProperties
  <2>3. \A j \in 1..(k - 1) : j \in 1..(k - 1 - 1 + 1) /\ 1 + j - 1 = j
    BY <1>2
  <2>4. (IF 1 <= k - 1 THEN k - 1 - 1 + 1 ELSE 0) = k - 1
    BY <1>2
  <2>. QED  BY <2>2, <2>3, <2>4
<1>4. /\ b \in Seq(S) /\ Len(b) = n - k + 1
      /\ \A j \in 1..(n - k + 1) : b[j] = s[k + j - 1]
  <2>1. \A j \in k..n : s[j] \in S
    BY <1>1, <1>2
  <2>2. /\ b \in Seq(S) /\ Len(b) = IF k <= n THEN n - k + 1 ELSE 0
        /\ \A j \in 1..(n - k + 1) : b[j] = s[k + j - 1]
    BY <1>2, <2>1, SubSeqProperties
  <2>. QED  BY <1>2, <2>2
<1>5. InsertAt(s, k, e) = c \o b
  BY <1>0 DEF InsertAt
<1>. HIDE DEF a, b
<1>6. /\ c \in Seq(S) /\ Len(c) = k /\ c[k] = e
      /\ \A j \in 1..(k - 1) : c[j] = s[j]
  <2>1. <<e>> \in Seq(S) /\ Len(<<e>>) = 1 /\ <<e>>[1] = e
    OBVIOUS
  <2>2. /\ c \in Seq(S) /\ Len(c) = Len(a) + Len(<<e>>)
        /\ \A j \in 1..(Len(a) + Len(<<e>>)) :
             c[j] = IF j <= Len(a) THEN a[j] ELSE <<e>>[j - Len(a)]
    BY <1>3, <2>1, ConcatProperties
  <2>3. /\ c \in Seq(S) /\ Len(c) = k
        /\ \A j \in 1..k : c[j] = IF j <= k - 1 THEN a[j] ELSE <<e>>[j - (k - 1)]
    BY <1>2, <1>3, <2>1, <2>2
  <2>4. c[k] = e
    <3>1. k \in 1..k /\ ~(k <= k - 1) /\ k - (k - 1) = 1
      BY <1>2
    <3>. QED  BY <2>1, <2>3, <3>1
  <2>5. \A j \in 1..(k - 1) : c[j] = s[j]
    <3>1. \A j \in 1..(k - 1) : j \in 1..k /\ j <= k - 1
      BY <1>2
    <3>. QED  BY <1>3, <2>3, <3>1
  <2>. QED  BY <2>3, <2>4, <2>5
<1>. HIDE DEF c
<1>7. /\ c \o b \in Seq(S) /\ Len(c \o b) = n + 1
      /\ \A j \in 1..(n + 1) : (c \o b)[j] = IF j <= k THEN c[j] ELSE b[j - k]
  <2>1. /\ c \o b \in Seq(S) /\ Len(c \o b) = Len(c) + Len(b)
        /\ \A j \in 1..(Len(c) + Len(b)) :
             (c \o b)[j] = IF j <= Len(c) THEN c[j] ELSE b[j - Len(c)]
    BY <1>4, <1>6, ConcatProperties
  <2>2. Len(c) + Len(b) = n + 1
    BY <1>2, <1>4, <1>6
  <2>. QED  BY <1>6, <2>1, <2>2
<1>8. (c \o b)[k] = e
  <2>1. k \in 1..(n + 1) /\ k <= k
    BY <1>2
  <2>. QED  BY <1>6, <1>7, <2>1
<1>9. ASSUME NEW j \in 1..(n + 1), j < k PROVE (c \o b)[j] = s[j]
  <2>1. j <= k /\ j \in 1..(k - 1)
    BY <1>2, <1>9
  <2>. QED  BY <1>6, <1>7, <2>1
<1>10. ASSUME NEW j \in 1..(n + 1), j > k PROVE (c \o b)[j] = s[j - 1]
  <2>1. ~(j <= k) /\ j - k \in 1..(n - k + 1) /\ k + (j - k) - 1 = j - 1
    BY <1>2, <1>10
  <2>2. b[j - k] = s[k + (j - k) - 1]
    BY <1>4, <2>1
  <2>. QED  BY <1>7, <2>1, <2>2
<1>. QED  BY <1>0, <1>5, <1>7, <1>8, <1>9, <1>10

\* The links that cJSON_InsertItemInArray makes when `after' comes after i.
Put(it, i, after) ==
  [it EXCEPT ![i].next = after, ![i].prev = it[after].prev, ![after].prev = i]
Spliced(it, list, i, after) ==
  IF after = it[list].child THEN [Put(it, i, after) EXCEPT ![list].child = i]
  ELSE [Put(it, i, after) EXCEPT ![Put(it, i, after)[i].prev].next = i]

\* ... pointer by pointer, where a is what `after' has as its previous item.
LEMMA SplicedIs ==
  ASSUME NEW it \in [Node -> Item], NEW list \in Node, NEW i \in Node,
         NEW after \in Node, NEW a \in Node, after # i, a # i, it[after].prev = a
  PROVE  LET it2 == Spliced(it, list, i, after)
         IN  /\ it2 \in [Node -> Item] /\ SameData(it, it2)
             /\ \A j \in Node :
                  /\ it2[j].child = IF j = list /\ after = it[list].child THEN i
                                    ELSE it[j].child
                  /\ it2[j].next = IF after # it[list].child /\ j = a THEN i
                                   ELSE IF j = i THEN after ELSE it[j].next
                  /\ it2[j].prev = IF j = after THEN i ELSE IF j = i THEN a ELSE it[j].prev
<1>. DEFINE p == SetNext(it, i, after)
            q == SetPrev(p, i, a)
            r == SetPrev(q, after, i)
            it2 == Spliced(it, list, i, after)
<1>1. NextIs(it, p, i, after)
  BY PointerSet
<1>2. Put(it, i, after) = r
  BY DEF Put, SetNext, SetPrev
<1>. HIDE DEF p
<1>3. PrevIs(p, q, i, a)
  BY <1>1, PointerSet DEF NextIs
<1>. HIDE DEF q
<1>4. PrevIs(q, r, after, i)
  <2>1. q \in [Node -> Item] /\ i \in Node \cup {NULL}
    BY <1>3 DEF PrevIs
  <2>. QED  BY <2>1, PointerSet
<1>. HIDE DEF r
<1>5. r[i].prev = a /\ r \in [Node -> Item]
  BY <1>3, <1>4 DEF PrevIs
<1>6. SameData(it, p) /\ SameData(p, q) /\ SameData(q, r)
  BY <1>1, <1>3, <1>4 DEF NextIs, PrevIs
<1>7. SameData(it, r)
  BY <1>6, SameDataTwice
<1>8. \A j \in Node :
        /\ r[j].child = it[j].child
        /\ r[j].next = IF j = i THEN after ELSE it[j].next
        /\ r[j].prev = IF j = after THEN i ELSE IF j = i THEN a ELSE it[j].prev
  <2>. SUFFICES ASSUME NEW j \in Node
                PROVE  /\ r[j].child = it[j].child
                       /\ r[j].next = IF j = i THEN after ELSE it[j].next
                       /\ r[j].prev = IF j = after THEN i ELSE IF j = i THEN a ELSE it[j].prev
    OBVIOUS
  <2>1. /\ p[j].child = it[j].child /\ p[j].prev = it[j].prev
        /\ p[j].next = IF j = i THEN after ELSE it[j].next
    BY <1>1 DEF NextIs
  <2>2. /\ q[j].child = p[j].child /\ q[j].next = p[j].next
        /\ q[j].prev = IF j = i THEN a ELSE p[j].prev
    BY <1>3 DEF PrevIs
  <2>3. /\ r[j].child = q[j].child /\ r[j].next = q[j].next
        /\ r[j].prev = IF j = after THEN i ELSE q[j].prev
    BY <1>4 DEF PrevIs
  <2>. QED  BY <2>1, <2>2, <2>3
<1>9. CASE after = it[list].child
  <2>1. it2 = SetChild(r, list, i)
    BY <1>2, <1>9 DEF Spliced, SetChild
  <2>. HIDE DEF it2
  <2>2. ChildIs(r, it2, list, i)
    BY <1>5, <2>1, PointerSet
  <2>3. SameData(it, it2)
    BY <1>7, <2>2, SameDataTwice DEF ChildIs
  <2>. QED  BY <1>8, <1>9, <2>2, <2>3 DEF ChildIs, it2
<1>10. CASE after # it[list].child
  <2>1. it2 = SetNext(r, a, i)
    BY <1>2, <1>5, <1>10 DEF Spliced, SetNext
  <2>. HIDE DEF it2
  <2>2. NextIs(r, it2, a, i)
    BY <1>5, <2>1, PointerSet
  <2>3. SameData(it, it2)
    BY <1>7, <2>2, SameDataTwice DEF NextIs
  <2>. QED  BY <1>8, <1>10, <2>2, <2>3 DEF NextIs, it2
<1>. QED  BY <1>9, <1>10

\* cJSON_InsertItemInArray puts an item that is in no list before the member with the
\* index `which', or at the end when the list is not that long.
THEOREM InsertInserts ==
  ASSUME NEW m \in Memories, NEW list \in Node, NEW s, IsList(m.item, list, s),
         NEW i \in Node, i \notin Of(s), m.item[i].next = NULL, NEW which \in Nat,
         NEW m2, m2 = InsertItemInArray(m, list, which, i)
  PROVE  /\ which < Len(s) => IsList(m2.item, list, InsertAt(s, which + 1, i))
         /\ which >= Len(s) => IsList(m2.item, list, Append(s, i))
         /\ OnlyLinks(m.item, m2.item, list, Of(s) \cup {i})
         /\ m2 \in Memories
<1>1. PICK it \in [Node -> Item], n \in Nat :
        /\ it = m.item /\ Linked(it, list, s, n)
        /\ \A j \in 1..n : s[j] \in Of(s)
  BY Ready
<1>2. /\ s \in Seq(Node) /\ Len(s) = n
      /\ \A j \in 1..n : s[j] \in Node /\ s[j] # NULL /\ s[j] # i
      /\ \A j, l \in 1..n : s[j] = s[l] => j = l
  BY <1>1, LenProperties DEF Linked
<1>3. get_array_item(m, list, which) = IF which < n THEN s[which + 1] ELSE NULL
  BY <1>2, ItemAtIndex DEF At
<1>4. CASE which >= n
  <2>1. get_array_item(m, list, which) = NULL /\ ~(which < n)
    BY <1>3, <1>4
  <2>2. m2 = add_item_to_array(m, list, i)
    BY <2>1, Zenon DEF InsertItemInArray
  <2>3. /\ IsList(m2.item, list, Append(s, i)) /\ m2 \in Memories
        /\ OnlyLinks(m.item, m2.item, list, Of(s) \cup {i})
    BY <2>2, AddAppends
  <2>. QED  BY <1>2, <2>1, <2>3
<1>5. CASE which < n
  <2>. DEFINE t == InsertAt(s, which + 1, i)
  <2>1. PICK k \in 1..n : k = which + 1
    BY <1>5
  <2>2. /\ 1 \in 1..n /\ n \in 1..n /\ n # 0
        /\ (k # 1 => k > 1 /\ k - 1 \in 1..n /\ k - 1 < n /\ k - 1 # k /\ (k - 1) + 1 = k)
    BY <2>1
  <2>3. /\ it[list].child = s[1] /\ it[s[n]].next = NULL /\ it[s[1]].prev = s[n]
        /\ \A j \in 1..n : j < n => it[s[j]].next = s[j + 1]
        /\ \A j \in 1..n : j > 1 => it[s[j]].prev = s[j - 1]
    BY <1>1, <2>2 DEF Linked
  <2>. DEFINE it2 == m2.item
  <2>4. PICK after \in Node, a \in Node :
          /\ after = s[k] /\ a = it[after].prev /\ after # NULL /\ after # i
          /\ (k = 1 => a = s[n]) /\ (k # 1 => a = s[k - 1] /\ a # after)
          /\ a # NULL /\ a # i
    <3>1. k = 1 => it[s[k]].prev = s[n]
      BY <2>3
    <3>2. k # 1 => it[s[k]].prev = s[k - 1] /\ s[k - 1] # s[k]
      BY <1>2, <2>2, <2>3
    <3>. QED  BY <1>2, <2>2, <3>1, <3>2
  <2>5. after = it[list].child <=> k = 1
    BY <1>2, <2>2, <2>3, <2>4
  <2>6. it2 = Spliced(it, list, i, after) /\ (it2 \in [Node -> Item] => m2 \in Memories)
    <3>. DEFINE g == get_array_item(m, list, which)
    <3>1. g = after
      BY <1>3, <1>5, <2>1, <2>4
    <3>2. g # NULL /\ m.item[g].prev # NULL /\ m.item = it
      BY <1>1, <2>4, <3>1
    <3>3. m2 = [m EXCEPT !.item = Spliced(m.item, list, i, g)]
      <4>1. CASE g = m.item[list].child
        BY <3>2, <4>1, Zenon DEF InsertItemInArray, Spliced, Put
      <4>2. CASE g # m.item[list].child
        <5>. DEFINE put == Put(m.item, i, g)
        <5>1. Spliced(m.item, list, i, g) = [put EXCEPT ![put[i].prev].next = i]
          BY <4>2, Zenon DEF Spliced
        <5>2. InsertItemInArray(m, list, which, i)
                = [m EXCEPT !.item = [put EXCEPT ![put[i].prev].next = i]]
          BY <3>2, <4>2, Zenon DEF InsertItemInArray, Put
        <5>. HIDE DEF put, g
        <5>. QED  BY <5>1, <5>2
      <4>. QED  BY <4>1, <4>2
    <3>. HIDE DEF g
    <3>. QED  BY <2>4, <3>1, <3>2, <3>3 DEF Memories
  <2>. HIDE DEF it2
  <2>7. /\ it2 \in [Node -> Item] /\ SameData(it, it2)
        /\ \A j \in Node :
             /\ it2[j].child = IF j = list /\ after = it[list].child THEN i ELSE it[j].child
             /\ it2[j].next = IF after # it[list].child /\ j = a THEN i
                              ELSE IF j = i THEN after ELSE it[j].next
             /\ it2[j].prev = IF j = after THEN i ELSE IF j = i THEN a ELSE it[j].prev
    BY <2>4, <2>6, SplicedIs
  <2>8. \A j \in Node :
          /\ it2[j].child = IF j = list /\ k = 1 THEN i ELSE it[j].child
          /\ it2[j].next = IF k # 1 /\ j = a THEN i ELSE IF j = i THEN after ELSE it[j].next
          /\ it2[j].prev = IF j = after THEN i ELSE IF j = i THEN a ELSE it[j].prev
    BY <2>5, <2>7
  <2>9. OnlyLinks(it, it2, list, Of(s) \cup {i})
    <3>1. after \in Of(s) /\ (k # 1 => a \in Of(s))
      BY <1>1, <2>2, <2>4
    <3>. QED  BY <2>5, <2>7, <3>1 DEF OnlyLinks, SameData
  <2>10. /\ it2[list].child = IF k = 1 THEN i ELSE s[1]
         /\ it2[i].next = s[k] /\ it2[i].prev = a
         /\ \A j \in 1..n :
              /\ it2[s[j]].next = IF k # 1 /\ j = k - 1 THEN i ELSE it[s[j]].next
              /\ it2[s[j]].prev = IF j = k THEN i ELSE it[s[j]].prev
    <3>1. ASSUME NEW j \in 1..n
          PROVE  /\ it2[s[j]].next = IF k # 1 /\ j = k - 1 THEN i ELSE it[s[j]].next
                 /\ it2[s[j]].prev = IF j = k THEN i ELSE it[s[j]].prev
      <4>1. s[j] \in Node /\ s[j] # i /\ (s[j] = after <=> j = k)
        BY <1>2, <2>4
      <4>2. k # 1 => (s[j] = a <=> j = k - 1)
        BY <1>2, <2>2, <2>4
      <4>. QED  BY <2>8, <4>1, <4>2
    <3>. QED  BY <2>3, <2>4, <2>8, <3>1
  <2>11. /\ t \in Seq(Node) /\ Len(t) = n + 1 /\ t[k] = i
         /\ \A j \in 1..(n + 1) : j < k => t[j] = s[j]
         /\ \A j \in 1..(n + 1) : j > k => t[j] = s[j - 1]
    <3>1. s \in Seq(Node) /\ i \in Node /\ k \in 1..Len(s)
      BY <1>2
    <3>2. /\ InsertAt(s, k, i) \in Seq(Node) /\ Len(InsertAt(s, k, i)) = Len(s) + 1
          /\ InsertAt(s, k, i)[k] = i
      BY <3>1, InsertAtIs
    <3>3. ASSUME NEW j \in 1..(Len(s) + 1)
          PROVE  /\ j < k => InsertAt(s, k, i)[j] = s[j]
                 /\ j > k => InsertAt(s, k, i)[j] = s[j - 1]
      BY <3>1, InsertAtIs
    <3>4. t = InsertAt(s, k, i)
      BY <2>1
    <3>. HIDE DEF t
    <3>. QED  BY <1>2, <3>2, <3>3, <3>4
  <2>. HIDE DEF t
  <2>12. /\ \A j \in 1..(n + 1) : j < k => j \in 1..n /\ j # k
         /\ \A j \in 1..(n + 1) : j > k => j - 1 \in 1..n /\ j # 1
         /\ \A j \in 1..(n + 1) : j < k \/ j = k \/ j > k
    OBVIOUS
  <2>13. \A j \in 1..(n + 1) : t[j] \in Node /\ t[j] # NULL
    BY <1>2, <2>11, <2>12, PlacesAssumption
  <2>14. \A j, l \in 1..(n + 1) : t[j] = t[l] => j = l
    <3>. SUFFICES ASSUME NEW j \in 1..(n + 1), NEW l \in 1..(n + 1), t[j] = t[l] PROVE j = l
      OBVIOUS
    <3>. QED  BY <1>2, <2>11, <2>12
  <2>15. it2[list].child = t[1] /\ it2[t[n + 1]].next = NULL /\ it2[t[1]].prev = t[n + 1]
    <3>1. n + 1 \in 1..(n + 1) /\ n + 1 > k /\ (n + 1) - 1 = n /\ n # k - 1 /\ 1 \in 1..(n + 1)
      OBVIOUS
    <3>2. t[n + 1] = s[n]
      BY <2>11, <3>1
    <3>3. it2[s[n]].next = NULL
      BY <2>2, <2>3, <2>10, <3>1
    <3>4. CASE k = 1
      BY <2>4, <2>10, <2>11, <3>2, <3>3, <3>4
    <3>5. CASE k # 1
      <4>1. t[1] = s[1]
        BY <2>2, <2>11, <3>1, <3>5
      <4>2. it2[s[1]].prev = s[n]
        BY <2>2, <2>3, <2>10, <3>5
      <4>. QED  BY <2>10, <3>2, <3>3, <3>5, <4>1, <4>2
    <3>. QED  BY <3>4, <3>5
  <2>16. ASSUME NEW j \in 1..(n + 1), j < n + 1
         PROVE  it2[t[j]].next = t[j + 1]
    <3>0. j + 1 \in 1..(n + 1)
      BY <2>16
    <3>1. CASE j < k /\ j # k - 1
      <4>1. j \in 1..n /\ j < n /\ j + 1 < k
        BY <3>1
      <4>2. t[j] = s[j] /\ t[j + 1] = s[j + 1]
        BY <2>11, <3>0, <3>1, <4>1
      <4>. QED  BY <2>3, <2>10, <3>1, <4>1, <4>2
    <3>2. CASE j = k - 1
      <4>1. j < k /\ j \in 1..n /\ k # 1 /\ j + 1 = k
        BY <3>2
      <4>2. t[j] = s[j] /\ t[j + 1] = i
        BY <2>11, <4>1
      <4>. QED  BY <2>10, <3>2, <4>1, <4>2
    <3>3. CASE j = k
      <4>1. j + 1 > k /\ (j + 1) - 1 = k
        BY <3>3
      <4>2. t[j] = i /\ t[j + 1] = s[k]
        BY <2>11, <3>0, <3>3, <4>1
      <4>. QED  BY <2>10, <4>2
    <3>4. CASE j > k
      <4>1. j + 1 > k /\ (j + 1) - 1 = j /\ j - 1 \in 1..n /\ j - 1 < n /\ (j - 1) + 1 = j
            /\ j - 1 # k - 1
        BY <2>16, <3>4
      <4>2. t[j] = s[j - 1] /\ t[j + 1] = s[j]
        BY <2>11, <3>0, <3>4, <4>1
      <4>3. it2[s[j - 1]].next = it[s[j - 1]].next
        BY <2>10, <4>1
      <4>4. it[s[j - 1]].next = s[j]
        BY <2>3, <4>1
      <4>. QED  BY <4>2, <4>3, <4>4
    <3>. QED  BY <3>1, <3>2, <3>3, <3>4
  <2>17. ASSUME NEW j \in 1..(n + 1), j > 1
         PROVE  it2[t[j]].prev = t[j - 1]
    <3>0. j - 1 \in 1..(n + 1)
      BY <2>17
    <3>1. CASE j < k
      <4>1. j \in 1..n /\ j - 1 < k /\ j # k
        BY <3>1
      <4>2. t[j] = s[j] /\ t[j - 1] = s[j - 1]
        BY <2>11, <3>0, <3>1, <4>1
      <4>. QED  BY <2>3, <2>10, <2>17, <4>1, <4>2
    <3>2. CASE j = k
      <4>1. j - 1 < k /\ k # 1
        BY <2>17, <3>2
      <4>2. t[j] = i /\ t[j - 1] = s[k - 1]
        BY <2>11, <3>0, <3>2, <4>1
      <4>. QED  BY <2>4, <2>10, <4>1, <4>2
    <3>3. CASE j = k + 1
      <4>1. j > k /\ j - 1 = k
        BY <3>3
      <4>2. t[j] = s[k] /\ t[j - 1] = i
        BY <2>11, <4>1
      <4>. QED  BY <2>10, <4>2
    <3>4. CASE j > k + 1
      <4>1. j > k /\ j - 1 > k /\ j - 1 \in 1..n /\ j - 1 # k /\ j - 1 > 1
        BY <2>17, <3>4
      <4>2. t[j] = s[j - 1] /\ t[j - 1] = s[(j - 1) - 1]
        BY <2>11, <3>0, <4>1
      <4>3. it2[s[j - 1]].prev = it[s[j - 1]].prev
        BY <2>10, <4>1
      <4>4. it[s[j - 1]].prev = s[(j - 1) - 1]
        BY <2>3, <4>1
      <4>. QED  BY <4>2, <4>3, <4>4
    <3>. QED  BY <3>1, <3>2, <3>3, <3>4
  <2>19. Linked(it2, list, t, n + 1)
    BY <2>11, <2>13, <2>14, <2>15, <2>16, <2>17 DEF Linked
  <2>20. IsList(it2, list, t)
    BY <2>19, LinkedIsList
  <2>. QED  BY <1>1, <1>2, <1>5, <2>6, <2>7, <2>9, <2>20 DEF t, it2
<1>. QED  BY <1>4, <1>5
-----------------------------------------------------------------------------
(* cJSON_ReplaceItemViaPointer, before it deletes the item *)

\* The links of put_in_its_place.
Taken(it, i, new) ==
  LET b == it[i].next
      p == SetPrev(SetNext(it, new, b), new, it[i].prev)
  IN  IF b # NULL THEN SetPrev(p, b, new) ELSE p
Placed(it, list, i, new) ==
  LET back == Taken(it, i, new)
      first == it[list].child
      skip == IF it[i].prev # NULL THEN SetNext(back, it[i].prev, new) ELSE back
  IN  IF first = i
      THEN SetPrev(SetChild(back, list, new), new,
                   IF back[first].prev = first THEN new ELSE it[i].prev)
      ELSE IF it[i].next = NULL THEN SetPrev(skip, first, new) ELSE skip
Away(it, i) == SetPrev(SetNext(it, i, NULL), i, NULL)
WithItems(m, it) == [m EXCEPT !.item = it]

\* ... which are what put_in_its_place makes.
LEMMA PutIsPlaced ==
  ASSUME NEW m \in Memories, NEW list \in Node, NEW i \in Node, NEW new \in Node
  PROVE  put_in_its_place(m, list, i, new)
           = WithItems(m, Away(Placed(m.item, list, i, new), i))
  BY Zenon DEF WithItems, put_in_its_place, Away, Placed, Taken, SetNext, SetPrev, SetChild

\* Item i is replaced by `new' where b, the item after i, leads back.
LEMMA TakenIs ==
  ASSUME NEW it \in [Node -> Item], NEW i \in Node, NEW new \in Node, new # i,
         NEW a \in Node, NEW b \in Node \cup {NULL}, it[i].prev = a, it[i].next = b, b # new
  PROVE  LET u == Taken(it, i, new)
         IN  /\ u \in [Node -> Item] /\ SameData(it, u)
             /\ \A j \in Node :
                  /\ u[j].child = it[j].child
                  /\ u[j].next = IF j = new THEN b ELSE it[j].next
                  /\ u[j].prev = IF j = new THEN a ELSE IF j = b THEN new ELSE it[j].prev
<1>. DEFINE p == SetNext(it, new, b)
            q == SetPrev(p, new, a)
            u == Taken(it, i, new)
<1>1. u = IF b # NULL THEN SetPrev(q, b, new) ELSE q
  BY DEF Taken
<1>2. NextIs(it, p, new, b)
  BY PointerSet
<1>. HIDE DEF p
<1>3. PrevIs(p, q, new, a)
  BY <1>2, PointerSet DEF NextIs
<1>. HIDE DEF q, u
<1>4. PrevIs(q, u, b, new)
  <2>1. q \in [Node -> Item]
    BY <1>3 DEF PrevIs
  <2>2. CASE b # NULL
    BY <1>1, <2>1, <2>2, PointerSet
  <2>3. CASE b = NULL
    BY <1>1, <2>1, <2>3, PlacesAssumption DEF PrevIs, SameData
  <2>. QED  BY <2>2, <2>3
<1>5. SameData(it, p) /\ SameData(p, q) /\ SameData(q, u) /\ u \in [Node -> Item]
  BY <1>2, <1>3, <1>4 DEF NextIs, PrevIs
<1>6. SameData(it, u)
  BY <1>5, SameDataTwice
<1>7. \A j \in Node :
        /\ u[j].child = it[j].child
        /\ u[j].next = IF j = new THEN b ELSE it[j].next
        /\ u[j].prev = IF j = new THEN a ELSE IF j = b THEN new ELSE it[j].prev
  <2>. SUFFICES ASSUME NEW j \in Node
                PROVE  /\ u[j].child = it[j].child
                       /\ u[j].next = IF j = new THEN b ELSE it[j].next
                       /\ u[j].prev = IF j = new THEN a ELSE IF j = b THEN new ELSE it[j].prev
    OBVIOUS
  <2>1. /\ p[j].child = it[j].child /\ p[j].prev = it[j].prev
        /\ p[j].next = IF j = new THEN b ELSE it[j].next
    BY <1>2 DEF NextIs
  <2>2. /\ q[j].child = p[j].child /\ q[j].next = p[j].next
        /\ q[j].prev = IF j = new THEN a ELSE p[j].prev
    BY <1>3 DEF PrevIs
  <2>3. /\ u[j].child = q[j].child /\ u[j].next = q[j].next
        /\ u[j].prev = IF j = b THEN new ELSE q[j].prev
    BY <1>4 DEF PrevIs
  <2>4. j = b => j # new
    BY <1>1
  <2>. QED  BY <2>1, <2>2, <2>3, <2>4
<1>. QED  BY <1>5, <1>6, <1>7 DEF u

\* All the links that put_in_its_place leaves, where i was between a and b in the list
\* that starts with `first'.
AwayLinks(it, it2, list, i, new, a, b, first) ==
  /\ it2 \in [Node -> Item] /\ SameData(it, it2)
  /\ \A j \in Node :
       /\ it2[j].child = IF j = list /\ i = first THEN new ELSE it[j].child
       /\ it2[j].next = IF j = i THEN NULL ELSE IF j = new THEN b
                        ELSE IF i # first /\ j = a THEN new ELSE it[j].next
       /\ it2[j].prev = IF j = i THEN NULL
                        ELSE IF j = new THEN IF i = first /\ a = i THEN new ELSE a
                        ELSE IF j = b \/ (i # first /\ b = NULL /\ j = first) THEN new
                        ELSE it[j].prev

\* They are these.
LEMMA AwayIs ==
  ASSUME NEW it \in [Node -> Item], NEW list \in Node, NEW i \in Node, NEW new \in Node, new # i,
         NEW a \in Node, NEW b \in Node \cup {NULL}, it[i].prev = a, it[i].next = b,
         NEW first \in Node, it[list].child = first,
         b # new, b # i, a # new, first # new
  PROVE  AwayLinks(it, Away(Placed(it, list, i, new), i), list, i, new, a, b, first)
<1>. DEFINE u == Taken(it, i, new)
            v == Placed(it, list, i, new)
            w == SetNext(v, i, NULL)
            it2 == Away(v, i)
<1>1. /\ u \in [Node -> Item] /\ SameData(it, u)
      /\ \A j \in Node :
           /\ u[j].child = it[j].child
           /\ u[j].next = IF j = new THEN b ELSE it[j].next
           /\ u[j].prev = IF j = new THEN a ELSE IF j = b THEN new ELSE it[j].prev
  BY TakenIs
<1>2. /\ v \in [Node -> Item] /\ SameData(u, v)
      /\ \A j \in Node :
           /\ v[j].child = IF j = list /\ i = first THEN new ELSE u[j].child
           /\ v[j].next = IF i # first /\ j = a THEN new ELSE u[j].next
           /\ v[j].prev = IF i = first /\ j = new /\ a = i THEN new
                          ELSE IF i # first /\ b = NULL /\ j = first THEN new ELSE u[j].prev
  <2>1. CASE i = first
    <3>. DEFINE h == SetChild(u, list, new)
                x == IF u[i].prev = i THEN new ELSE a
    <3>1. v = SetPrev(h, new, x)
      BY <2>1 DEF Placed
    <3>. HIDE DEF u, v
    <3>2. ChildIs(u, h, list, new)
      BY <1>1, PointerSet
    <3>. HIDE DEF h
    <3>3. u[i].prev = a
      BY <1>1, <3>2 DEF ChildIs
    <3>4. x = (IF a = i THEN new ELSE a) /\ x \in Node \cup {NULL}
      BY <3>3
    <3>. HIDE DEF x
    <3>5. h \in [Node -> Item]
      BY <3>2 DEF ChildIs
    <3>6. PrevIs(h, v, new, x)
      BY <3>1, <3>4, <3>5, PointerSet
    <3>7. SameData(u, v)
      BY <3>2, <3>6, SameDataTwice DEF ChildIs, PrevIs
    <3>8. u[new].prev = a
      BY <1>1
    <3>. QED  BY <2>1, <3>2, <3>4, <3>6, <3>7, <3>8 DEF ChildIs, PrevIs
  <2>2. CASE i # first
    <3>. DEFINE skip == SetNext(u, a, new)
    <3>1. v = IF b = NULL THEN SetPrev(skip, first, new) ELSE skip
      BY <2>2, PlacesAssumption DEF Placed
    <3>. HIDE DEF u, v
    <3>2. NextIs(u, skip, a, new)
      BY <1>1, PointerSet
    <3>. HIDE DEF skip
    <3>3. skip \in [Node -> Item]
      BY <3>2 DEF NextIs
    <3>4. CASE b = NULL
      <4>1. PrevIs(skip, v, first, new)
        BY <3>1, <3>3, <3>4, PointerSet
      <4>2. SameData(u, v)
        BY <3>2, <4>1, SameDataTwice DEF NextIs, PrevIs
      <4>. QED  BY <2>2, <3>2, <3>4, <4>1, <4>2 DEF NextIs, PrevIs
    <3>5. CASE b # NULL
      BY <2>2, <3>1, <3>2, <3>5 DEF NextIs
    <3>. QED  BY <3>4, <3>5
  <2>. QED  BY <2>1, <2>2
<1>. HIDE DEF u
<1>3. it2 = SetPrev(w, i, NULL)
  BY DEF Away
<1>. HIDE DEF v, it2
<1>4. NextIs(v, w, i, NULL)
  BY <1>2, PointerSet
<1>. HIDE DEF w
<1>5. w \in [Node -> Item] /\ NULL \in Node \cup {NULL}
  BY <1>4 DEF NextIs
<1>6. PrevIs(w, it2, i, NULL)
  BY <1>3, <1>5, PointerSet
<1>7. SameData(it, it2) /\ it2 \in [Node -> Item]
  <2>1. SameData(it, u) /\ SameData(u, v) /\ SameData(v, w) /\ SameData(w, it2)
    BY <1>1, <1>2, <1>4, <1>6 DEF NextIs, PrevIs
  <2>. QED  BY <1>6, <2>1, SameDataTwice DEF PrevIs
<1>8. \A j \in Node :
        /\ it2[j].child = v[j].child
        /\ it2[j].next = IF j = i THEN NULL ELSE v[j].next
        /\ it2[j].prev = IF j = i THEN NULL ELSE v[j].prev
  BY <1>4, <1>6 DEF NextIs, PrevIs
<1>9. ASSUME NEW j \in Node
      PROVE  /\ it2[j].child = IF j = list /\ i = first THEN new ELSE it[j].child
             /\ it2[j].next = IF j = i THEN NULL ELSE IF j = new THEN b
                              ELSE IF i # first /\ j = a THEN new ELSE it[j].next
  BY <1>1, <1>2, <1>8
<1>10. ASSUME NEW j \in Node
       PROVE  it2[j].prev = IF j = i THEN NULL
                            ELSE IF j = new THEN IF i = first /\ a = i THEN new ELSE a
                            ELSE IF j = b \/ (i # first /\ b = NULL /\ j = first) THEN new
                            ELSE it[j].prev
  BY <1>1, <1>2, <1>8
<1>11. AwayLinks(it, it2, list, i, new, a, b, first)
  BY <1>7, <1>9, <1>10 DEF AwayLinks
<1>. QED  BY <1>11 DEF it2, v

\* cJSON_ReplaceItemViaPointer puts `new', which is in no list, in the place of the
\* member i; the list is otherwise the same, and i, about to be deleted, points nowhere.
THEOREM ReplaceReplaces ==
  ASSUME NEW m \in Memories, NEW list \in Node, NEW s, IsList(m.item, list, s),
         NEW k \in DOMAIN s, NEW new \in Node, new \notin Of(s),
         NEW m2, m2 = put_in_its_place(m, list, s[k], new)
  PROVE  /\ IsList(m2.item, list, ReplaceAt(s, k, new))
         /\ OnlyLinks(m.item, m2.item, list, Of(s) \cup {new})
         /\ m2 \in Memories
         /\ m2.item[s[k]].next = NULL /\ m2.item[s[k]].prev = NULL
<1>1. PICK it \in [Node -> Item], n \in Nat :
        /\ it = m.item /\ Linked(it, list, s, n)
        /\ \A j \in 1..n : s[j] \in Of(s)
  BY Ready
<1>2. /\ s \in Seq(Node) /\ Len(s) = n /\ k \in 1..n
      /\ \A j \in 1..n : s[j] \in Node /\ s[j] # NULL /\ s[j] # new
      /\ \A j, l \in 1..n : s[j] = s[l] => j = l
  BY <1>1, LenProperties DEF Linked
<1>3. /\ it[list].child = s[1] /\ it[s[n]].next = NULL /\ it[s[1]].prev = s[n]
      /\ \A j \in 1..n : j < n => it[s[j]].next = s[j + 1]
      /\ \A j \in 1..n : j > 1 => it[s[j]].prev = s[j - 1]
  BY <1>1, <1>2 DEF Linked
<1>4. 1 \in 1..n /\ n \in 1..n /\ (k # n => k < n /\ k + 1 \in 1..n)
      /\ (k # 1 => k > 1 /\ k - 1 \in 1..n)
  BY <1>2
<1>. DEFINE t == ReplaceAt(s, k, new)
            b == it[s[k]].next
            a == it[s[k]].prev
<1>5. /\ b = IF k = n THEN NULL ELSE s[k + 1]
      /\ a = IF k = 1 THEN s[n] ELSE s[k - 1]
  <2>1. k = n => b = NULL
    BY <1>3
  <2>2. k # n => b = s[k + 1]
    BY <1>2, <1>3, <1>4
  <2>3. k = 1 => a = s[n]
    BY <1>3
  <2>4. k # 1 => a = s[k - 1]
    BY <1>2, <1>3, <1>4
  <2>. QED  BY <2>1, <2>2, <2>3, <2>4
<1>6. PICK it2 : it2 = Away(Placed(it, list, s[k], new), s[k])
  OBVIOUS
<1>7. /\ a \in Node /\ a # new /\ b \in Node \cup {NULL} /\ b # new /\ b # s[k] /\ s[k] # new
      /\ s[1] \in Node /\ s[1] # new /\ s[k] \in Node
  <2>1. k # n => s[k + 1] # s[k]
    BY <1>2, <1>4
  <2>2. NULL # new
    BY PlacesAssumption
  <2>. QED  BY <1>2, <1>4, <1>5, <2>1, <2>2
<1>8. /\ it2 \in [Node -> Item] /\ SameData(it, it2)
      /\ \A j \in Node :
           /\ it2[j].child = IF j = list /\ s[k] = s[1] THEN new ELSE it[j].child
           /\ it2[j].next = IF j = s[k] THEN NULL ELSE IF j = new THEN b
                            ELSE IF s[k] # s[1] /\ j = a THEN new ELSE it[j].next
           /\ it2[j].prev = IF j = s[k] THEN NULL
                            ELSE IF j = new THEN IF s[k] = s[1] /\ a = s[k] THEN new ELSE a
                            ELSE IF j = b \/ (s[k] # s[1] /\ b = NULL /\ j = s[1]) THEN new
                            ELSE it[j].prev
  <2>. HIDE DEF a, b
  <2>1. PICK i \in Node, first \in Node : i = s[k] /\ first = s[1] /\ it[list].child = first
    BY <1>3, <1>7
  <2>2. it[i].prev = a /\ it[i].next = b
    BY <2>1 DEF a, b
  <2>3. /\ a \in Node /\ a # new /\ b \in Node \cup {NULL} /\ b # new /\ b # i /\ new # i
        /\ first # new
    BY <1>7, <2>1
  <2>4. it2 = Away(Placed(it, list, i, new), i)
    BY <1>6, <2>1
  <2>5. AwayLinks(it, Away(Placed(it, list, i, new), i), list, i, new, a, b, first)
    <3>1. it \in [Node -> Item] /\ list \in Node /\ i \in Node /\ new \in Node
      BY <1>6, <2>1
    <3>. QED  BY <2>1, <2>2, <2>3, <3>1, AwayIs
  <2>6. AwayLinks(it, it2, list, s[k], new, a, b, s[1])
    BY <2>1, <2>4, <2>5
  <2>. QED  BY <2>6 DEF AwayLinks
<1>. HIDE DEF a, b
<1>9. m2 \in Memories /\ it2 = m2.item
  <2>1. m2 = WithItems(m, Away(Placed(m.item, list, s[k], new), s[k]))
    BY <1>7, PutIsPlaced
  <2>2. m2 = WithItems(m, it2)
    BY <1>1, <1>6, <2>1
  <2>. QED  BY <1>8, <2>2 DEF WithItems, Memories
<1>10. OnlyLinks(it, it2, list, Of(s) \cup {new})
  <2>1. s[k] \in Of(s) /\ s[1] \in Of(s) /\ a \in Of(s) /\ (b # NULL => b \in Of(s))
    BY <1>1, <1>2, <1>4, <1>5
  <2>2. ASSUME NEW j \in Node, j \notin Of(s) \cup {new}
        PROVE  it2[j].next = it[j].next /\ it2[j].prev = it[j].prev
    <3>1. j # s[k] /\ j # s[1] /\ j # b /\ j # a /\ j # new
      BY <2>1, <2>2, PlacesAssumption
    <3>. QED  BY <1>8, <3>1
  <2>3. \A j \in Node : j # list => it2[j].child = it[j].child
    BY <1>8
  <2>. QED  BY <1>8, <2>2, <2>3 DEF OnlyLinks, SameData
<1>11. /\ it2[list].child = IF k = 1 THEN new ELSE s[1]
       /\ it2[s[k]].next = NULL /\ it2[s[k]].prev = NULL
       /\ it2[new].next = b /\ it2[new].prev = IF n = 1 THEN new ELSE a
  <2>1. s[k] = s[1] /\ a = s[k] <=> n = 1
    BY <1>2, <1>4, <1>5
  <2>. QED  BY <1>2, <1>3, <1>4, <1>7, <1>8, <2>1
<1>12. \A j \in 1..n : j # k =>
         /\ it2[s[j]].next = IF k # 1 /\ j = k - 1 THEN new ELSE it[s[j]].next
         /\ it2[s[j]].prev = IF j = k + 1 THEN new
                             ELSE IF k # 1 /\ k = n /\ j = 1 THEN new ELSE it[s[j]].prev
  <2>. SUFFICES ASSUME NEW j \in 1..n, j # k
                PROVE  /\ it2[s[j]].next = IF k # 1 /\ j = k - 1 THEN new ELSE it[s[j]].next
                       /\ it2[s[j]].prev = IF j = k + 1 THEN new
                             ELSE IF k # 1 /\ k = n /\ j = 1 THEN new ELSE it[s[j]].prev
    OBVIOUS
  <2>1. /\ s[j] \in Node /\ s[j] # s[k] /\ s[j] # new
        /\ (s[k] # s[1] <=> k # 1) /\ (s[j] = s[1] <=> j = 1)
    BY <1>2, <1>4
  <2>2. k # 1 => (s[j] = a <=> j = k - 1)
    BY <1>2, <1>4, <1>5
  <2>3. (s[j] = b <=> j = k + 1) /\ (b = NULL <=> k = n)
    <3>1. CASE k = n
      <4>1. j # k + 1
        BY <3>1
      <4>. QED  BY <1>2, <1>5, <3>1, <4>1
    <3>2. CASE k # n
      BY <1>2, <1>4, <1>5, <3>2
    <3>. QED  BY <3>1, <3>2
  <2>4. it2[s[j]].next = IF s[k] # s[1] /\ s[j] = a THEN new ELSE it[s[j]].next
    BY <1>8, <2>1
  <2>5. it2[s[j]].prev = IF s[j] = b THEN new
             ELSE IF s[k] # s[1] /\ b = NULL /\ s[j] = s[1] THEN new ELSE it[s[j]].prev
    BY <1>8, <2>1
  <2>. QED  BY <2>1, <2>2, <2>3, <2>4, <2>5
<1>13. /\ t \in Seq(Node) /\ Len(t) = n /\ t[k] = new
       /\ \A j \in 1..n : j # k => t[j] = s[j]
  <2>1. ReplaceAt(s, k, new) = [s EXCEPT ![k] = new] /\ k \in 1..Len(s)
    BY <1>2 DEF ReplaceAt
  <2>2. /\ [s EXCEPT ![k] = new] \in Seq(Node) /\ Len([s EXCEPT ![k] = new]) = Len(s)
        /\ [s EXCEPT ![k] = new][k] = new
        /\ \A j \in 1..Len(s) : j # k => [s EXCEPT ![k] = new][j] = s[j]
    BY <1>2
  <2>. QED  BY <1>2, <2>1, <2>2
<1>. HIDE DEF t
<1>14. \A j \in 1..n : t[j] \in Node /\ t[j] # NULL
  BY <1>2, <1>13, PlacesAssumption
<1>15. \A j, l \in 1..n : t[j] = t[l] => j = l
  BY <1>2, <1>13
<1>16. it2[list].child = t[1] /\ it2[t[n]].next = NULL /\ it2[t[1]].prev = t[n]
  <2>1. it2[list].child = t[1]
    BY <1>4, <1>11, <1>13
  <2>2. it2[t[n]].next = NULL
    <3>1. CASE k = n
      BY <1>5, <1>11, <1>13, <3>1
    <3>2. CASE k # n
      <4>1. n # k - 1
        BY <1>2, <1>4
      <4>. QED  BY <1>3, <1>4, <1>12, <1>13, <3>2, <4>1
    <3>. QED  BY <3>1, <3>2
  <2>3. it2[t[1]].prev = t[n]
    <3>1. CASE k = 1
      <4>1. t[1] = new /\ (n # 1 => t[n] = s[n]) /\ a = s[n]
        BY <1>4, <1>5, <1>13, <3>1
      <4>. QED  BY <1>11, <3>1, <4>1
    <3>2. CASE k # 1
      <4>1. 1 # k + 1 /\ t[1] = s[1]
        <5>1. 1 # k + 1 /\ 1 # k
          BY <1>2, <3>2
        <5>. QED  BY <1>4, <1>13, <5>1
      <4>2. k = n => it2[s[1]].prev = new /\ t[n] = new
        BY <1>4, <1>12, <1>13, <3>2
      <4>3. k # n => it2[s[1]].prev = s[n] /\ t[n] = s[n]
        BY <1>3, <1>4, <1>12, <1>13, <3>2, <4>1
      <4>. QED  BY <4>1, <4>2, <4>3
    <3>. QED  BY <3>1, <3>2
  <2>. QED  BY <2>1, <2>2, <2>3
<1>17. ASSUME NEW j \in 1..n, j < n
       PROVE  it2[t[j]].next = t[j + 1]
  <2>0. j + 1 \in 1..n
    BY <1>17
  <2>1. CASE j = k
    <3>1. j + 1 # k /\ k # n
      BY <1>17, <2>1
    <3>. QED  BY <1>5, <1>11, <1>13, <2>0, <2>1, <3>1
  <2>2. CASE j = k - 1
    <3>1. j # k /\ k # 1 /\ j + 1 = k
      BY <1>2, <2>2
    <3>. QED  BY <1>12, <1>13, <2>2, <3>1
  <2>3. CASE j # k /\ j # k - 1
    <3>1. j + 1 # k
      BY <1>2, <2>3
    <3>2. t[j] = s[j] /\ t[j + 1] = s[j + 1]
      BY <1>13, <2>0, <2>3, <3>1
    <3>. QED  BY <1>3, <1>12, <1>17, <2>3, <3>2
  <2>. QED  BY <2>1, <2>2, <2>3
<1>18. ASSUME NEW j \in 1..n, j > 1
       PROVE  it2[t[j]].prev = t[j - 1]
  <2>0. j - 1 \in 1..n
    BY <1>18
  <2>1. CASE j = k
    <3>1. j - 1 # k /\ k # 1 /\ n # 1
      BY <1>18, <2>1
    <3>. QED  BY <1>5, <1>11, <1>13, <2>0, <2>1, <3>1
  <2>2. CASE j = k + 1
    <3>1. j # k /\ j - 1 = k
      BY <1>2, <2>2
    <3>. QED  BY <1>12, <1>13, <2>2, <3>1
  <2>3. CASE j # k /\ j # k + 1
    <3>1. j - 1 # k /\ j # 1
      BY <1>2, <1>18, <2>3
    <3>2. t[j] = s[j] /\ t[j - 1] = s[j - 1]
      BY <1>13, <2>0, <2>3, <3>1
    <3>3. it2[s[j]].prev = it[s[j]].prev
      BY <1>12, <2>3, <3>1
    <3>. QED  BY <1>3, <1>18, <3>2, <3>3
  <2>. QED  BY <2>1, <2>2, <2>3
<1>19. n # 0
  BY <1>2
<1>20. Linked(it2, list, t, n)
  BY <1>13, <1>14, <1>15, <1>16, <1>17, <1>18, <1>19 DEF Linked
<1>21. IsList(it2, list, t)
  BY <1>20, LinkedIsList
<1>. QED  BY <1>1, <1>9, <1>10, <1>11, <1>21 DEF t
=============================================================================
