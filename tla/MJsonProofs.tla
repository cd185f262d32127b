----------------------------- MODULE MJsonProofs -----------------------------
(***************************************************************************)
(* What holds of MJson for every set of names and paths, every depth of    *)
(* the stack and texts of any length.                                      *)
(***************************************************************************)
EXTENDS MJson, SequenceTheorems, TLAPS

(* The operators the actions are built from. *)

\* The tokens are told apart.
LEMMA TokensApart ==
  ASSUME NEW t \in Tokens
  PROVE  /\ t # "never"
         /\ t \in Opening => t \notin Closing /\ t \notin Names /\ t \notin Scalars /\ t # ","
                             /\ t # ":" /\ t # "-" /\ t # "?"
         /\ t \in Closing => t \notin Names /\ t \notin Scalars /\ t # "," /\ t # ":"
                             /\ t # "-" /\ t # "?"
         /\ t \in Scalars => t \notin Names /\ t # "," /\ t # ":" /\ t # "-" /\ t # "?"
         /\ t \in Names => t # "," /\ t # ":" /\ t # "-" /\ t # "?"
BY ConstantsAssumption DEF Tokens, Opening, Closing, Scalars

\* Every value has a kind.
LEMMA KindIsKind ==
  ASSUME NEW t
  PROVE  Kind(t) \in Kinds
<1>1. CASE t \in Scalars
  BY <1>1 DEF Kind, Kinds
<1>2. CASE t \notin Scalars
  <2>1. Kind(t) \in {"number", "object", "array", "string"}
    BY <1>2, Zenon DEF Kind
  <2>. QED  BY <2>1 DEF Kinds, Scalars
<1>. QED  BY <1>1, <1>2

\* What is around the next token, after this one.
LEMMA Surrounds ==
  ASSUME NEW t \in Tokens, NEW isKey \in BOOLEAN, Surround(t, isKey)
  PROVE  /\ t \in Opening =>
              around' = Append(around, [open |-> t, name |-> "", index |-> 0, seen |-> {}])
         /\ t \in Closing => around' = Pop(around)
         /\ t \in Names /\ isKey =>
              around' = Append(Pop(around), [Top(around) EXCEPT !.name = t, !.seen = @ \cup {t}])
         /\ t = "," =>
              around' = Append(Pop(around), [Top(around) EXCEPT !.index = @ + 1])
         /\ ~(t \in Opening \/ t \in Closing \/ (t \in Names /\ isKey) \/ t = ",") =>
              around' = around
<1>1. t \in Opening => t \notin Closing /\ t \notin Names /\ t # ","
  BY TokensApart
<1>2. t \in Closing => t \notin Names /\ t # ","
  BY TokensApart
<1>3. t \in Names => t # ","
  BY TokensApart
<1>. QED  BY <1>1, <1>2, <1>3, Zenon DEF Surround

\* What JSON allows after a token.
LEMMA Allows ==
  ASSUME NEW t \in Tokens, Allow(t)
  PROVE  /\ t \notin allowed => allowed' = {"never"}
         /\ t \in allowed /\ t = "{" => allowed' = Names \cup {"}"}
         /\ t \in allowed /\ t = "[" => allowed' = AnyValue \cup {"]"}
         /\ t \in allowed /\ t = ":" => allowed' = AnyValue
         /\ t \in allowed /\ t = "," =>
              allowed' = IF Top(around).open = "{" THEN Names ELSE AnyValue
         /\ t \in allowed /\ t \in Closing => allowed' = AfterValue(Pop(around))
         /\ t \in allowed /\ t \in Names /\ "[" \notin allowed => allowed' = {":"}
         /\ t \in allowed /\ t \in Names /\ "[" \in allowed => allowed' = AfterValue(around)
         /\ t \in allowed /\ (t \in Scalars \/ t = "-" \/ t = "?") => allowed' = AfterValue(around)
<1>1. /\ t \in Opening <=> t = "{" \/ t = "["
      /\ "{" # "["
  BY DEF Opening
<1>2. /\ t = "{" => t # ":" /\ t # "," /\ t \notin Closing /\ t \notin Names
      /\ t = "[" => t # ":" /\ t # "," /\ t \notin Closing /\ t \notin Names
      /\ t = ":" => t # "," /\ t \notin Closing /\ t \notin Names
      /\ t = "," => t \notin Closing /\ t \notin Names
      /\ t \in Closing => t \notin Names
      /\ (t \in Scalars \/ t = "-" \/ t = "?") =>
           t # "{" /\ t # "[" /\ t # ":" /\ t # "," /\ t \notin Closing /\ t \notin Names
  BY <1>1, TokensApart, ConstantsAssumption DEF Opening, Closing, Scalars
<1>. QED  BY <1>1, <1>2, Zenon DEF Allow

\* Whatever is allowed next is a token, or nothing is.
LEMMA AllowsTokens ==
  ASSUME NEW t \in Tokens, Allow(t), allowed \subseteq Tokens \cup {"never"}
  PROVE  allowed' \subseteq Tokens \cup {"never"}
<1>1. \A s : AfterValue(s) \subseteq Tokens
  BY DEF AfterValue, Tokens, Closing
<1>2. /\ AnyValue \subseteq Tokens /\ Names \subseteq Tokens
      /\ "}" \in Tokens /\ "]" \in Tokens /\ ":" \in Tokens
  BY DEF AnyValue, Tokens, Closing
<1>3. t \in Opening => t = "{" \/ t = "["
  BY DEF Opening
<1>4. \/ t \notin allowed
      \/ t = "{" \/ t = "[" \/ t = ":" \/ t = "," \/ t \in Closing
      \/ t \in Names /\ "[" \notin allowed
      \/ t \in Names /\ "[" \in allowed
      \/ t \in Scalars \/ t = "-" \/ t = "?"
  BY <1>3 DEF Tokens
<1>5. (IF Top(around).open = "{" THEN Names ELSE AnyValue) \subseteq Tokens
  BY <1>2
<1>6. \/ allowed' = {"never"} \/ allowed' = Names \cup {"}"} \/ allowed' = AnyValue \cup {"]"}
      \/ allowed' = AnyValue \/ allowed' = Names \/ allowed' = {":"}
      \/ \E s : allowed' = AfterValue(s)
  BY <1>4, Allows
<1>. QED  BY <1>1, <1>2, <1>6

\* A path is found by going from index to index: the next one is where it stands.
LEMMA NextIndex ==
  ASSUME NEW p \in Paths, NEW pos \in 1..Len(p), IsAt(p[pos])
  PROVE  PastIndex(p, pos) = pos + 1
<1>. DEFINE later == {i \in pos..Len(p) : IsAt(p[i])}
<1>1. p \in Seq([key : Names \cup {""}, index : Nat \cup {-1}])
  BY ConstantsAssumption
<1>2. Len(p) \in Nat
  BY <1>1, LenProperties
<1>3. pos \in later /\ \A j \in later : pos <= j
  BY <1>2
<1>4. \A i \in later : (\A j \in later : i <= j) => i = pos
  BY <1>2, <1>3
<1>5. (CHOOSE i \in later : \A j \in later : i <= j) = pos
  BY <1>3, <1>4
<1>6. later # {}
  BY <1>3
<1>7. PastIndex(p, pos) = 1 + CHOOSE i \in later : \A j \in later : i <= j
  BY <1>6 DEF PastIndex
<1>. QED  BY <1>5, <1>7

-----------------------------------------------------------------------------
(* The cursors. *)

\* A cursor stands within its path, or just after it; while it counts the items
\* of an array, it stands at the index that it counts towards.
Pointing(p, d) ==
  /\ d \in Cursor /\ d.pos <= Len(p) + 1
  /\ d.i1 < d.i2 => d.pos <= Len(p) /\ IsAt(p[d.pos])

CursorInv == \A p \in Paths : Pointing(p, data[p])

\* The elements of a path.
LEMMA PathElements ==
  ASSUME NEW p \in Paths
  PROVE  /\ Len(p) \in Nat
         /\ \A i \in 1..Len(p) : /\ p[i].key \in Names \cup {""}
                                 /\ p[i].index \in Nat \cup {-1}
                                 /\ IsAt(p[i]) => p[i].index \in Nat
<1>0. \A n \in Nat \cup {-1} : n >= 0 => n \in Nat
  OBVIOUS
<1>. DEFINE E == [key : Names \cup {""}, index : Nat \cup {-1}]
<1>1. p \in Seq(E)
  BY ConstantsAssumption
<1>2. \A e \in E : e.key \in Names \cup {""} /\ e.index \in Nat \cup {-1}
  OBVIOUS
<1>. HIDE DEF E
<1>3. Len(p) \in Nat /\ \A i \in 1..Len(p) : p[i] \in E
  BY <1>1, LenProperties, ElementOfSeq
<1>. QED  BY <1>0, <1>2, <1>3 DEF IsAt

\* What a cursor keeps.
LEMMA CursorFields ==
  ASSUME NEW d \in Cursor
  PROVE  /\ d.pos \in Nat \ {0} /\ d.d1 \in Int /\ d.d2 \in Nat /\ d.i1 \in Nat /\ d.i2 \in Nat
         /\ d.obj \in {"none", "right", "wrong"} /\ d.tok \in Kinds \cup {"invalid"}
         /\ d.right \in BOOLEAN
BY DEF Cursor

\* The moves of a cursor, field by field: it enters a container;
LEMMA Entered ==
  ASSUME NEW p, NEW d \in Cursor, NEW here \in BOOLEAN
  PROVE  /\ Enter(p, d, here) \in Cursor
         /\ Enter(p, d, here).pos = d.pos /\ Enter(p, d, here).d1 = d.d1 + 1 /\ Enter(p, d, here).d2 = d.d2 /\ Enter(p, d, here).i1 = d.i1 /\ Enter(p, d, here).i2 = d.i2
         /\ Enter(p, d, here).obj = IF Here(p, d) THEN (IF here THEN "right" ELSE "wrong") ELSE d.obj
         /\ Enter(p, d, here).tok = d.tok /\ Enter(p, d, here).right = d.right
<1>0. PICK c : c = Enter(p, d, here)
  OBVIOUS
<1>1. PICK o \in {"none", "right", "wrong"}, n \in Int :
        /\ o = IF Here(p, d) THEN (IF here THEN "right" ELSE "wrong") ELSE d.obj
        /\ n = d.d1 + 1
  BY CursorFields
<1>2. c = [d EXCEPT !.obj = o, !.d1 = n]
  BY <1>0, <1>1 DEF Enter, Cursor
<1>3. /\ c \in Cursor
      /\ c.pos = d.pos /\ c.d1 = n /\ c.d2 = d.d2 /\ c.i1 = d.i1 /\ c.i2 = d.i2
      /\ c.obj = o /\ c.tok = d.tok /\ c.right = d.right
  BY <1>2 DEF Cursor
<1>. QED  BY <1>0, <1>1, <1>3

\* it leaves a container;
LEMMA Left ==
  ASSUME NEW p, NEW d \in Cursor, NEW t
  PROVE  /\ Leave(p, d, t) \in Cursor
         /\ Leave(p, d, t).pos = d.pos /\ Leave(p, d, t).d1 = d.d1 - 1 /\ Leave(p, d, t).d2 = d.d2 /\ Leave(p, d, t).i1 = d.i1 /\ Leave(p, d, t).i2 = d.i2
         /\ Leave(p, d, t).obj = d.obj
<1>0. PICK c : c = Leave(p, d, t)
  OBVIOUS
<1>1. PICK n \in Int : n = d.d1 - 1
  BY CursorFields
<1>. DEFINE e == [d EXCEPT !.d1 = n]
<1>2. /\ e \in Cursor /\ e.d1 = n
      /\ e.pos = d.pos /\ e.d2 = d.d2 /\ e.i1 = d.i1 /\ e.i2 = d.i2
      /\ e.obj = d.obj /\ e.tok = d.tok /\ e.right = d.right
  BY DEF Cursor
<1>3. Here(p, e) <=> Ended(p, d) /\ n = d.d2
  BY <1>2 DEF Here, Ended
<1>4. c = IF Here(p, e) /\ e.obj # "none"
          THEN [e EXCEPT !.tok = IF t = "}" THEN "object" ELSE "array",
                         !.right = e.obj = "right"]
          ELSE e
  BY <1>0, <1>1 DEF Leave
<1>. HIDE DEF e
<1>5. CASE Here(p, e) /\ e.obj # "none"
  <2>1. PICK k \in Kinds, r \in BOOLEAN :
          k = (IF t = "}" THEN "object" ELSE "array") /\ r = (e.obj = "right")
    BY DEF Kinds
  <2>2. c = [e EXCEPT !.tok = k, !.right = r]
    BY <1>4, <1>5, <2>1
  <2>3. /\ c \in Cursor /\ c.tok = k /\ c.right = r
        /\ c.pos = e.pos /\ c.d1 = e.d1 /\ c.d2 = e.d2 /\ c.i1 = e.i1 /\ c.i2 = e.i2
        /\ c.obj = e.obj
    BY <1>2, <2>2 DEF Cursor
  <2>. QED  BY <1>0, <1>1, <1>2, <1>3, <1>5, <2>1, <2>3
<1>6. CASE ~(Here(p, e) /\ e.obj # "none")
  BY <1>0, <1>1, <1>2, <1>3, <1>4, <1>6
<1>. QED  BY <1>5, <1>6

\* it takes a value.
LEMMA Taken ==
  ASSUME NEW p, NEW d \in Cursor, NEW t, NEW here \in BOOLEAN
  PROVE  /\ Take(p, d, t, here) \in Cursor
         /\ Take(p, d, t, here).pos = d.pos /\ Take(p, d, t, here).d1 = d.d1 /\ Take(p, d, t, here).d2 = d.d2 /\ Take(p, d, t, here).i1 = d.i1 /\ Take(p, d, t, here).i2 = d.i2
         /\ Take(p, d, t, here).obj = d.obj
<1>0. PICK c : c = Take(p, d, t, here)
  OBVIOUS
<1>1. PICK k \in Kinds : k = Kind(t)
  BY KindIsKind
<1>2. c = IF Here(p, d) THEN [d EXCEPT !.tok = k, !.right = here] ELSE d
  BY <1>0, <1>1 DEF Take
<1>3. /\ c \in Cursor
      /\ c.pos = d.pos /\ c.d1 = d.d1 /\ c.d2 = d.d2 /\ c.i1 = d.i1 /\ c.i2 = d.i2
      /\ c.obj = d.obj
      /\ IF Here(p, d) THEN c.tok = k /\ c.right = here
                       ELSE c.tok = d.tok /\ c.right = d.right
  BY <1>2 DEF Cursor
<1>. QED  BY <1>0, <1>1, <1>3

\* No token moves a cursor past its path, and none but the comma before the item
\* looked for moves one that counts the items of an array.
LEMMA EnterPoints ==
  ASSUME NEW p \in Paths, NEW d, Pointing(p, d), NEW here \in BOOLEAN
  PROVE  Pointing(p, Enter(p, d, here))
BY Entered DEF Pointing

\* At the path's index 0 the cursor goes on within its path, at a later one it counts;
LEMMA EnterArrayPoints ==
  ASSUME NEW p \in Paths, NEW d, Pointing(p, d), NEW here \in BOOLEAN
  PROVE  Pointing(p, EnterArray(p, d, here))
<1>0. d \in Cursor /\ d.pos \in Nat \ {0} /\ Len(p) \in Nat /\ d.pos <= Len(p) + 1
  BY CursorFields, PathElements DEF Pointing
<1>1. CASE d.d1 = d.d2 /\ ~Ended(p, d) /\ IsAt(p[d.pos])
  <2>1. d.pos \in 1..Len(p)
    BY <1>0, <1>1 DEF Ended
  <2>2. PICK i \in Nat : i = p[d.pos].index
    BY <1>1, <2>1, PathElements
  <2>3. PICK e : e = [d EXCEPT !.i1 = 0, !.i2 = i]
    OBVIOUS
  <2>4. /\ e \in Cursor /\ e.pos = d.pos /\ e.d2 = d.d2 /\ e.i1 = 0 /\ e.i2 = i
    BY <1>0, <2>3 DEF Cursor
  <2>5. CASE i = 0
    <3>1. PICK a \in Nat, b \in Nat \ {0} : a = e.d2 + 1 /\ b = e.pos + 1
      BY <2>4, CursorFields
    <3>2. PICK f : f = [e EXCEPT !.d2 = a, !.pos = b]
      OBVIOUS
    <3>3. EnterArray(p, d, here) = Enter(p, f, here)
      BY <1>1, <2>2, <2>3, <2>5, <3>1, <3>2 DEF EnterArray
    <3>4. f \in Cursor /\ f.pos = b /\ f.i1 = 0 /\ f.i2 = 0
      BY <2>4, <2>5, <3>2 DEF Cursor
    <3>5. Pointing(p, f)
      BY <1>0, <2>1, <2>4, <3>1, <3>4 DEF Pointing
    <3>. QED  BY <3>3, <3>5, EnterPoints
  <2>6. CASE i # 0
    <3>1. EnterArray(p, d, here) = Enter(p, e, here)
      BY <1>1, <2>2, <2>3, <2>6 DEF EnterArray
    <3>2. Pointing(p, e)
      BY <1>0, <1>1, <2>1, <2>4 DEF Pointing
    <3>. QED  BY <3>1, <3>2, EnterPoints
  <2>. QED  BY <2>5, <2>6
<1>2. CASE ~(d.d1 = d.d2 /\ ~Ended(p, d) /\ IsAt(p[d.pos]))
  BY <1>2, EnterPoints DEF EnterArray
<1>. QED  BY <1>1, <1>2

\* a comma moves it to the next element only when the index is reached;
LEMMA NextItemPoints ==
  ASSUME NEW p \in Paths, NEW d, Pointing(p, d)
  PROVE  Pointing(p, NextItem(p, d))
<1>0. /\ d \in Cursor /\ d.pos \in Nat \ {0} /\ d.i1 \in Nat /\ d.i2 \in Nat
      /\ Len(p) \in Nat /\ d.pos <= Len(p) + 1
  BY CursorFields, PathElements DEF Pointing
<1>1. CASE d.d1 # d.d2 + 1
  BY <1>1 DEF NextItem
<1>2. CASE d.d1 = d.d2 + 1 /\ d.i1 + 1 # d.i2
  <2>1. PICK j \in Nat : j = d.i1 + 1
    BY <1>0
  <2>2. NextItem(p, d) = [d EXCEPT !.i1 = j]
    BY <1>2, <2>1 DEF NextItem
  <2>3. PICK c : c = NextItem(p, d)
    OBVIOUS
  <2>4. c \in Cursor /\ c.pos = d.pos /\ c.i1 = j /\ c.i2 = d.i2
    BY <1>0, <2>2, <2>3 DEF Cursor
  <2>. QED  BY <1>0, <1>2, <2>1, <2>3, <2>4 DEF Pointing
<1>3. CASE d.d1 = d.d2 + 1 /\ d.i1 + 1 = d.i2
  <2>1. d.pos \in 1..Len(p) /\ IsAt(p[d.pos])
    BY <1>0, <1>3 DEF Pointing
  <2>2. PastIndex(p, d.pos) = d.pos + 1
    BY <2>1, NextIndex
  <2>3. PICK j \in Nat, a \in Nat, b \in Nat \ {0} :
          j = d.i1 + 1 /\ a = d.d2 + 1 /\ b = d.pos + 1
    <3>1. d.i1 \in Nat /\ d.d2 \in Nat /\ d.pos \in Nat \ {0}
      BY <1>0, CursorFields
    <3>2. d.i1 + 1 \in Nat /\ d.d2 + 1 \in Nat /\ d.pos + 1 \in Nat \ {0}
      BY <3>1
    <3>. QED  BY <3>2
  <2>4. PICK c : c = [d EXCEPT !.i1 = j, !.d2 = a, !.pos = b]
    OBVIOUS
  <2>5. NextItem(p, d) = c
    BY <1>3, <2>2, <2>3, <2>4 DEF NextItem
  <2>6. c \in Cursor /\ c.pos = b /\ c.i1 = j /\ c.i2 = d.i2
    BY <1>0, <2>4 DEF Cursor
  <2>. QED  BY <1>0, <1>3, <2>1, <2>3, <2>5, <2>6 DEF Pointing
<1>. QED  BY <1>1, <1>2, <1>3

\* a name moves it only when it is the element of the path;
LEMMA MatchKeyPoints ==
  ASSUME NEW p \in Paths, NEW d, Pointing(p, d), NEW k \in Names
  PROVE  Pointing(p, MatchKey(p, d, k))
<1>0. /\ d \in Cursor /\ d.pos \in Nat \ {0} /\ d.i1 \in Nat /\ d.i2 \in Nat
      /\ Len(p) \in Nat /\ d.pos <= Len(p) + 1
  BY CursorFields, PathElements DEF Pointing
<1>1. CASE d.d1 = d.d2 + 1 /\ ~Ended(p, d) /\ p[d.pos] = Key(k)
  <2>1. ~IsAt(p[d.pos]) /\ d.pos \in 1..Len(p)
    BY <1>0, <1>1 DEF Key, IsAt, Ended
  <2>2. ~(d.i1 < d.i2)
    BY <2>1 DEF Pointing
  <2>3. PICK a \in Nat, b \in Nat \ {0} : a = d.d2 + 1 /\ b = d.pos + 1
    <3>1. d.i1 \in Nat /\ d.d2 \in Nat /\ d.pos \in Nat \ {0}
      BY <1>0, CursorFields
    <3>2. d.i1 + 1 \in Nat /\ d.d2 + 1 \in Nat /\ d.pos + 1 \in Nat \ {0}
      BY <3>1
    <3>. QED  BY <3>2
  <2>4. PICK c : c = [d EXCEPT !.d2 = a, !.pos = b]
    OBVIOUS
  <2>5. MatchKey(p, d, k) = c
    BY <1>1, <2>3, <2>4 DEF MatchKey
  <2>6. c \in Cursor /\ c.pos = b /\ c.i1 = d.i1 /\ c.i2 = d.i2
    BY <1>0, <2>4 DEF Cursor
  <2>. QED  BY <1>0, <2>1, <2>2, <2>3, <2>5, <2>6 DEF Pointing
<1>2. CASE ~(d.d1 = d.d2 + 1 /\ ~Ended(p, d) /\ p[d.pos] = Key(k))
  BY <1>2 DEF MatchKey
<1>. QED  BY <1>1, <1>2

\* a closing bracket leaves it where it is;
LEMMA LeavePoints ==
  ASSUME NEW p \in Paths, NEW d, Pointing(p, d), NEW t
  PROVE  Pointing(p, Leave(p, d, t))
<1>1. d \in Cursor
  BY DEF Pointing
<1>2. /\ Leave(p, d, t) \in Cursor
      /\ Leave(p, d, t).pos = d.pos /\ Leave(p, d, t).i1 = d.i1 /\ Leave(p, d, t).i2 = d.i2
  BY <1>1, Left
<1>. QED  BY <1>2 DEF Pointing

\* so does a value;
LEMMA TakePoints ==
  ASSUME NEW p \in Paths, NEW d, Pointing(p, d), NEW t, NEW here \in BOOLEAN
  PROVE  Pointing(p, Take(p, d, t, here))
<1>1. d \in Cursor
  BY DEF Pointing
<1>2. /\ Take(p, d, t, here) \in Cursor
      /\ Take(p, d, t, here).pos = d.pos /\ Take(p, d, t, here).i1 = d.i1 /\ Take(p, d, t, here).i2 = d.i2
  BY <1>1, Taken
<1>. QED  BY <1>2 DEF Pointing

\* and therefore the callback keeps it within its path.
LEMMA CallbackPoints ==
  ASSUME NEW p \in Paths, NEW d, Pointing(p, d), NEW t \in Tokens,
         NEW isKey \in BOOLEAN, NEW here \in BOOLEAN
  PROVE  Pointing(p, mjson_get_cb(p, d, t, isKey, here))
<1>1. /\ t = "{" => t # "[" /\ t # ":" /\ t # "," /\ t \notin Closing /\ t \notin Names
      /\ t = "[" => t # ":" /\ t # "," /\ t \notin Closing /\ t \notin Names
      /\ t = ":" => t # "," /\ t \notin Closing /\ t \notin Names
      /\ t = "," => t \notin Closing /\ t \notin Names
      /\ t \in Closing => t \notin Names
  BY TokensApart, ConstantsAssumption DEF Opening, Closing, Scalars
<1>2. \/ mjson_get_cb(p, d, t, isKey, here) = d
      \/ mjson_get_cb(p, d, t, isKey, here) = Enter(p, d, here)
      \/ mjson_get_cb(p, d, t, isKey, here) = EnterArray(p, d, here)
      \/ mjson_get_cb(p, d, t, isKey, here) = NextItem(p, d)
      \/ mjson_get_cb(p, d, t, isKey, here) = Leave(p, d, t)
      \/ t \in Names /\ mjson_get_cb(p, d, t, isKey, here) = MatchKey(p, d, t)
      \/ mjson_get_cb(p, d, t, isKey, here) = Take(p, d, t, here)
  BY <1>1, Zenon DEF mjson_get_cb
<1>. QED  BY <1>2, EnterPoints, EnterArrayPoints, NextItemPoints, MatchKeyPoints, LeavePoints,
             TakePoints

-----------------------------------------------------------------------------
(* The stack and the text. *)

\* A container of the text, with what has been read of it.
Frame == [open : Opening, name : Names \cup {""}, index : Nat, seen : SUBSET Names]

\* The stack holds the open containers of the text, and what mjson() expects fits it.
StackInv ==
  /\ nesting \in Seq(Opening) /\ Len(nesting) <= MJSON_MAX_DEPTH
  /\ around \in Seq(Frame) /\ Len(around) = Len(nesting)
  /\ \A i \in 1..Len(nesting) : nesting[i] = around[i].open

\* What mjson() expects, and what it returned, agree with the stack.
StateInv ==
  /\ expecting \in {"VALUE", "KEY", "COLON", "COMMA_OR_EOO"}
  /\ result \in {"reading", "length", "INVALID_INPUT", "TOO_DEEP"}
  /\ result = "reading" =>
       /\ expecting # "VALUE" => nesting # <<>>
       /\ expecting \in {"KEY", "COLON"} => Top(nesting) = "{"
  /\ result = "length" => around = <<>>
  /\ result = "TOO_DEEP" => Len(around) = MJSON_MAX_DEPTH

\* While the text is JSON, mjson() expects what JSON allows.
Follows ==
  /\ expecting = "VALUE" => /\ AnyValue \subseteq allowed /\ allowed \subseteq AnyValue \cup {"]"}
                            /\ "]" \in allowed => nesting # <<>> /\ Top(nesting) = "["
  /\ expecting = "KEY" => allowed \subseteq Names \cup {"}"}
  /\ expecting = "COLON" => allowed = {":"}
  /\ expecting = "COMMA_OR_EOO" => allowed = AfterValue(around)

AllowedInv ==
  /\ allowed \subseteq Tokens \cup {"never"}
  /\ result = "INVALID_INPUT" => allowed = {"never"}
  /\ result = "reading" => allowed = {"never"} \/ Follows

\* The top of a stack, and what is under it.
LEMMA PopAndTop ==
  ASSUME NEW S, NEW s \in Seq(S), s # <<>>
  PROVE  /\ Len(s) \in Nat \ {0} /\ Top(s) \in S /\ Top(s) = s[Len(s)]
         /\ Pop(s) \in Seq(S) /\ Len(Pop(s)) = Len(s) - 1
         /\ \A i \in 1..(Len(s) - 1) : Pop(s)[i] = s[i]
<1>1. Len(s) \in Nat /\ Len(s) # 0
  BY EmptySeq, LenProperties
<1>2. Top(s) \in S
  BY <1>1, ElementOfSeq DEF Top
<1>3. /\ Pop(s) \in Seq(S) /\ Len(Pop(s)) = Len(s) - 1
      /\ \A i \in 1..(Len(s) - 1) : Pop(s)[i] = s[i]
  <2>1. PICK n \in Nat : n = Len(s) - 1
    BY <1>1
  <2>2. \A i \in 1..n : s[i] \in S
    BY <1>1, <2>1, ElementOfSeq
  <2>3. /\ SubSeq(s, 1, n) \in Seq(S)
        /\ Len(SubSeq(s, 1, n)) = IF 1 <= n THEN n - 1 + 1 ELSE 0
        /\ \A i \in 1..(n - 1 + 1) : SubSeq(s, 1, n)[i] = s[1 + i - 1]
    BY <2>2, SubSeqProperties
  <2>4. Len(SubSeq(s, 1, n)) = n /\ \A i \in 1..n : SubSeq(s, 1, n)[i] = s[i]
    BY <2>3
  <2>. QED  BY <2>1, <2>3, <2>4 DEF Pop
<1>. QED  BY <1>1, <1>2, <1>3 DEF Top

\* A container replaced by what it has become.
LEMMA Replaced ==
  ASSUME NEW S, NEW s \in Seq(S), s # <<>>, NEW f \in S
  PROVE  /\ Append(Pop(s), f) \in Seq(S) /\ Len(Append(Pop(s), f)) = Len(s)
         /\ Top(Append(Pop(s), f)) = f /\ Pop(Append(Pop(s), f)) = Pop(s)
         /\ \A i \in 1..Len(s) : Append(Pop(s), f)[i] = IF i = Len(s) THEN f ELSE s[i]
<1>1. PICK b \in Seq(S) : b = Pop(s)
  BY PopAndTop
<1>2. /\ Len(s) \in Nat \ {0} /\ Len(b) = Len(s) - 1
      /\ \A i \in 1..(Len(s) - 1) : b[i] = s[i]
  BY <1>1, PopAndTop
<1>3. /\ Append(b, f) \in Seq(S) /\ Len(Append(b, f)) = Len(b) + 1
      /\ Append(b, f)[Len(b) + 1] = f
      /\ \A i \in 1..Len(b) : Append(b, f)[i] = b[i]
  BY AppendProperties
<1>4. Top(Append(b, f)) = f
  BY <1>2, <1>3 DEF Top
<1>5. Pop(Append(b, f)) = b
  BY <1>2, <1>3, SubSeqProperties DEF Pop
<1>. QED  BY <1>1, <1>2, <1>3, <1>4, <1>5

\* A container more.
LEMMA Pushed ==
  ASSUME NEW S, NEW s \in Seq(S), NEW f \in S
  PROVE  /\ Append(s, f) \in Seq(S) /\ Len(Append(s, f)) = Len(s) + 1 /\ Len(s) \in Nat
         /\ Append(s, f) # <<>> /\ Top(Append(s, f)) = f
         /\ \A i \in 1..Len(s) : Append(s, f)[i] = s[i]
BY AppendProperties DEF Top

\* The stack and the text grow and shrink together: they have one container more,
LEMMA StackOpens ==
  ASSUME StackInv, NEW t \in Opening, Len(nesting) < MJSON_MAX_DEPTH,
         NEW f \in Frame, f.open = t,
         nesting' = Append(nesting, t), around' = Append(around, f)
  PROVE  StackInv' /\ Top(nesting)' = t /\ nesting' # <<>> /\ Top(around)' = f
<1>1. /\ nesting' \in Seq(Opening) /\ Len(nesting') = Len(nesting) + 1 /\ Top(nesting') = t
      /\ nesting' # <<>> /\ \A i \in 1..Len(nesting) : nesting'[i] = nesting[i]
      /\ Len(nesting) \in Nat
  BY Pushed DEF StackInv
<1>2. /\ around' \in Seq(Frame) /\ Len(around') = Len(around) + 1 /\ Top(around') = f
      /\ \A i \in 1..Len(around) : around'[i] = around[i]
  BY Pushed DEF StackInv
<1>3. MJSON_MAX_DEPTH \in Nat
  BY ConstantsAssumption
<1>4. nesting'[Len(nesting')] = t /\ around'[Len(around')] = f
  BY <1>1, <1>2 DEF Top
<1>5. \A i \in 1..Len(nesting') : nesting'[i] = around'[i].open
  BY <1>1, <1>2, <1>4 DEF StackInv
<1>6. Top(nesting)' = t /\ Top(around)' = f
  BY <1>1, <1>2 DEF Top
<1>. QED  BY <1>1, <1>2, <1>3, <1>5, <1>6 DEF StackInv

\* or one fewer;
LEMMA StackCloses ==
  ASSUME StackInv, nesting # <<>>, nesting' = Pop(nesting), around' = Pop(around)
  PROVE  StackInv'
<1>1. around # <<>>
  BY EmptySeq DEF StackInv
<1>2. /\ nesting' \in Seq(Opening) /\ Len(nesting') = Len(nesting) - 1 /\ Len(nesting) \in Nat
      /\ \A i \in 1..(Len(nesting) - 1) : nesting'[i] = nesting[i]
  BY PopAndTop DEF StackInv
<1>3. /\ around' \in Seq(Frame) /\ Len(around') = Len(around) - 1
      /\ \A i \in 1..(Len(around) - 1) : around'[i] = around[i]
  BY <1>1, PopAndTop DEF StackInv
<1>4. MJSON_MAX_DEPTH \in Nat
  BY ConstantsAssumption
<1>5. \A i \in 1..Len(nesting') : nesting'[i] = around'[i].open
  <2>1. /\ Len(around) = Len(nesting) /\ Len(nesting') = Len(nesting) - 1
        /\ \A i \in 1..Len(nesting) : nesting[i] = around[i].open
    BY <1>2 DEF StackInv
  <2>2. ASSUME NEW i \in 1..(Len(nesting) - 1)
        PROVE  nesting'[i] = nesting[i] /\ around'[i] = around[i] /\ i \in 1..Len(nesting)
    <3>1. around'[i] = around[i]
      BY <1>3, <2>1
    <3>. QED  BY <1>2, <3>1
  <2>. QED  BY <2>1, <2>2
<1>. QED  BY <1>2, <1>3, <1>4, <1>5 DEF StackInv

\* a comma and a name are read inside the container on top.
LEMMA StackStays ==
  ASSUME StackInv, nesting # <<>>, nesting' = nesting,
         NEW f \in Frame, f.open = Top(around).open, around' = Append(Pop(around), f)
  PROVE  StackInv' /\ Top(around)' = f
<1>1. around # <<>>
  BY EmptySeq DEF StackInv
<1>2. /\ around' \in Seq(Frame) /\ Len(around') = Len(around) /\ Top(around') = f
      /\ \A i \in 1..Len(around) : around'[i] = IF i = Len(around) THEN f ELSE around[i]
  BY <1>1, Replaced DEF StackInv
<1>3. Top(around) = around[Len(around)]
  BY DEF Top
<1>4. \A i \in 1..Len(nesting') : nesting'[i] = around'[i].open
  BY <1>2, <1>3 DEF StackInv
<1>5. Top(around)' = f
  BY <1>2 DEF Top
<1>. QED  BY <1>2, <1>4, <1>5 DEF StackInv

\* The top of the stack is the container on top.
LEMMA TopIsOpen ==
  ASSUME StackInv, nesting # <<>>
  PROVE  /\ around # <<>> /\ Top(around) \in Frame /\ Top(nesting) = Top(around).open
         /\ Top(nesting) \in Opening
<1>1. around # <<>>
  BY EmptySeq DEF StackInv
<1>2. Top(around) \in Frame /\ Top(around) = around[Len(around)] /\ Len(around) \in Nat \ {0}
  BY <1>1, PopAndTop DEF StackInv
<1>3. Top(nesting) \in Opening /\ Top(nesting) = nesting[Len(nesting)]
  BY PopAndTop DEF StackInv
<1>. QED  BY <1>1, <1>2, <1>3 DEF StackInv

ReadingInv == StackInv /\ StateInv /\ AllowedInv

\* mjson() goes on after a token: what it expects then is what JSON allows.
Goes(t) == t \in Tokens /\ result = "reading" /\ Allow(t) /\ ReadingInv

\* A text is refused only after a token that JSON does not allow, or when the stack is full.
LEMMA Refused ==
  ASSUME NEW t \in Tokens, Goes(t),
         \/ Return("INVALID_INPUT") /\ t \notin allowed
         \/ Return("TOO_DEEP") /\ Len(nesting) >= MJSON_MAX_DEPTH
  PROVE  ReadingInv'
<1>1. StackInv'
  BY DEF Return, Goes, ReadingInv, StackInv
<1>2. MJSON_MAX_DEPTH \in Nat /\ Len(nesting) \in Nat
  BY ConstantsAssumption, LenProperties DEF Goes, ReadingInv, StackInv
<1>3. StateInv'
  <2>1. /\ expecting' \in {"VALUE", "KEY", "COLON", "COMMA_OR_EOO"}
        /\ result' \in {"INVALID_INPUT", "TOO_DEEP"}
    BY DEF Return, Goes, ReadingInv, StateInv
  <2>2. result' = "TOO_DEEP" => Len(nesting) >= MJSON_MAX_DEPTH /\ around' = around
    BY DEF Return
  <2>3. Len(around) = Len(nesting) /\ Len(nesting) <= MJSON_MAX_DEPTH
    BY DEF Goes, ReadingInv, StackInv
  <2>4. result' = "TOO_DEEP" => Len(around') = MJSON_MAX_DEPTH
    BY <1>2, <2>2, <2>3
  <2>5. result' # "reading" /\ result' # "length"
    BY <2>1
  <2>. QED  BY <2>1, <2>4, <2>5 DEF StateInv
<1>4. allowed' \subseteq Tokens \cup {"never"}
  BY AllowsTokens DEF Goes, ReadingInv, AllowedInv
<1>5. t \notin allowed => allowed' = {"never"}
  BY Allows DEF Goes
<1>6. AllowedInv'
  BY <1>4, <1>5 DEF Return, AllowedInv
<1>. QED  BY <1>1, <1>3, <1>6 DEF ReadingInv

\* Token by token, mjson() keeps its stack and what it expects in step with the text:
\* an opening bracket,
LEMMA Opened ==
  ASSUME NEW t \in Tokens, Goes(t), Open(t)
  PROVE  ReadingInv'
<1>1. t \in Opening
  BY DEF Open
<1>2. CASE Len(nesting) >= MJSON_MAX_DEPTH
  BY <1>2, Refused DEF Open
<1>3. CASE ~(Len(nesting) >= MJSON_MAX_DEPTH)
  <2>1. /\ nesting' = Append(nesting, t) /\ result' = result
        /\ expecting' = IF t = "{" THEN "KEY" ELSE "VALUE"
        /\ Surround(t, FALSE)
    BY <1>3 DEF Open, Call
  <2>2. around' = Append(around, [open |-> t, name |-> "", index |-> 0, seen |-> {}])
    BY <1>1, <2>1, Surrounds
  <2>3. PICK f \in Frame : f.open = t /\ around' = Append(around, f)
    BY <1>1, <2>2 DEF Frame
  <2>4. Len(nesting) < MJSON_MAX_DEPTH
    <3>1. Len(nesting) \in Nat /\ MJSON_MAX_DEPTH \in Nat
      BY ConstantsAssumption, LenProperties DEF Goes, ReadingInv, StackInv
    <3>. QED  BY <1>3, <3>1
  <2>5. StackInv' /\ Top(nesting)' = t /\ nesting' # <<>>
    BY <1>1, <2>1, <2>3, <2>4, StackOpens DEF Goes, ReadingInv
  <2>6. StateInv'
    BY <2>1, <2>5 DEF Goes, StateInv
  <2>7. allowed' \subseteq Tokens \cup {"never"}
    BY AllowsTokens DEF Goes, ReadingInv, AllowedInv
  <2>8. \/ allowed' = {"never"}
        \/ t = "{" /\ allowed' = Names \cup {"}"}
        \/ t = "[" /\ allowed' = AnyValue \cup {"]"}
    BY <1>1, Allows DEF Goes, Opening
  <2>9. allowed' = {"never"} \/ Follows'
    <3>1. CASE t = "{" /\ allowed' = Names \cup {"}"}
      BY <2>1, <3>1 DEF Follows
    <3>2. CASE t = "[" /\ allowed' = AnyValue \cup {"]"}
      BY <2>1, <2>5, <3>2 DEF Follows
    <3>. QED  BY <2>8, <3>1, <3>2
  <2>. QED  BY <2>1, <2>5, <2>6, <2>7, <2>9 DEF ReadingInv, AllowedInv, Goes
<1>. QED  BY <1>2, <1>3

\* a closing one,
LEMMA Closed ==
  ASSUME NEW t \in Tokens, Goes(t), Close(t)
  PROVE  ReadingInv'
<1>1. /\ t \in Closing /\ nesting # <<>>
      /\ nesting' = Pop(nesting) /\ expecting' = "COMMA_OR_EOO"
      /\ Surround(t, FALSE)
      /\ result' = IF nesting' = <<>> THEN "length" ELSE "reading"
  BY DEF Close, Call, Ends
<1>2. around' = Pop(around)
  BY <1>1, Surrounds
<1>3. StackInv'
  BY <1>1, <1>2, StackCloses DEF Goes, ReadingInv
<1>4. nesting' = <<>> <=> around' = <<>>
  BY <1>3, EmptySeq DEF StackInv
<1>5. StateInv'
  BY <1>1, <1>4 DEF StateInv
<1>6. allowed' \subseteq Tokens \cup {"never"}
  BY AllowsTokens DEF Goes, ReadingInv, AllowedInv
<1>7. allowed' = {"never"} \/ allowed' = AfterValue(Pop(around))
  BY <1>1, Allows DEF Goes
<1>8. allowed' = {"never"} \/ allowed' = AfterValue(around)'
  BY <1>2, <1>7 DEF AfterValue, Top
<1>. QED  BY <1>1, <1>3, <1>5, <1>6, <1>8 DEF ReadingInv, AllowedInv, Follows

\* a value,
LEMMA Valued ==
  ASSUME NEW t \in Tokens, Goes(t), Scalar(t)
  PROVE  ReadingInv'
<1>1. /\ expecting = "VALUE" /\ t \in Scalars \cup Names
      /\ nesting' = nesting /\ expecting' = "COMMA_OR_EOO"
      /\ Surround(t, FALSE)
      /\ result' = IF nesting = <<>> THEN "length" ELSE "reading"
  BY DEF Scalar, Call, Ends
<1>2. around' = around
  BY <1>1, Surrounds, TokensApart
<1>3. StackInv'
  BY <1>1, <1>2 DEF Goes, ReadingInv, StackInv
<1>4. nesting = <<>> <=> around = <<>>
  BY EmptySeq DEF Goes, ReadingInv, StackInv
<1>5. StateInv'
  BY <1>1, <1>2, <1>4 DEF StateInv
<1>6. allowed' \subseteq Tokens \cup {"never"}
  BY AllowsTokens DEF Goes, ReadingInv, AllowedInv
<1>7. allowed = {"never"} \/ "[" \in allowed
  BY <1>1 DEF Goes, ReadingInv, AllowedInv, Follows, AnyValue, Opening
<1>8. allowed' = {"never"} \/ allowed' = AfterValue(around)
  BY <1>1, <1>7, Allows, TokensApart DEF Goes
<1>9. allowed' = {"never"} \/ allowed' = AfterValue(around)'
  BY <1>2, <1>8 DEF AfterValue, Top
<1>. QED  BY <1>1, <1>3, <1>5, <1>6, <1>9 DEF ReadingInv, AllowedInv, Follows

\* a minus sign without a number,
LEMMA Minus ==
  ASSUME NEW t \in Tokens, Goes(t), LoneMinus(t)
  PROVE  ReadingInv'
<1>1. expecting = "VALUE" /\ t = "-"
  BY DEF LoneMinus
<1>2. t \notin Closing /\ t \notin Opening /\ t \notin Names /\ t \notin Scalars /\ t # ","
  BY <1>1, TokensApart
<1>3. t \notin allowed
  BY <1>1, <1>2, TokensApart DEF Goes, ReadingInv, AllowedInv, Follows, AnyValue, Closing
<1>4. CASE nesting = <<>>
  <2>1. /\ nesting' = nesting /\ expecting' = expecting /\ result' = "length"
        /\ Surround(t, FALSE)
    BY <1>4 DEF LoneMinus, Call, Ends
  <2>2. around' = around
    BY <1>2, <2>1, Surrounds
  <2>3. StackInv'
    BY <2>1, <2>2 DEF Goes, ReadingInv, StackInv
  <2>4. around = <<>>
    BY <1>4, EmptySeq DEF Goes, ReadingInv, StackInv
  <2>5. StateInv'
    BY <2>1, <2>2, <2>4 DEF Goes, ReadingInv, StateInv
  <2>6. allowed' = {"never"}
    BY <1>3, Allows DEF Goes
  <2>. QED  BY <2>1, <2>3, <2>5, <2>6 DEF ReadingInv, AllowedInv
<1>5. CASE nesting # <<>>
  BY <1>3, <1>5, Refused DEF LoneMinus
<1>. QED  BY <1>4, <1>5

\* a name,
LEMMA Named ==
  ASSUME NEW t \in Tokens, Goes(t), Name(t)
  PROVE  ReadingInv'
<1>1. /\ expecting = "KEY" /\ t \in Names
      /\ nesting' = nesting /\ expecting' = "COLON" /\ result' = result
      /\ Surround(t, TRUE)
  BY DEF Name, Call
<1>2. nesting # <<>> /\ Top(nesting) = "{"
  BY <1>1 DEF Goes, ReadingInv, StateInv
<1>3. around' = Append(Pop(around), [Top(around) EXCEPT !.name = t, !.seen = @ \cup {t}])
  BY <1>1, Surrounds
<1>4. Top(around) \in Frame /\ StackInv
  BY <1>2, TopIsOpen DEF Goes, ReadingInv
<1>5. PICK f \in Frame : f.open = Top(around).open /\ around' = Append(Pop(around), f)
  BY <1>1, <1>3, <1>4 DEF Frame
<1>6. StackInv'
  BY <1>1, <1>2, <1>4, <1>5, StackStays
<1>7. StateInv'
  BY <1>1, <1>2 DEF Goes, ReadingInv, StateInv, Top
<1>8. allowed' \subseteq Tokens \cup {"never"}
  BY AllowsTokens DEF Goes, ReadingInv, AllowedInv
<1>9. "[" \notin allowed
  BY <1>1, ConstantsAssumption DEF Goes, ReadingInv, AllowedInv, Follows, Opening
<1>10. allowed' = {"never"} \/ allowed' = {":"}
  BY <1>1, <1>9, Allows DEF Goes
<1>. QED  BY <1>1, <1>6, <1>7, <1>8, <1>10 DEF ReadingInv, AllowedInv, Follows, Goes

\* a colon,
LEMMA Assigned ==
  ASSUME NEW t \in Tokens, Goes(t), Colon(t)
  PROVE  ReadingInv'
<1>1. /\ expecting = "COLON" /\ t = ":"
      /\ nesting' = nesting /\ expecting' = "VALUE" /\ result' = result
      /\ Surround(t, FALSE)
  BY DEF Colon, Call
<1>2. around' = around
  BY <1>1, Surrounds, TokensApart
<1>3. StackInv'
  BY <1>1, <1>2 DEF Goes, ReadingInv, StackInv
<1>4. StateInv'
  BY <1>1, <1>2 DEF Goes, ReadingInv, StateInv
<1>5. allowed' \subseteq Tokens \cup {"never"}
  BY AllowsTokens DEF Goes, ReadingInv, AllowedInv
<1>6. allowed' = {"never"} \/ allowed' = AnyValue
  BY <1>1, Allows DEF Goes
<1>7. "]" \notin AnyValue
  BY ConstantsAssumption DEF AnyValue, Opening, Closing, Scalars
<1>. QED  BY <1>1, <1>3, <1>4, <1>5, <1>6, <1>7 DEF ReadingInv, AllowedInv, Follows, Goes

\* a comma,
LEMMA Separated ==
  ASSUME NEW t \in Tokens, Goes(t), Comma(t)
  PROVE  ReadingInv'
<1>1. /\ expecting = "COMMA_OR_EOO" /\ t = ","
      /\ nesting' = nesting /\ result' = result
      /\ expecting' = IF Top(nesting) = "{" THEN "KEY" ELSE "VALUE"
      /\ Surround(t, FALSE)
  BY DEF Comma, Call
<1>2. nesting # <<>>
  BY <1>1 DEF Goes, ReadingInv, StateInv
<1>3. around' = Append(Pop(around), [Top(around) EXCEPT !.index = @ + 1])
  BY <1>1, Surrounds
<1>4. Top(around) \in Frame /\ StackInv /\ Top(nesting) = Top(around).open
  BY <1>2, TopIsOpen DEF Goes, ReadingInv
<1>5. PICK f \in Frame : f.open = Top(around).open /\ around' = Append(Pop(around), f)
  <2>1. Top(around).index \in Nat
    BY <1>4 DEF Frame
  <2>2. PICK n \in Nat : n = Top(around).index + 1
    BY <2>1
  <2>3. around' = Append(Pop(around), [Top(around) EXCEPT !.index = n])
    BY <1>3, <1>4, <2>2 DEF Frame
  <2>. QED  BY <1>4, <2>3 DEF Frame
<1>6. StackInv'
  BY <1>1, <1>2, <1>4, <1>5, StackStays
<1>7. StateInv'
  BY <1>1, <1>2, <1>4 DEF Goes, ReadingInv, StateInv, Top
<1>8. allowed' \subseteq Tokens \cup {"never"}
  BY AllowsTokens DEF Goes, ReadingInv, AllowedInv
<1>9. allowed' = {"never"} \/ allowed' = IF Top(nesting) = "{" THEN Names ELSE AnyValue
  BY <1>1, <1>4, Allows DEF Goes
<1>10. "]" \notin AnyValue
  BY ConstantsAssumption DEF AnyValue, Opening, Closing, Scalars
<1>. QED  BY <1>1, <1>6, <1>7, <1>8, <1>9, <1>10 DEF ReadingInv, AllowedInv, Follows, Goes

\* and a token that is not expected.
LEMMA Rejected ==
  ASSUME NEW t \in Tokens, Goes(t), Reject(t)
  PROVE  ReadingInv'
<1>1. allowed = {"never"} \/ Follows
  BY DEF Goes, ReadingInv, AllowedInv
<1>2. t # "never"
  BY TokensApart
<1>3. expecting \in {"VALUE", "KEY", "COLON", "COMMA_OR_EOO"}
  BY DEF Goes, ReadingInv, StateInv
<1>4. expecting = "COMMA_OR_EOO" =>
        AfterValue(around) = {",", IF Top(nesting) = "{" THEN "}" ELSE "]"}
  BY TopIsOpen DEF Goes, ReadingInv, StateInv, AfterValue
<1>5. /\ /\ expecting = "VALUE"
         /\ t \in AnyValue \/ (t = "]" /\ nesting # <<>> /\ Top(nesting) = "[")
         => Expected(t)
      /\ expecting = "KEY" /\ t \in Names \cup {"}"} => Expected(t)
      /\ expecting = "COLON" /\ t = ":" => Expected(t)
      /\ expecting = "COMMA_OR_EOO" /\ t \in {",", IF Top(nesting) = "{" THEN "}" ELSE "]"}
         => Expected(t)
  BY Zenon DEF Expected
<1>6. t \in allowed => Expected(t)
  BY <1>1, <1>2, <1>3, <1>4, <1>5 DEF Follows
<1>. QED  BY <1>6, Refused DEF Reject

\* The stack of mjson() is that of the text, and what it expects is what JSON allows.
THEOREM ReadingInductive == Spec => []ReadingInv
<1>1. Init => ReadingInv
  <2>. SUFFICES ASSUME Init PROVE ReadingInv
    OBVIOUS
  <2>1. StackInv /\ StateInv
    <3>1. /\ nesting \in Seq(Opening) /\ around \in Seq(Frame)
          /\ Len(nesting) = 0 /\ Len(around) = 0
      BY EmptySeq DEF Init
    <3>2. MJSON_MAX_DEPTH \in Nat
      BY ConstantsAssumption
    <3>3. 0 <= MJSON_MAX_DEPTH
      BY <3>2
    <3>. QED  BY <3>1, <3>3 DEF Init, StackInv, StateInv
  <2>2. AnyValue \subseteq Tokens /\ "]" \notin AnyValue
    BY ConstantsAssumption DEF AnyValue, Tokens, Opening, Closing, Scalars
  <2>. QED  BY <2>1, <2>2 DEF Init, ReadingInv, AllowedInv, Follows
<1>2. ReadingInv /\ [Next]_vars => ReadingInv'
  <2>. SUFFICES ASSUME ReadingInv, [Next]_vars PROVE ReadingInv'
    OBVIOUS
  <2>1. ASSUME NEW t \in Tokens, Read(t) PROVE ReadingInv'
    <3>1. Goes(t) /\ (Open(t) \/ Accepted(t) \/ Reject(t))
      BY <2>1 DEF Read, Goes
    <3>. QED  BY <3>1, Opened, Closed, Valued, Minus, Named, Assigned, Separated, Rejected
              DEF Accepted
  <2>2. CASE TextEnds
    BY <2>2 DEF TextEnds, Return, ReadingInv, StackInv, StateInv, AllowedInv
  <2>3. CASE UNCHANGED vars
    BY <2>3 DEF vars, ReadingInv, StackInv, StateInv, AllowedInv, Follows, AfterValue, Top
  <2>. QED  BY <2>1, <2>2, <2>3 DEF Next
<1>. QED  BY <1>1, <1>2, PTL DEF Spec

\* mjson() refuses a text only where it stops being JSON or goes deeper than the
\* stack, and accepts none with a container left open.
THEOREM OnlyNonJsonIsRefused == Spec => []RefusesOnlyNonJson
<1>1. ReadingInv => RefusesOnlyNonJson
  <2>. SUFFICES ASSUME ReadingInv PROVE RefusesOnlyNonJson
    OBVIOUS
  <2>1. DOMAIN nesting = 1..Len(nesting)
    BY LenProperties DEF ReadingInv, StackInv
  <2>. QED  BY <2>1 DEF ReadingInv, StackInv, StateInv, AllowedInv, RefusesOnlyNonJson
<1>. QED  BY <1>1, ReadingInductive, PTL

\* What the text has at the paths is of some kind.
SeenInv == there \in [Paths -> Kinds \cup {"absent"}]

\* No cursor leaves its path.
THEOREM CursorsInductive == Spec => [](CursorInv /\ SeenInv)
<1>1. Init => CursorInv /\ SeenInv
  <2>. SUFFICES ASSUME Init PROVE CursorInv /\ SeenInv
    OBVIOUS
  <2>1. Start \in Cursor /\ Start.pos = 1 /\ Start.i1 = 0 /\ Start.i2 = 0
    BY DEF Start, Cursor
  <2>2. \A p \in Paths : Pointing(p, Start)
    <3>1. \A n \in Nat : 1 <= n + 1
      OBVIOUS
    <3>2. \A p \in Paths : Len(p) \in Nat
      BY PathElements
    <3>. QED  BY <2>1, <3>1, <3>2 DEF Pointing
  <2>. QED  BY <2>2 DEF Init, CursorInv, SeenInv
<1>2. CursorInv /\ SeenInv /\ [Next]_vars => CursorInv' /\ SeenInv'
  <2>. SUFFICES ASSUME CursorInv, SeenInv, [Next]_vars PROVE CursorInv' /\ SeenInv'
    OBVIOUS
  <2>1. ASSUME NEW t \in Tokens, NEW isKey \in BOOLEAN, Call(t, isKey)
        PROVE  CursorInv' /\ SeenInv'
    <3>1. \A p \in Paths : (Where = p) \in BOOLEAN
      OBVIOUS
    <3>2. data' = [p \in Paths |-> mjson_get_cb(p, data[p], t, isKey, Where = p)]
      BY <2>1 DEF Call
    <3>3. CursorInv'
      BY <3>1, <3>2, CallbackPoints DEF CursorInv
    <3>4. SeenInv'
      BY <2>1, KindIsKind DEF Call, SeenInv
    <3>. QED  BY <3>3, <3>4
  <2>2. UNCHANGED <<data, there>> => CursorInv' /\ SeenInv'
    BY DEF CursorInv, SeenInv
  <2>3. ASSUME NEW t \in Tokens, Read(t)
        PROVE  Call(t, FALSE) \/ Call(t, TRUE) \/ UNCHANGED <<data, there>>
    BY <2>3 DEF Read, Open, Accepted, Close, Scalar, LoneMinus, Name, Colon, Comma, Reject,
                Return
  <2>4. TextEnds \/ UNCHANGED vars => UNCHANGED <<data, there>>
    BY DEF TextEnds, Return, vars
  <2>. QED  BY <2>1, <2>2, <2>3, <2>4 DEF Next
<1>. QED  BY <1>1, <1>2, PTL DEF Spec

\* The state of a reading has its types: no bracket is stored past the array
\* `nesting', and no cursor of mjson_find runs past the end of its path.
THEOREM TypeCorrect == Spec => []TypeOK
<1>1. ReadingInv /\ CursorInv /\ SeenInv => TypeOK
  BY DEF ReadingInv, StackInv, StateInv, AllowedInv, CursorInv, SeenInv, Pointing, TypeOK
<1>. QED  BY <1>1, ReadingInductive, CursorsInductive, PTL
-----------------------------------------------------------------------------
(* The search: what a cursor knows of its path, and what the text may still hold. *)

\* An element of a path: an index or a key.
Element(e) == IF IsAt(e) THEN e.index \in Nat /\ e = At(e.index)
                         ELSE e.key \in Names /\ e = Key(e.key)

IsObject(t) == t = "{"
IsComma(t) == t = ","

\* The element that a container of the text stands at, and whether element e of a
\* path can still come in it.
Spot(f) == IF IsObject(f.open) THEN Key(f.name) ELSE At(f.index)
Ahead(e, f) ==
  IF IsObject(f.open) THEN ~IsAt(e) /\ e.key \notin f.seen ELSE IsAt(e) /\ e.index > f.index

\* The value of the element that the innermost container stands at is still to come.
Undone == expecting \in {"VALUE", "COLON"}
Reached(p, k) == Spot(around[k]) = p[k] /\ (k = Len(around) => Undone)

\* The text has gone past path p: past element k, in the container where it would be.
Behind(p) ==
  \E k \in 1..Len(p) :
    /\ k <= Len(around) /\ \A j \in 1..(k - 1) : Spot(around[j]) = p[j]
    /\ ~Reached(p, k) /\ ~Ahead(p[k], around[k])

\* An object that stands at a key has seen it.
NameInv ==
  \A k \in 1..Len(around) :
    IsObject(around[k].open) /\ (k < Len(around) \/ expecting # "KEY") =>
      around[k].name \in around[k].seen

\* The text has not come to the path yet, and the cursor is where it would come next;
Before(p, d) ==
  /\ there[p] = "absent" /\ d.tok = "invalid" /\ d.obj = "none"
  /\ d.pos = d.d2 + 1 /\ d.d1 = Len(around) /\ d.d2 <= Len(around) /\ d.d2 <= Len(p)
  /\ \A k \in 1..d.d2 : Reached(p, k)
  /\ d.d2 < Len(around) =>
       /\ d.d2 < Len(p) /\ Ahead(p[d.d2 + 1], around[d.d2 + 1])
       /\ ~IsObject(around[d.d2 + 1].open) =>
            d.i1 = around[d.d2 + 1].index /\ d.i2 = p[d.d2 + 1].index

\* it is inside the container at the path;
Inside(p, d) ==
  /\ d.tok = "invalid" /\ d.obj = "right"
  /\ d.pos = d.d2 + 1 /\ d.d1 = Len(around) /\ d.d2 = Len(p) /\ Len(p) < Len(around)
  /\ \A k \in 1..Len(p) : Spot(around[k]) = p[k]
  /\ there[p] = Kind(around[Len(p) + 1].open)

\* the cursor has what was at the path; or there was nothing, and a cursor with a
\* path of one element has not left the outermost container.
Found(p, d) == there[p] # "absent" /\ d.tok = there[p] /\ d.right

Missed(p, d) ==
  /\ there[p] = "absent"
  /\ Len(p) = 1 => /\ d.tok = "invalid" /\ d.obj = "none" /\ d.i2 <= d.i1
                   /\ d.d2 = 0 /\ d.pos = 1 /\ d.d1 = Len(around)

Over(p, d) ==
  /\ there[p] # "absent" => Found(p, d)
  /\ there[p] = "absent" /\ Len(p) = 1 => d.tok = "invalid"

Looking(p, d) ==
  \/ Before(p, d)
  \/ Inside(p, d)
  \/ Found(p, d) /\ Behind(p)
  \/ Missed(p, d) /\ Behind(p)

SearchInv ==
  /\ NameInv
  /\ \A p \in Paths :
       /\ result = "reading" => Looking(p, data[p]) /\ (around = <<>> => data[p] = Start)
       /\ result = "length" => Over(p, data[p])

\* The elements of a path are keys and indices.
LEMMA PathIsElements ==
  ASSUME NEW p \in Paths, NEW i \in 1..Len(p)
  PROVE  Element(p[i])
<1>. DEFINE E == [key : Names \cup {""}, index : Nat \cup {-1}]
<1>0. \A n \in Nat \cup {-1} : IF n >= 0 THEN n \in Nat ELSE n = -1
  OBVIOUS
<1>1. p \in Seq(E)
  BY ConstantsAssumption
<1>2. \A j \in DOMAIN p : p[j].key = "" <=> IsAt(p[j])
  BY ConstantsAssumption
<1>3. p[i] \in E /\ i \in DOMAIN p
  <2>. HIDE DEF E
  <2>. QED  BY <1>1, LenProperties, ElementOfSeq
<1>4. PICK e \in E : e = p[i]
  BY <1>3
<1>5. e.key \in Names \cup {""} /\ e.index \in Nat \cup {-1}
  OBVIOUS
<1>6. e = [key |-> e.key, index |-> e.index]
  OBVIOUS
<1>7. e.key = "" <=> IsAt(e)
  BY <1>2, <1>3, <1>4
<1>8. IF IsAt(e) THEN e.index \in Nat ELSE e.index = -1
  BY <1>0, <1>5 DEF IsAt
<1>9. Element(e)
  BY <1>5, <1>6, <1>7, <1>8 DEF Element, Key, At
<1>. QED  BY <1>4, <1>9

\* A key and an index, taken apart.
LEMMA Parts ==
  /\ \A k : Key(k).key = k /\ ~IsAt(Key(k))
  /\ \A i \in Nat : At(i).index = i /\ IsAt(At(i))
<1>1. \A i \in Nat : i >= 0
  OBVIOUS
<1>2. \A k : Key(k).key = k /\ Key(k).index = -1
  BY DEF Key
<1>3. \A i : At(i).index = i
  BY DEF At
<1>4. ~(-1 >= 0)
  OBVIOUS
<1>. QED  BY <1>1, <1>2, <1>3, <1>4 DEF IsAt

\* A container, field by field.
LEMMA FrameFields ==
  ASSUME NEW f \in Frame
  PROVE  f.open \in Opening /\ f.index \in Nat /\ f.seen \subseteq Names
BY DEF Frame

\* What a container stands at cannot come in it again.
LEMMA SpotIsNotAhead ==
  ASSUME NEW f \in Frame, NEW e, Spot(f) = e, IsObject(f.open) => f.name \in f.seen
  PROVE  ~Ahead(e, f)
<1>1. f.index \in Nat
  BY FrameFields
<1>2. CASE IsObject(f.open)
  BY <1>2, Parts DEF Spot, Ahead
<1>3. CASE ~IsObject(f.open)
  <2>1. e.index = f.index
    BY <1>1, <1>3, Parts DEF Spot
  <2>2. ~(f.index > f.index)
    <3>1. \A n \in Nat : ~(n > n)
      OBVIOUS
    <3>. QED  BY <1>1, <3>1
  <2>. QED  BY <1>3, <2>1, <2>2 DEF Ahead
<1>. QED  BY <1>2, <1>3

\* After a name an object stands at it; what was past stays past, and what was
\* ahead still is unless it is that name.
LEMMA FrameNamed ==
  ASSUME NEW f \in Frame, NEW g, NEW e, Element(e), NEW k \in Names, k \notin f.seen,
         IsObject(f.open), IsObject(g.open), g.name = k, g.seen = f.seen \cup {k}
  PROVE  /\ ~Ahead(e, f) => ~Ahead(e, g) /\ Spot(g) # e
         /\ Ahead(e, f) /\ e = Key(k) => Spot(g) = e
         /\ Ahead(e, f) /\ e # Key(k) => Ahead(e, g)
<1>1. Spot(g) = Key(k)
  BY DEF Spot
<1>2. ~IsAt(e) => e = Key(e.key)
  BY DEF Element
<1>3. Ahead(e, f) <=> ~IsAt(e) /\ e.key \notin f.seen
  BY DEF Ahead
<1>4. Ahead(e, g) <=> ~IsAt(e) /\ e.key \notin f.seen /\ e.key # k
  BY DEF Ahead
<1>5. ~IsAt(Key(k)) /\ Key(k).key = k
  BY Parts
<1>. QED  BY <1>1, <1>2, <1>3, <1>4, <1>5

\* After a comma an array stands at its next item.
LEMMA FrameSeparated ==
  ASSUME NEW f \in Frame, NEW g, NEW e, Element(e), ~IsObject(f.open), g.open = f.open,
         g.index = f.index + 1
  PROVE  /\ ~Ahead(e, f) => ~Ahead(e, g) /\ Spot(g) # e
         /\ Ahead(e, f) => /\ e.index \in Nat /\ f.index < e.index
                           /\ f.index + 1 = e.index => Spot(g) = e
                           /\ f.index + 1 # e.index => Ahead(e, g)
<1>0. f.index \in Nat
  BY FrameFields
<1>1. PICK m \in Nat : m = f.index
  BY <1>0
<1>8. PICK n \in Nat : n = m + 1
  OBVIOUS
<1>9. n = g.index
  BY <1>1, <1>8
<1>2. Spot(g) = At(n)
  BY <1>9 DEF Spot
<1>3. IsAt(e) => e.index \in Nat /\ e = At(e.index)
  BY DEF Element
<1>4. Spot(g) = e => IsAt(e) /\ e.index = n
  BY <1>2, Parts
<1>5. (Ahead(e, f) <=> IsAt(e) /\ e.index > m) /\ (Ahead(e, g) <=> IsAt(e) /\ e.index > n)
  BY <1>1, <1>9 DEF Ahead
<1>6. CASE IsAt(e)
  <2>1. PICK i \in Nat : i = e.index
    BY <1>3, <1>6
  <2>2. i > m <=> i > n \/ i = n
    BY <1>8
  <2>3. i = n => Spot(g) = e
    BY <1>2, <1>3, <1>6, <2>1
  <2>. QED  BY <1>1, <1>4, <1>5, <1>6, <1>8, <1>9, <2>1, <2>2, <2>3
<1>7. CASE ~IsAt(e)
  BY <1>4, <1>5, <1>7
<1>. QED  BY <1>6, <1>7

(* The ways the text goes on, container by container. *)

Opens(t) ==
  /\ expecting = "VALUE" /\ expecting' = IF IsObject(t) THEN "KEY" ELSE "VALUE"
  /\ Len(around') = Len(around) + 1 /\ \A k \in 1..Len(around) : around'[k] = around[k]
  /\ around'[Len(around')].open = t /\ around'[Len(around')].index = 0
  /\ around'[Len(around')].seen = {}

Closes ==
  /\ expecting' = "COMMA_OR_EOO"
  /\ Len(around) > 0 /\ Len(around') = Len(around) - 1
  /\ \A k \in 1..Len(around') : around'[k] = around[k]

Ending ==
  /\ expecting = "VALUE" /\ around' = around
  /\ Len(around) > 0 => expecting' = "COMMA_OR_EOO"

Naming(t) ==
  /\ expecting = "KEY" /\ expecting' = "COLON"
  /\ Len(around) > 0 /\ Len(around') = Len(around)
  /\ \A k \in 1..(Len(around) - 1) : around'[k] = around[k]
  /\ IsObject(around[Len(around)].open) /\ IsObject(around'[Len(around)].open)
  /\ around'[Len(around)].open = around[Len(around)].open
  /\ t \in Names /\ t \notin around[Len(around)].seen
  /\ around'[Len(around)].name = t
  /\ around'[Len(around)].seen = around[Len(around)].seen \cup {t}

Assigns == expecting = "COLON" /\ expecting' = "VALUE" /\ around' = around

Separates ==
  /\ expecting = "COMMA_OR_EOO" /\ Len(around) > 0 /\ Len(around') = Len(around)
  /\ \A k \in 1..(Len(around) - 1) : around'[k] = around[k]
  /\ around'[Len(around)].open = around[Len(around)].open
  /\ around'[Len(around)].index = around[Len(around)].index + 1
  /\ around'[Len(around)].name = around[Len(around)].name
  /\ around'[Len(around)].seen = around[Len(around)].seen
  /\ expecting' = IF IsObject(around[Len(around)].open) THEN "KEY" ELSE "VALUE"

\* A path that the text has gone past stays behind: after an opening bracket,
LEMMA BehindOpens ==
  ASSUME NEW p \in Paths, NEW t, around \in Seq(Frame), Opens(t), Behind(p)
  PROVE  Behind(p)'
<1>1. PICK k \in 1..Len(p) :
        /\ k <= Len(around) /\ \A j \in 1..(k - 1) : Spot(around[j]) = p[j]
        /\ ~Reached(p, k) /\ ~Ahead(p[k], around[k])
  BY DEF Behind
<1>2. Len(around) \in Nat /\ Len(p) \in Nat
  BY LenProperties, PathElements
<1>3. Spot(around[k]) # p[k]
  BY <1>1 DEF Reached, Undone, Opens
<1>4. /\ k <= Len(around') /\ around'[k] = around[k]
      /\ \A j \in 1..(k - 1) : around'[j] = around[j]
  BY <1>1, <1>2 DEF Opens
<1>5. ~Reached(p, k)'
  BY <1>3, <1>4 DEF Reached
<1>. QED  BY <1>1, <1>4, <1>5 DEF Behind

\* a closing bracket, unless that ends the text,
LEMMA BehindCloses ==
  ASSUME NEW p \in Paths, around \in Seq(Frame), NameInv, Closes, Behind(p), Len(around') > 0
  PROVE  Behind(p)'
<1>1. PICK k \in 1..Len(p) :
        /\ k <= Len(around) /\ \A j \in 1..(k - 1) : Spot(around[j]) = p[j]
        /\ ~Reached(p, k) /\ ~Ahead(p[k], around[k])
  BY DEF Behind
<1>2. Len(around) \in Nat /\ Len(p) \in Nat /\ Len(around') \in Nat
  <2>1. Len(around) \in Nat /\ Len(p) \in Nat
    BY LenProperties, PathElements
  <2>. QED  BY <2>1 DEF Closes
<1>3. CASE k <= Len(around')
  <2>1. around'[k] = around[k] /\ \A j \in 1..(k - 1) : around'[j] = around[j]
    BY <1>2, <1>3 DEF Closes
  <2>2. k = Len(around') \/ Spot(around[k]) # p[k]
    BY <1>1, <1>2, <1>3 DEF Reached, Closes
  <2>3. ~Reached(p, k)'
    BY <2>1, <2>2 DEF Reached, Undone, Closes
  <2>. QED  BY <1>1, <1>3, <2>1, <2>3 DEF Behind
<1>4. CASE ~(k <= Len(around'))
  <2>1. PICK i \in 1..Len(p) : i = k - 1 /\ i = Len(around')
    BY <1>1, <1>2, <1>4 DEF Closes
  <2>2. around'[i] = around[i] /\ \A j \in 1..(i - 1) : around'[j] = around[j] /\ j \in 1..(k - 1)
    BY <1>2, <2>1 DEF Closes
  <2>3. around[i] \in Frame /\ Spot(around[i]) = p[i]
    BY <1>1, <1>2, <2>1, ElementOfSeq DEF Closes
  <2>4. IsObject(around[i].open) => around[i].name \in around[i].seen
    BY <1>2, <2>1 DEF NameInv, Closes
  <2>5. ~Ahead(p[i], around[i])
    BY <2>3, <2>4, SpotIsNotAhead
  <2>6. ~Reached(p, i)'
    BY <2>1 DEF Reached, Undone, Closes
  <2>. QED  BY <1>1, <1>2, <2>1, <2>2, <2>5, <2>6 DEF Behind
<1>. QED  BY <1>3, <1>4

\* a value that is no container,
LEMMA BehindEnding ==
  ASSUME NEW p \in Paths, around \in Seq(Frame), Ending, Behind(p)
  PROVE  Behind(p)'
<1>1. \A n \in Nat, L \in Nat : \A k \in 1..L : k <= n => n > 0
  OBVIOUS
<1>2. around' = around /\ expecting' = "COMMA_OR_EOO"
  BY <1>1, LenProperties, PathElements DEF Behind, Ending
<1>. QED  BY <1>2 DEF Behind, Ending, Reached, Undone

\* a name,
LEMMA BehindNames ==
  ASSUME NEW p \in Paths, NEW t, around \in Seq(Frame), Naming(t), Behind(p)
  PROVE  Behind(p)'
<1>1. PICK k \in 1..Len(p) :
        /\ k <= Len(around) /\ \A j \in 1..(k - 1) : Spot(around[j]) = p[j]
        /\ ~Reached(p, k) /\ ~Ahead(p[k], around[k])
  BY DEF Behind
<1>2. Len(around) \in Nat /\ Len(p) \in Nat
  BY LenProperties, PathElements
<1>3. \A j \in 1..(k - 1) : around'[j] = around[j]
  BY <1>1, <1>2 DEF Naming
<1>4. CASE k < Len(around)
  <2>1. around'[k] = around[k] /\ k # Len(around') /\ k <= Len(around')
    BY <1>2, <1>4 DEF Naming
  <2>2. ~Reached(p, k)'
    BY <1>1, <1>4, <2>1 DEF Reached, Naming
  <2>. QED  BY <1>1, <1>3, <2>1, <2>2 DEF Behind
<1>5. CASE k = Len(around)
  <2>1. around[k] \in Frame /\ Element(p[k])
    BY <1>2, <1>5, ElementOfSeq, PathIsElements
  <2>2. ~Ahead(p[k], around'[k]) /\ Spot(around'[k]) # p[k]
    <3>1. /\ IsObject(around[k].open) /\ IsObject(around'[k].open) /\ t \in Names
          /\ t \notin around[k].seen /\ around'[k].name = t
          /\ around'[k].seen = around[k].seen \cup {t}
      BY <1>5 DEF Naming
    <3>. QED  BY <1>1, <2>1, <3>1, FrameNamed
  <2>3. ~Reached(p, k)'
    BY <2>2 DEF Reached
  <2>4. k <= Len(around')
    BY <1>1 DEF Naming
  <2>. QED  BY <1>1, <1>3, <2>2, <2>3, <2>4 DEF Behind
<1>. QED  BY <1>1, <1>2, <1>4, <1>5

\* a colon,
LEMMA BehindAssigns ==
  ASSUME NEW p \in Paths, Assigns, Behind(p)
  PROVE  Behind(p)'
BY DEF Behind, Assigns, Reached, Undone

\* and a comma.
LEMMA BehindSeparates ==
  ASSUME NEW p \in Paths, around \in Seq(Frame), Separates, Behind(p)
  PROVE  Behind(p)'
<1>1. PICK k \in 1..Len(p) :
        /\ k <= Len(around) /\ \A j \in 1..(k - 1) : Spot(around[j]) = p[j]
        /\ ~Reached(p, k) /\ ~Ahead(p[k], around[k])
  BY DEF Behind
<1>2. Len(around) \in Nat /\ Len(p) \in Nat
  BY LenProperties, PathElements
<1>3. \A j \in 1..(k - 1) : around'[j] = around[j]
  BY <1>1, <1>2 DEF Separates
<1>4. CASE k < Len(around)
  <2>1. around'[k] = around[k] /\ k # Len(around') /\ k <= Len(around')
    BY <1>2, <1>4 DEF Separates
  <2>2. ~Reached(p, k)'
    BY <1>1, <1>4, <2>1 DEF Reached, Separates
  <2>. QED  BY <1>1, <1>3, <2>1, <2>2 DEF Behind
<1>5. CASE k = Len(around)
  <2>1. around[k] \in Frame /\ Element(p[k]) /\ k <= Len(around')
    BY <1>1, <1>2, <1>5, ElementOfSeq, PathIsElements DEF Separates
  <2>2. CASE IsObject(around[k].open)
    <3>1. ~Ahead(p[k], around'[k])
      BY <1>1, <1>5, <2>2 DEF Ahead, Separates
    <3>2. ~Reached(p, k)'
      BY <1>5, <2>2 DEF Reached, Undone, Separates
    <3>. QED  BY <1>1, <1>3, <2>1, <3>1, <3>2 DEF Behind
  <2>3. CASE ~IsObject(around[k].open)
    <3>1. around'[k].open = around[k].open /\ around'[k].index = around[k].index + 1
      BY <1>5 DEF Separates
    <3>2. ~Ahead(p[k], around'[k]) /\ Spot(around'[k]) # p[k]
      BY <1>1, <2>1, <2>3, <3>1, FrameSeparated
    <3>3. ~Reached(p, k)'
      BY <3>2 DEF Reached
    <3>. QED  BY <1>1, <1>3, <2>1, <3>2, <3>3 DEF Behind
  <2>. QED  BY <2>2, <2>3
<1>. QED  BY <1>1, <1>2, <1>4, <1>5

\* An object that stands at a key has seen it, whatever comes.
LEMMA NamesAreSeen ==
  ASSUME NEW t, around \in Seq(Frame), NameInv,
         Opens(t) \/ Closes \/ Ending \/ Naming(t) \/ Assigns \/ Separates
  PROVE  NameInv'
<1>1. Len(around) \in Nat
  BY LenProperties
<1>2. CASE Opens(t)
  <2>. SUFFICES ASSUME NEW k \in 1..Len(around'), IsObject(around'[k].open),
                       k < Len(around') \/ expecting' # "KEY"
                PROVE  around'[k].name \in around'[k].seen
    BY DEF NameInv
  <2>1. k # Len(around')
    BY <1>1, <1>2 DEF Opens
  <2>2. k \in 1..Len(around) /\ around'[k] = around[k]
    BY <1>1, <1>2, <2>1 DEF Opens
  <2>. QED  BY <1>2, <2>2 DEF NameInv, Opens
<1>3. CASE Closes
  BY <1>1, <1>3 DEF NameInv, Closes
<1>4. CASE Ending
  BY <1>4 DEF NameInv, Ending
<1>5. CASE Naming(t)
  <2>1. \A k \in 1..Len(around') : k < Len(around) \/ k = Len(around)
    BY <1>1, <1>5 DEF Naming
  <2>. QED  BY <1>1, <1>5, <2>1 DEF NameInv, Naming
<1>6. CASE Assigns
  BY <1>6 DEF NameInv, Assigns
<1>7. CASE Separates
  <2>1. \A k \in 1..Len(around') : k < Len(around) \/ k = Len(around)
    BY <1>1, <1>7 DEF Separates
  <2>. QED  BY <1>1, <1>7, <2>1 DEF NameInv, Separates
<1>. QED  BY <1>2, <1>3, <1>4, <1>5, <1>6, <1>7

\* The place where the text is, element by element.
LEMMA WhereIs ==
  ASSUME NEW p \in Paths, around \in Seq(Frame)
  PROVE  Where = p <=> /\ Len(around) = Len(p)
                       /\ \A k \in 1..Len(p) : Spot(around[k]) = p[k]
<1>1. Where = [k \in DOMAIN around |-> Spot(around[k])]
  BY DEF Where, Spot, IsObject
<1>2. DOMAIN around = 1..Len(around) /\ Len(around) \in Nat
  BY LenProperties
<1>3. DOMAIN p = 1..Len(p) /\ p = [k \in 1..Len(p) |-> p[k]] /\ Len(p) \in Nat
  <2>. DEFINE E == [key : Names \cup {""}, index : Nat \cup {-1}]
  <2>1. p \in Seq(E)
    BY ConstantsAssumption
  <2>. HIDE DEF E
  <2>. QED  BY <2>1, LenProperties
<1>4. CASE Where = p
  <2>1. DOMAIN Where = 1..Len(around) /\ DOMAIN Where = 1..Len(p)
    BY <1>1, <1>2, <1>3, <1>4
  <2>2. Len(around) = Len(p)
    <3>1. \A m, n \in Nat : 1..m = 1..n => m <= n
      <4>. SUFFICES ASSUME NEW m \in Nat, NEW n \in Nat, 1..m = 1..n, m # 0 PROVE m <= n
        OBVIOUS
      <4>1. m \in 1..m
        OBVIOUS
      <4>2. m \in 1..n
        BY <4>1
      <4>. QED  BY <4>2
    <3>2. PICK m \in Nat, n \in Nat : m = Len(around) /\ n = Len(p)
      BY <1>2, <1>3
    <3>3. 1..m = 1..n
      BY <2>1, <3>2
    <3>4. m <= n /\ n <= m
      BY <3>1, <3>3
    <3>5. m = n
      BY <3>4
    <3>. QED  BY <3>2, <3>5
  <2>3. \A k \in 1..Len(p) : Spot(around[k]) = p[k]
    BY <1>1, <1>4, <2>1
  <2>. QED  BY <1>4, <2>2, <2>3
<1>5. CASE Len(around) = Len(p) /\ \A k \in 1..Len(p) : Spot(around[k]) = p[k]
  <2>1. Where = [k \in 1..Len(p) |-> p[k]]
    BY <1>1, <1>2, <1>5
  <2>. QED  BY <1>3, <1>5, <2>1
<1>. QED  BY <1>4, <1>5

(* The ways a cursor moves, for the tokens that the text goes on with. *)

\* Into a container, at whose first item the path may go on;
Turns(p, d, t) == d.d1 = d.d2 /\ ~Ended(p, d) /\ IsAt(p[d.pos]) /\ ~IsObject(t)

OpensTo(p, d, t, here, c) ==
  /\ c.d1 = d.d1 + 1 /\ c.tok = "invalid"
  /\ ~Turns(p, d, t) =>
       /\ c.pos = d.pos /\ c.d2 = d.d2 /\ c.i1 = d.i1 /\ c.i2 = d.i2
       /\ c.obj = IF Here(p, d) THEN (IF here THEN "right" ELSE "wrong") ELSE d.obj
  /\ Turns(p, d, t) =>
       /\ c.obj = d.obj /\ c.i1 = 0 /\ c.i2 = p[d.pos].index
       /\ p[d.pos].index = 0 => c.pos = d.pos + 1 /\ c.d2 = d.d2 + 1
       /\ p[d.pos].index # 0 => c.pos = d.pos /\ c.d2 = d.d2

\* The callback does that for an opening bracket,
LEMMA CursorOpens ==
  ASSUME NEW p \in Paths, NEW d, Pointing(p, d), d.tok = "invalid", NEW t \in Opening,
         NEW here \in BOOLEAN
  PROVE  OpensTo(p, d, t, here, mjson_get_cb(p, d, t, FALSE, here))
<1>. SUFFICES ASSUME NEW c, c = mjson_get_cb(p, d, t, FALSE, here) PROVE OpensTo(p, d, t, here, c)
  OBVIOUS
<1>0. d \in Cursor /\ d.pos \in Nat \ {0} /\ d.d1 \in Int /\ d.d2 \in Nat /\ Len(p) \in Nat
  BY CursorFields, PathElements DEF Pointing
<1>1. \/ IsObject(t) /\ c = Enter(p, d, here)
      \/ ~IsObject(t) /\ c = EnterArray(p, d, here)
  <2>1. t = "{" \/ t = "["
    BY DEF Opening
  <2>2. t \in Tokens
    BY DEF Tokens
  <2>3. t \notin Closing /\ t \notin Names /\ t # "," /\ t # ":"
    BY <2>2, TokensApart
  <2>4. "{" # "["
    OBVIOUS
  <2>. QED  BY <2>1, <2>3, <2>4, Zenon DEF mjson_get_cb, IsObject
<1>2. CASE ~Turns(p, d, t)
  <2>1. c = Enter(p, d, here)
    BY <1>1, <1>2 DEF EnterArray, Turns
  <2>2. /\ Enter(p, d, here).pos = d.pos /\ Enter(p, d, here).d1 = d.d1 + 1
        /\ Enter(p, d, here).d2 = d.d2 /\ Enter(p, d, here).i1 = d.i1
        /\ Enter(p, d, here).i2 = d.i2 /\ Enter(p, d, here).tok = d.tok
        /\ Enter(p, d, here).obj = IF Here(p, d) THEN (IF here THEN "right" ELSE "wrong") ELSE d.obj
    BY <1>0, Entered
  <2>. QED  BY <1>2, <2>1, <2>2 DEF OpensTo
<1>3. CASE Turns(p, d, t)
  <2>1. d.pos \in 1..Len(p) /\ d.d1 = d.d2
    BY <1>0, <1>3 DEF Turns, Ended
  <2>2. PICK i \in Nat : i = p[d.pos].index
    BY <1>3, <2>1, PathElements DEF Turns
  <2>3. PICK e : e = [d EXCEPT !.i1 = 0, !.i2 = i]
    OBVIOUS
  <2>4. /\ e \in Cursor /\ e.pos = d.pos /\ e.d1 = d.d1 /\ e.d2 = d.d2 /\ e.i1 = 0 /\ e.i2 = i
        /\ e.obj = d.obj /\ e.tok = d.tok
    BY <1>0, <2>3 DEF Cursor
  <2>5. CASE i = 0
    <3>1. PICK a \in Nat, b \in Nat \ {0} : a = e.d2 + 1 /\ b = e.pos + 1
      BY <2>4, CursorFields
    <3>2. PICK f : f = [e EXCEPT !.d2 = a, !.pos = b]
      OBVIOUS
    <3>3. c = Enter(p, f, here)
      BY <1>1, <1>3, <2>2, <2>3, <2>5, <3>1, <3>2 DEF EnterArray, Turns
    <3>4. /\ f \in Cursor /\ f.pos = b /\ f.d1 = e.d1 /\ f.d2 = a /\ f.i1 = 0 /\ f.i2 = 0
          /\ f.obj = e.obj /\ f.tok = e.tok
      BY <2>4, <2>5, <3>2 DEF Cursor
    <3>5. f.d1 # f.d2
      BY <1>0, <2>1, <2>4, <3>1, <3>4
    <3>6. ~Here(p, f)
      BY <3>5 DEF Here
    <3>7. /\ c.pos = b /\ c.d1 = d.d1 + 1 /\ c.d2 = a /\ c.i1 = 0 /\ c.i2 = 0
          /\ c.obj = d.obj /\ c.tok = d.tok
      <4>1. /\ Enter(p, f, here).pos = f.pos /\ Enter(p, f, here).d1 = f.d1 + 1
            /\ Enter(p, f, here).d2 = f.d2 /\ Enter(p, f, here).i1 = f.i1
            /\ Enter(p, f, here).i2 = f.i2 /\ Enter(p, f, here).tok = f.tok
            /\ Enter(p, f, here).obj = IF Here(p, f) THEN (IF here THEN "right" ELSE "wrong") ELSE f.obj
        BY <2>4, <3>4, Entered
      <4>. QED  BY <2>4, <3>3, <3>4, <3>6, <4>1 DEF OpensTo
    <3>. QED  BY <1>3, <2>2, <2>4, <2>5, <3>1, <3>7 DEF OpensTo
  <2>6. CASE i # 0
    <3>1. c = Enter(p, e, here)
      BY <1>1, <1>3, <2>2, <2>3, <2>6 DEF EnterArray, Turns
    <3>2. ~Here(p, e)
      BY <1>3, <2>4 DEF Here, Ended, Turns
    <3>3. /\ c.pos = d.pos /\ c.d1 = d.d1 + 1 /\ c.d2 = d.d2 /\ c.i1 = 0 /\ c.i2 = i
          /\ c.obj = d.obj /\ c.tok = d.tok
      <4>1. /\ Enter(p, e, here).pos = e.pos /\ Enter(p, e, here).d1 = e.d1 + 1
            /\ Enter(p, e, here).d2 = e.d2 /\ Enter(p, e, here).i1 = e.i1
            /\ Enter(p, e, here).i2 = e.i2 /\ Enter(p, e, here).tok = e.tok
            /\ Enter(p, e, here).obj = IF Here(p, e) THEN (IF here THEN "right" ELSE "wrong") ELSE e.obj
        BY <2>4, Entered
      <4>. QED  BY <2>4, <3>1, <3>2, <4>1 DEF OpensTo
    <3>. QED  BY <1>3, <2>2, <2>6, <3>3 DEF OpensTo
  <2>. QED  BY <2>5, <2>6 DEF OpensTo
<1>. QED  BY <1>2, <1>3 DEF OpensTo

\* out of one, which is reported if it is the one at the path;
ClosedKind(t) == IF t = "}" THEN "object" ELSE "array"

ClosesTo(p, d, t, c) ==
  /\ c.d1 = d.d1 - 1 /\ c.pos = d.pos /\ c.d2 = d.d2 /\ c.i1 = d.i1 /\ c.i2 = d.i2
  /\ c.obj = d.obj
  /\ d.obj = "none" => c.tok = "invalid"
  /\ ~(Ended(p, d) /\ d.d1 - 1 = d.d2) => c.tok = "invalid"
  /\ Ended(p, d) /\ d.d1 - 1 = d.d2 /\ d.obj = "right" =>
       c.right /\ c.tok = ClosedKind(t)

\* this for a closing one,
LEMMA CursorCloses ==
  ASSUME NEW p \in Paths, NEW d, Pointing(p, d), d.tok = "invalid", NEW t \in Closing,
         NEW here \in BOOLEAN
  PROVE  ClosesTo(p, d, t, mjson_get_cb(p, d, t, FALSE, here))
<1>. SUFFICES ASSUME NEW c, c = mjson_get_cb(p, d, t, FALSE, here) PROVE ClosesTo(p, d, t, c)
  OBVIOUS
<1>0. d \in Cursor /\ d.d1 \in Int
  BY CursorFields DEF Pointing
<1>1. c = Leave(p, d, t)
  <2>1. t \in Tokens
    BY DEF Tokens
  <2>2. t \notin Opening /\ t \notin Names /\ t # "," /\ t # ":"
    BY <2>1, TokensApart
  <2>3. t # "{" /\ t # "["
    BY <2>2 DEF Opening
  <2>. QED  BY <2>2, <2>3, Zenon DEF mjson_get_cb
<1>2. PICK n \in Int : n = d.d1 - 1
  BY <1>0
<1>. DEFINE e == [d EXCEPT !.d1 = n]
<1>3. /\ e.d1 = n /\ e.pos = d.pos /\ e.d2 = d.d2 /\ e.i1 = d.i1 /\ e.i2 = d.i2
      /\ e.obj = d.obj /\ e.tok = d.tok
  BY <1>0 DEF Cursor
<1>4. Here(p, e) <=> Ended(p, d) /\ n = d.d2
  BY <1>3 DEF Here, Ended
<1>5. /\ Here(p, e) /\ e.obj # "none" =>
           c = [e EXCEPT !.tok = IF t = "}" THEN "object" ELSE "array", !.right = e.obj = "right"]
      /\ ~(Here(p, e) /\ e.obj # "none") => c = e
  BY <1>1, <1>2 DEF Leave
<1>6. e \in Cursor
  BY <1>0 DEF Cursor
<1>. HIDE DEF e
<1>7. CASE Here(p, e) /\ e.obj # "none"
  <2>1. /\ c.d1 = e.d1 /\ c.pos = e.pos /\ c.d2 = e.d2 /\ c.i1 = e.i1 /\ c.i2 = e.i2
        /\ c.obj = e.obj /\ c.tok = (IF t = "}" THEN "object" ELSE "array")
        /\ c.right = (e.obj = "right")
    BY <1>5, <1>6, <1>7 DEF Cursor
  <2>. QED  BY <1>2, <1>3, <1>4, <1>7, <2>1 DEF ClosesTo, ClosedKind
<1>8. CASE ~(Here(p, e) /\ e.obj # "none")
  BY <1>2, <1>3, <1>4, <1>5, <1>8 DEF ClosesTo
<1>. QED  BY <1>7, <1>8 DEF ClosesTo

\* to a value that is no container;
TakesTo(p, d, t, here, c) ==
  /\ ~Here(p, d) => c = d
  /\ Here(p, d) => c.tok = Kind(t) /\ c.right = here

\* this for a value,
LEMMA CursorTakes ==
  ASSUME NEW p \in Paths, NEW d, Pointing(p, d), d.tok = "invalid", NEW t,
         t \in Scalars \cup Names \cup {"-"},
         NEW here \in BOOLEAN
  PROVE  TakesTo(p, d, t, here, mjson_get_cb(p, d, t, FALSE, here))
<1>. SUFFICES ASSUME NEW c, c = mjson_get_cb(p, d, t, FALSE, here) PROVE TakesTo(p, d, t, here, c)
  OBVIOUS
<1>0. d \in Cursor
  BY DEF Pointing
<1>1. c = Take(p, d, t, here)
  <2>1. t \in Tokens
    BY DEF Tokens
  <2>2. t \notin Opening /\ t \notin Closing /\ t # "," /\ t # ":"
    BY <2>1, TokensApart
  <2>3. t # "{" /\ t # "["
    BY <2>2 DEF Opening
  <2>. QED  BY <2>2, <2>3, Zenon DEF mjson_get_cb
<1>2. PICK k \in Kinds : k = Kind(t)
  BY KindIsKind
<1>3. c = IF Here(p, d) THEN [d EXCEPT !.tok = k, !.right = here] ELSE d
  BY <1>1, <1>2 DEF Take
<1>4. Here(p, d) => c.tok = k /\ c.right = here
  BY <1>0, <1>3 DEF Cursor
<1>. QED  BY <1>2, <1>3, <1>4 DEF TakesTo

\* to a name;
NamesTo(p, d, t, c) ==
  /\ ~(d.d1 = d.d2 + 1 /\ ~Ended(p, d) /\ p[d.pos] = Key(t)) => c = d
  /\ d.d1 = d.d2 + 1 /\ ~Ended(p, d) /\ p[d.pos] = Key(t) =>
       /\ c.pos = d.pos + 1 /\ c.d2 = d.d2 + 1
       /\ c.d1 = d.d1 /\ c.i1 = d.i1 /\ c.i2 = d.i2 /\ c.obj = d.obj /\ c.tok = "invalid"

\* this for a name,
LEMMA CursorNames ==
  ASSUME NEW p \in Paths, NEW d, Pointing(p, d), d.tok = "invalid", NEW t \in Names,
         NEW here \in BOOLEAN
  PROVE  NamesTo(p, d, t, mjson_get_cb(p, d, t, TRUE, here))
<1>. SUFFICES ASSUME NEW c, c = mjson_get_cb(p, d, t, TRUE, here) PROVE NamesTo(p, d, t, c)
  OBVIOUS
<1>0. d \in Cursor /\ d.pos \in Nat \ {0} /\ d.d2 \in Nat
  BY CursorFields DEF Pointing
<1>1. c = MatchKey(p, d, t)
  <2>1. t \in Tokens
    BY DEF Tokens
  <2>2. t \notin Opening /\ t \notin Closing /\ t # "," /\ t # ":"
    BY <2>1, TokensApart
  <2>3. t # "{" /\ t # "["
    BY <2>2 DEF Opening
  <2>. QED  BY <2>2, <2>3, Zenon DEF mjson_get_cb
<1>2. CASE d.d1 = d.d2 + 1 /\ ~Ended(p, d) /\ p[d.pos] = Key(t)
  <2>1. PICK a \in Nat, b \in Nat \ {0} : a = d.d2 + 1 /\ b = d.pos + 1
    BY <1>0
  <2>2. c = [d EXCEPT !.d2 = a, !.pos = b]
    BY <1>1, <1>2, <2>1 DEF MatchKey
  <2>3. /\ c.pos = b /\ c.d2 = a /\ c.d1 = d.d1 /\ c.i1 = d.i1 /\ c.i2 = d.i2
        /\ c.obj = d.obj /\ c.tok = d.tok
    BY <1>0, <2>2 DEF Cursor
  <2>. QED  BY <1>2, <2>1, <2>3 DEF NamesTo
<1>3. CASE ~(d.d1 = d.d2 + 1 /\ ~Ended(p, d) /\ p[d.pos] = Key(t))
  BY <1>1, <1>3 DEF MatchKey, NamesTo
<1>. QED  BY <1>2, <1>3 DEF NamesTo

\* past a colon it stays;
LEMMA CursorStays ==
  ASSUME NEW p, NEW d, NEW t, NEW isKey, NEW here, d.tok # "invalid" \/ t = ":"
  PROVE  mjson_get_cb(p, d, t, isKey, here) = d
<1>1. CASE d.tok # "invalid"
  BY <1>1, Zenon DEF mjson_get_cb
<1>2. CASE d.tok = "invalid" /\ t = ":"
  <2>1. t # "{" /\ t # "[" /\ t # "," /\ t \notin Closing /\ t \notin Names
    BY <1>2, ConstantsAssumption DEF Closing
  <2>. QED  BY <1>2, <2>1, Zenon DEF mjson_get_cb
<1>. QED  BY <1>1, <1>2

\* past a comma it counts.
SeparatesTo(d, c) ==
  /\ d.d1 # d.d2 + 1 => c = d
  /\ d.d1 = d.d2 + 1 =>
       /\ c.i1 = d.i1 + 1 /\ c.i2 = d.i2 /\ c.d1 = d.d1 /\ c.obj = d.obj
       /\ c.tok = "invalid"
       /\ d.i1 + 1 # d.i2 => c.pos = d.pos /\ c.d2 = d.d2
       /\ d.i1 + 1 = d.i2 => c.pos = d.pos + 1 /\ c.d2 = d.d2 + 1

\* and this for a comma.
LEMMA CursorSeparates ==
  ASSUME NEW p \in Paths, NEW d, Pointing(p, d), d.tok = "invalid", NEW t, IsComma(t),
         NEW here \in BOOLEAN
  PROVE  SeparatesTo(d, mjson_get_cb(p, d, t, FALSE, here))
<1>. SUFFICES ASSUME NEW c, c = mjson_get_cb(p, d, t, FALSE, here) PROVE SeparatesTo(d, c)
  OBVIOUS
<1>0. /\ d \in Cursor /\ d.pos \in Nat \ {0} /\ d.d2 \in Nat /\ d.i1 \in Nat /\ d.i2 \in Nat
      /\ Len(p) \in Nat
  BY CursorFields, PathElements DEF Pointing
<1>1. c = NextItem(p, d)
  <2>1. t # "{" /\ t # "[" /\ t \notin Closing /\ t \notin Names /\ t # ":"
    BY ConstantsAssumption DEF Closing, IsComma
  <2>. QED  BY <2>1, Zenon DEF mjson_get_cb, IsComma
<1>2. PICK j \in Nat : j = d.i1 + 1
  BY <1>0
<1>3. CASE d.d1 # d.d2 + 1
  BY <1>1, <1>3 DEF NextItem, SeparatesTo
<1>4. CASE d.d1 = d.d2 + 1 /\ d.i1 + 1 # d.i2
  <2>1. c = [d EXCEPT !.i1 = j]
    BY <1>1, <1>2, <1>4 DEF NextItem
  <2>2. /\ c.pos = d.pos /\ c.d2 = d.d2 /\ c.d1 = d.d1 /\ c.i1 = j /\ c.i2 = d.i2
        /\ c.obj = d.obj /\ c.tok = d.tok
    BY <1>0, <2>1 DEF Cursor
  <2>. QED  BY <1>2, <1>4, <2>2 DEF SeparatesTo
<1>5. CASE d.d1 = d.d2 + 1 /\ d.i1 + 1 = d.i2
  <2>1. d.i1 < d.i2
    BY <1>0, <1>5
  <2>2. PastIndex(p, d.pos) = d.pos + 1
    BY <1>0, <2>1, NextIndex DEF Pointing
  <2>3. PICK a \in Nat, b \in Nat \ {0} : a = d.d2 + 1 /\ b = d.pos + 1
    BY <1>0
  <2>4. c = [d EXCEPT !.i1 = j, !.d2 = a, !.pos = b]
    BY <1>1, <1>2, <1>5, <2>2, <2>3 DEF NextItem
  <2>5. /\ c.pos = b /\ c.d2 = a /\ c.d1 = d.d1 /\ c.i1 = j /\ c.i2 = d.i2
        /\ c.obj = d.obj /\ c.tok = d.tok
    BY <1>0, <2>4 DEF Cursor
  <2>. QED  BY <1>2, <1>5, <2>3, <2>5 DEF SeparatesTo
<1>. QED  BY <1>3, <1>4, <1>5 DEF SeparatesTo

(* Token by token, the search goes on as it should. *)

\* Where the text has gone past a path, or has not come to it, no value at the path starts.
LEMMA BehindIsElsewhere ==
  ASSUME NEW p \in Paths, around \in Seq(Frame), Behind(p), expecting = "VALUE"
  PROVE  Where # p
<1>1. PICK k \in 1..Len(p) : k <= Len(around) /\ ~Reached(p, k)
  BY DEF Behind
<1>2. Spot(around[k]) # p[k]
  BY <1>1 DEF Reached, Undone
<1>. QED  BY <1>2, WhereIs

\* Where an element of the path is still ahead, neither does one.
LEMMA AheadIsElsewhere ==
  ASSUME NEW p \in Paths, around \in Seq(Frame), NameInv, expecting = "VALUE",
         NEW k \in 1..Len(p), k <= Len(around), Ahead(p[k], around[k])
  PROVE  Where # p
<1>1. Len(around) \in Nat /\ Len(p) \in Nat
  BY LenProperties, PathElements
<1>2. k \in 1..Len(around)
  BY <1>1
<1>3. around[k] \in Frame
  BY <1>2, ElementOfSeq
<1>4. IsObject(around[k].open) => around[k].name \in around[k].seen
  BY <1>2 DEF NameInv
<1>5. Spot(around[k]) # p[k]
  BY <1>3, <1>4, SpotIsNotAhead
<1>. QED  BY <1>5, WhereIs

\* The numbers of a search.
LEMMA Numbers ==
  ASSUME NEW p \in Paths, NEW d, Pointing(p, d), StackInv
  PROVE  /\ Len(p) \in Nat /\ Len(around) \in Nat /\ around \in Seq(Frame)
         /\ d.pos \in Nat \ {0} /\ d.d1 \in Int /\ d.d2 \in Nat /\ d.i1 \in Nat /\ d.i2 \in Nat
         /\ d.pos <= Len(p) + 1
         /\ d.i1 < d.i2 => d.pos \in 1..Len(p) /\ IsAt(p[d.pos])
<1>1. /\ Len(p) \in Nat /\ d.pos \in Nat \ {0} /\ d.d1 \in Int /\ d.d2 \in Nat /\ d.i1 \in Nat
      /\ d.i2 \in Nat /\ d.pos <= Len(p) + 1
  BY CursorFields, PathElements DEF Pointing
<1>2. around \in Seq(Frame) /\ Len(around) \in Nat
  BY LenProperties DEF StackInv
<1>3. d.i1 < d.i2 => d.pos <= Len(p) /\ IsAt(p[d.pos])
  BY DEF Pointing
<1>. QED  BY <1>1, <1>2, <1>3

\* What the callback makes of a cursor when a token that is no name comes.
Calls(p, d, t, c) == c = mjson_get_cb(p, d, t, FALSE, Where = p)

\* A container opens, before the path:
LEMMA BeforeOpens ==
  ASSUME NEW p \in Paths, NEW d, Pointing(p, d), StackInv, NameInv, Before(p, d),
         NEW t \in Opening, Opens(t), NEW c, Calls(p, d, t, c),
         there'[p] = IF Where = p THEN Kind(t) ELSE there[p],
         around = <<>> => d = Start
  PROVE  Before(p, c)' \/ Inside(p, c)' \/ (Missed(p, c)' /\ Behind(p)')
<1>n. PICK n \in Nat, m \in Nat, L \in Nat : n = Len(around) /\ m = d.d2 /\ L = Len(p)
  BY Numbers
<1>a. m <= n /\ m <= L /\ (m < n => m < L)
  BY <1>n DEF Before
<1>0. /\ around \in Seq(Frame)
      /\ d.pos = m + 1 /\ d.d1 = n /\ m <= n /\ m <= L /\ (m < n => m < L)
      /\ d.tok = "invalid" /\ d.obj = "none" /\ there[p] = "absent"
  BY <1>n, Numbers DEF Before
<1>1. Len(around') = n + 1 /\ \A k \in 1..n : around'[k] = around[k]
  BY <1>n DEF Opens
<1>2. /\ c.d1 = n + 1 /\ c.tok = "invalid"
      /\ ~Turns(p, d, t) =>
           /\ c.pos = m + 1 /\ c.d2 = m /\ c.i1 = d.i1 /\ c.i2 = d.i2
           /\ c.obj = IF Here(p, d) THEN (IF Where = p THEN "right" ELSE "wrong") ELSE d.obj
      /\ Turns(p, d, t) =>
           /\ c.obj = d.obj /\ c.i1 = 0 /\ c.i2 = p[m + 1].index
           /\ p[m + 1].index = 0 => c.pos = m + 2 /\ c.d2 = m + 1
           /\ p[m + 1].index # 0 => c.pos = m + 1 /\ c.d2 = m
  <2>1. OpensTo(p, d, t, Where = p, c)
    BY <1>0, CursorOpens DEF Calls
  <2>2. m + 1 + 1 = m + 2
    OBVIOUS
  <2>. QED  BY <1>n, <1>0, <2>1, <2>2 DEF OpensTo
<1>b. Len(around') = n + 1 /\ c.d1 = Len(around')
  BY <1>1, <1>2
<1>3. \A k \in 1..m : Spot(around[k]) = p[k]
  BY <1>n DEF Before, Reached
<1>4. \A k \in 1..m : Reached(p, k)'
  BY <1>n, <1>0, <1>1, <1>3 DEF Reached
<1>5. Ended(p, d) <=> m = L
  BY <1>n, <1>0 DEF Ended
<1>6. CASE m = L
  <2>1. n = m
    BY <1>n, <1>0, <1>6
  <2>2. Where = p
    BY <1>n, <1>0, <1>3, <1>6, <2>1, WhereIs
  <2>3. Here(p, d) /\ ~Turns(p, d, t)
    BY <1>n, <1>0, <1>5, <1>6, <2>1 DEF Here, Turns
  <2>4. there'[p] = Kind(around'[L + 1].open)
    BY <1>n, <1>1, <1>6, <2>1, <2>2 DEF Opens
  <2>7. c.tok = "invalid" /\ c.obj = "right" /\ c.pos = m + 1 /\ c.d2 = m
    BY <1>2, <2>2, <2>3
  <2>5. c.pos = c.d2 + 1 /\ c.d1 = Len(around') /\ c.d2 = L /\ L < Len(around')
    BY <1>b, <1>6, <2>1, <2>7
  <2>6. \A k \in 1..L : Spot(around'[k]) = p[k]
    BY <1>n, <1>1, <1>3, <1>6, <2>1
  <2>. QED  BY <1>n, <2>4, <2>5, <2>6, <2>7 DEF Inside
<1>7. CASE m < L /\ m = n
  <2>. DEFINE e == p[m + 1]
              g == around'[m + 1]
  <2>1. Element(e) /\ m + 1 \in 1..L
    BY <1>n, <1>0, <1>7, PathIsElements
  <2>2. g.open = t /\ g.index = 0 /\ g.seen = {}
    BY <1>n, <1>1, <1>7 DEF Opens
  <2>3. Where # p
    BY <1>n, <1>0, <1>7, WhereIs
  <2>4. ~Here(p, d) /\ there'[p] = "absent"
    BY <1>n, <1>0, <1>5, <1>7, <2>3 DEF Here
  <2>5. Turns(p, d, t) <=> IsAt(e) /\ ~IsObject(t)
    BY <1>n, <1>0, <1>5, <1>7 DEF Turns
  <2>. HIDE DEF e, g
  <2>6. CASE IsAt(e) /\ ~IsObject(t) /\ e.index = 0
    <3>1. c.obj = "none" /\ c.pos = m + 2 /\ c.d2 = m + 1
      BY <1>n, <1>0, <1>2, <2>5, <2>6 DEF e
    <3>2. Spot(g) = e
      BY <1>n, <2>1, <2>2, <2>6 DEF Spot, Element
    <3>3. Reached(p, m + 1)'
      BY <1>n, <3>2, <2>6 DEF Reached, Undone, Opens, e, g
    <3>4. \A k \in 1..(m + 1) : Reached(p, k)'
      BY <1>n, <1>0, <1>4, <3>3
    <3>5. /\ c.pos = c.d2 + 1 /\ c.d1 = Len(around') /\ c.d2 <= Len(around') /\ c.d2 <= L
          /\ ~(c.d2 < Len(around'))
      BY <1>a, <1>b, <1>7, <3>1
    <3>6. Before(p, c)'
      BY <1>n, <1>2, <2>4, <3>1, <3>4, <3>5 DEF Before
    <3>. QED  BY <1>n, <3>6
  <2>7. CASE IsAt(e) /\ ~IsObject(t) /\ e.index # 0
    <3>1. c.obj = "none" /\ c.pos = m + 1 /\ c.d2 = m /\ c.i1 = 0 /\ c.i2 = e.index
      BY <1>n, <1>0, <1>2, <2>5, <2>7 DEF e
    <3>2. e.index \in Nat /\ e.index > 0
      BY <1>n, <2>1, <2>7 DEF Element
    <3>3. Ahead(e, g)
      BY <1>n, <2>2, <2>7, <3>2 DEF Ahead
    <3>4. /\ c.pos = c.d2 + 1 /\ c.d1 = Len(around') /\ c.d2 <= Len(around') /\ c.d2 <= L
          /\ c.d2 < L
      BY <1>a, <1>b, <1>7, <3>1
    <3>5. Before(p, c)'
      BY <1>n, <1>2, <1>4, <2>2, <2>4, <3>1, <3>3, <3>4 DEF Before, e, g
    <3>. QED  BY <1>n, <3>5
  <2>8. CASE ~IsAt(e) /\ IsObject(t)
    <3>1. c.obj = "none" /\ c.pos = m + 1 /\ c.d2 = m
      BY <1>n, <1>0, <1>2, <2>4, <2>5, <2>8
    <3>2. Ahead(e, g)
      BY <1>n, <2>2, <2>8 DEF Ahead
    <3>3. /\ c.pos = c.d2 + 1 /\ c.d1 = Len(around') /\ c.d2 <= Len(around') /\ c.d2 <= L
          /\ c.d2 < L
      BY <1>a, <1>b, <1>7, <3>1
    <3>4. Before(p, c)'
      BY <1>n, <1>2, <1>4, <2>2, <2>4, <2>8, <3>1, <3>2, <3>3 DEF Before, e, g
    <3>. QED  BY <1>n, <3>4
  <2>9. CASE IsAt(e) <=> IsObject(t)
    <3>1. c.obj = "none" /\ c.pos = m + 1 /\ c.d2 = m /\ c.i1 = d.i1 /\ c.i2 = d.i2
      BY <1>n, <1>0, <1>2, <2>4, <2>5, <2>9
    <3>2. ~Ahead(e, g)
      BY <1>n, <2>2, <2>9 DEF Ahead
    <3>3. ~IsObject(t) => Spot(g) # e
      BY <1>n, <2>2, <2>9, Parts DEF Spot
    <3>4. ~Reached(p, m + 1)'
      BY <1>n, <3>3, <1>1, <1>7 DEF Reached, Undone, Opens, e, g
    <3>5. \A k \in 1..m : Spot(around'[k]) = p[k]
      BY <1>n, <1>1, <1>3, <1>7
    <3>6. m + 1 - 1 = m /\ m + 1 <= Len(around')
      BY <1>n, <1>0, <1>1, <1>7
    <3>7. Behind(p)'
      <4>1. m + 1 \in 1..Len(p) /\ e = p[m + 1] /\ g = around'[m + 1]
        BY <1>n, <2>1 DEF e, g
      <4>2. ~Ahead(p[m + 1], around'[m + 1])
        BY <3>2, <4>1
      <4>3. \A j \in 1..(m + 1 - 1) : Spot(around'[j]) = p[j]
        BY <3>5, <3>6
      <4>. QED  BY <3>4, <3>6, <4>1, <4>2, <4>3 DEF Behind
    <3>8. L = 1 => c.i2 <= c.i1 /\ c.d2 = 0 /\ c.pos = 1
      <4>. SUFFICES ASSUME L = 1 PROVE c.i2 <= c.i1 /\ c.d2 = 0 /\ c.pos = 1
        OBVIOUS
      <4>1. m = 0 /\ n = 0
        BY <1>n, <1>0, <1>7
      <4>2. d.i1 = 0 /\ d.i2 = 0
        <5>1. around = <<>>
          BY <1>n, <1>0, <4>1, EmptySeq
        <5>2. Start.i1 = 0 /\ Start.i2 = 0
          BY DEF Start
        <5>. QED  BY <5>1, <5>2
      <4>3. c.i1 = 0 /\ c.i2 = 0 /\ c.d2 = 0 /\ c.pos = 1
        BY <3>1, <4>1, <4>2
      <4>. QED  BY <4>3
    <3>9. Missed(p, c)'
      BY <1>n, <1>1, <1>2, <2>4, <3>1, <3>8 DEF Missed
    <3>. QED  BY <1>n, <3>7, <3>9
  <2>. QED  BY <1>n, <2>6, <2>7, <2>8, <2>9
<1>8. CASE m < L /\ m < n
  <2>1. m + 1 \in 1..L /\ m + 1 \in 1..n /\ Ahead(p[m + 1], around[m + 1])
    BY <1>n, <1>0, <1>8 DEF Before
  <2>2. Where # p
    BY <1>n, <1>0, <2>1, AheadIsElsewhere DEF Opens
  <2>3. ~Turns(p, d, t) /\ ~Here(p, d)
    BY <1>n, <1>0, <1>8 DEF Turns, Here
  <2>4. /\ c.obj = "none" /\ c.pos = m + 1 /\ c.d2 = m /\ c.i1 = d.i1 /\ c.i2 = d.i2
        /\ there'[p] = "absent"
    BY <1>n, <1>0, <1>2, <2>2, <2>3
  <2>5. around'[m + 1] = around[m + 1]
    BY <1>n, <1>1, <2>1
  <2>6. ~IsObject(around[m + 1].open) =>
          d.i1 = around[m + 1].index /\ d.i2 = p[m + 1].index
    BY <1>n, <1>8 DEF Before
  <2>7. /\ c.pos = c.d2 + 1 /\ c.d1 = Len(around') /\ c.d2 <= Len(around') /\ c.d2 <= L
        /\ c.d2 < L
    BY <1>a, <1>b, <1>8, <2>4
  <2>8. Before(p, c)'
    BY <1>n, <1>2, <1>4, <2>1, <2>4, <2>5, <2>6, <2>7 DEF Before
  <2>. QED  BY <1>n, <2>8
<1>9. m = L \/ (m < L /\ m = n) \/ (m < L /\ m < n)
  BY <1>0
<1>. QED  BY <1>6, <1>7, <1>8, <1>9

\* inside the container at the path;
LEMMA InsideOpens ==
  ASSUME NEW p \in Paths, NEW d, Pointing(p, d), StackInv, Inside(p, d),
         NEW t \in Opening, Opens(t), NEW c, Calls(p, d, t, c),
         there'[p] = IF Where = p THEN Kind(t) ELSE there[p]
  PROVE  Inside(p, c)'
<1>n. PICK n \in Nat, L \in Nat : n = Len(around) /\ L = Len(p)
  BY Numbers
<1>0. /\ around \in Seq(Frame) /\ d.tok = "invalid" /\ d.obj = "right"
      /\ there[p] = Kind(around[L + 1].open)
  BY <1>n, Numbers DEF Inside
<1>1. d.pos = L + 1 /\ d.d1 = n /\ d.d2 = L /\ L < n
  BY <1>n DEF Inside
<1>2. Len(around') = n + 1 /\ \A k \in 1..n : around'[k] = around[k]
  BY <1>n DEF Opens
<1>3. Ended(p, d) /\ ~Here(p, d) /\ ~Turns(p, d, t)
  BY <1>n, <1>1 DEF Ended, Here, Turns
<1>4. c.pos = L + 1 /\ c.d1 = n + 1 /\ c.d2 = L /\ c.obj = "right" /\ c.tok = "invalid"
  <2>1. OpensTo(p, d, t, Where = p, c)
    BY <1>0, CursorOpens DEF Calls
  <2>. QED  BY <1>0, <1>1, <1>3, <2>1 DEF OpensTo
<1>5. there'[p] = there[p]
  BY <1>n, <1>0, <1>1, WhereIs
<1>6. L + 1 \in 1..n /\ L < Len(around') /\ \A k \in 1..L : k \in 1..n
  BY <1>1, <1>2
<1>7. \A k \in 1..L : Spot(around[k]) = p[k]
  BY <1>n DEF Inside
<1>8. there'[p] = Kind(around'[L + 1].open) /\ \A k \in 1..L : Spot(around'[k]) = p[k]
  BY <1>0, <1>2, <1>5, <1>6, <1>7
<1>9. c.pos = c.d2 + 1 /\ c.d1 = Len(around')
  BY <1>2, <1>4
<1>. QED  BY <1>n, <1>4, <1>6, <1>8, <1>9 DEF Inside

\* past the path.
LEMMA MissedOpens ==
  ASSUME NEW p \in Paths, NEW d, Pointing(p, d), StackInv, Missed(p, d), Behind(p),
         NEW t \in Opening, Opens(t), NEW c, Calls(p, d, t, c),
         there'[p] = IF Where = p THEN Kind(t) ELSE there[p]
  PROVE  Missed(p, c)'
<1>n. PICK n \in Nat, L \in Nat : n = Len(around) /\ L = Len(p)
  BY Numbers
<1>0. around \in Seq(Frame) /\ n # 0 /\ Len(around') = n + 1
  BY <1>n, Numbers DEF Behind, Opens
<1>1. there'[p] = "absent"
  BY <1>0, BehindIsElsewhere DEF Missed, Opens
<1>2. CASE L = 1
  <2>1. /\ d.tok = "invalid" /\ d.obj = "none" /\ d.i2 <= d.i1
        /\ d.d2 = 0 /\ d.pos = 1 /\ d.d1 = n
    BY <1>n, <1>2 DEF Missed
  <2>2. ~Ended(p, d) /\ ~Here(p, d) /\ ~Turns(p, d, t)
    BY <1>n, <1>0, <1>2, <2>1 DEF Ended, Here, Turns
  <2>3. OpensTo(p, d, t, Where = p, c)
    BY <2>1, CursorOpens DEF Calls
  <2>4. /\ c.tok = "invalid" /\ c.obj = "none" /\ c.i2 = d.i2 /\ c.i1 = d.i1
        /\ c.d2 = 0 /\ c.pos = 1 /\ c.d1 = n + 1
    BY <2>1, <2>2, <2>3 DEF OpensTo
  <2>. QED  BY <1>0, <1>1, <2>1, <2>4 DEF Missed
<1>3. CASE L # 1
  BY <1>n, <1>1, <1>3 DEF Missed
<1>. QED  BY <1>2, <1>3

\* A container is closed, before the path:
LEMMA BeforeCloses ==
  ASSUME NEW p \in Paths, NEW d, Pointing(p, d), StackInv, NameInv, Before(p, d),
         NEW t \in Closing, Closes, NEW c, Calls(p, d, t, c), there'[p] = there[p]
  PROVE  /\ Len(around') > 0 => Before(p, c)' \/ (Missed(p, c)' /\ Behind(p)')
         /\ Len(around') = 0 => Over(p, c)'
<1>n. PICK n \in Nat, m \in Nat, L \in Nat : n = Len(around) /\ m = d.d2 /\ L = Len(p)
  BY Numbers
<1>a. m <= n /\ m <= L /\ (m < n => m < L)
  BY <1>n DEF Before
<1>0. /\ around \in Seq(Frame) /\ d.pos = m + 1 /\ d.d1 = n
      /\ d.tok = "invalid" /\ d.obj = "none" /\ there'[p] = "absent"
  BY <1>n, Numbers DEF Before
<1>1. PICK q \in Nat : n = q + 1
  BY <1>n DEF Closes
<1>2. Len(around') = q /\ \A k \in 1..q : around'[k] = around[k]
  BY <1>n, <1>1 DEF Closes
<1>3. c.d1 = q /\ c.pos = m + 1 /\ c.d2 = m /\ c.i1 = d.i1 /\ c.i2 = d.i2
  <2>1. ClosesTo(p, d, t, c)
    BY <1>0, CursorCloses DEF Calls
  <2>2. d.d1 - 1 = q
    BY <1>0, <1>1
  <2>3. /\ c.d1 = d.d1 - 1 /\ c.pos = d.pos /\ c.d2 = d.d2 /\ c.i1 = d.i1 /\ c.i2 = d.i2
    BY <2>1 DEF ClosesTo
  <2>. QED  BY <1>n, <1>0, <2>2, <2>3
<1>4. c.tok = "invalid" /\ c.obj = "none"
  <2>1. ClosesTo(p, d, t, c)
    BY <1>0, CursorCloses DEF Calls
  <2>. QED  BY <1>0, <2>1 DEF ClosesTo
<1>5. \A k \in 1..m : Spot(around[k]) = p[k]
  BY <1>n DEF Before, Reached
<1>6. CASE q = 0
  BY <1>0, <1>2, <1>4, <1>6 DEF Over
<1>7. CASE q # 0 /\ m < q
  <2>1. m + 1 \in 1..q /\ m + 1 \in 1..L
    BY <1>a, <1>1, <1>7
  <2>2. \A k \in 1..m : k \in 1..q /\ k # Len(around')
    BY <1>2, <1>7
  <2>3. \A k \in 1..m : Reached(p, k)'
    BY <1>2, <1>5, <2>2 DEF Reached
  <2>4. /\ Ahead(p[m + 1], around'[m + 1])
        /\ ~IsObject(around'[m + 1].open) =>
             c.i1 = around'[m + 1].index /\ c.i2 = p[m + 1].index
    BY <1>n, <1>1, <1>2, <1>3, <1>7, <2>1 DEF Before
  <2>5. c.pos = c.d2 + 1 /\ c.d1 = Len(around') /\ c.d2 <= Len(around') /\ c.d2 <= L /\ c.d2 < L
    BY <1>a, <1>1, <1>2, <1>3, <1>7
  <2>6. Before(p, c)'
    BY <1>n, <1>0, <1>3, <1>4, <2>3, <2>4, <2>5 DEF Before
  <2>. QED  BY <1>2, <1>7, <2>6
<1>8. CASE q # 0 /\ q <= m
  <2>1. q \in 1..L /\ q \in 1..m /\ q \in 1..n /\ \A k \in 1..(q - 1) : k \in 1..q /\ k \in 1..m
    BY <1>a, <1>1, <1>8
  <2>2. L # 1
    BY <1>a, <1>1, <1>8
  <2>3. around[q] \in Frame /\ Spot(around[q]) = p[q]
    BY <1>n, <1>0, <1>5, <2>1, ElementOfSeq
  <2>4. IsObject(around[q].open) => around[q].name \in around[q].seen
    <3>1. q < Len(around)
      BY <1>n, <1>1
    <3>. QED  BY <1>n, <2>1, <3>1 DEF NameInv
  <2>5. ~Ahead(p[q], around'[q])
    BY <1>2, <1>8, <2>3, <2>4, SpotIsNotAhead
  <2>6. ~Reached(p, q)'
    BY <1>2 DEF Reached, Undone, Closes
  <2>7. q <= Len(around') /\ \A k \in 1..(q - 1) : Spot(around'[k]) = p[k]
    BY <1>2, <1>5, <2>1
  <2>8. Behind(p)'
    BY <1>n, <2>1, <2>5, <2>6, <2>7 DEF Behind
  <2>9. Missed(p, c)'
    BY <1>n, <1>0, <2>2 DEF Missed
  <2>. QED  BY <1>2, <1>8, <2>8, <2>9
<1>9. q = 0 \/ (q # 0 /\ m < q) \/ (q # 0 /\ q <= m)
  OBVIOUS
<1>. QED  BY <1>6, <1>7, <1>8, <1>9

\* inside the container at the path;
LEMMA InsideCloses ==
  ASSUME NEW p \in Paths, NEW d, Pointing(p, d), StackInv, NameInv, Inside(p, d),
         NEW t \in Closing, Closes, NEW c, Calls(p, d, t, c), there'[p] = there[p],
         Kind(around[Len(around)].open) = ClosedKind(t)
  PROVE  /\ Len(around') > 0 => Inside(p, c)' \/ (Found(p, c)' /\ Behind(p)')
         /\ Len(around') = 0 => Over(p, c)'
<1>n. PICK n \in Nat, L \in Nat : n = Len(around) /\ L = Len(p)
  BY Numbers
<1>0. /\ around \in Seq(Frame) /\ d.tok = "invalid" /\ d.obj = "right"
      /\ there'[p] = Kind(around[L + 1].open) /\ \A k \in 1..L : Spot(around[k]) = p[k]
  BY <1>n, Numbers DEF Inside
<1>1. d.pos = L + 1 /\ d.d1 = n /\ d.d2 = L /\ L < n
  BY <1>n DEF Inside
<1>2. PICK q \in Nat : n = q + 1
  BY <1>n DEF Closes
<1>3. Len(around') = q /\ \A k \in 1..q : around'[k] = around[k]
  BY <1>n, <1>2 DEF Closes
<1>4. /\ c.pos = L + 1 /\ c.d2 = L /\ c.d1 = q /\ c.obj = "right"
      /\ L # q => c.tok = "invalid"
      /\ L = q => c.right /\ c.tok = ClosedKind(t)
  <2>1. ClosesTo(p, d, t, c)
    BY <1>0, CursorCloses DEF Calls
  <2>2. Ended(p, d)
    BY <1>n, <1>1 DEF Ended
  <2>3. d.d1 - 1 = q /\ (d.d1 - 1 = d.d2 <=> L = q)
    BY <1>1, <1>2
  <2>. QED  BY <1>0, <1>1, <2>1, <2>2, <2>3 DEF ClosesTo
<1>5. CASE L # q
  <2>1. L < q /\ L + 1 \in 1..q /\ \A k \in 1..L : k \in 1..q
    BY <1>1, <1>2, <1>5
  <2>2. there'[p] = Kind(around'[L + 1].open) /\ \A k \in 1..L : Spot(around'[k]) = p[k]
    BY <1>0, <1>3, <2>1
  <2>3. c.pos = c.d2 + 1 /\ c.d1 = Len(around') /\ c.d2 = L /\ L < Len(around')
    BY <1>3, <1>4, <2>1
  <2>4. Inside(p, c)'
    BY <1>n, <1>4, <1>5, <2>2, <2>3 DEF Inside
  <2>. QED  BY <1>3, <2>1, <2>4
<1>6. CASE L = q
  <2>1. there'[p] = ClosedKind(t)
    BY <1>n, <1>0, <1>2, <1>6
  <2>2. Found(p, c)'
    <3>1. ClosedKind(t) # "absent"
      BY Zenon DEF ClosedKind
    <3>. QED  BY <1>4, <1>6, <2>1, <3>1 DEF Found
  <2>3. ASSUME q # 0 PROVE Behind(p)'
    <3>1. q \in 1..L /\ q \in 1..n /\ \A k \in 1..(q - 1) : k \in 1..q /\ k \in 1..L
      BY <1>2, <1>6, <2>3
    <3>2. around[q] \in Frame /\ Spot(around[q]) = p[q]
      BY <1>n, <1>0, <3>1, ElementOfSeq
    <3>3. q < Len(around) /\ q \in 1..Len(around)
      BY <1>n, <1>2, <3>1
    <3>4. IsObject(around[q].open) => around[q].name \in around[q].seen
      BY <3>3 DEF NameInv
    <3>5. ~Ahead(p[q], around'[q])
      BY <1>3, <2>3, <3>2, <3>4, SpotIsNotAhead
    <3>6. ~Reached(p, q)'
      BY <1>3 DEF Reached, Undone, Closes
    <3>7. q <= Len(around') /\ \A k \in 1..(q - 1) : Spot(around'[k]) = p[k]
      BY <1>0, <1>3, <3>1
    <3>. QED  BY <1>n, <3>1, <3>5, <3>6, <3>7 DEF Behind
  <2>4. Over(p, c)'
    BY <2>2 DEF Over, Found
  <2>. QED  BY <1>3, <2>2, <2>3, <2>4
<1>. QED  BY <1>5, <1>6

\* past the path.
LEMMA MissedCloses ==
  ASSUME NEW p \in Paths, NEW d, Pointing(p, d), StackInv, Missed(p, d),
         NEW t \in Closing, Closes, NEW c, Calls(p, d, t, c), there'[p] = there[p]
  PROVE  Missed(p, c)'
<1>n. PICK n \in Nat, L \in Nat : n = Len(around) /\ L = Len(p)
  BY Numbers
<1>1. there'[p] = "absent"
  BY DEF Missed
<1>2. CASE L = 1
  <2>1. /\ d.tok = "invalid" /\ d.obj = "none" /\ d.i2 <= d.i1
        /\ d.d2 = 0 /\ d.pos = 1 /\ d.d1 = n
    BY <1>n, <1>2 DEF Missed
  <2>2. ClosesTo(p, d, t, c)
    BY <2>1, CursorCloses DEF Calls
  <2>3. Len(around') = n - 1
    BY <1>n DEF Closes
  <2>4. /\ c.tok = "invalid" /\ c.obj = "none" /\ c.i2 = d.i2 /\ c.i1 = d.i1
        /\ c.d2 = 0 /\ c.pos = 1
    BY <2>1, <2>2 DEF ClosesTo
  <2>5. c.d1 = n - 1
    BY <2>1, <2>2 DEF ClosesTo
  <2>. QED  BY <1>1, <2>1, <2>3, <2>4, <2>5 DEF Missed
<1>3. CASE L # 1
  BY <1>n, <1>1, <1>3 DEF Missed
<1>. QED  BY <1>2, <1>3

\* A value that is no container comes, before the path:
LEMMA BeforeEnding ==
  ASSUME NEW p \in Paths, NEW d, Pointing(p, d), StackInv, NameInv, Before(p, d),
         NEW t, t \in Scalars \cup Names \cup {"-"}, Ending, NEW c, Calls(p, d, t, c),
         there'[p] = IF Where = p THEN Kind(t) ELSE there[p]
  PROVE  /\ Len(around') > 0 =>
              Before(p, c)' \/ (Found(p, c)' /\ Behind(p)') \/ (Missed(p, c)' /\ Behind(p)')
         /\ Len(around') = 0 => Over(p, c)'
<1>n. PICK n \in Nat, m \in Nat, L \in Nat : n = Len(around) /\ m = d.d2 /\ L = Len(p)
  BY Numbers
<1>a. m <= n /\ m <= L /\ (m < n => m < L)
  BY <1>n DEF Before
<1>0. /\ around \in Seq(Frame) /\ d.pos = m + 1 /\ d.d1 = n
      /\ d.tok = "invalid" /\ d.obj = "none" /\ there[p] = "absent"
  BY <1>n, Numbers DEF Before
<1>1. around' = around /\ Len(around') = n
  BY <1>n DEF Ending
<1>2. \A k \in 1..m : Spot(around[k]) = p[k]
  BY <1>n DEF Before, Reached
<1>3. Ended(p, d) <=> m = L
  BY <1>n, <1>a, <1>0 DEF Ended
<1>4. TakesTo(p, d, t, Where = p, c)
  BY <1>0, CursorTakes DEF Calls
<1>5. ASSUME m # 0, m = n PROVE Behind(p)'
  <2>1. m \in 1..L /\ m \in 1..m /\ m \in 1..n /\ \A k \in 1..(m - 1) : k \in 1..m
    BY <1>a, <1>5
  <2>2. around[m] \in Frame /\ Spot(around[m]) = p[m]
    BY <1>n, <1>0, <1>2, <2>1, ElementOfSeq
  <2>3. IsObject(around[m].open) => around[m].name \in around[m].seen
    <3>1. expecting # "KEY"
      BY DEF Ending
    <3>. QED  BY <1>n, <2>1, <3>1 DEF NameInv
  <2>4. ~Ahead(p[m], around'[m])
    BY <1>1, <2>2, <2>3, SpotIsNotAhead
  <2>5. ~Reached(p, m)'
    <3>1. Len(around) > 0
      BY <1>n, <1>5
    <3>. QED  BY <1>1, <1>5, <3>1 DEF Reached, Undone, Ending
  <2>6. m <= Len(around') /\ \A k \in 1..(m - 1) : Spot(around'[k]) = p[k]
    BY <1>1, <1>2, <1>5, <2>1
  <2>. QED  BY <1>n, <2>1, <2>4, <2>5, <2>6 DEF Behind
<1>6. CASE m = L
  <2>1. n = m
    BY <1>a, <1>6
  <2>2. Where = p
    BY <1>n, <1>0, <1>2, <1>6, <2>1, WhereIs
  <2>3. Here(p, d)
    BY <1>n, <1>0, <1>3, <1>6, <2>1 DEF Here
  <2>4. c.tok = Kind(t) /\ c.right = TRUE /\ there'[p] = Kind(t)
    BY <1>4, <2>2, <2>3 DEF TakesTo
  <2>5. Kind(t) # "absent"
    <3>1. Kind(t) \in Kinds
      BY KindIsKind
    <3>2. "absent" \notin Kinds
      BY DEF Kinds, Scalars
    <3>. QED  BY <3>1, <3>2
  <2>6. Found(p, c)'
    BY <2>4, <2>5, Zenon DEF Found
  <2>7. Over(p, c)'
    BY <2>6 DEF Over, Found
  <2>. QED  BY <1>1, <1>5, <2>1, <2>6, <2>7
<1>7. CASE m < L /\ m = n
  <2>1. Where # p
    BY <1>n, <1>0, <1>7, WhereIs
  <2>2. ~Here(p, d)
    BY <1>3, <1>7 DEF Here
  <2>3. c = d /\ there'[p] = "absent"
    BY <1>0, <1>4, <2>1, <2>2 DEF TakesTo
  <2>4. CASE n = 0
    BY <1>0, <1>1, <2>3, <2>4 DEF Over
  <2>5. CASE n # 0
    <3>1. L # 1
      BY <1>7, <2>5
    <3>2. Missed(p, c)'
      BY <1>n, <2>3, <3>1 DEF Missed
    <3>. QED  BY <1>1, <1>5, <1>7, <2>5, <3>2
  <2>. QED  BY <2>4, <2>5
<1>8. CASE m < L /\ m < n
  <2>1. m + 1 \in 1..L /\ m + 1 \in 1..n /\ Ahead(p[m + 1], around[m + 1])
    BY <1>n, <1>8 DEF Before
  <2>2. Where # p
    BY <1>n, <1>0, <2>1, AheadIsElsewhere DEF Ending
  <2>3. ~Here(p, d)
    BY <1>3, <1>8 DEF Here
  <2>4. c = d /\ there'[p] = there[p]
    BY <1>4, <2>2, <2>3 DEF TakesTo
  <2>5. \A k \in 1..m : Reached(p, k)'
    <3>1. \A k \in 1..m : k # Len(around')
      BY <1>1, <1>8
    <3>. QED  BY <1>1, <1>2, <3>1 DEF Reached
  <2>6. Before(p, c)'
    BY <1>n, <1>1, <2>4, <2>5 DEF Before
  <2>. QED  BY <1>1, <1>8, <2>6
<1>9. m = L \/ (m < L /\ m = n) \/ (m < L /\ m < n)
  BY <1>a
<1>. QED  BY <1>6, <1>7, <1>8, <1>9

\* inside the container at the path;
LEMMA InsideEnding ==
  ASSUME NEW p \in Paths, NEW d, Pointing(p, d), StackInv, Inside(p, d),
         NEW t, t \in Scalars \cup Names \cup {"-"}, Ending, NEW c, Calls(p, d, t, c),
         there'[p] = IF Where = p THEN Kind(t) ELSE there[p]
  PROVE  Len(around') > 0 /\ Inside(p, c)'
<1>n. PICK n \in Nat, L \in Nat : n = Len(around) /\ L = Len(p)
  BY Numbers
<1>0. around \in Seq(Frame) /\ d.tok = "invalid"
  BY Numbers DEF Inside
<1>1. d.pos = L + 1 /\ d.d1 = n /\ d.d2 = L /\ L < n
  BY <1>n DEF Inside
<1>2. ~Here(p, d)
  BY <1>1 DEF Here
<1>3. Where # p
  BY <1>n, <1>0, <1>1, WhereIs
<1>4. TakesTo(p, d, t, Where = p, c)
  BY <1>0, CursorTakes DEF Calls
<1>5. c = d /\ there'[p] = there[p] /\ around' = around
  BY <1>2, <1>3, <1>4 DEF TakesTo, Ending
<1>. QED  BY <1>n, <1>1, <1>5 DEF Inside

\* past the path.
LEMMA MissedEnding ==
  ASSUME NEW p \in Paths, NEW d, Pointing(p, d), StackInv, Missed(p, d), Behind(p),
         NEW t, t \in Scalars \cup Names \cup {"-"}, Ending, NEW c, Calls(p, d, t, c),
         there'[p] = IF Where = p THEN Kind(t) ELSE there[p]
  PROVE  Missed(p, c)'
<1>n. PICK n \in Nat, L \in Nat : n = Len(around) /\ L = Len(p)
  BY Numbers
<1>1. there'[p] = "absent"
  BY Numbers, BehindIsElsewhere DEF Missed, Ending
<1>2. CASE L = 1
  <2>1. /\ d.tok = "invalid" /\ d.obj = "none" /\ d.i2 <= d.i1
        /\ d.d2 = 0 /\ d.pos = 1 /\ d.d1 = n
    BY <1>n, <1>2 DEF Missed
  <2>2. ~Here(p, d)
    BY <1>n, <1>2, <2>1 DEF Ended, Here
  <2>3. TakesTo(p, d, t, Where = p, c)
    BY <2>1, CursorTakes DEF Calls
  <2>4. c = d /\ Len(around') = n
    BY <1>n, <2>2, <2>3 DEF TakesTo, Ending
  <2>. QED  BY <1>1, <2>1, <2>4 DEF Missed
<1>3. CASE L # 1
  BY <1>n, <1>1, <1>3 DEF Missed
<1>. QED  BY <1>2, <1>3

\* What the callback makes of a cursor when a name comes.
CallsName(p, d, t, c) == c = mjson_get_cb(p, d, t, TRUE, Where = p)

\* A name comes, before the path:
LEMMA BeforeNaming ==
  ASSUME NEW p \in Paths, NEW d, Pointing(p, d), StackInv, NameInv, Before(p, d),
         NEW t, Naming(t), NEW c, CallsName(p, d, t, c), there'[p] = there[p]
  PROVE  Before(p, c)'
<1>n. PICK n \in Nat, m \in Nat, L \in Nat : n = Len(around) /\ m = d.d2 /\ L = Len(p)
  BY Numbers
<1>a. m <= n /\ m <= L /\ (m < n => m < L) /\ n # 0
  BY <1>n DEF Before, Naming
<1>0. /\ around \in Seq(Frame) /\ d.pos = m + 1 /\ d.d1 = n
      /\ d.tok = "invalid" /\ d.obj = "none" /\ there'[p] = "absent"
  BY <1>n, Numbers DEF Before
<1>1. Len(around') = n /\ \A k \in 1..(n - 1) : around'[k] = around[k]
  BY <1>n DEF Naming
<1>2. \A k \in 1..m : Spot(around[k]) = p[k]
  BY <1>n DEF Before, Reached
<1>3. m < n
  <2>1. m # n
    <3>1. SUFFICES ASSUME m = n PROVE FALSE
      OBVIOUS
    <3>2. m \in 1..m
      BY <1>a, <3>1
    <3>3. Reached(p, m)
      BY <1>n, <3>2 DEF Before
    <3>. QED  BY <1>n, <3>1, <3>3 DEF Reached, Undone, Naming
  <2>. QED  BY <1>a, <2>1
<1>4. NamesTo(p, d, t, c)
  <2>1. t \in Names
    BY DEF Naming
  <2>. QED  BY <1>0, <2>1, CursorNames DEF CallsName
<1>5. \A k \in 1..m : Spot(around'[k]) = p[k] /\ k # n
  <2>1. \A k \in 1..m : k \in 1..(n - 1) /\ k # n
    BY <1>3
  <2>. QED  BY <1>1, <1>2, <2>1
<1>6. \A k \in 1..m : Reached(p, k)'
  BY <1>1, <1>5 DEF Reached
<1>7. /\ m + 1 \in 1..L /\ m + 1 \in 1..n /\ Ahead(p[m + 1], around[m + 1])
      /\ ~IsObject(around[m + 1].open) => d.i1 = around[m + 1].index /\ d.i2 = p[m + 1].index
  BY <1>n, <1>a, <1>3 DEF Before
<1>8. ~Ended(p, d) /\ p[d.pos] = p[m + 1]
  BY <1>n, <1>a, <1>0, <1>3 DEF Ended
<1>9. CASE m + 1 = n
  <2>1. /\ IsObject(around[n].open) /\ IsObject(around'[n].open) /\ t \in Names
        /\ t \notin around[n].seen /\ around'[n].name = t
        /\ around'[n].seen = around[n].seen \cup {t} /\ expecting' = "COLON"
    BY <1>n DEF Naming
  <2>2. around[n] \in Frame /\ Element(p[n]) /\ Ahead(p[n], around[n])
    BY <1>n, <1>0, <1>7, <1>9, ElementOfSeq, PathIsElements
  <2>3. /\ p[n] = Key(t) => Spot(around'[n]) = p[n]
        /\ p[n] # Key(t) => Ahead(p[n], around'[n])
    BY <2>1, <2>2, FrameNamed
  <2>4. CASE p[n] = Key(t)
    <3>1. d.d1 = d.d2 + 1 /\ ~Ended(p, d) /\ p[d.pos] = Key(t)
      BY <1>n, <1>0, <1>8, <1>9, <2>4
    <3>2. /\ c.pos = d.pos + 1 /\ c.d2 = d.d2 + 1
          /\ c.d1 = d.d1 /\ c.obj = d.obj /\ c.tok = "invalid"
      BY <1>4, <3>1 DEF NamesTo
    <3>3. c.pos = n + 1 /\ c.d2 = n /\ c.d1 = n /\ c.obj = "none"
      BY <1>n, <1>0, <1>9, <3>2
    <3>4. Reached(p, n)'
      BY <2>1, <2>3, <2>4 DEF Reached, Undone
    <3>5. \A k \in 1..n : Reached(p, k)'
      <4>1. \A k \in 1..n : k \in 1..m \/ k = n
        BY <1>9
      <4>. QED  BY <1>6, <3>4, <4>1
    <3>6. c.pos = c.d2 + 1 /\ c.d1 = Len(around') /\ c.d2 <= Len(around') /\ c.d2 <= L
          /\ ~(c.d2 < Len(around'))
      BY <1>1, <1>7, <1>9, <3>3
    <3>. QED  BY <1>n, <1>0, <3>2, <3>3, <3>5, <3>6 DEF Before
  <2>5. CASE p[n] # Key(t)
    <3>1. c = d
      BY <1>4, <1>8, <1>9, <2>5 DEF NamesTo
    <3>2. Ahead(p[m + 1], around'[m + 1]) /\ IsObject(around'[m + 1].open)
      BY <1>9, <2>1, <2>3, <2>5
    <3>3. c.pos = c.d2 + 1 /\ c.d1 = Len(around') /\ c.d2 <= Len(around') /\ c.d2 <= L /\ c.d2 < L
      BY <1>n, <1>a, <1>0, <1>1, <1>3, <3>1
    <3>4. c.d2 = m /\ c.tok = "invalid" /\ c.obj = "none"
      BY <1>n, <1>0, <3>1
    <3>. QED  BY <1>n, <1>0, <1>6, <3>2, <3>3, <3>4 DEF Before
  <2>. QED  BY <2>4, <2>5
<1>10. CASE m + 1 # n
  <2>1. around'[m + 1] = around[m + 1]
    <3>1. m + 1 \in 1..(n - 1)
      BY <1>7, <1>10
    <3>. QED  BY <1>1, <3>1
  <2>2. c = d
    <3>1. d.d1 # d.d2 + 1
      BY <1>n, <1>0, <1>10
    <3>. QED  BY <1>4, <3>1 DEF NamesTo
  <2>3. c.pos = c.d2 + 1 /\ c.d1 = Len(around') /\ c.d2 <= Len(around') /\ c.d2 <= L /\ c.d2 < L
    BY <1>n, <1>a, <1>0, <1>1, <1>3, <2>2
  <2>4. c.d2 = m /\ c.tok = "invalid" /\ c.obj = "none" /\ c.i1 = d.i1 /\ c.i2 = d.i2
    BY <1>n, <1>0, <2>2
  <2>. QED  BY <1>n, <1>0, <1>6, <1>7, <2>1, <2>3, <2>4 DEF Before
<1>. QED  BY <1>9, <1>10

\* inside the container at the path;
LEMMA InsideNaming ==
  ASSUME NEW p \in Paths, NEW d, Pointing(p, d), StackInv, Inside(p, d),
         NEW t, Naming(t), NEW c, CallsName(p, d, t, c), there'[p] = there[p]
  PROVE  Inside(p, c)'
<1>n. PICK n \in Nat, L \in Nat : n = Len(around) /\ L = Len(p)
  BY Numbers
<1>0. /\ there'[p] = Kind(around[L + 1].open) /\ \A k \in 1..L : Spot(around[k]) = p[k]
  BY <1>n DEF Inside
<1>1. d.pos = L + 1 /\ d.d1 = n /\ d.d2 = L /\ L < n /\ d.tok = "invalid"
  BY <1>n DEF Inside
<1>2. NamesTo(p, d, t, c)
  <2>1. t \in Names
    BY DEF Naming
  <2>. QED  BY <1>1, <2>1, CursorNames DEF CallsName
<1>3. c = d
  <2>1. Ended(p, d)
    BY <1>n, <1>1 DEF Ended
  <2>. QED  BY <1>2, <2>1 DEF NamesTo
<1>4. /\ Len(around') = n /\ around'[n].open = around[n].open
      /\ \A k \in 1..(n - 1) : around'[k] = around[k]
  BY <1>n DEF Naming
<1>5. \A k \in 1..L : k \in 1..(n - 1)
  BY <1>1
<1>6. around'[L + 1].open = around[L + 1].open
  <2>1. L + 1 = n \/ L + 1 \in 1..(n - 1)
    BY <1>1
  <2>. QED  BY <1>4, <2>1
<1>7. there'[p] = Kind(around'[L + 1].open) /\ \A k \in 1..L : Spot(around'[k]) = p[k]
  BY <1>0, <1>4, <1>5, <1>6
<1>. QED  BY <1>n, <1>1, <1>3, <1>4, <1>7 DEF Inside

\* past the path.
LEMMA MissedNaming ==
  ASSUME NEW p \in Paths, NEW d, Pointing(p, d), StackInv, Missed(p, d), Behind(p),
         NEW t, Naming(t), NEW c, CallsName(p, d, t, c), there'[p] = there[p]
  PROVE  Missed(p, c)'
<1>n. PICK n \in Nat, L \in Nat : n = Len(around) /\ L = Len(p)
  BY Numbers
<1>1. there'[p] = "absent"
  BY DEF Missed
<1>2. CASE L = 1
  <2>1. /\ d.tok = "invalid" /\ d.obj = "none" /\ d.i2 <= d.i1
        /\ d.d2 = 0 /\ d.pos = 1 /\ d.d1 = n
    BY <1>n, <1>2 DEF Missed
  <2>2. NamesTo(p, d, t, c)
    <3>1. t \in Names
      BY DEF Naming
    <3>. QED  BY <2>1, <3>1, CursorNames DEF CallsName
  <2>3. ASSUME n = 1 PROVE p[1] # Key(t)
    <3>1. PICK k \in 1..1 : ~Ahead(p[k], around[k])
      BY <1>n, <1>2 DEF Behind
    <3>2. ~Ahead(p[1], around[1])
      BY <3>1
    <3>3. IsObject(around[1].open) /\ t \notin around[1].seen
      BY <1>n, <2>3 DEF Naming
    <3>. QED  BY <3>2, <3>3, Parts DEF Ahead
  <2>4. c = d
    <3>1. d.d1 = d.d2 + 1 => n = 1
      BY <2>1
    <3>. QED  BY <2>1, <2>2, <2>3, <3>1 DEF NamesTo
  <2>5. Len(around') = n
    BY <1>n DEF Naming
  <2>. QED  BY <1>1, <2>1, <2>4, <2>5 DEF Missed
<1>3. CASE L # 1
  BY <1>n, <1>1, <1>3 DEF Missed
<1>. QED  BY <1>2, <1>3

\* A colon comes: everything stays.
LEMMA LookingAssigns ==
  ASSUME NEW p \in Paths, NEW d, Looking(p, d), Assigns, NEW t, t = ":", NEW c,
         Calls(p, d, t, c), there'[p] = there[p]
  PROVE  Looking(p, c)'
<1>1. c = d
  <2>1. \A b, h : mjson_get_cb(p, d, t, b, h) = d
    BY CursorStays
  <2>. QED  BY <2>1, Zenon DEF Calls
<1>2. around' = around /\ expecting = "COLON" /\ expecting' = "VALUE"
  BY DEF Assigns
<1>3. \A k \in 1..Len(p) : Reached(p, k) => Reached(p, k)'
  BY <1>2 DEF Reached, Undone
<1>4. CASE Before(p, d)
  <2>1. \A k \in 1..d.d2 : Reached(p, k) => Reached(p, k)'
    BY <1>2 DEF Reached, Undone
  <2>2. Before(p, c)'
    BY <1>1, <1>2, <1>4, <2>1 DEF Before
  <2>. QED  BY <2>2 DEF Looking
<1>5. CASE Inside(p, d)
  <2>1. Inside(p, c)'
    BY <1>1, <1>2, <1>5 DEF Inside
  <2>. QED  BY <2>1 DEF Looking
<1>6. CASE Found(p, d) /\ Behind(p)
  <2>1. Found(p, c)'
    BY <1>1, <1>6 DEF Found
  <2>2. Behind(p)'
    BY <1>6, BehindAssigns
  <2>. QED  BY <2>1, <2>2 DEF Looking
<1>7. CASE Missed(p, d) /\ Behind(p)
  <2>1. Missed(p, c)'
    BY <1>1, <1>2, <1>7 DEF Missed
  <2>2. Behind(p)'
    BY <1>7, BehindAssigns
  <2>. QED  BY <2>1, <2>2 DEF Looking
<1>. QED  BY <1>4, <1>5, <1>6, <1>7 DEF Looking

\* A comma comes, before the path:
LEMMA BeforeSeparates ==
  ASSUME NEW p \in Paths, NEW d, Pointing(p, d), StackInv, NameInv, Before(p, d),
         NEW t, IsComma(t), Separates, NEW c, Calls(p, d, t, c), there'[p] = there[p]
  PROVE  Before(p, c)'
<1>n. PICK n \in Nat, m \in Nat, L \in Nat : n = Len(around) /\ m = d.d2 /\ L = Len(p)
  BY Numbers
<1>a. m <= n /\ m <= L /\ (m < n => m < L) /\ n # 0
  BY <1>n DEF Before, Separates
<1>0. /\ around \in Seq(Frame) /\ d.pos = m + 1 /\ d.d1 = n
      /\ d.tok = "invalid" /\ d.obj = "none" /\ there'[p] = "absent"
  BY <1>n, Numbers DEF Before
<1>1. Len(around') = n /\ \A k \in 1..(n - 1) : around'[k] = around[k]
  BY <1>n DEF Separates
<1>2. \A k \in 1..m : Spot(around[k]) = p[k]
  BY <1>n DEF Before, Reached
<1>3. m < n
  <2>1. m # n
    <3>1. SUFFICES ASSUME m = n PROVE FALSE
      OBVIOUS
    <3>2. m \in 1..m
      BY <1>a, <3>1
    <3>3. Reached(p, m)
      BY <1>n, <3>2 DEF Before
    <3>. QED  BY <1>n, <3>1, <3>3 DEF Reached, Undone, Separates
  <2>. QED  BY <1>a, <2>1
<1>4. SeparatesTo(d, c)
  BY <1>0, CursorSeparates DEF Calls
<1>5. \A k \in 1..m : Spot(around'[k]) = p[k] /\ k # n
  <2>1. \A k \in 1..m : k \in 1..(n - 1) /\ k # n
    BY <1>3
  <2>. QED  BY <1>1, <1>2, <2>1
<1>6. \A k \in 1..m : Reached(p, k)'
  BY <1>1, <1>5 DEF Reached
<1>7. /\ m + 1 \in 1..L /\ m + 1 \in 1..n /\ Ahead(p[m + 1], around[m + 1])
      /\ ~IsObject(around[m + 1].open) => d.i1 = around[m + 1].index /\ d.i2 = p[m + 1].index
  BY <1>n, <1>a, <1>3 DEF Before
<1>8. ~Ended(p, d) /\ p[d.pos] = p[m + 1]
  BY <1>n, <1>a, <1>0, <1>3 DEF Ended
<1>9. CASE m + 1 = n
  <2>1. /\ around'[n].open = around[n].open /\ around'[n].index = around[n].index + 1
        /\ around'[n].seen = around[n].seen
        /\ ~IsObject(around[n].open) => expecting' = "VALUE"
    BY <1>n DEF Separates
  <2>2. around[n] \in Frame /\ Element(p[n]) /\ Ahead(p[n], around[n])
    BY <1>n, <1>0, <1>7, <1>9, ElementOfSeq, PathIsElements
  <2>3. d.d1 = d.d2 + 1 /\ d.i1 \in Nat /\ d.i2 \in Nat
    BY <1>n, <1>0, <1>9, Numbers
  <2>4. CASE IsObject(around[n].open)
    <3>1. d.i1 + 1 # d.i2
      <4>1. ~IsAt(p[d.pos])
        BY <1>8, <1>9, <2>2, <2>4 DEF Ahead
      <4>2. ~(d.i1 < d.i2)
        BY <4>1, Numbers
      <4>. QED  BY <2>3, <4>2
    <3>2. c.pos = d.pos /\ c.d2 = d.d2 /\ c.d1 = d.d1 /\ c.obj = d.obj /\ c.tok = "invalid"
      BY <1>4, <2>3, <3>1 DEF SeparatesTo
    <3>3. Ahead(p[m + 1], around'[m + 1]) /\ IsObject(around'[m + 1].open)
      BY <1>9, <2>1, <2>2, <2>4 DEF Ahead
    <3>4. c.pos = c.d2 + 1 /\ c.d1 = Len(around') /\ c.d2 <= Len(around') /\ c.d2 <= L /\ c.d2 < L
      BY <1>n, <1>a, <1>0, <1>1, <1>3, <3>2
    <3>5. c.d2 = m /\ c.tok = "invalid" /\ c.obj = "none"
      BY <1>n, <1>0, <3>2
    <3>. QED  BY <1>n, <1>0, <1>6, <3>3, <3>4, <3>5 DEF Before
  <2>5. CASE ~IsObject(around[n].open)
    <3>1. /\ p[n].index \in Nat
          /\ around[n].index + 1 = p[n].index => Spot(around'[n]) = p[n]
          /\ around[n].index + 1 # p[n].index => Ahead(p[n], around'[n])
      BY <2>1, <2>2, <2>5, FrameSeparated
    <3>2. d.i1 = around[n].index /\ d.i2 = p[n].index /\ c.i1 = d.i1 + 1 /\ c.i2 = d.i2
          /\ c.d1 = n /\ c.obj = "none" /\ c.tok = "invalid"
      BY <1>0, <1>4, <1>7, <1>9, <2>3, <2>5 DEF SeparatesTo
    <3>3. CASE d.i1 + 1 = d.i2
      <4>1. c.pos = d.pos + 1 /\ c.d2 = d.d2 + 1
        BY <1>4, <2>3, <3>3 DEF SeparatesTo
      <4>2. c.pos = n + 1 /\ c.d2 = n
        BY <1>n, <1>0, <1>9, <4>1
      <4>3. Reached(p, n)'
        BY <2>1, <2>5, <3>1, <3>2, <3>3 DEF Reached, Undone
      <4>4. \A k \in 1..n : Reached(p, k)'
        <5>1. \A k \in 1..n : k \in 1..m \/ k = n
          BY <1>9
        <5>. QED  BY <1>6, <4>3, <5>1
      <4>5. c.pos = c.d2 + 1 /\ c.d1 = Len(around') /\ c.d2 <= Len(around') /\ c.d2 <= L
            /\ ~(c.d2 < Len(around'))
        BY <1>1, <1>7, <1>9, <3>2, <4>2
      <4>. QED  BY <1>n, <1>0, <3>2, <4>2, <4>4, <4>5 DEF Before
    <3>4. CASE d.i1 + 1 # d.i2
      <4>1. c.pos = d.pos /\ c.d2 = d.d2
        BY <1>4, <2>3, <3>4 DEF SeparatesTo
      <4>2. /\ Ahead(p[m + 1], around'[m + 1])
            /\ c.i1 = around'[m + 1].index /\ c.i2 = p[m + 1].index
        BY <1>9, <2>1, <3>1, <3>2, <3>4
      <4>3. /\ c.pos = c.d2 + 1 /\ c.d1 = Len(around') /\ c.d2 <= Len(around') /\ c.d2 <= L
            /\ c.d2 < L /\ c.d2 = m
        BY <1>n, <1>a, <1>0, <1>1, <1>3, <3>2, <4>1
      <4>. QED  BY <1>n, <1>0, <1>6, <3>2, <4>2, <4>3 DEF Before
    <3>. QED  BY <3>3, <3>4
  <2>. QED  BY <2>4, <2>5
<1>10. CASE m + 1 # n
  <2>1. around'[m + 1] = around[m + 1]
    <3>1. m + 1 \in 1..(n - 1)
      BY <1>7, <1>10
    <3>. QED  BY <1>1, <3>1
  <2>2. c = d
    <3>1. d.d1 # d.d2 + 1
      BY <1>n, <1>0, <1>10
    <3>. QED  BY <1>4, <3>1 DEF SeparatesTo
  <2>3. c.pos = c.d2 + 1 /\ c.d1 = Len(around') /\ c.d2 <= Len(around') /\ c.d2 <= L /\ c.d2 < L
    BY <1>n, <1>a, <1>0, <1>1, <1>3, <2>2
  <2>4. c.d2 = m /\ c.tok = "invalid" /\ c.obj = "none" /\ c.i1 = d.i1 /\ c.i2 = d.i2
    BY <1>n, <1>0, <2>2
  <2>. QED  BY <1>n, <1>0, <1>6, <1>7, <2>1, <2>3, <2>4 DEF Before
<1>. QED  BY <1>9, <1>10

\* inside the container at the path;
LEMMA InsideSeparates ==
  ASSUME NEW p \in Paths, NEW d, Pointing(p, d), StackInv, Inside(p, d),
         NEW t, IsComma(t), Separates, NEW c, Calls(p, d, t, c), there'[p] = there[p]
  PROVE  Inside(p, c)'
<1>n. PICK n \in Nat, L \in Nat : n = Len(around) /\ L = Len(p)
  BY Numbers
<1>0. /\ there'[p] = Kind(around[L + 1].open) /\ \A k \in 1..L : Spot(around[k]) = p[k]
  BY <1>n DEF Inside
<1>1. /\ d.pos = L + 1 /\ d.d1 = n /\ d.d2 = L /\ L < n /\ d.tok = "invalid"
      /\ d.obj = "right"
  BY <1>n DEF Inside
<1>2. SeparatesTo(d, c)
  BY <1>1, CursorSeparates DEF Calls
<1>3. d.i1 + 1 # d.i2
  <2>1. ~(d.pos \in 1..Len(p))
    BY <1>n, <1>1
  <2>2. ~(d.i1 < d.i2) /\ d.i1 \in Nat /\ d.i2 \in Nat
    BY <2>1, Numbers
  <2>. QED  BY <2>2
<1>8. c.pos = L + 1 /\ c.d1 = n /\ c.d2 = L /\ c.tok = "invalid" /\ c.obj = "right"
  <2>1. CASE d.d1 = d.d2 + 1
    BY <1>1, <1>2, <1>3, <2>1 DEF SeparatesTo
  <2>2. CASE d.d1 # d.d2 + 1
    BY <1>1, <1>2, <2>2 DEF SeparatesTo
  <2>. QED  BY <2>1, <2>2
<1>4. /\ Len(around') = n /\ around'[n].open = around[n].open
      /\ \A k \in 1..(n - 1) : around'[k] = around[k]
  BY <1>n DEF Separates
<1>5. \A k \in 1..L : k \in 1..(n - 1)
  BY <1>1
<1>6. around'[L + 1].open = around[L + 1].open
  <2>1. L + 1 = n \/ L + 1 \in 1..(n - 1)
    BY <1>1
  <2>. QED  BY <1>4, <2>1
<1>7. there'[p] = Kind(around'[L + 1].open) /\ \A k \in 1..L : Spot(around'[k]) = p[k]
  BY <1>0, <1>4, <1>5, <1>6
<1>9. c.pos = c.d2 + 1 /\ c.d1 = Len(around') /\ L < Len(around')
  BY <1>1, <1>4, <1>8
<1>. QED  BY <1>n, <1>7, <1>8, <1>9 DEF Inside

\* past the path.
LEMMA MissedSeparates ==
  ASSUME NEW p \in Paths, NEW d, Pointing(p, d), StackInv, Missed(p, d),
         NEW t, IsComma(t), Separates, NEW c, Calls(p, d, t, c), there'[p] = there[p]
  PROVE  Missed(p, c)'
<1>n. PICK n \in Nat, L \in Nat : n = Len(around) /\ L = Len(p)
  BY Numbers
<1>1. there'[p] = "absent"
  BY DEF Missed
<1>2. CASE L = 1
  <2>1. /\ d.tok = "invalid" /\ d.obj = "none" /\ d.i2 <= d.i1
        /\ d.d2 = 0 /\ d.pos = 1 /\ d.d1 = n
    BY <1>n, <1>2 DEF Missed
  <2>2. SeparatesTo(d, c)
    BY <2>1, CursorSeparates DEF Calls
  <2>3. PICK i \in Nat, j \in Nat : i = d.i1 /\ j = d.i2 /\ j <= i
    BY <2>1, Numbers
  <2>4. d.i1 + 1 # d.i2 /\ j <= i + 1
    BY <2>3
  <2>5. Len(around') = n
    BY <1>n DEF Separates
  <2>6. CASE d.d1 = d.d2 + 1
    <3>1. /\ c.tok = "invalid" /\ c.obj = "none" /\ c.i1 = i + 1 /\ c.i2 = j
          /\ c.d2 = 0 /\ c.pos = 1 /\ c.d1 = n
      BY <2>1, <2>2, <2>3, <2>4, <2>6 DEF SeparatesTo
    <3>2. c.i2 <= c.i1
      BY <2>4, <3>1
    <3>. QED  BY <1>1, <2>5, <3>1, <3>2 DEF Missed
  <2>7. CASE d.d1 # d.d2 + 1
    <3>1. c = d
      BY <2>2, <2>7 DEF SeparatesTo
    <3>. QED  BY <1>1, <2>1, <2>5, <3>1 DEF Missed
  <2>. QED  BY <2>6, <2>7
<1>3. CASE L # 1
  BY <1>n, <1>1, <1>3 DEF Missed
<1>. QED  BY <1>2, <1>3

(* Put together, token by token. *)

\* What has been found stays.
LEMMA FoundStays ==
  ASSUME NEW p \in Paths, NEW d, Found(p, d), there[p] # "invalid", NEW t, NEW c,
         Calls(p, d, t, c) \/ CallsName(p, d, t, c), there'[p] = there[p]
  PROVE  Found(p, c)' /\ Over(p, c)'
<1>1. d.tok # "invalid"
  BY DEF Found
<1>2. c = d
  <2>1. \A b, h : mjson_get_cb(p, d, t, b, h) = d
    BY <1>1, CursorStays
  <2>. QED  BY <2>1, Zenon DEF Calls, CallsName
<1>3. Found(p, c)'
  BY <1>2 DEF Found
<1>. QED  BY <1>3 DEF Over, Found

\* A container opens:
LEMMA LookingOpens ==
  ASSUME NEW p \in Paths, NEW d, Pointing(p, d), StackInv, NameInv, Looking(p, d),
         there[p] # "invalid", around = <<>> => d = Start,
         NEW t \in Opening, Opens(t), NEW c, Calls(p, d, t, c),
         there'[p] = IF Where = p THEN Kind(t) ELSE there[p]
  PROVE  Looking(p, c)'
<1>1. CASE Before(p, d)
  <2>1. Before(p, c)' \/ Inside(p, c)' \/ (Missed(p, c)' /\ Behind(p)')
    BY <1>1, BeforeOpens
  <2>. QED  BY <2>1 DEF Looking
<1>2. CASE Inside(p, d)
  <2>1. Inside(p, c)'
    BY <1>2, InsideOpens
  <2>. QED  BY <2>1 DEF Looking
<1>3. CASE Behind(p)
  <2>1. Behind(p)' /\ there'[p] = there[p]
    BY <1>3, Numbers, BehindOpens, BehindIsElsewhere DEF Opens
  <2>2. Found(p, d) => Found(p, c)'
    BY <2>1, FoundStays
  <2>3. Missed(p, d) => Missed(p, c)'
    BY <1>3, MissedOpens
  <2>4. CASE Before(p, d) \/ Inside(p, d)
    BY <1>1, <1>2, <2>4
  <2>. QED  BY <2>1, <2>2, <2>3, <2>4 DEF Looking
<1>. QED  BY <1>1, <1>2, <1>3 DEF Looking

\* one is closed:
LEMMA LookingCloses ==
  ASSUME NEW p \in Paths, NEW d, Pointing(p, d), StackInv, NameInv, Looking(p, d),
         there[p] # "invalid", NEW t \in Closing, Closes, NEW c, Calls(p, d, t, c),
         there'[p] = there[p], Kind(around[Len(around)].open) = ClosedKind(t)
  PROVE  /\ Len(around') > 0 => Looking(p, c)'
         /\ Len(around') = 0 => Over(p, c)'
<1>1. CASE Before(p, d)
  <2>1. /\ Len(around') > 0 => Before(p, c)' \/ (Missed(p, c)' /\ Behind(p)')
        /\ Len(around') = 0 => Over(p, c)'
    BY <1>1, BeforeCloses
  <2>. QED  BY <2>1 DEF Looking
<1>2. CASE Inside(p, d)
  <2>1. /\ Len(around') > 0 => Inside(p, c)' \/ (Found(p, c)' /\ Behind(p)')
        /\ Len(around') = 0 => Over(p, c)'
    BY <1>2, InsideCloses
  <2>. QED  BY <2>1 DEF Looking
<1>3. CASE Behind(p) /\ (Found(p, d) \/ Missed(p, d))
  <2>1. Len(around') > 0 => Behind(p)'
    BY <1>3, Numbers, BehindCloses
  <2>2. Found(p, d) => Found(p, c)' /\ Over(p, c)'
    BY FoundStays
  <2>3. Missed(p, d) => Missed(p, c)' /\ Over(p, c)'
    <3>1. Missed(p, d) => Missed(p, c)'
      BY MissedCloses
    <3>2. Missed(p, c)' => Over(p, c)'
      BY DEF Missed, Over
    <3>. QED  BY <3>1, <3>2
  <2>. QED  BY <1>3, <2>1, <2>2, <2>3 DEF Looking
<1>. QED  BY <1>1, <1>2, <1>3 DEF Looking

\* a value that is none comes:
LEMMA LookingEnding ==
  ASSUME NEW p \in Paths, NEW d, Pointing(p, d), StackInv, NameInv, Looking(p, d),
         there[p] # "invalid", NEW t, t \in Scalars \cup Names \cup {"-"}, Ending, NEW c,
         Calls(p, d, t, c), there'[p] = IF Where = p THEN Kind(t) ELSE there[p]
  PROVE  /\ Len(around') > 0 => Looking(p, c)'
         /\ Len(around') = 0 => Over(p, c)'
<1>1. CASE Before(p, d)
  <2>1. /\ Len(around') > 0 =>
             Before(p, c)' \/ (Found(p, c)' /\ Behind(p)') \/ (Missed(p, c)' /\ Behind(p)')
        /\ Len(around') = 0 => Over(p, c)'
    BY <1>1, BeforeEnding
  <2>. QED  BY <2>1 DEF Looking
<1>2. CASE Inside(p, d)
  <2>1. Len(around') > 0 /\ Inside(p, c)'
    BY <1>2, InsideEnding
  <2>2. Len(around') # 0
    BY <2>1
  <2>. QED  BY <2>1, <2>2 DEF Looking
<1>3. CASE Behind(p) /\ (Found(p, d) \/ Missed(p, d))
  <2>1. Behind(p)' /\ there'[p] = there[p]
    BY <1>3, Numbers, BehindEnding, BehindIsElsewhere DEF Ending
  <2>2. Found(p, d) => Found(p, c)' /\ Over(p, c)'
    BY <2>1, FoundStays
  <2>3. Missed(p, d) => Missed(p, c)' /\ Over(p, c)'
    <3>1. Missed(p, d) => Missed(p, c)'
      BY <1>3, MissedEnding
    <3>2. Missed(p, c)' => Over(p, c)'
      BY DEF Missed, Over
    <3>. QED  BY <3>1, <3>2
  <2>. QED  BY <1>3, <2>1, <2>2, <2>3 DEF Looking
<1>. QED  BY <1>1, <1>2, <1>3 DEF Looking

\* a name comes:
LEMMA LookingNames ==
  ASSUME NEW p \in Paths, NEW d, Pointing(p, d), StackInv, NameInv, Looking(p, d),
         there[p] # "invalid", NEW t, Naming(t), NEW c, CallsName(p, d, t, c),
         there'[p] = there[p]
  PROVE  Looking(p, c)'
<1>1. CASE Before(p, d)
  <2>1. Before(p, c)'
    BY <1>1, BeforeNaming
  <2>. QED  BY <2>1 DEF Looking
<1>2. CASE Inside(p, d)
  <2>1. Inside(p, c)'
    BY <1>2, InsideNaming
  <2>. QED  BY <2>1 DEF Looking
<1>3. CASE Behind(p) /\ (Found(p, d) \/ Missed(p, d))
  <2>1. Behind(p)'
    BY <1>3, Numbers, BehindNames
  <2>2. Found(p, d) => Found(p, c)'
    BY FoundStays
  <2>3. Missed(p, d) => Missed(p, c)'
    BY <1>3, MissedNaming
  <2>. QED  BY <1>3, <2>1, <2>2, <2>3 DEF Looking
<1>. QED  BY <1>1, <1>2, <1>3 DEF Looking

\* a comma comes:
LEMMA LookingSeparates ==
  ASSUME NEW p \in Paths, NEW d, Pointing(p, d), StackInv, NameInv, Looking(p, d),
         there[p] # "invalid", NEW t, IsComma(t), Separates, NEW c, Calls(p, d, t, c),
         there'[p] = there[p]
  PROVE  Looking(p, c)'
<1>1. CASE Before(p, d)
  <2>1. Before(p, c)'
    BY <1>1, BeforeSeparates
  <2>. QED  BY <2>1 DEF Looking
<1>2. CASE Inside(p, d)
  <2>1. Inside(p, c)'
    BY <1>2, InsideSeparates
  <2>. QED  BY <2>1 DEF Looking
<1>3. CASE Behind(p) /\ (Found(p, d) \/ Missed(p, d))
  <2>1. Behind(p)'
    BY <1>3, Numbers, BehindSeparates
  <2>2. Found(p, d) => Found(p, c)'
    BY FoundStays
  <2>3. Missed(p, d) => Missed(p, c)'
    BY MissedSeparates
  <2>. QED  BY <1>3, <2>1, <2>2, <2>3 DEF Looking
<1>. QED  BY <1>1, <1>2, <1>3 DEF Looking

Searching(t) == Goes(t) /\ Bounded(t) /\ CursorInv /\ SeenInv /\ SearchInv

\* What is known when a token comes.
LEMMA BeforeToken ==
  ASSUME NEW t, Searching(t)
  PROVE  /\ StackInv /\ NameInv /\ around \in Seq(Frame) /\ Len(around) \in Nat
         /\ Len(nesting) = Len(around) /\ (nesting = <<>> <=> Len(around) = 0)
         /\ \A p \in Paths : /\ Pointing(p, data[p]) /\ Looking(p, data[p])
                             /\ there[p] # "invalid" /\ (around = <<>> => data[p] = Start)
<1>1. "invalid" \notin Kinds \cup {"absent"}
  BY DEF Kinds, Scalars
<1>2. \A p \in Paths : there[p] # "invalid"
  BY <1>1 DEF Searching, SeenInv
<1>3. StackInv /\ around \in Seq(Frame) /\ Len(around) \in Nat
  BY LenProperties DEF Searching, Goes, ReadingInv, StackInv
<1>4. Len(nesting) = Len(around) /\ (nesting = <<>> <=> Len(around) = 0)
  BY <1>3, EmptySeq DEF StackInv
<1>. QED  BY <1>2, <1>3, <1>4 DEF Searching, Goes, SearchInv, CursorInv

\* What a call of the callback does for one path.
LEMMA Called ==
  ASSUME NEW t, Searching(t), NEW p \in Paths
  PROVE  /\ Call(t, FALSE) => Calls(p, data[p], t, data'[p])
         /\ Call(t, TRUE) => CallsName(p, data[p], t, data'[p])
         /\ \A isKey : Call(t, isKey) =>
              there'[p] = IF expecting = "VALUE" /\ t \notin Closing /\ Where = p
                          THEN Kind(t) ELSE there[p]
<1>1. ASSUME NEW isKey, Call(t, isKey)
      PROVE  data'[p] = mjson_get_cb(p, data[p], t, isKey, Where = p)
  <2>1. data' = [q \in Paths |-> mjson_get_cb(q, data[q], t, isKey, Where = q)]
    BY <1>1 DEF Call
  <2>. QED  BY <2>1, Zenon
<1>2. ASSUME NEW isKey, Call(t, isKey)
      PROVE  there'[p] = IF expecting = "VALUE" /\ t \notin Closing /\ Where = p
                         THEN Kind(t) ELSE there[p]
  <2>1. there' = [q \in Paths |-> IF (expecting = "VALUE" /\ t \notin Closing) /\ Where = q
                                  THEN Kind(t) ELSE there[q]]
    BY <1>2 DEF Call
  <2>. QED  BY <2>1
<1>3. Call(t, FALSE) => Calls(p, data[p], t, data'[p])
  BY <1>1, Zenon DEF Calls
<1>4. Call(t, TRUE) => CallsName(p, data[p], t, data'[p])
  BY <1>1, Zenon DEF CallsName
<1>. QED  BY <1>2, <1>3, <1>4

\* A text that is refused is searched no more.
LEMMA SearchRefused ==
  ASSUME NEW t, Searching(t), NEW r, r \in {"INVALID_INPUT", "TOO_DEEP"}, Return(r)
  PROVE  SearchInv'
<1>1. NameInv'
  BY BeforeToken DEF Return, NameInv
<1>. QED  BY <1>1 DEF Return, SearchInv

\* After a move of the text that goes on, the search does too.
LEMMA SearchGoesOn ==
  ASSUME NameInv', Len(around') > 0, result' = "reading", around' \in Seq(Frame),
         NEW D, D = data', \A p \in Paths : Looking(p, D[p])'
  PROVE  SearchInv'
<1>1. around' # <<>>
  BY EmptySeq
<1>. QED  BY <1>1 DEF SearchInv

\* The search goes on when a container opens,
LEMMA SearchOpens ==
  ASSUME NEW t \in Tokens, Searching(t), Open(t)
  PROVE  SearchInv'
<1>1. t \in Opening /\ expecting = "VALUE" /\ t \notin Closing
  BY TokensApart DEF Open
<1>2. CASE Return("TOO_DEEP")
  BY <1>2, SearchRefused
<1>3. CASE ~Return("TOO_DEEP")
  <2>1. /\ result' = result /\ expecting' = IF t = "{" THEN "KEY" ELSE "VALUE"
        /\ Call(t, FALSE) /\ Surround(t, FALSE)
    BY <1>3 DEF Open, Call
  <2>2. around' = Append(around, [open |-> t, name |-> "", index |-> 0, seen |-> {}])
    BY <1>1, <2>1, Surrounds
  <2>3. PICK f \in Frame : f.open = t /\ f.index = 0 /\ f.seen = {} /\ around' = Append(around, f)
    BY <1>1, <2>2 DEF Frame
  <2>4. /\ around' \in Seq(Frame) /\ Len(around') = Len(around) + 1 /\ Len(around) \in Nat
        /\ Top(around') = f /\ \A k \in 1..Len(around) : around'[k] = around[k]
    BY <2>3, BeforeToken, Pushed
  <2>5. expecting' = IF IsObject(t) THEN "KEY" ELSE "VALUE"
    BY <2>1, Zenon DEF IsObject
  <2>6. Opens(t)
    BY <1>1, <2>3, <2>4, <2>5 DEF Opens, Top
  <2>7. NameInv'
    BY <2>6, BeforeToken, NamesAreSeen
  <2>8. ASSUME NEW p \in Paths, NEW c, c = data'[p] PROVE Looking(p, c)'
    <3>1. Calls(p, data[p], t, c) /\ there'[p] = IF Where = p THEN Kind(t) ELSE there[p]
      BY <1>1, <2>1, <2>8, Called
    <3>. QED  BY <1>1, <2>6, <3>1, BeforeToken, LookingOpens
  <2>9. PICK D : D = data'
    OBVIOUS
  <2>10. Len(around') > 0
    BY <2>4
  <2>11. result' = "reading"
    BY <1>3 DEF Open, Searching, Goes
  <2>. QED  BY <2>4, <2>7, <2>8, <2>9, <2>10, <2>11, SearchGoesOn
<1>. QED  BY <1>2, <1>3

\* After a move of the text that may end it, the search goes on or is over.
LEMMA SearchMayEnd ==
  ASSUME NameInv', around' \in Seq(Frame),
         result' = IF Len(around') = 0 THEN "length" ELSE "reading",
         NEW D, D = data',
         \A p \in Paths : /\ Len(around') > 0 => Looking(p, D[p])'
                          /\ Len(around') = 0 => Over(p, D[p])'
  PROVE  SearchInv'
<1>1. Len(around') \in Nat
  BY LenProperties
<1>2. CASE Len(around') = 0
  BY <1>2 DEF SearchInv
<1>3. CASE Len(around') # 0
  <2>1. Len(around') > 0 /\ result' = "reading"
    BY <1>1, <1>3
  <2>. QED  BY <2>1, SearchGoesOn
<1>. QED  BY <1>2, <1>3

\* goes on or is over when one is closed,
LEMMA SearchCloses ==
  ASSUME NEW t \in Tokens, Searching(t), Close(t)
  PROVE  SearchInv'
<1>1. /\ t \in Closing /\ nesting # <<>> /\ nesting' = Pop(nesting)
      /\ expecting' = "COMMA_OR_EOO" /\ Call(t, FALSE) /\ Surround(t, FALSE)
      /\ result' = IF nesting' = <<>> THEN "length" ELSE "reading"
  BY DEF Close, Call, Ends
<1>2. around' = Pop(around)
  BY <1>1, Surrounds
<1>3. StackInv'
  BY <1>1, <1>2, BeforeToken, StackCloses
<1>4. /\ around' \in Seq(Frame) /\ Len(around') \in Nat /\ Len(nesting') = Len(around')
      /\ (nesting' = <<>> <=> Len(around') = 0)
  BY <1>3, LenProperties, EmptySeq DEF StackInv
<1>5. around # <<>> /\ Top(nesting) = Top(around).open /\ Top(nesting) \in Opening
  BY <1>1, BeforeToken, TopIsOpen
<1>6. /\ Len(around') = Len(around) - 1 /\ Len(around) \in Nat \ {0}
      /\ \A k \in 1..(Len(around) - 1) : around'[k] = around[k]
  BY <1>2, <1>5, BeforeToken, PopAndTop
<1>7. Closes
  BY <1>1, <1>6 DEF Closes
<1>8. Kind(around[Len(around)].open) = ClosedKind(t)
  <2>1. Top(nesting) = IF t = "}" THEN "{" ELSE "["
    BY Zenon DEF Close
  <2>2. Kind("{") = "object" /\ Kind("[") = "array"
    <3>1. "{" \notin Scalars /\ "[" \notin Scalars /\ "{" # "-" /\ "[" # "-" /\ "{" # "["
      BY DEF Scalars
    <3>. QED  BY <3>1, Zenon DEF Kind
  <2>3. around[Len(around)].open = Top(nesting)
    BY <1>5 DEF Top
  <2>4. Kind(Top(nesting)) = ClosedKind(t)
    BY <2>1, <2>2, Zenon DEF ClosedKind
  <2>. QED  BY <2>3, <2>4
<1>9. NameInv'
  BY <1>7, BeforeToken, NamesAreSeen
<1>10. ASSUME NEW p \in Paths, NEW c, c = data'[p]
       PROVE  /\ Len(around') > 0 => Looking(p, c)'
              /\ Len(around') = 0 => Over(p, c)'
  <2>1. Calls(p, data[p], t, c) /\ there'[p] = there[p]
    BY <1>1, <1>10, Called
  <2>. QED  BY <1>1, <1>7, <1>8, <2>1, BeforeToken, LookingCloses
<1>11. PICK D : D = data'
  OBVIOUS
<1>. QED  BY <1>1, <1>4, <1>9, <1>10, <1>11, SearchMayEnd

\* or when a value comes,
LEMMA SearchValued ==
  ASSUME NEW t \in Tokens, Searching(t), expecting = "VALUE",
         t \in Scalars \cup Names \cup {"-"}, nesting # <<>> => expecting' = "COMMA_OR_EOO",
         Call(t, FALSE), Ends(nesting)
  PROVE  SearchInv'
<1>1. t \notin Opening /\ t \notin Closing /\ t # ","
  BY TokensApart
<1>2. around' = around
  BY <1>1, Surrounds DEF Call
<1>3. /\ around' \in Seq(Frame) /\ Len(around') \in Nat
      /\ (nesting = <<>> <=> Len(around') = 0)
  BY <1>2, BeforeToken
<1>4. Ending
  <2>1. Len(around) > 0 => nesting # <<>>
    BY <1>2, <1>3
  <2>. QED  BY <1>2, <2>1 DEF Ending
<1>5. NameInv'
  BY <1>4, BeforeToken, NamesAreSeen
<1>6. ASSUME NEW p \in Paths, NEW c, c = data'[p]
      PROVE  /\ Len(around') > 0 => Looking(p, c)'
             /\ Len(around') = 0 => Over(p, c)'
  <2>1. Calls(p, data[p], t, c)
    BY <1>6, Called
  <2>2. there'[p] = IF Where = p THEN Kind(t) ELSE there[p]
    BY <1>1, Called
  <2>. QED  BY <1>4, <2>1, <2>2, BeforeToken, LookingEnding
<1>7. result' = IF Len(around') = 0 THEN "length" ELSE "reading"
  BY <1>3 DEF Ends
<1>8. PICK D : D = data'
  OBVIOUS
<1>. QED  BY <1>3, <1>5, <1>6, <1>7, <1>8, SearchMayEnd

\* goes on when a name comes,
LEMMA SearchNames ==
  ASSUME NEW t \in Tokens, Searching(t), Name(t)
  PROVE  SearchInv'
<1>1. /\ expecting = "KEY" /\ t \in Names /\ expecting' = "COLON" /\ result' = result
      /\ Call(t, TRUE) /\ Surround(t, TRUE)
  BY DEF Name, Call
<1>2. nesting # <<>> /\ Top(nesting) = "{"
  BY <1>1 DEF Searching, Goes, ReadingInv, StateInv
<1>3. /\ around # <<>> /\ Top(around) \in Frame /\ Top(nesting) = Top(around).open
      /\ Top(around) = around[Len(around)]
  BY <1>2, BeforeToken, TopIsOpen DEF Top
<1>4. IsObject(Top(around).open)
  BY <1>2, <1>3, Zenon DEF IsObject
<1>5. around' = Append(Pop(around), [Top(around) EXCEPT !.name = t, !.seen = @ \cup {t}])
  BY <1>1, Surrounds
<1>6. t \notin Top(around).seen
  BY <1>1 DEF Searching, Bounded
<1>7. PICK f \in Frame : /\ f.open = Top(around).open /\ f.name = t
                         /\ f.seen = Top(around).seen \cup {t}
                         /\ around' = Append(Pop(around), f)
  BY <1>1, <1>3, <1>5 DEF Frame
<1>8. /\ around' \in Seq(Frame) /\ Len(around') = Len(around) /\ Len(around) \in Nat \ {0}
      /\ \A k \in 1..Len(around) : around'[k] = IF k = Len(around) THEN f ELSE around[k]
  BY <1>3, <1>7, BeforeToken, Replaced, PopAndTop
<1>9. /\ around'[Len(around)] = f /\ \A k \in 1..(Len(around) - 1) : around'[k] = around[k]
      /\ Len(around) > 0
  BY <1>8
<1>10. Naming(t)
  BY <1>1, <1>3, <1>4, <1>6, <1>7, <1>8, <1>9 DEF Naming
<1>11. NameInv'
  BY <1>10, BeforeToken, NamesAreSeen
<1>12. ASSUME NEW p \in Paths, NEW c, c = data'[p] PROVE Looking(p, c)'
  <2>1. CallsName(p, data[p], t, c)
    BY <1>1, <1>12, Called
  <2>2. there'[p] = there[p]
    BY <1>1, Called
  <2>. QED  BY <1>10, <2>1, <2>2, BeforeToken, LookingNames
<1>13. PICK D : D = data'
  OBVIOUS
<1>14. result' = "reading"
  BY <1>1 DEF Searching, Goes
<1>. QED  BY <1>8, <1>9, <1>11, <1>12, <1>13, <1>14, SearchGoesOn

\* a colon,
LEMMA SearchAssigns ==
  ASSUME NEW t \in Tokens, Searching(t), Colon(t)
  PROVE  SearchInv'
<1>1. /\ expecting = "COLON" /\ t = ":" /\ expecting' = "VALUE" /\ result' = result
      /\ Call(t, FALSE) /\ Surround(t, FALSE)
  BY DEF Colon, Call
<1>2. around' = around
  BY <1>1, Surrounds, TokensApart
<1>3. nesting # <<>>
  BY <1>1 DEF Searching, Goes, ReadingInv, StateInv
<1>4. Assigns
  BY <1>1, <1>2 DEF Assigns
<1>5. around' \in Seq(Frame) /\ Len(around') > 0
  BY <1>2, <1>3, BeforeToken
<1>6. NameInv'
  BY <1>4, BeforeToken, NamesAreSeen
<1>7. ASSUME NEW p \in Paths, NEW c, c = data'[p] PROVE Looking(p, c)'
  <2>1. Calls(p, data[p], t, c)
    BY <1>1, <1>7, Called
  <2>2. there'[p] = there[p]
    BY <1>1, Called
  <2>. QED  BY <1>1, <1>4, <2>1, <2>2, BeforeToken, LookingAssigns
<1>8. PICK D : D = data'
  OBVIOUS
<1>9. result' = "reading"
  BY <1>1 DEF Searching, Goes
<1>. QED  BY <1>5, <1>6, <1>7, <1>8, <1>9, SearchGoesOn

\* and a comma.
LEMMA SearchSeparates ==
  ASSUME NEW t \in Tokens, Searching(t), Comma(t)
  PROVE  SearchInv'
<1>1. /\ expecting = "COMMA_OR_EOO" /\ IsComma(t) /\ result' = result
      /\ Call(t, FALSE) /\ Surround(t, FALSE)
  BY Zenon DEF Comma, Call, IsComma
<1>2. nesting # <<>>
  BY <1>1 DEF Searching, Goes, ReadingInv, StateInv
<1>3. /\ around # <<>> /\ Top(around) \in Frame /\ Top(nesting) = Top(around).open
      /\ Top(around) = around[Len(around)]
  BY <1>2, BeforeToken, TopIsOpen DEF Top
<1>4. expecting' = IF IsObject(Top(around).open) THEN "KEY" ELSE "VALUE"
  BY <1>3, Zenon DEF IsObject, Comma
<1>5. around' = Append(Pop(around), [Top(around) EXCEPT !.index = @ + 1])
  BY Surrounds DEF Comma, Call
<1>6. PICK f \in Frame : /\ f.open = Top(around).open /\ f.name = Top(around).name
                         /\ f.seen = Top(around).seen /\ f.index = Top(around).index + 1
                         /\ around' = Append(Pop(around), f)
  <2>1. Top(around).index \in Nat
    BY <1>3 DEF Frame
  <2>2. PICK n \in Nat : n = Top(around).index + 1
    BY <2>1
  <2>3. around' = Append(Pop(around), [Top(around) EXCEPT !.index = n])
    BY <1>5, <1>3, <2>2 DEF Frame
  <2>. QED  BY <1>3, <2>2, <2>3 DEF Frame
<1>7. /\ around' \in Seq(Frame) /\ Len(around') = Len(around) /\ Len(around) \in Nat \ {0}
      /\ \A k \in 1..Len(around) : around'[k] = IF k = Len(around) THEN f ELSE around[k]
  BY <1>3, <1>6, BeforeToken, Replaced, PopAndTop
<1>8. /\ around'[Len(around)] = f /\ \A k \in 1..(Len(around) - 1) : around'[k] = around[k]
      /\ Len(around) > 0
  BY <1>7
<1>9. Separates
  BY <1>1, <1>3, <1>4, <1>6, <1>7, <1>8 DEF Separates
<1>10. NameInv'
  BY <1>9, BeforeToken, NamesAreSeen
<1>11. ASSUME NEW p \in Paths, NEW c, c = data'[p] PROVE Looking(p, c)'
  <2>1. Calls(p, data[p], t, c)
    BY <1>1, <1>11, Called
  <2>2. there'[p] = there[p]
    BY <1>1, Called
  <2>. QED  BY <1>1, <1>9, <2>1, <2>2, BeforeToken, LookingSeparates
<1>12. PICK D : D = data'
  OBVIOUS
<1>13. result' = "reading"
  BY <1>1 DEF Searching, Goes
<1>. QED  BY <1>7, <1>8, <1>10, <1>11, <1>12, <1>13, SearchGoesOn

\* The search of every path goes on as it should, whatever the text.
THEOREM SearchInductive == Spec => []SearchInv
<1>. DEFINE Inv == ReadingInv /\ CursorInv /\ SeenInv
<1>1. Init => SearchInv
  <2>. SUFFICES ASSUME Init PROVE SearchInv
    OBVIOUS
  <2>1. around = <<>> /\ Len(around) = 0 /\ result = "reading"
    BY EmptySeq DEF Init
  <2>2. NameInv
    BY <2>1 DEF NameInv
  <2>3. ASSUME NEW p \in Paths PROVE Looking(p, data[p]) /\ data[p] = Start
    <3>1. data[p] = Start /\ there[p] = "absent"
      BY DEF Init
    <3>2. /\ Start.pos = 1 /\ Start.d1 = 0 /\ Start.d2 = 0 /\ Start.tok = "invalid"
          /\ Start.obj = "none"
      BY DEF Start
    <3>3. Len(p) \in Nat
      BY PathElements
    <3>4. /\ Start.pos = Start.d2 + 1 /\ Start.d1 = Len(around) /\ Start.d2 <= Len(around)
          /\ Start.d2 <= Len(p) /\ ~(Start.d2 < Len(around)) /\ \A k \in 1..Start.d2 : FALSE
      BY <2>1, <3>2, <3>3
    <3>5. Before(p, Start)
      BY <3>1, <3>2, <3>4 DEF Before
    <3>. QED  BY <3>1, <3>5 DEF Looking
  <2>. QED  BY <2>1, <2>2, <2>3 DEF SearchInv
<1>2. Inv /\ SearchInv /\ [Next]_vars => SearchInv'
  <2>. SUFFICES ASSUME Inv, SearchInv, [Next]_vars PROVE SearchInv'
    OBVIOUS
  <2>1. ASSUME NEW t \in Tokens, Read(t) PROVE SearchInv'
    <3>1. Searching(t)
      BY <2>1 DEF Read, Searching, Goes
    <3>2. CASE Open(t)
      BY <3>1, <3>2, SearchOpens
    <3>3. CASE Close(t)
      BY <3>1, <3>3, SearchCloses
    <3>4. CASE Scalar(t)
      <4>1. expecting = "VALUE" /\ expecting' = "COMMA_OR_EOO" /\ Call(t, FALSE) /\ Ends(nesting)
            /\ t \in Scalars \cup Names
        BY <3>4 DEF Scalar
      <4>. QED  BY <3>1, <4>1, SearchValued
    <3>5. CASE LoneMinus(t)
      <4>1. CASE nesting = <<>>
        <5>1. expecting = "VALUE" /\ Call(t, FALSE) /\ Ends(nesting) /\ t \in {"-"}
          BY <3>5, <4>1 DEF LoneMinus
        <5>. QED  BY <3>1, <4>1, <5>1, SearchValued
      <4>2. CASE nesting # <<>>
        BY <3>1, <3>5, <4>2, SearchRefused DEF LoneMinus
      <4>. QED  BY <4>1, <4>2
    <3>6. CASE Name(t)
      BY <3>1, <3>6, SearchNames
    <3>7. CASE Colon(t)
      BY <3>1, <3>7, SearchAssigns
    <3>8. CASE Comma(t)
      BY <3>1, <3>8, SearchSeparates
    <3>9. CASE Reject(t)
      BY <3>1, <3>9, SearchRefused DEF Reject
    <3>. QED  BY <2>1, <3>2, <3>3, <3>4, <3>5, <3>6, <3>7, <3>8, <3>9 DEF Read, Accepted
  <2>2. CASE TextEnds
    BY <2>2 DEF TextEnds, Return, SearchInv, NameInv
  <2>3. CASE UNCHANGED vars
    <3>1. /\ expecting' = expecting /\ nesting' = nesting /\ result' = result /\ data' = data
          /\ around' = around /\ there' = there
      BY <2>3 DEF vars
    <3>2. NameInv'
      BY <3>1 DEF SearchInv, NameInv
    <3>3. ASSUME NEW p \in Paths, NEW d
          PROVE  /\ Before(p, d) => Before(p, d)'
                 /\ Inside(p, d) => Inside(p, d)'
                 /\ Found(p, d) => Found(p, d)'
                 /\ Missed(p, d) => Missed(p, d)'
                 /\ Behind(p) => Behind(p)'
                 /\ Over(p, d) => Over(p, d)'
      BY <3>1 DEF Before, Inside, Found, Missed, Behind, Over, Reached, Undone
    <3>4. ASSUME NEW p \in Paths, NEW d
          PROVE  /\ Looking(p, d) => Looking(p, d)'
                 /\ Over(p, d) => Over(p, d)'
      BY <3>3 DEF Looking
    <3>5. PICK D : D = data
      OBVIOUS
    <3>6. D = data'
      BY <3>1, <3>5
    <3>. QED  BY <3>1, <3>2, <3>4, <3>5, <3>6 DEF SearchInv
  <2>. QED  BY <2>1, <2>2, <2>3 DEF Next
<1>. QED  BY <1>1, <1>2, ReadingInductive, CursorsInductive, PTL DEF Spec

\* What a JSON text has at a path, mjson_find finds, with its kind and at its place,
\* for every text, every path and every depth.
THEOREM WhatIsThereIsFound == Spec => []FindsWhatIsThere
<1>1. SearchInv => FindsWhatIsThere
  BY DEF SearchInv, FindsWhatIsThere, Json, mjson_find, Over, Found
<1>. QED  BY <1>1, SearchInductive, PTL

\* A field of the outermost object, or an item of the outermost array, that the text
\* does not have is not found.
THEOREM AbsentStaysUnfound == Spec => []AbsentIsNotFound
<1>1. SearchInv => AbsentIsNotFound
  BY DEF SearchInv, AbsentIsNotFound, Json, mjson_find, Over
<1>. QED  BY <1>1, SearchInductive, PTL
=============================================================================
