--------------------------- MODULE CJsonParseProofs ---------------------------
(***************************************************************************)
(* That texts of any length are read inside their buffer and inside the    *)
(* memory that is allocated for them.  parse_value calls itself for the    *)
(* members: Pa is any function that satisfies the equation it is defined   *)
(* by, and there is exactly one.                                           *)
(***************************************************************************)
EXTENDS CJsonParse, CJsonPrintProofs, SequenceTheorems

\* A parse_buffer, whatever was read.
Buffer(r) ==
  r \in [content : Seq(Int), length : Nat, offset : Nat, depth : Nat, ok : BOOLEAN,
         got : {r.got}, inside : BOOLEAN]

\* One whose offset is a place of the text, or its end.
Placed(b) == Buffer(b) /\ b.length = Len(b.content) /\ b.offset <= b.length

\* One that a value is to be read from.
ToRead == {b \in ParseBuffer : b.length = Len(b.content) /\ b.offset <= b.length}

\* What a function that parses may do with b: to go on in the text, and to fail.
Went(b, r) ==
  /\ Placed(r)
  /\ r.content = b.content
  /\ r.length = b.length
  /\ b.inside => r.inside
  /\ r.ok => b.ok
  /\ r.ok => r.depth = b.depth
  /\ r.ok => b.offset <= r.offset
Further(b, r) == Went(b, r) /\ (r.ok => b.offset < r.offset)

-----------------------------------------------------------------------------
(* One step. *)

\* Who goes on after another one has gone on too.
LEMMA WentTrans ==
  ASSUME NEW a, NEW b, NEW c, Placed(a), Placed(b), Went(a, b), Went(b, c)
  PROVE  Went(a, c) /\ (Further(a, b) \/ Further(b, c) => Further(a, c))
<1>1. a.offset \in Nat /\ b.offset \in Nat /\ c.offset \in Nat
  BY DEF Placed, Buffer, Went
<1>2. c.ok => b.ok
  BY Zenon DEF Went
<1>3. ASSUME c.ok
      PROVE  a.offset <= b.offset /\ b.offset <= c.offset /\ b.ok
  BY <1>2, <1>3 DEF Went
<1>4. c.ok => a.offset <= c.offset
  BY <1>1, <1>3
<1>5. Went(a, c)
  BY <1>2, <1>4, Zenon DEF Went
<1>6. Further(a, b) \/ Further(b, c) => (c.ok => a.offset < c.offset)
  <2>. SUFFICES ASSUME Further(a, b) \/ Further(b, c), c.ok PROVE a.offset < c.offset
    OBVIOUS
  <2>1. a.offset <= b.offset /\ b.offset <= c.offset /\ (a.offset < b.offset \/ b.offset < c.offset)
    BY <1>3 DEF Further
  <2>. QED  BY <1>1, <2>1
<1>. QED  BY <1>5, <1>6, Zenon DEF Further

\* Assignments to one field change it alone.
LEMMA NewOffset ==
  ASSUME NEW b, Buffer(b), NEW n \in Nat
  PROVE  /\ Buffer([b EXCEPT !.offset = n])
         /\ [b EXCEPT !.offset = n].content = b.content
         /\ [b EXCEPT !.offset = n].length = b.length
         /\ [b EXCEPT !.offset = n].offset = n
         /\ [b EXCEPT !.offset = n].depth = b.depth
         /\ [b EXCEPT !.offset = n].ok = b.ok
         /\ [b EXCEPT !.offset = n].got = b.got
         /\ [b EXCEPT !.offset = n].inside = b.inside
  BY DEF Buffer

LEMMA NewDepth ==
  ASSUME NEW b, Buffer(b), NEW n \in Nat
  PROVE  /\ Buffer([b EXCEPT !.depth = n])
         /\ [b EXCEPT !.depth = n].content = b.content
         /\ [b EXCEPT !.depth = n].length = b.length
         /\ [b EXCEPT !.depth = n].offset = b.offset
         /\ [b EXCEPT !.depth = n].depth = n
         /\ [b EXCEPT !.depth = n].ok = b.ok
         /\ [b EXCEPT !.depth = n].got = b.got
         /\ [b EXCEPT !.depth = n].inside = b.inside
  BY DEF Buffer

LEMMA NewGot ==
  ASSUME NEW b, Buffer(b), NEW v
  PROVE  /\ Buffer(Got(b, v))
         /\ Got(b, v).content = b.content
         /\ Got(b, v).length = b.length
         /\ Got(b, v).offset = b.offset
         /\ Got(b, v).depth = b.depth
         /\ Got(b, v).ok = b.ok
         /\ Got(b, v).got = v
         /\ Got(b, v).inside = b.inside
  BY DEF Buffer, Got

LEMMA NewInside ==
  ASSUME NEW b, Buffer(b), NEW i \in BOOLEAN
  PROVE  /\ Buffer([b EXCEPT !.inside = i])
         /\ [b EXCEPT !.inside = i].content = b.content
         /\ [b EXCEPT !.inside = i].length = b.length
         /\ [b EXCEPT !.inside = i].offset = b.offset
         /\ [b EXCEPT !.inside = i].depth = b.depth
         /\ [b EXCEPT !.inside = i].ok = b.ok
         /\ [b EXCEPT !.inside = i].got = b.got
         /\ [b EXCEPT !.inside = i].inside = i
  BY DEF Buffer

\* To fail is to go on.
LEMMA Failed ==
  ASSUME NEW b, Buffer(b)
  PROVE  /\ Buffer(Fail(b))
         /\ Fail(b).content = b.content
         /\ Fail(b).length = b.length
         /\ Fail(b).offset = b.offset
         /\ Fail(b).depth = b.depth
         /\ ~Fail(b).ok
         /\ Fail(b).got = b.got
         /\ Fail(b).inside = b.inside
  BY DEF Buffer, Fail

LEMMA FailGoes ==
  ASSUME NEW b, Placed(b), NEW r, Placed(r), r.content = b.content, r.length = b.length,
         b.inside => r.inside
  PROVE  Further(b, Fail(r))
<1>1. Buffer(r)
  BY DEF Placed
<1>. DEFINE f == Fail(r)
<1>2. /\ Buffer(f)
      /\ f.content = r.content
      /\ f.length = r.length
      /\ f.offset = r.offset
      /\ ~f.ok
      /\ f.inside = r.inside
  BY <1>1, Failed
<1>. HIDE DEF f
<1>3. Placed(f)
  BY <1>2 DEF Placed
<1>4. Further(b, f)
  BY <1>2, <1>3, Zenon DEF Further, Went
<1>. QED  BY <1>4 DEF f

\* Going n places on, if the text goes so far.
LEMMA ForwardGoes ==
  ASSUME NEW b, Placed(b), NEW n \in Nat, b.offset + n <= b.length
  PROVE  /\ Went(b, Forward(b, n))
         /\ n > 0 => Further(b, Forward(b, n))
         /\ Placed(Forward(b, n)) /\ Forward(b, n).ok = b.ok /\ Forward(b, n).got = b.got
         /\ Forward(b, n).offset = b.offset + n /\ Forward(b, n).depth = b.depth
<1>. DEFINE m == b.offset + n
            f == [b EXCEPT !.offset = m]
<1>1. Buffer(b) /\ b.offset \in Nat /\ m \in Nat /\ b.offset <= m /\ m <= b.length
  BY DEF Placed, Buffer
<1>2. Forward(b, n) = f /\ m = b.offset + n /\ (n > 0 => b.offset < m)
  BY <1>1 DEF Forward
<1>. HIDE DEF m
<1>3. /\ Buffer(f)
      /\ f.content = b.content
      /\ f.length = b.length
      /\ f.offset = m
      /\ f.depth = b.depth
      /\ f.ok = b.ok
      /\ f.got = b.got
      /\ f.inside = b.inside
  BY <1>1, NewOffset
<1>. HIDE DEF f
<1>4. Placed(f)
  BY <1>1, <1>3 DEF Placed
<1>5. Went(b, f)
  BY <1>1, <1>3, <1>4, Zenon DEF Went
<1>6. n > 0 => Further(b, f)
  BY <1>2, <1>3, <1>5, Zenon DEF Further
<1>. QED  BY <1>2, <1>3, <1>4, <1>5, <1>6

\* A set of numbers has a smallest one, which Min returns.
LEMMA MinIs ==
  ASSUME NEW S \in SUBSET Nat, S # {}
  PROVE  Min(S) \in S /\ \A x \in S : Min(S) <= x
<1>1. PICK x \in S : \A y \in S : ~(y < x)
  BY Smallest
<1>2. \A y \in S : x <= y
  BY <1>1
<1>. QED  BY <1>2 DEF Min

\* Numbers that are not above n have a largest one, which Max returns.
LEMMA MaxIs ==
  ASSUME NEW n \in Nat, NEW S \in SUBSET (0..n), S # {}
  PROVE  Max(S) \in S /\ \A x \in S : Max(S) >= x
<1>. DEFINE T == {n - x : x \in S}
<1>1. T \in SUBSET Nat /\ T # {}
  <2>1. \A x \in S : x \in 0..n /\ n - x \in Nat
    OBVIOUS
  <2>2. PICK x : x \in S
    OBVIOUS
  <2>3. n - x \in T
    BY <2>2
  <2>. QED  BY <2>1, <2>3
<1>. HIDE DEF T
<1>2. PICK y \in T : \A z \in T : ~(z < y)
  BY <1>1, Smallest
<1>3. PICK x \in S : y = n - x
  BY DEF T
<1>4. \A z \in S : n - z \in T
  BY DEF T
<1>5. \A z \in S : x >= z
  BY <1>2, <1>3, <1>4
<1>. QED  BY <1>5 DEF Max

\* White space is skipped as far as the last byte, and nothing else happens.
LEMMA SkipGoes ==
  ASSUME NEW b, Placed(b)
  PROVE  /\ Went(b, skip_whitespace(b))
         /\ skip_whitespace(b).ok = b.ok /\ skip_whitespace(b).got = b.got
         /\ skip_whitespace(b).depth = b.depth
         /\ b.offset <= skip_whitespace(b).offset
         /\ b.offset < b.length => skip_whitespace(b).offset < b.length
<1>. DEFINE later == {i \in b.offset..b.length - 1 : b.content[i + 1] > 32}
            n == IF later = {} THEN b.length - 1 ELSE Min(later)
            f == [b EXCEPT !.offset = n]
<1>0. Buffer(b) /\ b.offset \in Nat /\ b.length \in Nat /\ b.offset <= b.length
  BY DEF Placed, Buffer
<1>1. skip_whitespace(b) = IF b.offset >= b.length THEN b ELSE f
  BY DEF skip_whitespace
<1>2. CASE b.offset >= b.length
  <2>1. skip_whitespace(b) = b /\ b.offset = b.length
    BY <1>0, <1>1, <1>2
  <2>2. Went(b, b)
    BY <1>0 DEF Went
  <2>. QED  BY <1>0, <2>1, <2>2
<1>3. CASE ~(b.offset >= b.length)
  <2>1. skip_whitespace(b) = f
    BY <1>1, <1>3
  <2>2. later # {} => Min(later) \in later
    <3>1. later \in SUBSET Nat
      BY <1>0
    <3>. HIDE DEF later
    <3>. QED  BY <3>1, MinIs
  <2>3. n \in Nat /\ b.offset <= n /\ n < b.length /\ n <= b.length
    BY <1>0, <1>3, <2>2
  <2>. HIDE DEF n
  <2>4. /\ Buffer(f)
        /\ f.content = b.content
        /\ f.length = b.length
        /\ f.offset = n
        /\ f.depth = b.depth
        /\ f.ok = b.ok
        /\ f.got = b.got
        /\ f.inside = b.inside
    BY <1>0, <2>3, NewOffset
  <2>. HIDE DEF f
  <2>5. Placed(f)
    BY <2>3, <2>4 DEF Placed
  <2>6. Went(b, f)
    BY <2>3, <2>4, <2>5, Zenon DEF Went
  <2>. QED  BY <2>1, <2>3, <2>4, <2>6
<1>. QED  BY <1>2, <1>3
-----------------------------------------------------------------------------
(* Strings: there is room for what is read of them. *)

\* The byte at the offset is there.
LEMMA ByteIs ==
  ASSUME NEW b, Placed(b), NEW c \in Nat, Is(b, c)
  PROVE  b.offset < b.length /\ b.content[b.offset + 1] = c
<1>1. b.offset \in Nat /\ b.length \in Nat /\ b.offset + 0 = b.offset
  BY DEF Placed, Buffer
<1>. QED  BY <1>1 DEF Is, Byte, can_access

\* How many of the numbers of S are above m, and not above n.
Between(S, m, n) == {j \in S : m < j /\ j <= n}
Num(S, m, n) == Cardinality(Between(S, m, n))

\* S holds places, no two of them side by side.
Apart(S) == S \in SUBSET Nat /\ IsFiniteSet(S) /\ \A j \in S : j + 1 \notin S

\* They are counted part by part.
LEMMA NumAdds ==
  ASSUME NEW S, Apart(S), NEW l \in Nat, NEW m \in Nat, NEW n \in Nat, l <= m, m <= n
  PROVE  /\ Num(S, l, m) \in Nat /\ Num(S, m, n) \in Nat
         /\ Num(S, l, n) = Num(S, l, m) + Num(S, m, n)
<1>. DEFINE A == Between(S, l, m)
            B == Between(S, m, n)
<1>1. S \in SUBSET Nat /\ IsFiniteSet(S)
  BY Zenon DEF Apart
<1>2. A \subseteq S /\ B \subseteq S
  BY Zenon DEF Between
<1>3. A \cap B = {} /\ A \cup B = Between(S, l, n)
  <2>1. \A j \in S : ~(j <= m /\ m < j)
    BY <1>1
  <2>2. \A j \in S : (l < j /\ j <= m) \/ (m < j /\ j <= n) <=> l < j /\ j <= n
    BY <1>1
  <2>3. A \cap B = {}
    BY <2>1, Zenon DEF Between
  <2>. QED  BY <2>2, <2>3, Zenon DEF Between
<1>4. IsFiniteSet(A) /\ IsFiniteSet(B)
  BY <1>1, <1>2, FS_Subset
<1>5. Cardinality(A) \in Nat /\ Cardinality(B) \in Nat /\ IsFiniteSet({}) /\ Cardinality({}) = 0
  BY <1>4, FS_CardinalityType, FS_EmptySet
<1>6. Cardinality(A \cup B) = Cardinality(A) + Cardinality(B) - Cardinality(A \cap B)
  BY <1>4, FS_Union
<1>7. Num(S, l, m) = Cardinality(A) /\ Num(S, m, n) = Cardinality(B)
  BY DEF Num
<1>8. Num(S, l, n) = Cardinality(A \cup B)
  BY <1>3 DEF Num
<1>9. Cardinality(A \cap B) = 0
  BY <1>3, <1>5
<1>. HIDE DEF A, B
<1>10. Cardinality(A \cup B) = Cardinality(A) + Cardinality(B)
  BY <1>5, <1>6, <1>9
<1>. QED  BY <1>5, <1>7, <1>8, <1>10

\* There is no more than one of them in two places.
LEMMA NumPair ==
  ASSUME NEW S, Apart(S), NEW m \in Nat
  PROVE  Num(S, m, m + 2) \in Nat /\ Num(S, m, m + 2) <= 1
<1>. DEFINE A == Between(S, m, m + 2)
<1>1. \A j \in A : j = m + 1 \/ j = m + 2
  BY DEF Apart, Between
<1>2. PICK x : A \subseteq {x}
  <2>1. CASE m + 1 \in S
    <3>1. m + 1 + 1 \notin S /\ m + 1 + 1 = m + 2
      BY <2>1 DEF Apart
    <3>2. A \subseteq {m + 1}
      BY <1>1, <3>1 DEF Between
    <3>. QED  BY <3>2
  <2>2. CASE m + 1 \notin S
    <3>1. A \subseteq {m + 2}
      BY <1>1, <2>2 DEF Between
    <3>. QED  BY <3>1
  <2>. QED  BY <2>1, <2>2
<1>. HIDE DEF A
<1>3. IsFiniteSet({x}) /\ Cardinality({x}) = 1
  BY FS_Singleton
<1>4. IsFiniteSet(A) /\ Cardinality(A) <= 1
  BY <1>2, <1>3, FS_Subset
<1>5. Cardinality(A) \in Nat
  BY <1>4, FS_CardinalityType
<1>. QED  BY <1>4, <1>5 DEF Num, A

\* ... of six, three.
LEMMA NumSix ==
  ASSUME NEW S, Apart(S), NEW m \in Nat
  PROVE  Num(S, m, m + 6) \in Nat /\ Num(S, m, m + 6) <= 3
<1>1. /\ m + 2 \in Nat /\ m + 4 \in Nat /\ m + 6 \in Nat /\ m <= m + 2 /\ m + 2 <= m + 4
      /\ m + 4 <= m + 6 /\ m <= m + 4 /\ m + 2 + 2 = m + 4 /\ m + 4 + 2 = m + 6
  OBVIOUS
<1>2. /\ Num(S, m, m + 2) \in Nat /\ Num(S, m, m + 2) <= 1
      /\ Num(S, m + 2, m + 4) \in Nat /\ Num(S, m + 2, m + 4) <= 1
      /\ Num(S, m + 4, m + 6) \in Nat /\ Num(S, m + 4, m + 6) <= 1
  BY <1>1, NumPair
<1>3. Num(S, m, m + 4) = Num(S, m, m + 2) + Num(S, m + 2, m + 4)
  BY <1>1, NumAdds
<1>4. Num(S, m, m + 6) = Num(S, m, m + 4) + Num(S, m + 4, m + 6)
  BY <1>1, NumAdds
<1>. QED  BY <1>2, <1>3, <1>4

\* ... of one that is not in S, none; of all, as many as S has.
LEMMA NumOther ==
  ASSUME NEW S, Apart(S), NEW m \in Nat, m + 1 \notin S
  PROVE  Num(S, m, m + 1) = 0
<1>1. \A j \in S : j \in Nat
  BY DEF Apart
<1>2. Between(S, m, m + 1) = {}
  BY <1>1 DEF Between
<1>. QED  BY <1>2, FS_EmptySet DEF Num

LEMMA NumAll ==
  ASSUME NEW S, NEW m \in Nat, NEW n \in Nat, S \subseteq 1..m, m <= n
  PROVE  Num(S, 0, n) = Cardinality(S)
<1>1. \A j \in S : 0 < j /\ j <= n
  OBVIOUS
<1>2. Between(S, 0, n) = S
  BY <1>1 DEF Between
<1>. QED  BY <1>2 DEF Num

\* Where a string may end, and the escapes up to there.
Ends == [at : Nat \cup {NoEnd}, skipped : Nat]

\* S: where the escapes are among the p bytes after the quote at the offset.
Escapes(b, S, p) ==
  /\ Apart(S)
  /\ \A j \in S : j \in Nat /\ 0 < j /\ j + 1 <= p /\ b.content[b.offset + 1 + j] = Backslash

Seen(b, e) ==
  e.at # NoEnd =>
    /\ b.offset + 1 <= e.at /\ e.at <= b.length
    /\ \E S : Escapes(b, S, e.at - (b.offset + 1)) /\ Cardinality(S) = e.skipped
Stopped(b, e) == e.at # NoEnd => e.at < b.length /\ b.content[e.at + 1] = Quote

\* One escape more.
LEMMA EscapeMore ==
  ASSUME NEW b, NEW p \in Nat, NEW S, Escapes(b, S, p),
         b.content[b.offset + 1 + (p + 1)] = Backslash
  PROVE  /\ Escapes(b, S \cup {p + 1}, p + 2)
         /\ Cardinality(S \cup {p + 1}) = Cardinality(S) + 1
         /\ Cardinality(S) \in Nat
<1>1. S \in SUBSET Nat /\ IsFiniteSet(S) /\ \A j \in S : j + 1 \notin S
  BY Zenon DEF Escapes, Apart
<1>2. \A j \in S : j \in Nat /\ 0 < j /\ j + 1 <= p
  BY Zenon DEF Escapes
<1>3. p + 1 \notin S /\ p + 2 \notin S /\ p \notin S
  BY <1>2
<1>4. IsFiniteSet(S \cup {p + 1}) /\ Cardinality(S \cup {p + 1}) = Cardinality(S) + 1
  BY <1>1, <1>3, FS_AddElement
<1>. DEFINE T == S \cup {p + 1}
<1>5. T \in SUBSET Nat /\ \A j \in T : j + 1 \notin T
  BY <1>1, <1>2, <1>3
<1>6. \A j \in T : j \in Nat /\ 0 < j /\ j + 1 <= p + 2
  BY <1>2
<1>7. \A j \in T : b.content[b.offset + 1 + j] = Backslash
  <2>1. \A j \in S : b.content[b.offset + 1 + j] = Backslash
    BY Zenon DEF Escapes
  <2>. QED  BY <2>1
<1>8. Apart(T)
  BY <1>4, <1>5, Zenon DEF Apart
<1>9. Escapes(b, T, p + 2)
  <2>. HIDE DEF T
  <2>. QED  BY <1>6, <1>7, <1>8, Zenon DEF Escapes
<1>. QED  BY <1>1, <1>4, <1>9, FS_CardinalityType

\* ... and one byte more.
LEMMA EscapeByte ==
  ASSUME NEW b, NEW p \in Nat, NEW S, Escapes(b, S, p)
  PROVE  Escapes(b, S, p + 1)
<1>1. \A j \in S : j \in Nat /\ j + 1 <= p
  BY Zenon DEF Escapes
<1>2. \A j \in S : j + 1 <= p + 1
  BY <1>1
<1>. QED  BY <1>2, Zenon DEF Escapes

\* A step on the way goes on until it stops.
LEMMA ScannedIs ==
  ASSUME NEW b, Placed(b), NEW e \in Ends, Seen(b, e)
  PROVE  /\ Scanned(b, e) \in Ends
         /\ Seen(b, Scanned(b, e))
         /\ Stopped(b, e) => Scanned(b, e) = e
         /\ ~Stopped(b, e) /\ Scanned(b, e).at # NoEnd => Scanned(b, e).at >= e.at + 1
<1>0. b.offset \in Nat /\ b.length \in Nat
  BY DEF Placed, Buffer
<1>1. CASE e.at = NoEnd
  BY <1>1 DEF Scanned, Stopped
<1>2. CASE e.at # NoEnd
  <2>. DEFINE p == e.at - (b.offset + 1)
  <2>1. e.at \in Nat /\ e.skipped \in Nat /\ b.offset + 1 <= e.at /\ e.at <= b.length
    BY <1>0, <1>2 DEF Ends, Seen
  <2>2. PICK S : Escapes(b, S, p) /\ Cardinality(S) = e.skipped
    BY <1>2 DEF Seen
  <2>3. p \in Nat /\ b.offset + 1 + (p + 1) = e.at + 1
        /\ p + 1 = e.at + 1 - (b.offset + 1) /\ p + 2 = e.at + 2 - (b.offset + 1)
    BY <1>0, <2>1
  <2>3a. \A q : q = e.at + 1 => q - (b.offset + 1) = p + 1
    BY <1>0, <2>1
  <2>3b. \A q : q = e.at + 2 => q - (b.offset + 1) = p + 2
    BY <1>0, <2>1
  <2>. HIDE DEF p
  <2>4. CASE e.at >= b.length
    <3>1. Scanned(b, e) = [e EXCEPT !.at = NoEnd] /\ ~Stopped(b, e)
      BY <1>0, <1>2, <2>1, <2>4 DEF Scanned, Stopped
    <3>2. Scanned(b, e) \in Ends /\ Scanned(b, e).at = NoEnd
      BY <3>1 DEF Ends
    <3>. QED  BY <3>1, <3>2 DEF Seen
  <2>5. CASE e.at < b.length /\ b.content[e.at + 1] = Quote
    BY <1>0, <1>2, <2>1, <2>5 DEF Scanned, Stopped
  <2>6. CASE e.at < b.length /\ b.content[e.at + 1] # Quote /\ b.content[e.at + 1] # Backslash
    <3>. DEFINE f == [e EXCEPT !.at = @ + 1]
    <3>1. Scanned(b, e) = f /\ ~Stopped(b, e)
      BY <1>0, <1>2, <2>1, <2>6 DEF Scanned, Stopped
    <3>2. f \in Ends /\ f.at = e.at + 1 /\ f.skipped = e.skipped
      BY <2>1 DEF Ends
    <3>3. Escapes(b, S, p + 1)
      BY <2>2, <2>3, EscapeByte
    <3>. HIDE DEF f
    <3>4. Escapes(b, S, f.at - (b.offset + 1)) /\ Cardinality(S) = f.skipped
      BY <2>2, <2>3a, <3>2, <3>3
    <3>5. b.offset + 1 <= f.at /\ f.at <= b.length /\ f.at >= e.at + 1
      BY <1>0, <2>1, <2>6, <3>2
    <3>6. Seen(b, f)
      BY <3>4, <3>5, Zenon DEF Seen
    <3>. QED  BY <3>1, <3>2, <3>5, <3>6
  <2>7. CASE e.at < b.length /\ b.content[e.at + 1] # Quote /\ b.content[e.at + 1] = Backslash
    <3>. DEFINE g == [e EXCEPT !.at = IF e.at + 1 >= b.length THEN NoEnd ELSE @ + 2, !.skipped = @ + 1]
    <3>1. Scanned(b, e) = g /\ ~Stopped(b, e)
      BY <1>0, <1>2, <2>1, <2>7 DEF Scanned, Stopped
    <3>2. /\ g \in Ends /\ g.skipped = e.skipped + 1
          /\ g.at = IF e.at + 1 >= b.length THEN NoEnd ELSE e.at + 2
      <4>. DEFINE m == IF e.at + 1 >= b.length THEN NoEnd ELSE e.at + 2
      <4>1. g = [e EXCEPT !.at = m, !.skipped = e.skipped + 1]
        BY DEF Ends
      <4>2. m \in Nat \cup {NoEnd} /\ e.skipped + 1 \in Nat
        BY <2>1
      <4>3. m = IF e.at + 1 >= b.length THEN NoEnd ELSE e.at + 2
        OBVIOUS
      <4>. HIDE DEF m, g
      <4>4. g \in Ends /\ g.skipped = e.skipped + 1 /\ g.at = m
        BY <4>1, <4>2 DEF Ends
      <4>. QED  BY <4>3, <4>4
    <3>. HIDE DEF g
    <3>3. CASE e.at + 1 >= b.length
      BY <3>1, <3>2, <3>3 DEF Seen
    <3>4. CASE ~(e.at + 1 >= b.length)
      <4>1. g.at = e.at + 2
        BY <3>2, <3>4
      <4>2. b.content[b.offset + 1 + (p + 1)] = Backslash
        BY <2>3, <2>7
      <4>3. /\ Escapes(b, S \cup {p + 1}, p + 2)
            /\ Cardinality(S \cup {p + 1}) = Cardinality(S) + 1
        BY <2>2, <2>3, <4>2, EscapeMore
      <4>4. /\ Escapes(b, S \cup {p + 1}, g.at - (b.offset + 1))
            /\ Cardinality(S \cup {p + 1}) = g.skipped
        BY <2>2, <2>3b, <3>2, <4>1, <4>3
      <4>5. b.offset + 1 <= g.at /\ g.at <= b.length /\ g.at >= e.at + 1
        BY <1>0, <2>1, <3>4, <4>1
      <4>6. Seen(b, g)
        BY <4>4, <4>5, Zenon DEF Seen
      <4>. QED  BY <3>1, <3>2, <4>5, <4>6
    <3>. QED  BY <3>3, <3>4
  <2>. QED  BY <1>0, <2>1, <2>4, <2>5, <2>6, <2>7
<1>. QED  BY <1>1, <1>2

\* A quote with no backslash before it is not skipped.
LEMMA AtMostToIs ==
  ASSUME NEW b, Placed(b), b.offset < b.length
  PROVE  /\ AtMostTo(b) \in Nat /\ b.offset + 1 <= AtMostTo(b) /\ AtMostTo(b) <= b.length
         /\ AtMostTo(b) < b.length => /\ b.content[AtMostTo(b) + 1] = Quote
                                      /\ b.content[AtMostTo(b)] # Backslash
<1>. DEFINE Q == {i \in b.offset + 1..b.length - 1 :
                   b.content[i + 1] = Quote /\ b.content[i] # Backslash}
            S == {b.length} \cup Q
            q == Min(S)
<1>0. b.offset \in Nat /\ b.length \in Nat
  BY DEF Placed, Buffer
<1>1. AtMostTo(b) = q
  BY DEF AtMostTo
<1>2. \A i \in Q : /\ i \in Nat /\ b.offset + 1 <= i /\ i < b.length
                   /\ b.content[i + 1] = Quote /\ b.content[i] # Backslash
  BY <1>0
<1>. HIDE DEF Q
<1>3. S \in SUBSET Nat /\ S # {}
  BY <1>0, <1>2
<1>4. q \in S
  BY <1>3, MinIs
<1>. HIDE DEF q
<1>5. q = b.length \/ q \in Q
  BY <1>4
<1>. QED  BY <1>0, <1>1, <1>2, <1>5

LEMMA ScannedStaysBefore ==
  ASSUME NEW b, Placed(b), b.offset < b.length, NEW e \in Ends, Seen(b, e), e.at # NoEnd,
         e.at <= AtMostTo(b), Scanned(b, e).at # NoEnd
  PROVE  Scanned(b, e).at <= AtMostTo(b)
<1>. DEFINE q == AtMostTo(b)
            f == Scanned(b, e)
<1>0. /\ b.offset \in Nat /\ b.length \in Nat /\ e.at \in Nat /\ e \in Ends
      /\ q \in Nat /\ q <= b.length
      /\ q < b.length => b.content[q + 1] = Quote /\ b.content[q] # Backslash
  BY AtMostToIs DEF Placed, Buffer, Ends
<1>. HIDE DEF q
<1>1. e.at < b.length
  <2>1. e.at >= b.length => f.at = NoEnd
    BY <1>0 DEF Scanned, Ends
  <2>. QED  BY <1>0, <2>1
<1>2. CASE b.content[e.at + 1] = Quote
  <2>1. f = e
    BY <1>0, <1>1, <1>2 DEF Scanned
  <2>. QED  BY <1>0, <2>1 DEF q
<1>3. CASE b.content[e.at + 1] # Quote /\ b.content[e.at + 1] # Backslash
  <2>1. f.at = e.at + 1
    BY <1>0, <1>1, <1>3 DEF Scanned, Ends
  <2>2. e.at # q
    BY <1>0, <1>1, <1>3
  <2>. QED  BY <1>0, <2>1, <2>2 DEF q
<1>4. CASE b.content[e.at + 1] # Quote /\ b.content[e.at + 1] = Backslash
  <2>1. f.at = e.at + 2 /\ f.at <= b.length
    <3>1. f.at = IF e.at + 1 >= b.length THEN NoEnd ELSE e.at + 2
      BY <1>0, <1>1, <1>4 DEF Scanned, Ends
    <3>. HIDE DEF f
    <3>. QED  BY <1>0, <1>1, <3>1 DEF f
  <2>2. e.at # q
    BY <1>0, <1>1, <1>4
  <2>3. e.at + 1 # q
    BY <1>0, <1>4, <2>1
  <2>. HIDE DEF f
  <2>4. e.at + 2 <= q
    BY <1>0, <2>2, <2>3 DEF q
  <2>. QED  BY <2>1, <2>4 DEF f, q
<1>. QED  BY <1>2, <1>3, <1>4

\* The way to the end of a string ends, at a quote or without one.
LEMMA StringEndIs ==
  ASSUME NEW b, Placed(b), b.offset < b.length
  PROVE  StringEnd(b) \in Ends /\ Seen(b, StringEnd(b)) /\ Stopped(b, StringEnd(b))
<1>. DEFINE q == AtMostTo(b)
            n == q - b.offset
            first == [at |-> b.offset + 1, skipped |-> 0]
            B == {e \in Ends : Seen(b, e)}
            Made(f) == f = [k \in 0..n |-> IF k = 0 THEN first ELSE Scanned(b, f[k - 1])]
            end == CHOOSE f : Made(f)
            G == [k \in 1..n |-> [e \in B |-> Scanned(b, e)]]
<1>0a. q \in Nat /\ b.offset + 1 <= q /\ q <= b.length /\ q = AtMostTo(b)
  BY AtMostToIs
<1>0. b.offset \in Nat /\ b.length \in Nat /\ n \in Nat
  BY <1>0a DEF Placed, Buffer
<1>1. StringEnd(b) = end[n]
  BY Zenon DEF StringEnd
<1>2. first \in B
  <2>1. Escapes(b, {}, 0) /\ Cardinality({}) = 0
    BY FS_EmptySet DEF Escapes, Apart
  <2>2. first \in Ends /\ first.at = b.offset + 1 /\ first.skipped = 0
    BY <1>0 DEF Ends
  <2>. HIDE DEF first
  <2>3. b.offset + 1 <= first.at /\ first.at <= b.length /\ first.at - (b.offset + 1) = 0
    BY <1>0, <2>2
  <2>4. Escapes(b, {}, first.at - (b.offset + 1)) /\ Cardinality({}) = first.skipped
    BY <2>1, <2>2, <2>3
  <2>. QED  BY <2>2, <2>3, <2>4 DEF Seen
<1>3. \A k \in 1..n : \A e \in B : G[k][e] = Scanned(b, e) /\ G[k][e] \in B
  BY ScannedIs
<1>3a. first.at = b.offset + 1
  OBVIOUS
<1>. HIDE DEF G, B, first, q
<1>4. PICK w : Walk(w, B, first, n, G)
  BY <1>0, <1>2, <1>3, WalkExists
<1>5. w \in [0..n -> B] /\ w[0] = first /\ \A k \in 1..n : w[k] = G[k][w[k - 1]]
  BY <1>4, Zenon DEF Walk
<1>6. \A k \in 0..n : w[k] = IF k = 0 THEN first ELSE Scanned(b, w[k - 1])
  <2>. TAKE k \in 0..n
  <2>1. CASE k = 0
    BY <1>5, <2>1
  <2>2. CASE k # 0
    <3>1. k \in 1..n /\ k - 1 \in 0..n
      BY <1>0, <2>2
    <3>. QED  BY <1>3, <1>5, <2>2, <3>1
  <2>. QED  BY <2>1, <2>2
<1>7. Made(w)
  BY <1>5, <1>6
<1>8. Made(end)
  BY <1>7
<1>. HIDE DEF end
<1>9. end[0] = first /\ \A k \in 1..n : end[k] = Scanned(b, end[k - 1])
  BY <1>0, <1>8
<1>. DEFINE Good(k) == /\ end[k] \in B
                       /\ Stopped(b, end[k]) \/ end[k].at >= b.offset + 1 + k
                       /\ end[k].at # NoEnd => end[k].at <= q
            T == {k \in 0..n : ~Good(k)}
<1>10. T = {}
  <2>. SUFFICES ASSUME T # {} PROVE FALSE
    OBVIOUS
  <2>0. T \in SUBSET Nat
    OBVIOUS
  <2>1. PICK k \in T : \A y \in T : ~(y < k)
    <3>. HIDE DEF T
    <3>. QED  BY <2>0, Smallest
  <2>2. CASE k = 0
    <3>1. Good(0)
      BY <1>0, <1>0a, <1>2, <1>3a, <1>9
    <3>. QED  BY <2>2, <3>1
  <2>3. CASE k # 0
    <3>1. k \in 1..n /\ k - 1 \in 0..n /\ k - 1 < k
      BY <1>0, <2>3
    <3>2. end[k - 1] \in B /\ (Stopped(b, end[k - 1]) \/ end[k - 1].at >= b.offset + 1 + (k - 1))
      BY <2>1, <3>1
    <3>. DEFINE e == end[k - 1]
    <3>3. e \in Ends /\ Seen(b, e) /\ end[k] = Scanned(b, e)
      BY <1>9, <3>1, <3>2 DEF B
    <3>3a. e.at # NoEnd => e.at <= q
      BY <2>1, <3>1
    <3>3b. end[k].at # NoEnd => end[k].at <= q
      <4>. HIDE DEF e
      <4>1. e.at = NoEnd => Scanned(b, e) = e
        BY Zenon DEF Scanned
      <4>. QED  BY <1>0a, <3>3, <3>3a, <4>1, ScannedStaysBefore
    <3>. HIDE DEF e
    <3>4. /\ Scanned(b, e) \in Ends
          /\ Seen(b, Scanned(b, e))
          /\ Stopped(b, e) => Scanned(b, e) = e
          /\ ~Stopped(b, e) /\ Scanned(b, e).at # NoEnd => Scanned(b, e).at >= e.at + 1
      BY <3>3, ScannedIs
    <3>5. end[k] \in B /\ (Stopped(b, e) \/ e.at >= b.offset + 1 + (k - 1))
      BY <3>2, <3>3, <3>4 DEF B, e
    <3>6. CASE Stopped(b, e)
      BY <3>3, <3>3b, <3>4, <3>5, <3>6
    <3>7. CASE ~Stopped(b, e)
      <4>1. end[k].at = NoEnd => Stopped(b, end[k])
        BY Zenon DEF Stopped
      <4>2. end[k].at # NoEnd => end[k].at >= b.offset + 1 + k
        <5>. SUFFICES ASSUME end[k].at # NoEnd PROVE end[k].at >= b.offset + 1 + k
          OBVIOUS
        <5>1. end[k].at >= e.at + 1 /\ e.at >= b.offset + 1 + (k - 1)
          BY <3>3, <3>4, <3>5, <3>7
        <5>2. end[k].at \in Nat /\ e.at \in Nat
          BY <3>3, <3>4, <3>7 DEF Ends, Stopped
        <5>. QED  BY <1>0, <3>1, <5>1, <5>2
      <4>. QED  BY <3>3b, <3>5, <4>1, <4>2
    <3>. QED  BY <3>6, <3>7
  <2>. QED  BY <2>2, <2>3
<1>11. Good(n)
  BY <1>0, <1>10
<1>. HIDE DEF T
<1>12. end[n] \in Ends /\ Seen(b, end[n])
  BY <1>11 DEF B
<1>13. Stopped(b, end[n])
  <2>. SUFFICES ASSUME ~Stopped(b, end[n]) PROVE FALSE
    OBVIOUS
  <2>1. end[n].at # NoEnd /\ end[n].at >= b.offset + 1 + n /\ end[n].at <= q
    BY <1>11 DEF Stopped
  <2>2. end[n].at \in Nat
    BY <1>12, <2>1 DEF Ends
  <2>. QED  BY <1>0, <1>0a, <2>1, <2>2
<1>. QED  BY <1>1, <1>12, <1>13

\* Part of a sequence.
LEMMA PartIs ==
  ASSUME NEW s \in Seq(Int), NEW m \in Nat, NEW n \in Nat, 1 <= m, m <= n, n <= Len(s)
  PROVE  /\ SubSeq(s, m, n) \in Seq(Int) /\ Len(SubSeq(s, m, n)) = n - m + 1
         /\ \A i \in 1..(n - m + 1) : SubSeq(s, m, n)[i] = s[m + i - 1]
<1>1. \A i \in m..n : s[i] \in Int
  BY LenProperties
<1>2. m \in Int /\ n \in Int
  OBVIOUS
<1>. QED  BY <1>1, <1>2, SubSeqProperties

\* A number of 16 bits.
Bits16(n) == n \in Nat /\ n < 65536

\* What four bytes stand for is one.
LEMMA HexIs ==
  ASSUME NEW s
  PROVE  Bits16(parse_hex4(s))
<1>. DEFINE hex == \A i \in 1..4 : s[i] \in DOMAIN HexDigit
            x1 == HexDigit[s[1]]
            x2 == HexDigit[s[2]]
            x3 == HexDigit[s[3]]
            x4 == HexDigit[s[4]]
            x == 4096 * x1 + 256 * x2 + 16 * x3 + x4
<1>1. \A c \in DOMAIN HexDigit : HexDigit[c] \in 0..15
  BY DEF HexDigit
<1>2. parse_hex4(s) = IF hex THEN x ELSE 0
  BY SMT DEF parse_hex4
<1>3. hex => x1 \in 0..15 /\ x2 \in 0..15 /\ x3 \in 0..15 /\ x4 \in 0..15
  <2>1. hex => /\ s[1] \in DOMAIN HexDigit /\ s[2] \in DOMAIN HexDigit
               /\ s[3] \in DOMAIN HexDigit /\ s[4] \in DOMAIN HexDigit
    OBVIOUS
  <2>. HIDE DEF hex
  <2>. QED  BY <1>1, <2>1
<1>4. x = 4096 * x1 + 256 * x2 + 16 * x3 + x4
  OBVIOUS
<1>. HIDE DEF hex, x1, x2, x3, x4, x
<1>5. CASE hex
  <2>1. x1 \in 0..15 /\ x2 \in 0..15 /\ x3 \in 0..15 /\ x4 \in 0..15
    BY <1>3, <1>5
  <2>2. x \in Nat /\ x < 65536
    BY <1>4, <2>1
  <2>. QED  BY <1>2, <1>5, <2>2 DEF Bits16
<1>6. CASE ~hex
  BY <1>2, <1>6 DEF Bits16
<1>. QED  BY <1>5, <1>6

\* No more than m bytes.
Bytes(w, m) == w \in Seq(Int) /\ Len(w) <= m

\* A code point is four bytes at most, and three if it has 16 bits.
LEMMA Utf8Is ==
  ASSUME NEW n \in Nat
  PROVE  Bytes(utf8(n), 4) /\ (Bits16(n) => Bytes(utf8(n), 3))
<1>. DEFINE a == 192 + n \div 64
            b == 128 + (n % 64)
            c == 224 + n \div 4096
            d == 128 + ((n \div 64) % 64)
            e == 240 + n \div 262144
            f == 128 + ((n \div 4096) % 64)
<1>1. a \in Int /\ b \in Int /\ c \in Int /\ d \in Int /\ e \in Int /\ f \in Int
  OBVIOUS
<1>2. utf8(n) = IF n < 128 THEN <<n>>
                ELSE IF n < 2048 THEN <<a, b>>
                ELSE IF n < 65536 THEN <<c, d, b>> ELSE <<e, f, d, b>>
  BY SMT DEF utf8
<1>. HIDE DEF a, b, c, d, e, f
<1>3. /\ <<n>> \in Seq(Int) /\ Len(<<n>>) = 1
      /\ <<a, b>> \in Seq(Int) /\ Len(<<a, b>>) = 2
      /\ <<c, d, b>> \in Seq(Int) /\ Len(<<c, d, b>>) = 3
      /\ <<e, f, d, b>> \in Seq(Int) /\ Len(<<e, f, d, b>>) = 4
  BY <1>1
<1>4. /\ Bytes(<<n>>, 4) /\ Bytes(<<n>>, 3)
      /\ Bytes(<<a, b>>, 4) /\ Bytes(<<a, b>>, 3)
      /\ Bytes(<<c, d, b>>, 4) /\ Bytes(<<c, d, b>>, 3)
      /\ Bytes(<<e, f, d, b>>, 4)
  BY <1>3 DEF Bytes
<1>. QED  BY <1>2, <1>4 DEF Bits16

\* An escape, or what is not one, in a string of which n bytes are left.
EscapeFits(u, n) ==
  \/ u.length = 0 /\ Bytes(u.bytes, 0)
  \/ u.length = 6 /\ Bytes(u.bytes, 3) /\ 6 <= n
  \/ u.length = 12 /\ Bytes(u.bytes, 4) /\ 12 <= n

\* The six bytes \uXXXX stand for three at most, and twelve for four.
LEMMA UtfFits ==
  ASSUME NEW s \in Seq(Int)
  PROVE  EscapeFits(utf16_literal_to_utf8(s), Len(s))
<1>. DEFINE u == utf16_literal_to_utf8(s)
            first  == parse_hex4(SubSeq(s, 3, 6))
            second == parse_hex4(SubSeq(s, 9, 12))
            pair   == 65536 + (first % 1024) * 1024 + (second % 1024)
            short  == Len(s) < 6 \/ first \in 56320..57343
            single == first \notin 55296..56319
            bad    == Len(s) < 12 \/ SubSeq(s, 7, 8) # <<Backslash, 117>> \/ second \notin 56320..57343
            one    == Escape(6, utf8(first))
            two    == Escape(12, utf8(pair))
<1>1. Bits16(first) /\ Bits16(second)
  BY HexIs, Zenon
<1>2. u = IF short THEN NoEscape ELSE IF single THEN one ELSE IF bad THEN NoEscape ELSE two
  BY SMT DEF utf16_literal_to_utf8
<1>3. (~short => ~(Len(s) < 6)) /\ (~bad => ~(Len(s) < 12))
  OBVIOUS
<1>4. pair = 65536 + (first % 1024) * 1024 + (second % 1024)
  OBVIOUS
<1>5. one.length = 6 /\ one.bytes = utf8(first) /\ two.length = 12 /\ two.bytes = utf8(pair)
  BY DEF Escape
<1>6. NoEscape.length = 0 /\ Bytes(NoEscape.bytes, 0)
  BY DEF NoEscape, Escape, Bytes
<1>. HIDE DEF u, first, second, pair, short, single, bad, one, two
<1>7. first \in Nat /\ pair \in Nat
  BY <1>1, <1>4 DEF Bits16
<1>8. Bytes(utf8(first), 3) /\ Bytes(utf8(pair), 4)
  BY <1>1, <1>7, Utf8Is
<1>9. Len(s) \in Nat
  OBVIOUS
<1>10. EscapeFits(NoEscape, Len(s))
  BY <1>6, Zenon DEF EscapeFits
<1>11. ~short => EscapeFits(one, Len(s))
  <2>. SUFFICES ASSUME ~short PROVE EscapeFits(one, Len(s))
    OBVIOUS
  <2>1. 6 <= Len(s)
    BY <1>3, <1>9
  <2>. QED  BY <1>5, <1>8, <2>1 DEF EscapeFits
<1>12. ~bad => EscapeFits(two, Len(s))
  <2>. SUFFICES ASSUME ~bad PROVE EscapeFits(two, Len(s))
    OBVIOUS
  <2>1. 12 <= Len(s)
    BY <1>3, <1>9
  <2>. QED  BY <1>5, <1>8, <2>1 DEF EscapeFits
<1>13. EscapeFits(u, Len(s))
  BY <1>2, <1>10, <1>11, <1>12, Zenon
<1>. QED  BY <1>13 DEF u

\* What comes after i bytes of s: how many bytes it is, and what for.
Takes(s, i, u) ==
  /\ u.length \in Nat /\ i + u.length <= Len(s) /\ u.bytes \in Seq(Int)
  /\ \/ u.length = 0
     \/ u.length = 1 /\ Len(u.bytes) <= 1 /\ s[i + 1] # Backslash
     \/ u.length = 2 /\ Len(u.bytes) <= 1
     \/ u.length = 6 /\ Len(u.bytes) <= 3
     \/ u.length = 12 /\ Len(u.bytes) <= 4

LEMMA NextTakes ==
  ASSUME NEW s \in Seq(Int), NEW i \in Nat, i < Len(s) - 1
  PROVE  Takes(s, i, NextOf(s, i))
<1>. DEFINE u == NextOf(s, i)
            c == s[i + 1]
            e == s[i + 2]
            known == e \in DOMAIN Unshort
            rest == SubSeq(s, i + 1, Len(s) - 1)
            short == Unshort[e]
<1>1. u = IF c # Backslash THEN Escape(1, <<c>>)
          ELSE IF known THEN Escape(2, <<short>>)
          ELSE IF e = 117 THEN utf16_literal_to_utf8(rest) ELSE NoEscape
  BY SMT DEF NextOf
<1>2. /\ Len(s) \in Nat /\ i + 1 \in 1..Len(s) /\ i + 2 \in 1..Len(s) /\ c \in Int
      /\ i + 1 <= Len(s) /\ i + 2 <= Len(s) /\ i + 0 <= Len(s)
  OBVIOUS
<1>3. rest \in Seq(Int) /\ Len(rest) = Len(s) - 1 - i
  <2>. DEFINE m == i + 1
              n == Len(s) - 1
  <2>1. m \in Nat /\ n \in Nat /\ 1 <= m /\ m <= n /\ n <= Len(s) /\ n - m + 1 = Len(s) - 1 - i
    BY <1>2
  <2>2. rest = SubSeq(s, m, n)
    OBVIOUS
  <2>. HIDE DEF m, n, rest
  <2>. QED  BY <2>1, <2>2, PartIs
<1>4. known => short \in Int
  BY DEF Unshort
<1>5. c = s[i + 1]
  OBVIOUS
<1>. HIDE DEF u, c, e, known, rest, short
<1>6. CASE c # Backslash
  <2>1. u.length = 1 /\ u.bytes = <<c>>
    BY <1>1, <1>6 DEF Escape
  <2>2. u.bytes \in Seq(Int) /\ Len(u.bytes) <= 1
    BY <1>2, <2>1
  <2>. QED  BY <1>2, <1>5, <1>6, <2>1, <2>2 DEF Takes, u
<1>7. CASE c = Backslash /\ known
  <2>1. u.length = 2 /\ u.bytes = <<short>>
    BY <1>1, <1>7 DEF Escape
  <2>2. u.bytes \in Seq(Int) /\ Len(u.bytes) <= 1
    BY <1>4, <1>7, <2>1
  <2>3. Takes(s, i, u)
    BY <1>2, <2>1, <2>2 DEF Takes
  <2>. QED  BY <2>3 DEF u
<1>8. CASE c = Backslash /\ ~known /\ e = 117
  <2>1. EscapeFits(u, Len(rest))
    BY <1>1, <1>3, <1>8, UtfFits
  <2>2. CASE u.length = 0 /\ Bytes(u.bytes, 0)
    <3>1. Takes(s, i, u)
      BY <1>2, <2>2 DEF Takes, Bytes
    <3>. QED  BY <3>1 DEF u
  <2>3. CASE u.length = 6 /\ Bytes(u.bytes, 3) /\ 6 <= Len(rest)
    <3>1. i + 6 <= Len(s)
      BY <1>2, <1>3, <2>3
    <3>2. Takes(s, i, u)
      BY <2>3, <3>1 DEF Takes, Bytes
    <3>. QED  BY <3>2 DEF u
  <2>4. CASE u.length = 12 /\ Bytes(u.bytes, 4) /\ 12 <= Len(rest)
    <3>1. i + 12 <= Len(s)
      BY <1>2, <1>3, <2>4
    <3>2. Takes(s, i, u)
      BY <2>4, <3>1 DEF Takes, Bytes
    <3>. QED  BY <3>2 DEF u
  <2>. QED  BY <2>1, <2>2, <2>3, <2>4, Zenon DEF EscapeFits
<1>9. CASE c = Backslash /\ ~known /\ e # 117
  <2>1. u.length = 0 /\ u.bytes = <<>>
    BY <1>1, <1>9 DEF NoEscape, Escape
  <2>2. Takes(s, i, u)
    BY <1>2, <2>1 DEF Takes
  <2>. QED  BY <2>2 DEF u
<1>. QED  BY <1>6, <1>7, <1>8, <1>9

\* S: places of escapes of s, which ends with a quote.
Within(s, S) ==
  Apart(S) /\ \A j \in S : j \in Nat /\ 0 < j /\ j + 1 <= Len(s) - 1 /\ s[j] = Backslash

\* What comes next stands for no more bytes than it has, less the escapes in it.
LEMMA TakesLess ==
  ASSUME NEW s \in Seq(Int), NEW S, Within(s, S), NEW i \in Nat, NEW u, Takes(s, i, u), u.length # 0
  PROVE  /\ Num(S, i, i + u.length) \in Nat /\ Len(u.bytes) \in Nat
         /\ Len(u.bytes) + Num(S, i, i + u.length) <= u.length
<1>0. Apart(S) /\ \A j \in S : s[j] = Backslash
  BY Zenon DEF Within
<1>1. /\ u.bytes \in Seq(Int) /\ Len(u.bytes) \in Nat
      /\ \/ u.length = 1 /\ Len(u.bytes) <= 1 /\ s[i + 1] # Backslash
         \/ u.length = 2 /\ Len(u.bytes) <= 1
         \/ u.length = 6 /\ Len(u.bytes) <= 3
         \/ u.length = 12 /\ Len(u.bytes) <= 4
  BY DEF Takes
<1>2. CASE u.length = 1 /\ Len(u.bytes) <= 1 /\ s[i + 1] # Backslash
  <2>1. i + 1 \notin S
    BY <1>0, <1>2
  <2>2. Num(S, i, i + 1) = 0
    BY <1>0, <2>1, NumOther
  <2>. QED  BY <1>1, <1>2, <2>2
<1>3. CASE u.length = 2 /\ Len(u.bytes) <= 1
  <2>1. Num(S, i, i + 2) \in Nat /\ Num(S, i, i + 2) <= 1
    BY <1>0, NumPair
  <2>. QED  BY <1>1, <1>3, <2>1
<1>4. CASE u.length = 6 /\ Len(u.bytes) <= 3
  <2>1. Num(S, i, i + 6) \in Nat /\ Num(S, i, i + 6) <= 3
    BY <1>0, NumSix
  <2>. QED  BY <1>1, <1>4, <2>1
<1>5. CASE u.length = 12 /\ Len(u.bytes) <= 4
  <2>1. i + 6 \in Nat /\ i + 12 \in Nat /\ i <= i + 6 /\ i + 6 <= i + 12 /\ i + 6 + 6 = i + 12
    OBVIOUS
  <2>2. /\ Num(S, i, i + 6) \in Nat /\ Num(S, i, i + 6) <= 3
        /\ Num(S, i + 6, i + 12) \in Nat /\ Num(S, i + 6, i + 12) <= 3
    BY <1>0, <2>1, NumSix
  <2>3. Num(S, i, i + 12) = Num(S, i, i + 6) + Num(S, i + 6, i + 12)
    BY <1>0, <2>1, NumAdds
  <2>. QED  BY <1>1, <1>5, <2>2, <2>3
<1>. QED  BY <1>1, <1>2, <1>3, <1>4, <1>5

\* What the first bytes of a string stand for: there is room for it, and for the rest.
Readings == [ok : BOOLEAN, at : Nat, out : Seq(Int)]
Reached(s, S, x) ==
  /\ x.at <= Len(s)
  /\ Len(x.out) + Num(S, 0, x.at) <= x.at
  /\ ~x.ok => x.at < Len(s) - 1

LEMMA TranslatedIs ==
  ASSUME NEW s \in Seq(Int), NEW S, Within(s, S), NEW x \in Readings, Reached(s, S, x)
  PROVE  /\ Translated(s, x) \in Readings
         /\ Reached(s, S, Translated(s, x))
         /\ ~x.ok \/ x.at >= Len(s) - 1 => Translated(s, x) = x
         /\ Translated(s, x).ok => x.ok
         /\ Translated(s, x).ok /\ ~(x.at >= Len(s) - 1) => Translated(s, x).at >= x.at + 1
<1>. DEFINE u == NextOf(s, x.at)
            f == Fail(x)
            m == x.at + u.length
            o == x.out \o u.bytes
            g == [x EXCEPT !.at = m, !.out = o]
            t == Translated(s, x)
<1>0. x.ok \in BOOLEAN /\ x.at \in Nat /\ x.out \in Seq(Int) /\ Len(x.out) \in Nat /\ Len(s) \in Nat
  BY DEF Readings
<1>1. t = IF ~x.ok \/ x.at >= Len(s) - 1 THEN x ELSE IF u.length = 0 THEN f ELSE g
  BY SMT DEF Translated
<1>2. CASE ~x.ok \/ x.at >= Len(s) - 1
  <2>1. t = x
    BY <1>1, <1>2
  <2>. HIDE DEF t
  <2>2. t \in Readings /\ Reached(s, S, t) /\ (t.ok => x.ok)
    BY <2>1, Zenon
  <2>3. ~(t.ok /\ ~(x.at >= Len(s) - 1))
    BY <1>2, <2>1, Zenon
  <2>. QED  BY <2>1, <2>2, <2>3, Zenon DEF t
<1>3. CASE ~(~x.ok \/ x.at >= Len(s) - 1)
  <2>1. x.ok /\ x.at < Len(s) - 1
    BY <1>0, <1>3
  <2>2. Takes(s, x.at, u)
    BY <1>0, <2>1, NextTakes
  <2>3. CASE u.length = 0
    <3>1. t = f /\ f.at = x.at /\ f.out = x.out /\ ~f.ok /\ f \in Readings
      BY <1>0, <1>1, <1>3, <2>3 DEF Fail, Readings
    <3>. HIDE DEF f, t
    <3>2. Reached(s, S, f)
      BY <2>1, <3>1 DEF Reached
    <3>3. t \in Readings /\ Reached(s, S, t) /\ ~t.ok
      BY <3>1, <3>2
    <3>. QED  BY <1>3, <3>3, Zenon DEF t
  <2>4. CASE u.length # 0
    <3>1. /\ u.length \in Nat /\ u.length >= 1 /\ m = x.at + u.length /\ m <= Len(s)
          /\ u.bytes \in Seq(Int)
      BY <2>2, <2>4 DEF Takes
    <3>2. /\ Num(S, x.at, m) \in Nat /\ Len(u.bytes) \in Nat
          /\ Len(u.bytes) + Num(S, x.at, m) <= u.length
      BY <1>0, <2>2, <2>4, TakesLess
    <3>. HIDE DEF u
    <3>3. m \in Nat /\ x.at <= m /\ m >= x.at + 1
      BY <1>0, <3>1
    <3>4. Num(S, 0, x.at) \in Nat /\ Num(S, 0, m) = Num(S, 0, x.at) + Num(S, x.at, m)
      <4>. DEFINE k == x.at
      <4>1. 0 \in Nat /\ k \in Nat /\ m \in Nat /\ 0 <= k /\ k <= m
        BY <1>0, <3>3
      <4>2. Apart(S)
        BY Zenon DEF Within
      <4>. HIDE DEF m, k
      <4>3. Num(S, 0, k) \in Nat /\ Num(S, 0, m) = Num(S, 0, k) + Num(S, k, m)
        BY <4>1, <4>2, NumAdds
      <4>. QED  BY <4>3 DEF k
    <3>5. o \in Seq(Int) /\ Len(o) = Len(x.out) + Len(u.bytes)
      BY <1>0, <3>1
    <3>6. t = g
      BY <1>1, <1>3, <2>4 DEF u
    <3>. HIDE DEF m, o
    <3>7. g \in Readings /\ g.at = m /\ g.out = o /\ g.ok = x.ok
      BY <1>0, <3>3, <3>5 DEF Readings
    <3>. HIDE DEF g, t
    <3>8. Len(x.out) + Num(S, 0, x.at) <= x.at
      BY DEF Reached
    <3>9. Len(o) + Num(S, 0, m) <= m
      <4>1. Len(o) + Num(S, 0, m)
              = (Len(x.out) + Len(u.bytes)) + (Num(S, 0, x.at) + Num(S, x.at, m))
        BY <3>4, <3>5
      <4>2. (Len(x.out) + Len(u.bytes)) + (Num(S, 0, x.at) + Num(S, x.at, m)) <= x.at + u.length
        <5>. DEFINE a == Len(x.out)
                    b == Len(u.bytes)
                    c == Num(S, 0, x.at)
                    d == Num(S, x.at, m)
        <5>1. /\ a \in Nat /\ b \in Nat /\ c \in Nat /\ d \in Nat /\ x.at \in Nat /\ u.length \in Nat
              /\ a + c <= x.at /\ b + d <= u.length
          BY <1>0, <3>1, <3>2, <3>4, <3>8
        <5>. HIDE DEF a, b, c, d
        <5>2. (a + b) + (c + d) <= x.at + u.length
          BY <5>1
        <5>. QED  BY <5>2 DEF a, b, c, d
      <4>. QED  BY <3>1, <4>1, <4>2
    <3>10. Reached(s, S, g)
      BY <2>1, <3>1, <3>7, <3>9 DEF Reached
    <3>11. t \in Readings /\ Reached(s, S, t) /\ t.at >= x.at + 1
      BY <3>3, <3>6, <3>7, <3>10
    <3>. QED  BY <1>3, <2>1, <3>11, Zenon DEF t
  <2>. QED  BY <2>3, <2>4
<1>. QED  BY <1>2, <1>3

\* All of it is read, or it fails before its end.
LEMMA UnescapedIs ==
  ASSUME NEW s \in Seq(Int), NEW S, Within(s, S)
  PROVE  /\ Unescaped(s) \in Readings
         /\ Reached(s, S, Unescaped(s))
         /\ Unescaped(s).ok => Unescaped(s).at >= Len(s) - 1
<1>. DEFINE n == Len(s)
            first == [ok |-> TRUE, at |-> 0, out |-> <<>>]
            B == {x \in Readings : Reached(s, S, x)}
            Made(f) == f = [k \in 0..n |-> IF k = 0 THEN first ELSE Translated(s, f[k - 1])]
            read == CHOOSE f : Made(f)
            G == [k \in 1..n |-> [x \in B |-> Translated(s, x)]]
<1>0. n \in Nat
  OBVIOUS
<1>1. Unescaped(s) = read[n]
  BY Zenon DEF Unescaped
<1>2. first \in Readings /\ first.at = 0 /\ first.out = <<>> /\ first.ok
  BY DEF Readings
<1>3. first \in B
  <2>1. Between(S, 0, 0) = {}
    <3>1. \A j \in S : j \in Nat
      BY DEF Within
    <3>. QED  BY <3>1 DEF Between
  <2>2. Num(S, 0, 0) = 0
    BY <2>1, FS_EmptySet DEF Num
  <2>. HIDE DEF first
  <2>3. Reached(s, S, first)
    BY <1>0, <1>2, <2>2 DEF Reached
  <2>. QED  BY <1>2, <2>3
<1>4. \A k \in 1..n : \A x \in B : G[k][x] = Translated(s, x) /\ G[k][x] \in B
  BY TranslatedIs
<1>. HIDE DEF G, B, first
<1>5. PICK w : Walk(w, B, first, n, G)
  BY <1>0, <1>3, <1>4, WalkExists
<1>6. w \in [0..n -> B] /\ w[0] = first /\ \A k \in 1..n : w[k] = G[k][w[k - 1]]
  BY <1>5, Zenon DEF Walk
<1>7. \A k \in 0..n : w[k] = IF k = 0 THEN first ELSE Translated(s, w[k - 1])
  <2>. TAKE k \in 0..n
  <2>1. CASE k = 0
    BY <1>6, <2>1
  <2>2. CASE k # 0
    <3>1. k \in 1..n /\ k - 1 \in 0..n
      BY <1>0, <2>2
    <3>. QED  BY <1>4, <1>6, <2>2, <3>1
  <2>. QED  BY <2>1, <2>2
<1>8. Made(w)
  BY <1>6, <1>7
<1>9. Made(read)
  BY <1>8
<1>. HIDE DEF read
<1>9a. \A k \in 0..n : read[k] = IF k = 0 THEN first ELSE Translated(s, read[k - 1])
  BY <1>9, Zenon
<1>10. read[0] = first /\ \A k \in 1..n : read[k] = Translated(s, read[k - 1])
  <2>. HIDE DEF n
  <2>1. 0 \in 0..n /\ \A k \in 1..n : k \in 0..n /\ k # 0
    BY <1>0
  <2>. QED  BY <1>9a, <2>1
<1>. DEFINE Good(k) == read[k] \in B /\ (read[k].ok => read[k].at >= k \/ read[k].at >= n - 1)
            T == {k \in 0..n : ~Good(k)}
<1>11. T = {}
  <2>. SUFFICES ASSUME T # {} PROVE FALSE
    OBVIOUS
  <2>0. T \in SUBSET Nat
    OBVIOUS
  <2>1. PICK k \in T : \A y \in T : ~(y < k)
    <3>. HIDE DEF T
    <3>. QED  BY <2>0, Smallest
  <2>2. CASE k = 0
    <3>1. Good(0)
      BY <1>2, <1>3, <1>10
    <3>. QED  BY <2>2, <3>1
  <2>3. CASE k # 0
    <3>1. k \in 1..n /\ k - 1 \in 0..n /\ k - 1 < k
      BY <1>0, <2>3
    <3>. DEFINE x == read[k - 1]
                t == Translated(s, x)
    <3>2. x \in B /\ (x.ok => x.at >= k - 1 \/ x.at >= n - 1)
      BY <2>1, <3>1
    <3>3. x \in Readings /\ Reached(s, S, x) /\ read[k] = t
      BY <1>10, <3>1, <3>2 DEF B
    <3>. HIDE DEF x
    <3>4. /\ t \in Readings
          /\ Reached(s, S, t)
          /\ ~x.ok \/ x.at >= n - 1 => t = x
          /\ t.ok => x.ok
          /\ t.ok /\ ~(x.at >= n - 1) => t.at >= x.at + 1
      BY <3>3, TranslatedIs
    <3>. HIDE DEF t
    <3>5. t \in B /\ t.at \in Nat /\ x.at \in Nat
      BY <3>3, <3>4 DEF B, Readings
    <3>6. ASSUME t.ok
          PROVE  t.at >= k \/ t.at >= n - 1
      <4>1. CASE x.at >= n - 1
        BY <3>4, <3>6, <4>1
      <4>2. CASE ~(x.at >= n - 1)
        <5>1. t.at >= x.at + 1 /\ x.at >= k - 1
          BY <3>2, <3>4, <3>6, <4>2
        <5>. QED  BY <3>1, <3>5, <5>1
      <4>. QED  BY <4>1, <4>2
    <3>7. Good(k)
      BY <3>3, <3>5, <3>6
    <3>. QED  BY <3>7
  <2>. QED  BY <2>2, <2>3
<1>12. Good(n)
  BY <1>0, <1>11
<1>. HIDE DEF T
<1>13. read[n] \in Readings /\ Reached(s, S, read[n])
  BY <1>12 DEF B
<1>14. read[n].ok => read[n].at >= n - 1
  <2>. SUFFICES ASSUME read[n].ok PROVE read[n].at >= n - 1
    OBVIOUS
  <2>1. read[n].at >= n \/ read[n].at >= n - 1
    BY <1>12
  <2>2. read[n].at \in Nat
    BY <1>13 DEF Readings
  <2>. QED  BY <1>0, <2>1, <2>2
<1>. QED  BY <1>1, <1>13, <1>14

\* There are no more of them than places.
LEMMA NumAtMost ==
  ASSUME NEW S, NEW m \in Nat, NEW n \in Nat, S \in SUBSET Nat, m <= n
  PROVE  Num(S, m, n) \in Nat /\ Num(S, m, n) <= n - m
<1>1. Between(S, m, n) \subseteq (m + 1)..n
  <2>1. \A j \in Nat : m < j /\ j <= n => j \in (m + 1)..n
    OBVIOUS
  <2>. QED  BY <2>1 DEF Between
<1>2. IsFiniteSet((m + 1)..n) /\ Cardinality((m + 1)..n) = IF m + 1 > n THEN 0 ELSE n - (m + 1) + 1
  BY FS_Interval
<1>3. Cardinality((m + 1)..n) = n - m
  BY <1>2
<1>4. IsFiniteSet(Between(S, m, n)) /\ Cardinality(Between(S, m, n)) <= n - m
  BY <1>1, <1>2, <1>3, FS_Subset
<1>. QED  BY <1>4, FS_CardinalityType DEF Num

\* What is allocated for a string is enough for what is read of it, and for the NUL.
LEMMA RoomThere ==
  ASSUME NEW b, Placed(b), b.offset < b.length, StringEnd(b).at # NoEnd,
         NEW end, end = StringEnd(b),
         NEW s, s = SubSeq(b.content, b.offset + 2, end.at + 1),
         NEW x, x = Unescaped(s)
  PROVE  /\ end.at \in Nat /\ end.skipped \in Nat /\ b.offset + 1 <= end.at /\ end.at < b.length
         /\ x \in Readings
         /\ Len(x.out) + 1 <= end.at - b.offset - end.skipped + 1
         /\ x.at <= end.at - b.offset
         /\ ~x.ok => b.offset + 1 + x.at < end.at
<1>0. b.offset \in Nat /\ b.length \in Nat /\ b.content \in Seq(Int) /\ b.length = Len(b.content)
  BY DEF Placed, Buffer
<1>1. end \in Ends /\ Seen(b, end) /\ Stopped(b, end)
  BY StringEndIs
<1>2. end.at \in Nat /\ end.skipped \in Nat /\ end.at < b.length /\ b.offset + 1 <= end.at
  BY <1>1 DEF Ends, Seen, Stopped
<1>. DEFINE n == end.at - b.offset
<1>3. n \in Nat /\ n - 1 \in Nat /\ n = end.at - b.offset /\ n - 1 = end.at - (b.offset + 1)
      /\ (end.at + 1) - (b.offset + 2) + 1 = n
  <2>1. \A e, o \in Nat : o + 1 <= e => /\ e - o \in Nat /\ e - o - 1 \in Nat
                                       /\ e - o - 1 = e - (o + 1)
                                       /\ (e + 1) - (o + 2) + 1 = e - o
    OBVIOUS
  <2>. QED  BY <1>0, <1>2, <2>1
<1>. HIDE DEF n
<1>4. s \in Seq(Int) /\ Len(s) = n /\ \A i \in 1..n : s[i] = b.content[b.offset + 1 + i]
  <2>. DEFINE l == b.offset + 2
              h == end.at + 1
  <2>1. l \in Nat /\ h \in Nat /\ 1 <= l /\ l <= h /\ h <= Len(b.content) /\ h - l + 1 = n
    <3>0. b.offset \in Nat /\ end.at \in Nat
      BY <1>0, <1>2
    <3>1. 1 <= l /\ l \in Nat /\ h \in Nat
      BY <3>0
    <3>2. h <= Len(b.content)
      <4>1. \A d, e \in Nat : d < e => d + 1 <= e
        OBVIOUS
      <4>2. end.at + 1 <= b.length
        BY <1>0, <1>2, <4>1
      <4>. QED  BY <1>0, <4>2, Zenon
    <3>3. h - l + 1 = n
      BY <1>3, Zenon
    <3>4. l <= h
      <4>1. \A d, e \in Nat : d + 1 <= e => d + 2 <= e + 1
        OBVIOUS
      <4>. QED  BY <1>0, <1>2, <4>1
    <3>. QED  BY <3>1, <3>2, <3>3, <3>4
  <2>2. \A i \in 1..n : l + i - 1 = b.offset + 1 + i
    BY <1>0, <1>3
  <2>3. s = SubSeq(b.content, l, h)
    OBVIOUS
  <2>. DEFINE c == b.content
  <2>3a. c \in Seq(Int) /\ h <= Len(c) /\ s = SubSeq(c, l, h) /\ c = b.content
    BY <1>0, <2>1, <2>3
  <2>. HIDE DEF l, h, c
  <2>4. /\ s \in Seq(Int) /\ Len(s) = h - l + 1
        /\ \A i \in 1..(h - l + 1) : s[i] = c[l + i - 1]
    <3>1. /\ SubSeq(c, l, h) \in Seq(Int) /\ Len(SubSeq(c, l, h)) = h - l + 1
          /\ \A i \in 1..(h - l + 1) : SubSeq(c, l, h)[i] = c[l + i - 1]
      BY <2>1, <2>3a, PartIs, Zenon
    <3>. QED  BY <2>3a, <3>1, Zenon
  <2>. QED  BY <2>1, <2>2, <2>3a, <2>4
<1>5. PICK S : Escapes(b, S, n - 1) /\ Cardinality(S) = end.skipped
  BY <1>1, <1>3 DEF Seen
<1>6. /\ Apart(S) /\ S \in SUBSET Nat
      /\ \A j \in S : /\ j \in Nat /\ 0 < j /\ j + 1 <= n - 1
                      /\ b.content[b.offset + 1 + j] = Backslash
  BY <1>5, Zenon DEF Escapes, Apart
<1>7. S \subseteq 1..(n - 1) /\ S \subseteq 1..n
  BY <1>3, <1>6
<1>8. Within(s, S)
  <2>1. \A j \in S : s[j] = Backslash
    BY <1>4, <1>6, <1>7
  <2>2. \A j \in S : j \in Nat /\ 0 < j /\ j + 1 <= Len(s) - 1
    BY <1>4, <1>6
  <2>. QED  BY <1>6, <2>1, <2>2, Zenon DEF Within
<1>9. x \in Readings /\ Reached(s, S, x) /\ (x.ok => x.at >= n - 1)
  BY <1>4, <1>8, UnescapedIs
<1>10. /\ x.at \in Nat /\ Len(x.out) \in Nat /\ x.at <= n
       /\ Len(x.out) + Num(S, 0, x.at) <= x.at
       /\ ~x.ok => x.at < n - 1
  BY <1>4, <1>9 DEF Readings, Reached
<1>11. Len(x.out) + end.skipped <= n
  <2>1. CASE x.at >= n - 1
    <3>1. Num(S, 0, x.at) = end.skipped
      BY <1>3, <1>5, <1>7, <1>10, <2>1, NumAll
    <3>. QED  BY <1>2, <1>3, <1>10, <3>1
  <2>2. CASE ~(x.at >= n - 1)
    <3>0. 0 \in Nat /\ 0 <= x.at /\ n <= n
      BY <1>3, <1>10
    <3>1. Num(S, 0, n) = end.skipped
      BY <1>3, <1>5, <1>7, <3>0, NumAll
    <3>2. /\ Num(S, 0, x.at) \in Nat /\ Num(S, x.at, n) \in Nat
          /\ Num(S, 0, n) = Num(S, 0, x.at) + Num(S, x.at, n)
      <4>. DEFINE k == x.at
      <4>1. 0 \in Nat /\ k \in Nat /\ n \in Nat /\ 0 <= k /\ k <= n
        BY <1>3, <1>10, <3>0
      <4>. HIDE DEF k
      <4>2. /\ Num(S, 0, k) \in Nat /\ Num(S, k, n) \in Nat
            /\ Num(S, 0, n) = Num(S, 0, k) + Num(S, k, n)
        BY <1>6, <4>1, NumAdds
      <4>. QED  BY <4>2 DEF k
    <3>3. Num(S, x.at, n) <= n - x.at
      BY <1>3, <1>6, <1>10, NumAtMost
    <3>4. /\ x.at \in Nat /\ n \in Nat /\ Len(x.out) \in Nat /\ x.at <= n
          /\ Len(x.out) + Num(S, 0, x.at) <= x.at
      BY <1>3, <1>10
    <3>5. Len(x.out) + (Num(S, 0, x.at) + Num(S, x.at, n)) <= x.at + (n - x.at)
      BY <3>2, <3>3, <3>4
    <3>6. Len(x.out) + end.skipped <= x.at + (n - x.at)
      BY <3>1, <3>2, <3>5
    <3>. QED  BY <3>4, <3>6
  <2>. QED  BY <2>1, <2>2
<1>12. Len(x.out) + 1 <= end.at - b.offset - end.skipped + 1
  <2>1. \A e, o, k, l \in Nat : l + k <= e - o => l + 1 <= e - o - k + 1
    OBVIOUS
  <2>. QED  BY <1>0, <1>2, <1>3, <1>10, <1>11, <2>1
<1>13. ~x.ok => b.offset + 1 + x.at < end.at
  <2>1. \A e, o, a \in Nat : a < e - o - 1 => o + 1 + a < e
    OBVIOUS
  <2>2. n - 1 = end.at - b.offset - 1
    BY <1>3
  <2>. QED  BY <1>0, <1>2, <1>10, <2>1, <2>2
<1>. QED  BY <1>2, <1>3, <1>9, <1>10, <1>12, <1>13

\* A string that is read up to its first NUL is one.
LEMMA CStringIs ==
  ASSUME NEW s \in Seq(Int)
  PROVE  CString(s) \in Seq(Int)
<1>. DEFINE ends == {i \in 1..Len(s) : s[i] = NUL} \cup {Len(s) + 1}
<1>1. Len(s) \in Nat /\ ends \in SUBSET Nat /\ ends # {} /\ \A i \in ends : 1 <= i /\ i <= Len(s) + 1
  OBVIOUS
<1>2. CString(s) = SubSeq(s, 1, Min(ends) - 1)
  BY Zenon DEF CString
<1>. HIDE DEF ends
<1>3. Min(ends) \in ends
  BY <1>1, MinIs
<1>. DEFINE n == Min(ends) - 1
<1>4. n \in Nat /\ n <= Len(s)
  <2>1. \A i \in ends : i - 1 \in Nat /\ i - 1 <= Len(s)
    BY <1>1
  <2>. QED  BY <1>3, <2>1
<1>5. CString(s) = SubSeq(s, 1, n)
  BY <1>2
<1>. HIDE DEF n
<1>6. \A i \in 1..n : s[i] \in Int
  BY <1>1, <1>4, LenProperties
<1>. QED  BY <1>4, <1>5, <1>6, SubSeqProperties

\* The value of a parse_buffer that is to be read.
LEMMA UnreadIs ==
  ASSUME NEW s \in Seq(Int)
  PROVE  As(s, Value) \in Unread /\ Value \in Unread
<1>1. NoName \in Seq(Int)
  BY DEF NoName
<1>. QED  BY <1>1 DEF As, Value, Unread

\* A string is read up to its end, and where there is room for it.
LEMMA StringGoes ==
  ASSUME NEW b, Placed(b), b.offset < b.length, b.ok, b.got \in Unread
  PROVE  /\ Further(b, parse_string(b))
         /\ parse_string(b).ok => parse_string(b).got.str \in Seq(Int)
<1>. DEFINE seen == [b EXCEPT !.inside = @ /\ can_access(b, 0)]
            end == StringEnd(b)
            s == SubSeq(b.content, b.offset + 2, end.at + 1)
            x == Unescaped(s)
<1>0. b.offset \in Nat /\ b.length \in Nat /\ Buffer(b) /\ b.inside \in BOOLEAN
      /\ b.content \in Seq(Int) /\ b.length = Len(b.content)
  BY DEF Placed, Buffer
<1>1. seen = b
  <2>1. b.offset + 0 < b.length
    BY <1>0
  <2>2. b.inside /\ can_access(b, 0) <=> b.inside
    BY <2>1 DEF can_access
  <2>3. (b.inside /\ can_access(b, 0)) = b.inside
    BY <1>0, <2>2
  <2>4. seen = [b EXCEPT !.inside = b.inside]
    BY <2>3
  <2>. QED  BY <1>0, <2>4 DEF Buffer
<1>2. parse_string(b) = IF ~Is(b, Quote) \/ end.at = NoEnd THEN Fail(Forward(b, 1)) ELSE Stored(b, end, x)
  <2>1. parse_string(b) = IF ~Is(b, Quote) \/ end.at = NoEnd
                          THEN Fail(Forward(seen, 1)) ELSE Stored(seen, end, x)
    BY Zenon DEF parse_string
  <2>. QED  BY <1>1, <2>1
<1>. HIDE DEF seen
<1>3. CASE ~Is(b, Quote) \/ end.at = NoEnd
  <2>1. b.offset + 1 <= b.length
    BY <1>0
  <2>2. Went(b, Forward(b, 1))
    BY <2>1, ForwardGoes
  <2>3. Further(b, Fail(Forward(b, 1)))
    BY <2>2, FailGoes DEF Went
  <2>4. parse_string(b) = Fail(Forward(b, 1))
    BY <1>2, <1>3
  <2>. QED  BY <2>3, <2>4 DEF Further, Went, Fail, Placed, Buffer
<1>4. CASE ~(~Is(b, Quote) \/ end.at = NoEnd)
  <2>0. /\ end.at \in Nat /\ end.skipped \in Nat /\ b.offset + 1 <= end.at /\ end.at < b.length
        /\ x \in Readings
        /\ Len(x.out) + 1 <= end.at - b.offset - end.skipped + 1
        /\ x.at <= end.at - b.offset
        /\ ~x.ok => b.offset + 1 + x.at < end.at
    BY <1>4, RoomThere
  <2>. HIDE DEF end, x
  <2>. DEFINE i == b.inside /\ Len(x.out) + 1 <= end.at - b.offset - end.skipped + 1
              room == [b EXCEPT !.inside = i]
              m == end.at + 1
              v == CString(x.out)
              f == [room EXCEPT !.offset = m, !.got.type = "string", !.got.str = v]
              l == room.offset + 1 + x.at
              g == [room EXCEPT !.offset = l]
  <2>1. parse_string(b) = IF x.ok THEN f ELSE Fail(g)
    <3>1. parse_string(b) = Stored(b, end, x)
      BY <1>2, <1>4
    <3>2. Stored(b, end, x) = IF x.ok THEN f ELSE Fail(g)
      BY SMT DEF Stored
    <3>. QED  BY <3>1, <3>2
  <2>2. i \in BOOLEAN /\ (b.inside => i)
    BY <1>0, <2>0
  <2>. HIDE DEF i
  <2>3. /\ Buffer(room) /\ room.content = b.content /\ room.length = b.length
        /\ room.offset = b.offset /\ room.depth = b.depth /\ room.ok = b.ok /\ room.got = b.got
        /\ room.inside = i
    BY <1>0, <2>2, NewInside
  <2>4. v \in Seq(Int)
    BY <2>0, CStringIs DEF Readings
  <2>5. m \in Nat /\ m <= b.length /\ b.offset < m /\ b.offset <= m
    <3>1. /\ b.offset \in Nat /\ b.length \in Nat /\ end.at \in Nat
          /\ b.offset + 1 <= end.at /\ end.at < b.length
      BY <1>0, <2>0
    <3>. QED  BY <3>1
  <2>6. l = b.offset + 1 + x.at /\ x.at \in Nat
    BY <2>0, <2>3 DEF Readings
  <2>. HIDE DEF m, v, room
  <2>7. CASE x.ok
    <3>. DEFINE w == [b.got EXCEPT !.type = "string", !.str = v]
                h == [room EXCEPT !.offset = m]
    <3>1. /\ Buffer(h) /\ h.content = b.content /\ h.length = b.length /\ h.offset = m
          /\ h.depth = b.depth /\ h.ok = b.ok /\ h.inside = i
      BY <2>3, <2>5, NewOffset
    <3>2. f = Got(h, w)
      BY <2>3 DEF Got, Buffer
    <3>3. w.str = v
      BY DEF Unread
    <3>. HIDE DEF h, w, f
    <3>4. /\ Buffer(f) /\ f.content = b.content /\ f.length = b.length /\ f.offset = m
          /\ f.depth = b.depth /\ f.ok = b.ok /\ f.inside = i /\ f.got = w
      BY <3>1, <3>2, NewGot
    <3>5. Placed(f)
      BY <1>0, <2>5, <3>4 DEF Placed
    <3>6. Further(b, f)
      BY <2>2, <2>5, <3>4, <3>5, Zenon DEF Further, Went
    <3>. QED  BY <2>1, <2>4, <2>7, <3>3, <3>4, <3>6
  <2>8. CASE ~x.ok
    <3>. HIDE DEF l
    <3>1. l \in Nat /\ l <= b.length
      <4>1. b.offset + 1 + x.at < end.at /\ l = b.offset + 1 + x.at
        BY <2>0, <2>6, <2>8
      <4>2. l \in Nat /\ l < end.at
        BY <1>0, <2>6, <4>1
      <4>. QED  BY <1>0, <2>0, <4>2
    <3>2. /\ Buffer(g) /\ g.content = b.content /\ g.length = b.length /\ g.offset = l
          /\ g.inside = i
      BY <2>3, <3>1, NewOffset
    <3>. HIDE DEF g
    <3>3. Placed(g)
      BY <1>0, <3>1, <3>2 DEF Placed
    <3>4. Further(b, Fail(g))
      BY <2>2, <3>2, <3>3, FailGoes
    <3>5. ~Fail(g).ok
      BY <3>2, Failed
    <3>. QED  BY <2>1, <2>8, <3>4, <3>5
  <2>. QED  BY <2>7, <2>8
<1>. QED  BY <1>3, <1>4
-----------------------------------------------------------------------------
(* What is not a string. *)

\* A buffer that a value is to be read from is one with nothing read so far.
LEMMA ToReadIs ==
  ASSUME NEW b
  PROVE  b \in ToRead <=> Placed(b) /\ b.got \in Unread
  BY DEF ToRead, ParseBuffer, Placed, Buffer

\* A number is read as far as its digits go, and its buffer.
LEMMA NumberGoes ==
  ASSUME NEW b, Placed(b), b.offset < b.length
  PROVE  Further(b, parse_number(b))
<1>. DEFINE sign  == Is(b, Minus)
            first == b.offset + IF sign THEN 1 ELSE 0
            last  == Min({b.length, b.offset + NUMBER_MAX})
            C == {n \in 0..NUMBER_MAX : /\ first + n <= last
                                        /\ \A k \in 1..n : IsDigit(b.content[first + k])}
            count == Max(C)
            read == CHOOSE read : read = [k \in 0..count |->
                      IF k = 0 THEN 0 ELSE 10 * read[k - 1] + (b.content[first + k] - Digit(0))]
            v == IF sign THEN -read[count] ELSE read[count]
            m == first + count
            w == [b.got EXCEPT !.type = "number", !.num = v]
            f == [b EXCEPT !.offset = m]
<1>0. /\ b.offset \in Nat /\ b.length \in Nat /\ Buffer(b) /\ b.length = Len(b.content)
      /\ NUMBER_MAX \in Nat /\ NUMBER_MAX # 0
  BY LimitsAssumption DEF Placed, Buffer
<1>1. parse_number(b) = IF count = 0 THEN Fail(b)
                        ELSE [b EXCEPT !.offset = m, !.got.type = "number", !.got.num = v]
  BY SMT DEF parse_number
<1>. HIDE DEF read, v
<1>2. first \in Nat /\ b.offset <= first /\ first <= b.offset + 1
  BY <1>0
<1>. HIDE DEF first
<1>3. last \in Nat /\ last <= b.length /\ first <= last
  <2>. DEFINE two == {b.length, b.offset + NUMBER_MAX}
  <2>1. two \in SUBSET Nat /\ two # {} /\ b.length \in two
    BY <1>0
  <2>2. \A x \in two : first <= x
    BY <1>0, <1>2
  <2>3. last = Min(two)
    OBVIOUS
  <2>. HIDE DEF two, last
  <2>4. Min(two) \in two /\ \A x \in two : Min(two) <= x
    BY <2>1, MinIs
  <2>. QED  BY <2>1, <2>2, <2>3, <2>4
<1>. HIDE DEF last
<1>4. C \in SUBSET (0..NUMBER_MAX) /\ 0 \in C /\ \A n \in C : first + n <= last
  BY <1>0, <1>2, <1>3
<1>5. count = Max(C)
  OBVIOUS
<1>. HIDE DEF C, count
<1>6. count \in C
  BY <1>0, <1>4, <1>5, MaxIs
<1>7. count \in Nat /\ m \in Nat /\ m <= b.length /\ (count # 0 => b.offset < m /\ b.offset <= m)
  BY <1>0, <1>2, <1>3, <1>4, <1>6
<1>. HIDE DEF m
<1>8. CASE count = 0
  <2>1. Further(b, Fail(b))
    BY FailGoes
  <2>. QED  BY <1>1, <1>8, <2>1
<1>9. CASE count # 0
  <2>1. parse_number(b) = Got(f, w)
    BY <1>0, <1>1, <1>9 DEF Got, Buffer
  <2>2. /\ Buffer(f) /\ f.content = b.content /\ f.length = b.length /\ f.offset = m
        /\ f.depth = b.depth /\ f.ok = b.ok /\ f.inside = b.inside
    BY <1>0, <1>7, NewOffset
  <2>. HIDE DEF f, w
  <2>. DEFINE g == Got(f, w)
  <2>3. /\ Buffer(g) /\ g.content = b.content /\ g.length = b.length /\ g.offset = m
        /\ g.depth = b.depth /\ g.ok = b.ok /\ g.inside = b.inside
    BY <2>2, NewGot
  <2>. HIDE DEF g
  <2>4. Placed(g)
    BY <1>0, <1>7, <2>3 DEF Placed
  <2>5. Further(b, g)
    BY <1>7, <1>9, <2>3, <2>4, Zenon DEF Further, Went
  <2>. QED  BY <2>1, <2>5 DEF g
<1>. QED  BY <1>8, <1>9

\* Giving a buffer a value changes nothing else.
LEMMA GotGoes ==
  ASSUME NEW b, NEW r, NEW v, Placed(r)
  PROVE  /\ Placed(Got(r, v))
         /\ Went(b, r) => Went(b, Got(r, v))
         /\ Further(b, r) => Further(b, Got(r, v))
         /\ Went(Got(r, v), b) => Went(r, b)
         /\ Further(Got(r, v), b) => Further(r, b)
<1>. DEFINE g == Got(r, v)
<1>1. /\ Buffer(g) /\ g.content = r.content /\ g.length = r.length /\ g.offset = r.offset
      /\ g.depth = r.depth /\ g.ok = r.ok /\ g.inside = r.inside
  BY NewGot DEF Placed
<1>. HIDE DEF g
<1>2. Placed(g)
  BY <1>1 DEF Placed
<1>3. (Went(b, r) => Went(b, g)) /\ (Went(g, b) => Went(r, b))
  BY <1>1, <1>2, Zenon DEF Went
<1>4. (Further(b, r) => Further(b, g)) /\ (Further(g, b) => Further(r, b))
  BY <1>1, <1>3, Zenon DEF Further
<1>. QED  BY <1>2, <1>3, <1>4 DEF g

\* Where white space is skipped behind what was read.
LEMMA SpaceGoes ==
  ASSUME NEW b, Placed(b)
  PROVE  /\ Went(b, ThenSpace(b)) /\ Placed(ThenSpace(b))
         /\ ThenSpace(b).ok = b.ok /\ ThenSpace(b).got = b.got
<1>1. CASE b.ok
  <2>1. ThenSpace(b) = skip_whitespace(b)
    BY <1>1 DEF ThenSpace
  <2>. QED  BY <2>1, SkipGoes DEF Went
<1>2. CASE ~b.ok
  <2>1. ThenSpace(b) = b
    BY <1>2 DEF ThenSpace
  <2>2. Went(b, b)
    BY <1>2 DEF Went
  <2>. QED  BY <2>1, <2>2
<1>. QED  BY <1>1, <1>2

\* An inner function goes on wherever it is called at a depth.
Goes(inner, depth) == \A q \in ToRead : q.depth = depth => Further(q, inner[q])

\* ... which is where it is called for a value, behind the byte at the offset.
Behind(b) == skip_whitespace(Forward(b, 1))
LEMMA BehindIs ==
  ASSUME NEW b, Placed(b), b.offset < b.length
  PROVE  /\ Further(b, Behind(b)) /\ Placed(Behind(b))
         /\ Behind(b).ok = b.ok /\ Behind(b).got = b.got /\ Behind(b).depth = b.depth
         /\ b.got \in Unread => Behind(b) \in ToRead
         /\ b.offset + 1 < b.length => Behind(b).offset < Behind(b).length
<1>. DEFINE f == Forward(b, 1)
            s == skip_whitespace(f)
<1>0. b.offset \in Nat /\ b.length \in Nat /\ b.offset + 1 <= b.length
  BY DEF Placed, Buffer
<1>1. Further(b, f) /\ Placed(f) /\ f.ok = b.ok /\ f.got = b.got /\ f.offset = b.offset + 1
      /\ f.depth = b.depth
  BY <1>0, ForwardGoes
<1>. HIDE DEF f
<1>2. Went(f, s) /\ s.ok = f.ok /\ s.got = f.got /\ s.depth = f.depth
      /\ (f.offset < f.length => s.offset < f.length)
  BY <1>1, SkipGoes
<1>. HIDE DEF s
<1>3. Placed(s) /\ s.length = f.length /\ f.length = b.length
  BY <1>1, <1>2 DEF Went, Further
<1>4. Further(b, s)
  BY <1>1, <1>2, WentTrans DEF Further
<1>5. b.got \in Unread => s \in ToRead
  BY <1>1, <1>2, <1>3, ToReadIs
<1>6. Behind(b) = s
  BY DEF Behind, s, f
<1>. QED  BY <1>1, <1>2, <1>3, <1>4, <1>5, <1>6

\* An element is read.
LEMMA ElementGoes ==
  ASSUME NEW inner, NEW b, Placed(b), b.offset < b.length, b.got \in Unread, Goes(inner, b.depth)
  PROVE  Further(b, parse_element(inner, b))
<1>. DEFINE q == Behind(b)
            r == inner[q]
<1>1. Further(b, q) /\ Placed(q) /\ q \in ToRead /\ q.depth = b.depth
  BY BehindIs
<1>. HIDE DEF q
<1>2. Further(q, r)
  BY <1>1 DEF Goes
<1>. HIDE DEF r
<1>3. Placed(r)
  BY <1>2 DEF Further, Went
<1>4. Further(b, r)
  BY <1>1, <1>2, WentTrans DEF Further
<1>5. Went(r, ThenSpace(r))
  BY <1>3, SpaceGoes
<1>6. Further(b, ThenSpace(r))
  BY <1>3, <1>4, <1>5, WentTrans DEF Further
<1>7. parse_element(inner, b) = ThenSpace(r)
  BY Zenon DEF parse_element, Behind, q, r
<1>. QED  BY <1>6, <1>7

\* The name of a member is read, and its value.
LEMMA NamedGoes ==
  ASSUME NEW m, Placed(m), m.ok => m.got.str \in Seq(Int)
  PROVE  /\ Went(m, Named(m)) /\ Placed(Named(m))
         /\ Named(m).ok = m.ok
         /\ Named(m).ok => Named(m).got \in Unread
<1>1. CASE m.ok
  <2>. DEFINE v == As(m.got.str, Value)
              g == Got(m, v)
  <2>1. v \in Unread
    BY <1>1, UnreadIs
  <2>2. Went(m, m)
    BY DEF Went, Placed, Buffer
  <2>3. Named(m) = ThenSpace(g)
    BY <1>1 DEF Named, Got
  <2>. HIDE DEF v
  <2>4. g.got = v /\ g.ok = m.ok
    BY NewGot DEF Placed
  <2>5. Placed(g) /\ Went(m, g)
    BY <2>2, GotGoes
  <2>. HIDE DEF g
  <2>6. Went(g, ThenSpace(g)) /\ Placed(ThenSpace(g)) /\ ThenSpace(g).ok = g.ok
        /\ ThenSpace(g).got = g.got
    BY <2>5, SpaceGoes
  <2>7. Went(m, ThenSpace(g))
    BY <2>5, <2>6, WentTrans
  <2>. QED  BY <2>1, <2>3, <2>4, <2>6, <2>7
<1>2. CASE ~m.ok
  <2>1. Named(m) = m
    BY <1>2 DEF Named
  <2>2. Went(m, m)
    BY <1>2 DEF Went
  <2>. QED  BY <1>2, <2>1, <2>2
<1>. QED  BY <1>1, <1>2

LEMMA ValuedGoes ==
  ASSUME NEW inner, NEW m, Placed(m), m.ok => m.got \in Unread /\ Goes(inner, m.depth)
  PROVE  Further(m, Valued(inner, m))
<1>1. CASE m.ok /\ Is(m, Colon)
  <2>1. m.offset < m.length
    BY <1>1, ByteIs DEF Colon
  <2>2. Further(m, parse_element(inner, m))
    BY <1>1, <2>1, ElementGoes
  <2>. QED  BY <1>1, <2>2 DEF Valued
<1>2. CASE ~(m.ok /\ Is(m, Colon))
  <2>1. Further(m, Fail(m))
    BY FailGoes
  <2>. QED  BY <1>2, <2>1 DEF Valued
<1>. QED  BY <1>1, <1>2

\* A member is read.
LEMMA MemberGoes ==
  ASSUME NEW inner, NEW b, Placed(b), b.ok, b.got \in Unread, Goes(inner, b.depth)
  PROVE  Further(b, parse_member(inner, b))
<1>0. b.offset \in Nat /\ b.length \in Nat
  BY DEF Placed, Buffer
<1>1. CASE ~can_access(b, 1)
  <2>1. Further(b, Fail(b))
    BY FailGoes
  <2>. QED  BY <1>1, <2>1 DEF parse_member
<1>2. CASE can_access(b, 1)
  <2>. DEFINE q == Behind(b)
              s == parse_string(q)
              n == Named(s)
              v == Valued(inner, n)
  <2>1. b.offset + 1 < b.length /\ b.offset < b.length
    BY <1>0, <1>2 DEF can_access
  <2>2. Further(b, q) /\ Placed(q) /\ q.ok /\ q.got \in Unread /\ q.depth = b.depth
        /\ q.offset < q.length
    BY <2>1, BehindIs
  <2>. HIDE DEF q
  <2>3. Further(q, s) /\ (s.ok => s.got.str \in Seq(Int))
    BY <2>2, StringGoes
  <2>. HIDE DEF s
  <2>4. Placed(s) /\ (s.ok => s.depth = b.depth)
    BY <2>2, <2>3 DEF Further, Went
  <2>5. Went(s, n) /\ Placed(n) /\ n.ok = s.ok /\ (n.ok => n.got \in Unread)
    BY <2>3, <2>4, NamedGoes
  <2>. HIDE DEF n
  <2>6. n.ok => n.got \in Unread /\ Goes(inner, n.depth)
    BY <2>4, <2>5 DEF Went
  <2>7. Further(n, v)
    BY <2>5, <2>6, ValuedGoes
  <2>. HIDE DEF v
  <2>8. Further(b, s)
    BY <2>2, <2>3, WentTrans DEF Further
  <2>9. Further(b, n)
    BY <2>4, <2>5, <2>8, WentTrans DEF Further
  <2>10. Further(b, v)
    BY <2>5, <2>7, <2>9, WentTrans DEF Further
  <2>11. parse_member(inner, b) = v
    BY <1>2, Zenon DEF parse_member, Behind, q, s, n, v
  <2>. QED  BY <2>10, <2>11
<1>. QED  BY <1>1, <1>2
-----------------------------------------------------------------------------
(* Arrays and objects. *)

\* A place in a list that was entered with b: at a comma, if there is more.
InList(b, t, x) ==
  /\ Went(b, x.b)
  /\ x.more => x.b.ok /\ x.b.offset < x.b.length
  /\ x.b.ok /\ ~x.more => Is(x.b, Close(t))

\* One more member.
LEMMA NextGoes ==
  ASSUME NEW inner, NEW b, Placed(b), NEW t, NEW x, InList(b, t, x), Goes(inner, b.depth)
  PROVE  /\ InList(b, t, NextMember(inner, t, x))
         /\ ~x.more => NextMember(inner, t, x) = x
         /\ x.b.offset \in Nat
         /\ NextMember(inner, t, x).more => /\ x.more
                                            /\ NextMember(inner, t, x).b.offset >= x.b.offset + 1
                                            /\ Is(NextMember(inner, t, x).b, Comma)
<1>. DEFINE g == Got(x.b, Value)
            m == IF t = "array" THEN parse_element(inner, g) ELSE parse_member(inner, g)
            y == AfterMember(m, t, x.items)
            n == NextMember(inner, t, x)
<1>0. n = IF x.more THEN y ELSE x
  BY Zenon DEF NextMember
<1>1. Went(b, x.b) /\ Placed(x.b) /\ x.b.offset \in Nat /\ x.b.length \in Nat
  BY DEF InList, Went, Placed, Buffer
<1>2. CASE ~x.more
  <2>1. n = x
    BY <1>0, <1>2
  <2>. HIDE DEF n
  <2>. QED  BY <1>1, <1>2, <2>1 DEF n
<1>3. CASE x.more
  <2>1. x.b.ok /\ x.b.offset < x.b.length
    BY <1>3 DEF InList
  <2>2. Placed(g) /\ Went(b, g) /\ g.ok /\ g.offset = x.b.offset /\ g.length = x.b.length
        /\ g.got = Value
    BY <1>1, <2>1, GotGoes, NewGot DEF Placed
  <2>. HIDE DEF g
  <2>3. g.got \in Unread
    <3>1. <<>> \in Seq(Int)
      OBVIOUS
    <3>. QED  BY <2>2, <3>1, UnreadIs
  <2>4. Goes(inner, g.depth)
    BY <2>2 DEF Went
  <2>5. Further(g, m)
    <3>1. Further(g, parse_element(inner, g))
      BY <2>1, <2>2, <2>3, <2>4, ElementGoes
    <3>2. Further(g, parse_member(inner, g))
      BY <2>2, <2>3, <2>4, MemberGoes
    <3>. QED  BY <3>1, <3>2
  <2>. HIDE DEF m
  <2>6. Went(b, m) /\ Placed(m) /\ m.offset \in Nat
    <3>1. Placed(m) /\ m.offset \in Nat
      BY <2>5 DEF Further, Went, Placed, Buffer
    <3>. QED  BY <2>2, <2>5, <3>1, WentTrans DEF Further
  <2>7. /\ y.b = IF m.ok /\ ~Is(m, Comma) /\ ~Is(m, Close(t)) THEN Fail(m) ELSE m
        /\ y.more <=> m.ok /\ Is(m, Comma)
    BY DEF AfterMember
  <2>8. n = y
    BY <1>0, <1>3
  <2>. HIDE DEF y, n
  <2>9. Is(m, Comma) => m.offset < m.length
    BY <2>6, ByteIs DEF Comma
  <2>10. CASE m.ok /\ ~Is(m, Comma) /\ ~Is(m, Close(t))
    <3>1. y.b = Fail(m) /\ ~y.more
      BY <2>7, <2>10
    <3>2. Went(b, Fail(m))
      BY <2>6, FailGoes DEF Further, Went
    <3>3. ~y.b.ok
      BY <2>6, <3>1, Failed DEF Placed
    <3>4. Went(b, y.b)
      BY <3>1, <3>2
    <3>5. InList(b, t, y)
      BY <3>1, <3>3, <3>4, Zenon DEF InList
    <3>. QED  BY <1>1, <1>3, <2>8, <3>1, <3>5 DEF n
  <2>11. CASE ~(m.ok /\ ~Is(m, Comma) /\ ~Is(m, Close(t)))
    <3>1. y.b = m
      BY <2>7, <2>11
    <3>2. Went(b, y.b) /\ (y.more => y.b.ok /\ y.b.offset < y.b.length)
      BY <2>6, <2>7, <2>9, <3>1
    <3>3. y.b.ok /\ ~y.more => Is(y.b, Close(t))
      BY <2>7, <2>11, <3>1
    <3>4. InList(b, t, y)
      BY <3>2, <3>3, Zenon DEF InList
    <3>5. m.ok => g.offset < m.offset
      BY <2>5 DEF Further
    <3>6. y.more => y.b.offset >= x.b.offset + 1 /\ Is(y.b, Comma)
      BY <1>1, <2>2, <2>6, <2>7, <3>1, <3>5
    <3>. QED  BY <1>1, <1>3, <2>8, <3>4, <3>6 DEF n
  <2>. QED  BY <2>10, <2>11
<1>. QED  BY <1>2, <1>3

\* The rounds of the loop, each made of the one before it.
Rounds(inner, b, t, f, n) ==
  /\ f[0] = [b |-> b, items |-> <<>>, more |-> TRUE]
  /\ \A k \in 1..n : f[k] = NextMember(inner, t, f[k - 1])

\* How many there may be: a member more than there are commas left, each counted as
\* one up to a place.
LEMMA CommasLeft ==
  ASSUME NEW b, Placed(b)
  PROVE  Commas(b) \in SUBSET Nat /\ IsFiniteSet(Commas(b)) /\ MostMembers(b) \in Nat
<1>1. b.offset + 1 \in Nat /\ b.length \in Nat
  BY DEF Placed, Buffer
<1>2. IsFiniteSet((b.offset + 1)..b.length)
  BY <1>1, FS_Interval
<1>3. Commas(b) \subseteq (b.offset + 1)..b.length
  BY DEF Commas
<1>4. IsFiniteSet(Commas(b)) /\ Cardinality(Commas(b)) \in Nat
  BY <1>2, <1>3, FS_Subset, FS_CardinalityType
<1>. QED  BY <1>1, <1>3, <1>4 DEF MostMembers

UpTo(S, n) == {j \in S : j <= n}

LEMMA OneMoreUpTo ==
  ASSUME NEW S \in SUBSET Nat, IsFiniteSet(S), NEW m \in Nat, NEW n \in Nat, m < n, n \in S
  PROVE  Cardinality(UpTo(S, m)) + 1 <= Cardinality(UpTo(S, n))
<1>. DEFINE A == UpTo(S, m)
            B == UpTo(S, n)
<1>1. A \subseteq S /\ B \subseteq S /\ n \notin A /\ A \cup {n} \subseteq B
  <2>1. \A j \in S : j <= m => j <= n /\ j # n
    OBVIOUS
  <2>2. n <= n
    OBVIOUS
  <2>. QED  BY <2>1, <2>2, Zenon DEF UpTo
<1>. HIDE DEF A, B
<1>2. IsFiniteSet(A) /\ IsFiniteSet(B)
  BY <1>1, FS_Subset
<1>3. Cardinality(A \cup {n}) = Cardinality(A) + 1
  BY <1>1, <1>2, FS_AddElement
<1>4. Cardinality(A \cup {n}) <= Cardinality(B)
  BY <1>1, <1>2, FS_Subset
<1>. QED  BY <1>3, <1>4 DEF A, B

LEMMA UpToAtMost ==
  ASSUME NEW S, IsFiniteSet(S), NEW n
  PROVE  /\ Cardinality(UpTo(S, n)) \in Nat
         /\ Cardinality(UpTo(S, n)) <= Cardinality(S)
         /\ Cardinality(S) \in Nat
<1>1. UpTo(S, n) \subseteq S
  BY DEF UpTo
<1>. QED  BY <1>1, FS_Subset, FS_CardinalityType

LEMMA RoundsThere ==
  ASSUME NEW inner, NEW b, NEW t, NEW n \in Nat, n = MostMembers(b)
  PROVE  \E f : /\ Rounds(inner, b, t, f, n)
                /\ Members(inner, b, t) = Got(f[n].b, List(t, f[n].items))
<1>. DEFINE first == [b |-> b, items |-> <<>>, more |-> TRUE]
            Made(f, m) == f = [k \in 0..m |-> IF k = 0 THEN first ELSE NextMember(inner, t, f[k - 1])]
            l == MostMembers(b)
            after == CHOOSE f : Made(f, l)
            T == {m \in 0..l : ~\E f : Made(f, m)}
<1>0. l \in Nat /\ l = n
  OBVIOUS
<1>1. Members(inner, b, t) = Got(after[l].b, List(t, after[l].items))
  BY Zenon DEF Members
<1>. HIDE DEF l, first
<1>2. T = {}
  <2>. SUFFICES ASSUME T # {} PROVE FALSE
    OBVIOUS
  <2>0. T \in SUBSET Nat
    BY <1>0
  <2>1. PICK m \in T : \A y \in T : ~(y < m)
    <3>. HIDE DEF T
    <3>. QED  BY <2>0, Smallest
  <2>2. m \in Nat /\ m \in 0..l /\ ~\E f : Made(f, m)
    BY <1>0
  <2>3. CASE m = 0
    <3>. DEFINE f == [k \in 0..m |-> first]
    <3>1. \A k \in 0..m : k = 0
      BY <2>3
    <3>2. f = [k \in 0..m |-> IF k = 0 THEN first ELSE NextMember(inner, t, f[k - 1])]
      BY <3>1
    <3>. QED  BY <2>2, <3>2
  <2>4. CASE m # 0
    <3>1. m - 1 \in 0..l /\ m - 1 < m /\ m - 1 \in Nat
      BY <1>0, <2>2, <2>4
    <3>2. PICK f : Made(f, m - 1)
      BY <2>1, <3>1
    <3>3. \A k \in 0..(m - 1) : f[k] = IF k = 0 THEN first ELSE NextMember(inner, t, f[k - 1])
      BY <3>2, Zenon
    <3>. DEFINE x == NextMember(inner, t, f[m - 1])
                g == [k \in 0..m |-> IF k < m THEN f[k] ELSE x]
    <3>4. \A k \in 0..m : g[k] = IF k < m THEN f[k] ELSE x
      OBVIOUS
    <3>5. DOMAIN g = 0..m
      OBVIOUS
    <3>6. g = [k \in 0..m |-> g[k]]
      OBVIOUS
    <3>7. x = NextMember(inner, t, f[m - 1])
      OBVIOUS
    <3>. HIDE DEF g, x
    <3>8. \A k \in 0..m : g[k] = IF k = 0 THEN first ELSE NextMember(inner, t, g[k - 1])
      <4>. TAKE k \in 0..m
      <4>1. CASE k = 0
        <5>1. 0 \in 0..(m - 1) /\ 0 < m
          BY <2>2, <2>4
        <5>. QED  BY <3>3, <3>4, <4>1, <5>1
      <4>2. CASE k # 0 /\ k < m
        <5>1. k \in 0..(m - 1) /\ k - 1 \in 0..m /\ k - 1 < m
          BY <2>2, <4>2
        <5>2. g[k - 1] = f[k - 1] /\ g[k] = f[k]
          BY <3>4, <4>2, <5>1
        <5>3. f[k] = NextMember(inner, t, f[k - 1])
          BY <3>3, <4>2, <5>1
        <5>. QED  BY <4>2, <5>2, <5>3
      <4>3. CASE k # 0 /\ ~(k < m)
        <5>1. k = m /\ m - 1 \in 0..m /\ m - 1 < m
          BY <2>2, <2>4, <4>3
        <5>2. g[m - 1] = f[m - 1] /\ g[m] = x
          BY <3>4, <4>3, <5>1
        <5>. QED  BY <3>7, <4>3, <5>1, <5>2
      <4>. QED  BY <4>1, <4>2, <4>3
    <3>9. g = [k \in 0..m |-> IF k = 0 THEN first ELSE NextMember(inner, t, g[k - 1])]
      BY <3>6, <3>8
    <3>. QED  BY <2>2, <3>9
  <2>. QED  BY <2>3, <2>4
<1>3. \E f : Made(f, l)
  <2>1. l \in 0..l
    BY <1>0
  <2>. QED  BY <1>2, <2>1
<1>4. Made(after, l)
  BY <1>3, Zenon
<1>. HIDE DEF after
<1>5. \A k \in 0..l : after[k] = IF k = 0 THEN first ELSE NextMember(inner, t, after[k - 1])
  BY <1>4, Zenon
<1>6. after[0] = first /\ \A k \in 1..l : after[k] = NextMember(inner, t, after[k - 1])
  <2>1. 0 \in 0..l /\ \A k \in 1..l : k \in 0..l /\ k # 0
    BY <1>0
  <2>. QED  BY <1>5, <2>1
<1>7. Rounds(inner, b, t, after, l)
  BY <1>6, Zenon DEF Rounds, first
<1>. QED  BY <1>0, <1>1, <1>7, Zenon

\* The loop ends: at the bracket that closes the list, or with an error.
LEMMA RoundsGo ==
  ASSUME NEW inner, NEW b, Placed(b), b.ok, b.offset < b.length, NEW t, Goes(inner, b.depth),
         NEW n \in Nat, n = MostMembers(b), NEW f, Rounds(inner, b, t, f, n)
  PROVE  /\ \A k \in 0..n : InList(b, t, f[k])
         /\ ~f[n].more
<1>. DEFINE S == Commas(b)
            Passed(x) == Cardinality(UpTo(S, x.b.offset + 1))
            Good(k) == InList(b, t, f[k]) /\ (f[k].more => Passed(f[k]) >= k)
            T == {k \in 0..n : ~Good(k)}
<1>0. n \in Nat /\ b.offset \in Nat
  BY DEF Placed, Buffer
<1>0a. S \in SUBSET Nat /\ IsFiniteSet(S) /\ n = 1 + Cardinality(S)
  BY CommasLeft DEF MostMembers
<1>0b. \A x : Passed(x) \in Nat /\ Passed(x) <= Cardinality(S) /\ Cardinality(S) \in Nat
  BY <1>0a, UpToAtMost
<1>1. T = {}
  <2>. SUFFICES ASSUME T # {} PROVE FALSE
    OBVIOUS
  <2>0. T \in SUBSET Nat
    OBVIOUS
  <2>1. PICK k \in T : \A y \in T : ~(y < k)
    <3>. HIDE DEF T
    <3>. QED  BY <2>0, Smallest
  <2>2. CASE k = 0
    <3>1. f[0].b = b /\ f[0].more
      BY DEF Rounds
    <3>2. Went(b, b)
      BY <1>0 DEF Went
    <3>3. InList(b, t, f[0])
      BY <3>1, <3>2 DEF InList
    <3>4. Passed(f[0]) >= 0
      BY <1>0b
    <3>. QED  BY <2>2, <3>3, <3>4
  <2>3. CASE k # 0
    <3>1. k \in 1..n /\ k - 1 \in 0..n /\ k - 1 < k
      BY <1>0, <2>3
    <3>. DEFINE x == f[k - 1]
                y == NextMember(inner, t, x)
    <3>2. InList(b, t, x) /\ (x.more => Passed(x) >= k - 1)
      BY <2>1, <3>1
    <3>3. f[k] = y
      BY <3>1 DEF Rounds
    <3>. HIDE DEF x
    <3>4. /\ InList(b, t, y) /\ x.b.offset \in Nat
          /\ y.more => x.more /\ y.b.offset >= x.b.offset + 1 /\ Is(y.b, Comma)
      BY <3>2, NextGoes
    <3>. HIDE DEF y
    <3>5. ASSUME y.more
          PROVE  Passed(y) >= k
      <4>. DEFINE i == x.b.offset + 1
                  j == y.b.offset + 1
      <4>1. /\ Placed(y.b) /\ y.b.offset \in Nat /\ y.b.content = b.content
            /\ y.b.length = b.length /\ (y.b.ok => b.offset <= y.b.offset) /\ y.b.ok
            /\ y.b.offset < y.b.length /\ b.length \in Nat
        BY <3>4, <3>5 DEF InList, Went, Placed, Buffer
      <4>2. b.content[j] = Comma
        BY <3>4, <3>5, <4>1, ByteIs DEF Comma
      <4>3. j \in b.offset + 1..b.length
        BY <1>0, <4>1
      <4>4. j \in S
        BY <4>2, <4>3, Zenon DEF Commas
      <4>5. i \in Nat /\ j \in Nat /\ i < j
        BY <3>4, <3>5, <4>1
      <4>. HIDE DEF i, j, S
      <4>6. Cardinality(UpTo(S, i)) + 1 <= Cardinality(UpTo(S, j))
        BY <1>0a, <4>4, <4>5, OneMoreUpTo
      <4>7. Passed(x) + 1 <= Passed(y)
        BY <4>6 DEF i, j
      <4>8. Passed(x) >= k - 1 /\ Passed(x) \in Nat /\ Passed(y) \in Nat
        BY <1>0b, <3>2, <3>4, <3>5
      <4>. HIDE DEF Passed
      <4>. QED  BY <3>1, <4>7, <4>8
    <3>. QED  BY <3>3, <3>4, <3>5
  <2>. QED  BY <2>2, <2>3
<1>2. \A k \in 0..n : InList(b, t, f[k]) /\ (f[k].more => Passed(f[k]) >= k)
  BY <1>1
<1>3. ~f[n].more
  <2>. SUFFICES ASSUME f[n].more PROVE FALSE
    OBVIOUS
  <2>1. n \in 0..n
    BY <1>0
  <2>2. Passed(f[n]) >= n /\ Passed(f[n]) <= Cardinality(S)
    BY <1>0b, <1>2, <2>1
  <2>3. Passed(f[n]) \in Nat /\ Cardinality(S) \in Nat
    BY <1>0b
  <2>. HIDE DEF Passed, S
  <2>. QED  BY <1>0a, <2>2, <2>3
<1>. QED  BY <1>2, <1>3

\* The byte at the offset is the same if only the value is another one.
LEMMA GotByte ==
  ASSUME NEW r, Placed(r), NEW v, NEW c
  PROVE  Is(Got(r, v), c) <=> Is(r, c)
<1>1. /\ Got(r, v).content = r.content /\ Got(r, v).length = r.length
      /\ Got(r, v).offset = r.offset
  BY NewGot DEF Placed
<1>. QED  BY <1>1, Zenon DEF Is, Byte, can_access

\* What is between the brackets is read, up to the one that closes the list.
LEMMA ContentGoes ==
  ASSUME NEW inner, NEW d, Placed(d), d.ok, d.offset < d.length, NEW t, Goes(inner, d.depth)
  PROVE  /\ Went(d, Content(inner, Behind(d), t))
         /\ Content(inner, Behind(d), t).ok => Is(Content(inner, Behind(d), t), Close(t))
<1>. DEFINE b == Behind(d)
            c == Content(inner, b, t)
            m == b.offset - 1
            w == [b EXCEPT !.offset = m]
<1>1. Further(d, b) /\ Placed(b) /\ b.ok
  BY BehindIs
<1>. HIDE DEF b
<1>2. /\ b.offset \in Nat /\ b.length \in Nat /\ Buffer(b) /\ b.offset <= b.length
      /\ d.offset \in Nat /\ d.offset < b.offset /\ b.length = Len(b.content)
  BY <1>1 DEF Placed, Buffer, Further
<1>3. c = IF Is(b, Close(t)) THEN Got(b, List(t, <<>>))
          ELSE IF can_access(b, 0) THEN Members(inner, w, t) ELSE Fail(w)
  <2>1. b.offset + (-1) = m
    BY <1>2
  <2>2. Forward(b, -1) = w
    BY <2>1 DEF Forward
  <2>. HIDE DEF w
  <2>. QED  BY <2>2, Zenon DEF Content
<1>4. m \in Nat /\ d.offset <= m /\ m < b.length /\ m <= b.length
  BY <1>2
<1>. HIDE DEF m
<1>5. /\ Buffer(w) /\ w.content = b.content /\ w.length = b.length /\ w.offset = m
      /\ w.depth = b.depth /\ w.ok = b.ok /\ w.inside = b.inside
  BY <1>2, <1>4, NewOffset
<1>. HIDE DEF w
<1>6. Placed(w)
  BY <1>2, <1>4, <1>5 DEF Placed
<1>7. Went(d, w)
  <2>1. Went(d, b)
    BY <1>1 DEF Further
  <2>2. d.offset <= w.offset
    BY <1>4, <1>5
  <2>. QED  BY <1>5, <1>6, <2>1, <2>2, Zenon DEF Went
<1>8. CASE Is(b, Close(t))
  <2>. DEFINE v == List(t, <<>>)
  <2>1. c = Got(b, v)
    BY <1>3, <1>8
  <2>. HIDE DEF v, c
  <2>2. Went(d, Got(b, v))
    BY <1>1, GotGoes DEF Further
  <2>3. Is(Got(b, v), Close(t))
    BY <1>1, <1>8, GotByte
  <2>4. Went(d, c) /\ Is(c, Close(t))
    BY <2>1, <2>2, <2>3
  <2>. QED  BY <2>4 DEF c, b
<1>9. CASE ~Is(b, Close(t)) /\ can_access(b, 0)
  <2>1. w.length \in Nat /\ w.ok /\ w.offset < w.length
    BY <1>1, <1>2, <1>4, <1>5
  <2>. DEFINE n == MostMembers(w)
  <2>1a. n \in Nat /\ n = MostMembers(w)
    BY <1>6, CommasLeft
  <2>. HIDE DEF n
  <2>2. PICK f : Rounds(inner, w, t, f, n) /\ Members(inner, w, t) = Got(f[n].b, List(t, f[n].items))
    BY <2>1a, RoundsThere
  <2>. DEFINE x == f[n]
              v == List(t, x.items)
  <2>3. Goes(inner, w.depth)
    BY <1>7, <2>1 DEF Went
  <2>4. (\A k \in 0..n : InList(w, t, f[k])) /\ ~f[n].more
    BY <1>6, <2>1, <2>1a, <2>2, <2>3, RoundsGo
  <2>5. InList(w, t, x) /\ ~x.more
    <3>1. n \in 0..n
      BY <2>1a
    <3>. QED  BY <2>4, <3>1
  <2>6. c = Got(x.b, v)
    BY <1>3, <1>9, <2>2
  <2>. HIDE DEF x, v, c
  <2>7. Went(w, x.b) /\ (x.b.ok => Is(x.b, Close(t)))
    BY <2>5 DEF InList
  <2>8. Placed(x.b) /\ Went(d, x.b)
    <3>1. Placed(x.b)
      BY <2>7 DEF Went
    <3>. QED  BY <1>6, <1>7, <2>7, <3>1, WentTrans
  <2>9. Went(d, Got(x.b, v)) /\ (Is(Got(x.b, v), Close(t)) <=> Is(x.b, Close(t)))
        /\ Got(x.b, v).ok = x.b.ok
    BY <2>8, GotGoes, GotByte, NewGot DEF Placed
  <2>10. Went(d, c) /\ (c.ok => Is(c, Close(t)))
    BY <2>6, <2>7, <2>9
  <2>. QED  BY <2>10 DEF c, b
<1>10. CASE ~Is(b, Close(t)) /\ ~can_access(b, 0)
  <2>1. c = Fail(w)
    BY <1>3, <1>10
  <2>. HIDE DEF c
  <2>2. Further(d, Fail(w)) /\ ~Fail(w).ok
    BY <1>5, <1>6, <1>7, FailGoes, Failed DEF Went
  <2>3. Went(d, c) /\ ~c.ok
    BY <2>1, <2>2 DEF Further
  <2>. QED  BY <2>3 DEF c, b
<1>. QED  BY <1>8, <1>9, <1>10

\* A list is read, with what is in it one deeper.
LEMMA ListGoes ==
  ASSUME NEW inner, NEW b, Placed(b), b.ok, b.offset < b.length, NEW t,
         b.depth < NESTING_LIMIT => Goes(inner, b.depth + 1)
  PROVE  Further(b, parse_list(inner, b, t))
<1>. DEFINE e == b.depth + 1
            d == [b EXCEPT !.depth = e]
            m == Content(inner, Behind(d), t)
            s == Forward(Shallower(m), 1)
            v == As(b.got.name, m.got)
<1>0. /\ b.depth \in Nat /\ e \in Nat /\ Buffer(b) /\ b.length = Len(b.content)
      /\ b.offset \in Nat /\ b.offset <= b.length /\ NESTING_LIMIT \in Nat
  BY LimitsAssumption DEF Placed, Buffer
<1>1. parse_list(inner, b, t) = IF b.depth >= NESTING_LIMIT THEN Fail(b)
                                ELSE IF ~m.ok THEN m ELSE Got(s, v)
  <2>1. d = Deeper(b)
    BY DEF Deeper
  <2>. HIDE DEF d
  <2>. QED  BY <2>1, Zenon DEF parse_list, Behind
<1>2. e = b.depth + 1
  OBVIOUS
<1>. HIDE DEF e
<1>3. /\ Buffer(d) /\ d.content = b.content /\ d.length = b.length /\ d.offset = b.offset
      /\ d.depth = e /\ d.ok = b.ok /\ d.inside = b.inside
  BY <1>0, NewDepth
<1>. HIDE DEF d, v
<1>4. Placed(d)
  BY <1>0, <1>3 DEF Placed
<1>5. CASE b.depth >= NESTING_LIMIT
  <2>1. Further(b, Fail(b))
    BY FailGoes
  <2>. QED  BY <1>1, <1>5, <2>1
<1>6. CASE ~(b.depth >= NESTING_LIMIT)
  <2>1. Goes(inner, d.depth)
    BY <1>0, <1>2, <1>3, <1>6
  <2>2. Went(d, m) /\ (m.ok => Is(m, Close(t)))
    BY <1>3, <1>4, <2>1, ContentGoes
  <2>. HIDE DEF m
  <2>3. /\ Placed(m) /\ m.content = b.content /\ m.length = b.length
        /\ b.inside => m.inside
        /\ m.ok => m.depth = e /\ b.offset <= m.offset
    BY <1>3, <2>2 DEF Went
  <2>4. CASE ~m.ok
    <3>1. Went(b, m)
      BY <2>3, <2>4, Zenon DEF Went
    <3>2. Further(b, m)
      BY <2>4, <3>1, Zenon DEF Further
    <3>. QED  BY <1>1, <1>6, <2>4, <3>2
  <2>5. CASE m.ok
    <3>1. m.offset < m.length
      <4>1. Close(t) \in Nat
        BY DEF Close
      <4>. QED  BY <2>2, <2>3, <2>5, <4>1, ByteIs
    <3>. DEFINE a == [m EXCEPT !.depth = b.depth]
    <3>2. Shallower(m) = a
      <4>1. m.depth - 1 = b.depth
        BY <1>0, <1>2, <2>3, <2>5
      <4>. QED  BY <4>1 DEF Shallower
    <3>3. /\ Buffer(a) /\ a.content = m.content /\ a.length = m.length /\ a.offset = m.offset
          /\ a.depth = b.depth /\ a.ok = m.ok /\ a.inside = m.inside
      BY <1>0, <2>3, NewDepth DEF Placed
    <3>. HIDE DEF a
    <3>4. Placed(a)
      BY <2>3, <3>3 DEF Placed
    <3>5. Went(b, a)
      BY <2>3, <2>5, <3>3, <3>4, Zenon DEF Went
    <3>6. a.offset + 1 <= a.length
      BY <3>1, <3>3, <3>4 DEF Placed, Buffer
    <3>7. Further(a, Forward(a, 1)) /\ Placed(Forward(a, 1))
      BY <3>4, <3>6, ForwardGoes
    <3>8. Further(b, Forward(a, 1))
      BY <3>4, <3>5, <3>7, WentTrans DEF Further
    <3>9. s = Forward(a, 1)
      BY <3>2
    <3>. HIDE DEF s
    <3>10. Further(b, Got(s, v))
      BY <3>7, <3>8, <3>9, GotGoes
    <3>. QED  BY <1>1, <1>6, <2>5, <3>10
  <2>. QED  BY <2>4, <2>5
<1>. QED  BY <1>5, <1>6

\* A value is read.
LEMMA ParsedGoes ==
  ASSUME NEW inner, NEW b \in ToRead, b.depth < NESTING_LIMIT => Goes(inner, b.depth + 1)
  PROVE  Further(b, parsed(inner, b))
<1>. DEFINE words == {w \in {"null", "false", "true"} : Reads(b, Word(w))}
            w == CHOOSE w \in words : TRUE
            n == Len(Word(w))
            v == [b.got EXCEPT !.type = w]
            named == Forward([b EXCEPT !.got.type = w], n)
            r == parsed(inner, b)
            digit == Is(b, Minus) \/ IsDigit(Byte(b))
<1>0. Placed(b) /\ b.got \in Unread /\ b.offset \in Nat /\ b.length \in Nat /\ b.offset <= b.length
      /\ Buffer(b) /\ b.ok \in BOOLEAN
  BY ToReadIs DEF Placed, Buffer
<1>1. /\ ~b.ok => r = b
      /\ b.ok =>
           \/ words # {} /\ r = named
           \/ Is(b, Quote) /\ r = parse_string(b)
           \/ digit /\ r = parse_number(b)
           \/ Is(b, Open("array")) /\ r = parse_list(inner, b, "array")
           \/ Is(b, Open("object")) /\ r = parse_list(inner, b, "object")
           \/ r = Fail(b)
  BY Zenon DEF parsed
<1>2. words # {} => Reads(b, Word(w))
  <2>1. words # {} => w \in words
    BY Zenon
  <2>. QED  BY <2>1, Zenon
<1>3. n > 0 /\ n \in Nat
  <2>1. Word(w) = <<110, 117, 108, 108>> \/ Word(w) = <<116, 114, 117, 101>>
        \/ Word(w) = <<102, 97, 108, 115, 101>>
    BY Zenon DEF Word
  <2>2. /\ Len(<<110, 117, 108, 108>>) = 4
        /\ Len(<<116, 114, 117, 101>>) = 4
        /\ Len(<<102, 97, 108, 115, 101>>) = 5
    OBVIOUS
  <2>3. n = 4 \/ n = 5
    BY <2>1, <2>2, Zenon
  <2>. HIDE DEF n
  <2>. QED  BY <2>3
<1>4. named = Forward(Got(b, v), n)
  BY <1>0 DEF Got, Buffer
<1>5. words # {} => b.offset + n <= b.length
  BY <1>2, Zenon DEF Reads
<1>6. Is(b, Quote) \/ digit \/ Is(b, Open("array")) \/ Is(b, Open("object")) => b.offset < b.length
  <2>1. Quote \in Nat /\ Minus \in Nat /\ Open("array") \in Nat /\ Open("object") \in Nat
    BY DEF Quote, Minus, Open
  <2>2. IsDigit(Byte(b)) => b.offset < b.length
    BY <1>0 DEF IsDigit, Byte, can_access
  <2>. QED  BY <1>0, <2>1, <2>2, ByteIs
<1>. HIDE DEF words, w, n, v, named, r, digit
<1>7. CASE ~b.ok
  <2>1. Went(b, b)
    BY <1>0 DEF Went
  <2>. QED  BY <1>1, <1>7, <2>1 DEF r, Further
<1>8. CASE b.ok
  <2>1. words # {} => Further(b, named)
    <3>. SUFFICES ASSUME words # {} PROVE Further(b, named)
      OBVIOUS
    <3>. DEFINE g == Got(b, v)
    <3>1. Went(b, b)
      BY <1>0 DEF Went
    <3>2. Placed(g) /\ Went(b, g) /\ g.offset = b.offset /\ g.length = b.length
      BY <1>0, <3>1, GotGoes, NewGot
    <3>. HIDE DEF g
    <3>3. Further(g, Forward(g, n)) /\ Placed(Forward(g, n))
      BY <1>3, <1>5, <3>2, ForwardGoes
    <3>4. Further(b, Forward(g, n))
      BY <1>0, <3>2, <3>3, WentTrans DEF Further
    <3>. QED  BY <1>4, <3>4 DEF g
  <2>2. Is(b, Quote) => Further(b, parse_string(b))
    BY <1>0, <1>6, <1>8, StringGoes
  <2>3. digit => Further(b, parse_number(b))
    BY <1>0, <1>6, NumberGoes
  <2>4. \A t : b.offset < b.length => Further(b, parse_list(inner, b, t))
    BY <1>0, <1>8, ListGoes
  <2>5. Further(b, Fail(b))
    BY <1>0, FailGoes
  <2>. QED  BY <1>1, <1>6, <1>8, <2>1, <2>2, <2>3, <2>4, <2>5, Zenon DEF r
<1>. QED  BY <1>0, <1>7, <1>8

\* Pa is what parse_value makes of the buffers that it may be called with; P is, of those
\* that are not too deep.
Parses(Pa) == \A b \in ToRead : Pa[b] = parsed(Pa, b)

\* How deep a value may be that is read from b.
Left(b) == IF b.depth < NESTING_LIMIT THEN NESTING_LIMIT - b.depth ELSE 0
ParsesLeft(P, n) == \A b \in ToRead : Left(b) < n => P[b] = parsed(P, b)

LEMMA LeftIs ==
  ASSUME NEW b \in ToRead
  PROVE  /\ Left(b) \in Nat /\ Left(b) < NESTING_LIMIT + 1
         /\ \A q \in ToRead : b.depth < NESTING_LIMIT /\ q.depth = b.depth + 1 => Left(q) < Left(b)
<1>1. \A q \in ToRead : q.depth \in Nat
  BY DEF ToRead, ParseBuffer
<1>. QED  BY <1>1, LimitsAssumption DEF Left

LEMMA InsideLeft ==
  ASSUME NEW n \in Nat, NEW P, ParsesLeft(P, n)
  PROVE  \A b \in ToRead : Left(b) < n => Further(b, P[b])
<1>. DEFINE T == {l \in Nat : \E b \in ToRead : Left(b) = l /\ l < n /\ ~Further(b, P[b])}
<1>. SUFFICES ASSUME T # {} PROVE FALSE
  BY LeftIs
<1>0. T \in SUBSET Nat
  OBVIOUS
<1>1. PICK l \in T : \A y \in T : ~(y < l)
  <2>. HIDE DEF T
  <2>. QED  BY <1>0, Smallest
<1>2. PICK b \in ToRead : Left(b) = l /\ l < n /\ ~Further(b, P[b])
  BY <1>1
<1>3. b.depth < NESTING_LIMIT => Goes(P, b.depth + 1)
  <2>. SUFFICES ASSUME b.depth < NESTING_LIMIT, NEW q \in ToRead, q.depth = b.depth + 1
                PROVE  Further(q, P[q])
    BY Zenon DEF Goes
  <2>1. Left(q) \in Nat /\ Left(q) < l
    BY <1>2, LeftIs
  <2>2. l \in Nat
    OBVIOUS
  <2>3. Left(q) < n
    BY <1>2, <2>1, <2>2
  <2>. QED  BY <1>1, <2>1, <2>3
<1>4. Further(b, parsed(P, b))
  BY <1>3, ParsedGoes
<1>5. P[b] = parsed(P, b)
  BY <1>2, Zenon DEF ParsesLeft
<1>. QED  BY <1>2, <1>4, <1>5

\* Whatever a text holds and wherever it ends, parse_value reads nothing outside it and
\* writes no string outside what is allocated for it, goes on in it if it reads a value,
\* and leaves its offset in it if it does not (parse_value and all that it calls).
THEOREM ParsesInside ==
  ASSUME NEW Pa, Parses(Pa)
  PROVE  \A b \in ToRead : Further(b, Pa[b])
<1>. DEFINE n == NESTING_LIMIT + 1
<1>1. n \in Nat /\ ParsesLeft(Pa, n)
  BY LimitsAssumption DEF Parses, ParsesLeft
<1>2. \A b \in ToRead : Left(b) < n
  BY LeftIs
<1>. HIDE DEF n
<1>. QED  BY <1>1, <1>2, InsideLeft

\* ... and so does cJSON_ParseWithLengthOpts, for a text of any length: a value ends in
\* the text, and the place of an error is one of its bytes.
THEOREM TextsInside ==
  ASSUME NEW Pa, Parses(Pa), NEW text \in Seq(Int), text # <<>>, NEW nul \in BOOLEAN,
         NEW r, r = Ended(Pa[skip_whitespace(skip_utf8_bom(parse_buffer(text)))], nul)
  PROVE  /\ r.inside
         /\ r.offset \in Nat
         /\ r.ok => 0 < r.offset /\ r.offset <= Len(text)
         /\ ~r.ok => r.offset < Len(text)
<1>. DEFINE b == parse_buffer(text)
            c == skip_utf8_bom(b)
            d == skip_whitespace(c)
            e == Pa[d]
            s == IF nul THEN ThenSpace(e) ELSE e
            m == IF s.offset < s.length THEN s.offset ELSE s.length - 1
            f == [s EXCEPT !.offset = m]
            good == s.ok /\ (nul => Is(s, NUL))
<1>0. Len(text) \in Nat /\ Len(text) # 0
  BY EmptySeq
<1>1. Placed(b) /\ b.got = Value /\ b.inside /\ b.offset = 0 /\ b.length = Len(text)
  BY <1>0 DEF parse_buffer, Placed, Buffer
<1>2. r = IF good THEN s ELSE Fail(f)
  BY SMT DEF Ended
<1>. HIDE DEF b
<1>3. Went(b, c) /\ Placed(c) /\ c.got = b.got
  <2>1. CASE can_access(b, 4) /\ Reads(b, <<239, 187, 191>>)
    <3>1. b.offset + 3 <= b.length
      BY <1>0, <1>1, <2>1 DEF can_access
    <3>2. c = Forward(b, 3)
      BY <2>1 DEF skip_utf8_bom
    <3>. QED  BY <1>1, <3>1, <3>2, ForwardGoes
  <2>2. CASE ~(can_access(b, 4) /\ Reads(b, <<239, 187, 191>>))
    <3>1. c = b
      BY <2>2 DEF skip_utf8_bom
    <3>2. Went(b, b)
      BY <1>0, <1>1 DEF Went
    <3>. QED  BY <1>1, <3>1, <3>2
  <2>. QED  BY <2>1, <2>2
<1>. HIDE DEF c
<1>4. Went(c, d) /\ d.got = c.got
  BY <1>3, SkipGoes
<1>5. d \in ToRead /\ Placed(d)
  <2>1. Placed(d)
    BY <1>4 DEF Went
  <2>2. <<>> \in Seq(Int)
    OBVIOUS
  <2>3. d.got \in Unread
    BY <1>1, <1>3, <1>4, <2>2, UnreadIs
  <2>. QED  BY <2>1, <2>3, ToReadIs
<1>. HIDE DEF d
<1>6. Further(d, e)
  BY <1>5, ParsesInside
<1>. HIDE DEF e
<1>7. Further(b, e) /\ Placed(e)
  <2>1. Placed(e)
    BY <1>6 DEF Further, Went
  <2>2. Went(b, d)
    BY <1>1, <1>3, <1>4, WentTrans
  <2>. QED  BY <1>1, <1>5, <1>6, <2>1, <2>2, WentTrans DEF Further
<1>8. Further(b, s) /\ Placed(s)
  <2>1. Went(e, ThenSpace(e)) /\ Placed(ThenSpace(e))
    BY <1>7, SpaceGoes
  <2>2. Further(b, ThenSpace(e))
    BY <1>1, <1>7, <2>1, WentTrans DEF Further
  <2>. QED  BY <1>7, <2>1, <2>2
<1>9. /\ s.inside /\ s.length = Len(text) /\ s.offset \in Nat /\ s.offset <= Len(text)
      /\ s.ok => 0 < s.offset
      /\ Buffer(s)
  BY <1>1, <1>8 DEF Further, Went, Placed, Buffer
<1>10. m = IF s.offset < s.length THEN s.offset ELSE s.length - 1
  OBVIOUS
<1>. HIDE DEF s, m
<1>11. m \in Nat /\ m < Len(text)
  BY <1>0, <1>9, <1>10
<1>12. /\ Buffer(f) /\ f.offset = m /\ f.inside = s.inside
  BY <1>9, <1>11, NewOffset
<1>. HIDE DEF f
<1>13. Fail(f).offset = m /\ Fail(f).inside = s.inside /\ ~Fail(f).ok
  BY <1>12, Failed
<1>. HIDE DEF good
<1>14. CASE good
  <2>1. r = s /\ s.ok
    BY <1>2, <1>14 DEF good
  <2>. QED  BY <1>9, <2>1
<1>15. CASE ~good
  <2>1. r = Fail(f)
    BY <1>2, <1>15
  <2>. QED  BY <1>9, <1>11, <1>13, <2>1
<1>. QED  BY <1>14, <1>15
-----------------------------------------------------------------------------
(* There is one parser: what is read depends on what is read of the members. *)

\* Two inner functions read alike at a depth.
Alike(P1, P2, depth) == \A q \in ToRead : q.depth = depth => P1[q] = P2[q]

LEMMA SameElement ==
  ASSUME NEW P1, NEW P2, NEW b, Placed(b), b.offset < b.length, b.got \in Unread,
         Alike(P1, P2, b.depth)
  PROVE  parse_element(P1, b) = parse_element(P2, b)
<1>1. Behind(b) \in ToRead /\ Behind(b).depth = b.depth
  BY BehindIs
<1>2. P1[Behind(b)] = P2[Behind(b)]
  BY <1>1, Zenon DEF Alike
<1>. QED  BY <1>2, Zenon DEF parse_element, Behind

LEMMA SameMember ==
  ASSUME NEW P1, NEW P2, NEW b, Placed(b), b.ok, b.got \in Unread, Alike(P1, P2, b.depth)
  PROVE  parse_member(P1, b) = parse_member(P2, b)
<1>0. b.offset \in Nat /\ b.length \in Nat
  BY DEF Placed, Buffer
<1>1. CASE ~can_access(b, 1)
  BY <1>1, Zenon DEF parse_member
<1>2. CASE can_access(b, 1)
  <2>. DEFINE q == Behind(b)
              s == parse_string(q)
              n == Named(s)
  <2>1. b.offset + 1 < b.length /\ b.offset < b.length
    BY <1>0, <1>2 DEF can_access
  <2>2. Placed(q) /\ q.ok /\ q.got \in Unread /\ q.depth = b.depth /\ q.offset < q.length
    BY <2>1, BehindIs
  <2>. HIDE DEF q
  <2>3. Further(q, s) /\ (s.ok => s.got.str \in Seq(Int))
    BY <2>2, StringGoes
  <2>. HIDE DEF s
  <2>4. Placed(s) /\ (s.ok => s.depth = b.depth)
    BY <2>2, <2>3 DEF Further, Went
  <2>5. Went(s, n) /\ Placed(n) /\ n.ok = s.ok /\ (n.ok => n.got \in Unread)
    BY <2>3, <2>4, NamedGoes
  <2>. HIDE DEF n
  <2>6. Valued(P1, n) = Valued(P2, n)
    <3>1. CASE n.ok /\ Is(n, Colon)
      <4>1. n.offset < n.length
        BY <2>5, <3>1, ByteIs DEF Colon
      <4>2. n.got \in Unread /\ Alike(P1, P2, n.depth)
        BY <2>4, <2>5, <3>1 DEF Went
      <4>3. parse_element(P1, n) = parse_element(P2, n)
        BY <2>5, <4>1, <4>2, SameElement
      <4>. QED  BY <4>3, Zenon DEF Valued
    <3>2. CASE ~(n.ok /\ Is(n, Colon))
      BY <3>2, Zenon DEF Valued
    <3>. QED  BY <3>1, <3>2
  <2>7. /\ parse_member(P1, b) = Valued(P1, n)
        /\ parse_member(P2, b) = Valued(P2, n)
    BY <1>2, Zenon DEF parse_member, Behind, q, s, n
  <2>. QED  BY <2>6, <2>7
<1>. QED  BY <1>1, <1>2

LEMMA SameNext ==
  ASSUME NEW P1, NEW P2, NEW b, NEW t, NEW x, InList(b, t, x), Alike(P1, P2, b.depth)
  PROVE  NextMember(P1, t, x) = NextMember(P2, t, x)
<1>. DEFINE g == Got(x.b, Value)
<1>1. CASE ~x.more
  BY <1>1, Zenon DEF NextMember
<1>2. CASE x.more
  <2>1. Placed(x.b) /\ x.b.ok /\ x.b.offset < x.b.length /\ x.b.depth = b.depth
    BY <1>2 DEF InList, Went
  <2>2. Placed(g) /\ g.ok /\ g.offset = x.b.offset /\ g.length = x.b.length
        /\ g.got = Value /\ g.depth = b.depth
    BY <2>1, GotGoes, NewGot DEF Placed
  <2>. HIDE DEF g
  <2>3. g.got \in Unread
    <3>1. <<>> \in Seq(Int)
      OBVIOUS
    <3>. QED  BY <2>2, <3>1, UnreadIs
  <2>4. parse_element(P1, g) = parse_element(P2, g)
    BY <2>1, <2>2, <2>3, SameElement
  <2>5. parse_member(P1, g) = parse_member(P2, g)
    BY <2>2, <2>3, SameMember
  <2>. QED  BY <2>4, <2>5, Zenon DEF NextMember, g
<1>. QED  BY <1>1, <1>2

LEMMA SameMembers ==
  ASSUME NEW P1, NEW P2, NEW b, Placed(b), b.ok, b.offset < b.length, NEW t,
         Goes(P1, b.depth), Alike(P1, P2, b.depth)
  PROVE  Members(P1, b, t) = Members(P2, b, t)
<1>. DEFINE n == MostMembers(b)
<1>0. n \in Nat /\ n = MostMembers(b)
  BY CommasLeft
<1>. HIDE DEF n
<1>1. PICK f : Rounds(P1, b, t, f, n) /\ Members(P1, b, t) = Got(f[n].b, List(t, f[n].items))
  BY <1>0, RoundsThere
<1>2. PICK g : Rounds(P2, b, t, g, n) /\ Members(P2, b, t) = Got(g[n].b, List(t, g[n].items))
  BY <1>0, RoundsThere
<1>3. \A k \in 0..n : InList(b, t, f[k])
  BY <1>0, <1>1, RoundsGo
<1>4. /\ f[0] = g[0]
      /\ \A k \in 1..n : /\ f[k] = NextMember(P1, t, f[k - 1])
                         /\ g[k] = NextMember(P2, t, g[k - 1])
  BY <1>1, <1>2, Zenon DEF Rounds
<1>. DEFINE T == {k \in 0..n : f[k] # g[k]}
<1>5. T = {}
  <2>. SUFFICES ASSUME T # {} PROVE FALSE
    OBVIOUS
  <2>0. T \in SUBSET Nat
    BY <1>0
  <2>1. PICK k \in T : \A y \in T : ~(y < k)
    <3>. HIDE DEF T
    <3>. QED  BY <2>0, Smallest
  <2>2. k # 0
    BY <1>4
  <2>3. k \in 1..n /\ k - 1 \in 0..n /\ k - 1 < k
    BY <1>0, <2>2
  <2>4. f[k - 1] = g[k - 1]
    BY <2>1, <2>3
  <2>5. NextMember(P1, t, f[k - 1]) = NextMember(P2, t, f[k - 1])
    BY <1>3, <2>3, SameNext
  <2>6. f[k] = g[k]
    BY <1>4, <2>3, <2>4, <2>5
  <2>. QED  BY <2>6
<1>6. f[n] = g[n]
  <2>1. n \in 0..n
    BY <1>0
  <2>. QED  BY <1>5, <2>1
<1>. QED  BY <1>1, <1>2, <1>6, Zenon

LEMMA SameContent ==
  ASSUME NEW P1, NEW P2, NEW d, Placed(d), d.ok, d.offset < d.length, NEW t,
         Goes(P1, d.depth), Alike(P1, P2, d.depth)
  PROVE  Content(P1, Behind(d), t) = Content(P2, Behind(d), t)
<1>. DEFINE b == Behind(d)
            m == b.offset - 1
            w == [b EXCEPT !.offset = m]
<1>1. Further(d, b) /\ Placed(b) /\ b.ok /\ b.depth = d.depth
  BY BehindIs
<1>. HIDE DEF b
<1>2. /\ b.offset \in Nat /\ b.length \in Nat /\ Buffer(b) /\ b.offset <= b.length
      /\ d.offset \in Nat /\ d.offset < b.offset /\ b.length = Len(b.content)
  BY <1>1 DEF Placed, Buffer, Further
<1>3. Forward(b, -1) = w
  <2>1. b.offset + (-1) = m
    BY <1>2
  <2>. QED  BY <2>1 DEF Forward
<1>4. m \in Nat /\ m < b.length /\ m <= b.length
  BY <1>2
<1>. HIDE DEF m
<1>5. /\ Buffer(w) /\ w.content = b.content /\ w.length = b.length /\ w.offset = m
      /\ w.depth = b.depth /\ w.ok = b.ok
  BY <1>2, <1>4, NewOffset
<1>. HIDE DEF w
<1>6. Placed(w) /\ w.ok /\ w.offset < w.length /\ w.depth = d.depth
  BY <1>1, <1>2, <1>4, <1>5 DEF Placed
<1>7. Members(P1, w, t) = Members(P2, w, t)
  BY <1>6, SameMembers
<1>8. Content(P1, b, t) = Content(P2, b, t)
  BY <1>3, <1>7, Zenon DEF Content
<1>. QED  BY <1>8 DEF b

LEMMA SameList ==
  ASSUME NEW P1, NEW P2, NEW b, Placed(b), b.ok, b.offset < b.length, NEW t,
         b.depth < NESTING_LIMIT => Goes(P1, b.depth + 1) /\ Alike(P1, P2, b.depth + 1)
  PROVE  parse_list(P1, b, t) = parse_list(P2, b, t)
<1>. DEFINE e == b.depth + 1
            d == [b EXCEPT !.depth = e]
<1>0. /\ b.depth \in Nat /\ e \in Nat /\ Buffer(b) /\ b.length = Len(b.content)
      /\ b.offset \in Nat /\ b.offset <= b.length /\ NESTING_LIMIT \in Nat
  BY LimitsAssumption DEF Placed, Buffer
<1>1. Deeper(b) = d
  BY DEF Deeper
<1>. HIDE DEF e
<1>2. /\ Buffer(d) /\ d.content = b.content /\ d.length = b.length /\ d.offset = b.offset
      /\ d.depth = e /\ d.ok = b.ok
  BY <1>0, NewDepth
<1>. HIDE DEF d
<1>3. Placed(d)
  BY <1>0, <1>2 DEF Placed
<1>4. CASE b.depth >= NESTING_LIMIT
  BY <1>4, Zenon DEF parse_list
<1>5. CASE ~(b.depth >= NESTING_LIMIT)
  <2>1. Goes(P1, d.depth) /\ Alike(P1, P2, d.depth)
    BY <1>0, <1>2, <1>5 DEF e
  <2>2. Content(P1, Behind(d), t) = Content(P2, Behind(d), t)
    <3>1. d.ok /\ d.offset < d.length
      BY <1>2
    <3>. QED  BY <1>3, <2>1, <3>1, SameContent
  <2>. QED  BY <1>1, <2>2, Zenon DEF parse_list, Behind
<1>. QED  BY <1>4, <1>5

LEMMA SameParsed ==
  ASSUME NEW P1, NEW P2, NEW b \in ToRead,
         b.depth < NESTING_LIMIT => Goes(P1, b.depth + 1) /\ Alike(P1, P2, b.depth + 1)
  PROVE  parsed(P1, b) = parsed(P2, b)
<1>0. Placed(b)
  BY ToReadIs
<1>. DEFINE array == Is(b, Open("array"))
            object == Is(b, Open("object"))
            words == {w \in {"null", "false", "true"} : Reads(b, Word(w))}
            named == Forward([b EXCEPT !.got.type = CHOOSE w \in words : TRUE],
                             Len(Word(CHOOSE w \in words : TRUE)))
            a1 == parse_list(P1, b, "array")
            a2 == parse_list(P2, b, "array")
            o1 == parse_list(P1, b, "object")
            o2 == parse_list(P2, b, "object")
            Rest(a, o) == IF ~b.ok THEN b
                          ELSE IF words # {} THEN named
                          ELSE IF Is(b, Quote) THEN parse_string(b)
                          ELSE IF Is(b, Minus) \/ IsDigit(Byte(b)) THEN parse_number(b)
                          ELSE IF array THEN a ELSE IF object THEN o ELSE Fail(b)
<1>1. parsed(P1, b) = Rest(a1, o1)
  BY SMT DEF parsed
<1>2. parsed(P2, b) = Rest(a2, o2)
  BY SMT DEF parsed
<1>3. b.ok /\ (array \/ object) => a1 = a2 /\ o1 = o2
  <2>. SUFFICES ASSUME b.ok, array \/ object PROVE a1 = a2 /\ o1 = o2
    OBVIOUS
  <2>1. Open("array") \in Nat /\ Open("object") \in Nat
    BY DEF Open
  <2>2. b.offset < b.length
    BY <1>0, <2>1, ByteIs
  <2>3. \A t : parse_list(P1, b, t) = parse_list(P2, b, t)
    BY <1>0, <2>2, SameList
  <2>. QED  BY <2>3, Zenon
<1>. HIDE DEF array, object, words, named, a1, a2, o1, o2
<1>4. Rest(a1, o1) = Rest(a2, o2)
  <2>1. CASE b.ok /\ (array \/ object)
    BY <1>3, <2>1
  <2>2. CASE ~b.ok
    BY <2>2
  <2>3. CASE ~array /\ ~object
    BY <2>3
  <2>. QED  BY <2>1, <2>2, <2>3, Zenon
<1>. QED  BY <1>1, <1>2, <1>4

\* There is no more than one parser.
THEOREM OneParser ==
  ASSUME NEW P1, Parses(P1), NEW P2, Parses(P2)
  PROVE  \A b \in ToRead : P1[b] = P2[b]
<1>. DEFINE T == {l \in Nat : \E b \in ToRead : Left(b) = l /\ P1[b] # P2[b]}
<1>. SUFFICES ASSUME T # {} PROVE FALSE
  BY LeftIs
<1>0. T \in SUBSET Nat
  OBVIOUS
<1>1. PICK l \in T : \A y \in T : ~(y < l)
  <2>. HIDE DEF T
  <2>. QED  BY <1>0, Smallest
<1>2. PICK b \in ToRead : Left(b) = l /\ P1[b] # P2[b]
  BY <1>1
<1>3. b.depth < NESTING_LIMIT => Goes(P1, b.depth + 1) /\ Alike(P1, P2, b.depth + 1)
  <2>. SUFFICES ASSUME b.depth < NESTING_LIMIT
                PROVE  Goes(P1, b.depth + 1) /\ Alike(P1, P2, b.depth + 1)
    OBVIOUS
  <2>1. Goes(P1, b.depth + 1)
    BY ParsesInside, Zenon DEF Goes
  <2>2. ASSUME NEW q \in ToRead, q.depth = b.depth + 1
        PROVE  P1[q] = P2[q]
    <3>1. Left(q) \in Nat /\ Left(q) < l
      BY <1>2, <2>2, LeftIs
    <3>. QED  BY <1>1, <3>1
  <2>. QED  BY <2>1, <2>2, Zenon DEF Alike
<1>4. parsed(P1, b) = parsed(P2, b)
  BY <1>3, SameParsed
<1>5. P1[b] = parsed(P1, b) /\ P2[b] = parsed(P2, b)
  BY Zenon DEF Parses
<1>. QED  BY <1>2, <1>4, <1>5

\* ... of the buffers that are not too deep, there is one,
LEMMA ParserLeft ==
  \A n \in Nat : \E P : ParsesLeft(P, n)
<1>. DEFINE T == {n \in Nat : ~\E P : ParsesLeft(P, n)}
<1>. SUFFICES ASSUME T # {} PROVE FALSE
  OBVIOUS
<1>0. T \in SUBSET Nat
  OBVIOUS
<1>1. PICK n \in T : \A y \in T : ~(y < n)
  <2>. HIDE DEF T
  <2>. QED  BY <1>0, Smallest
<1>2. CASE n = 0
  <2>. DEFINE P == <<>>
  <2>1. \A b \in ToRead : ~(Left(b) < 0)
    BY LeftIs
  <2>2. ParsesLeft(P, n)
    BY <1>2, <2>1, Zenon DEF ParsesLeft
  <2>. QED  BY <2>2
<1>3. CASE n # 0
  <2>1. n - 1 \in Nat /\ n - 1 < n /\ n \in Nat
    BY <1>3
  <2>2. PICK P : ParsesLeft(P, n - 1)
    BY <1>1, <2>1
  <2>. DEFINE Q == [b \in ToRead |-> parsed(P, b)]
  <2>3. \A b \in ToRead : Q[b] = parsed(P, b)
    OBVIOUS
  <2>. HIDE DEF Q
  <2>4. \A q \in ToRead : Left(q) < n - 1 => Further(q, P[q])
    BY <2>1, <2>2, InsideLeft
  <2>5. ASSUME NEW b \in ToRead, Left(b) < n
        PROVE  Q[b] = parsed(Q, b)
    <3>1. b.depth < NESTING_LIMIT => Goes(P, b.depth + 1) /\ Alike(P, Q, b.depth + 1)
      <4>. SUFFICES ASSUME b.depth < NESTING_LIMIT
                    PROVE  Goes(P, b.depth + 1) /\ Alike(P, Q, b.depth + 1)
        OBVIOUS
      <4>1. \A q \in ToRead : q.depth = b.depth + 1 => Left(q) < n - 1
        <5>. SUFFICES ASSUME NEW q \in ToRead, q.depth = b.depth + 1 PROVE Left(q) < n - 1
          OBVIOUS
        <5>1. Left(q) \in Nat /\ Left(b) \in Nat /\ Left(q) < Left(b)
          BY LeftIs
        <5>. QED  BY <2>1, <2>5, <5>1
      <4>2. Goes(P, b.depth + 1)
        BY <2>4, <4>1, Zenon DEF Goes
      <4>3. \A q \in ToRead : Left(q) < n - 1 => P[q] = parsed(P, q)
        BY <2>2, Zenon DEF ParsesLeft
      <4>4. Alike(P, Q, b.depth + 1)
        <5>1. \A q \in ToRead : q.depth = b.depth + 1 => P[q] = Q[q]
          BY <2>3, <4>1, <4>3
        <5>. QED  BY <5>1, Zenon DEF Alike
      <4>. QED  BY <4>2, <4>4
    <3>2. parsed(P, b) = parsed(Q, b)
      BY <3>1, SameParsed
    <3>. QED  BY <2>3, <3>2
  <2>6. ParsesLeft(Q, n)
    BY <2>5, Zenon DEF ParsesLeft
  <2>. QED  BY <1>1, <2>6
<1>. QED  BY <1>2, <1>3

\* and so there is a parser of all of them.
THEOREM ParserThere ==
  \E Pa : Parses(Pa)
<1>. DEFINE n == NESTING_LIMIT + 1
<1>1. n \in Nat /\ \A b \in ToRead : Left(b) < n
  BY LimitsAssumption, LeftIs
<1>. HIDE DEF n
<1>2. PICK P : ParsesLeft(P, n)
  BY <1>1, ParserLeft
<1>3. Parses(P)
  BY <1>1, <1>2, Zenon DEF Parses, ParsesLeft
<1>. QED  BY <1>3
=============================================================================
