--------------------------- MODULE CJsonPrintProofs ---------------------------
(***************************************************************************)
(* That documents of any height are printed inside the buffer, with a text *)
(* that does not depend on the buffer, and into any buffer of two bytes    *)
(* more than the text.  print_value calls itself for the members: here Pr  *)
(* is any function that satisfies the equation it is defined by, and there *)
(* is exactly one.  The proofs follow two buffers at once.                 *)
(***************************************************************************)
EXTENDS CJsonPrint, FiniteSetTheorems, WellFoundedInduction, NaturalsInduction, TLAPS

\* A printbuffer whose offset is at the end of what was written, as every function
\* that prints finds it.
Ready == {p \in Printbuffer : p.ok => p.offset = Len(p.out)}

\* t begins with s.
Begins(t, s) == Len(s) <= Len(t) /\ \A i \in 1..Len(s) : t[i] = s[i]

\* What a function that prints may do to p: to write behind what is there, inside the
\* memory, and to have more memory.
Printed(p, r) ==
  /\ r \in Printbuffer
  /\ r.format = p.format
  /\ p.length <= r.length
  /\ p.inside => r.inside
  /\ r.ok => p.ok
  /\ r.ok => r.offset <= Len(r.out)
  /\ r.ok => Begins(r.out, p.out)
Level(p, r) == Printed(p, r) /\ r \in Ready /\ r.depth = p.depth

\* The same text in two buffers.
Same(p, q) ==
  /\ p.ok
  /\ q.ok
  /\ p.out = q.out
  /\ p.offset = q.offset
  /\ p.depth = q.depth
  /\ p.format = q.format

\* What is printed at p and q, r and s, is the same text, where it is printed at both, and
\* two bytes more than it takes are enough at p.
Twin(p, q, r, s) ==
  Same(p, q) /\ s.ok /\ (r.ok \/ Len(s.out) + 2 <= p.length) => r.ok /\ Same(r, s)

\* Who prints after another one has printed too.
LEMMA PrintedTrans ==
  ASSUME NEW p \in Printbuffer, NEW q \in Printbuffer, NEW r, Printed(p, q), Printed(q, r)
  PROVE  Printed(p, r)
<1>1. r \in Printbuffer
  BY DEF Printed
<1>2. r.format = p.format
  BY DEF Printed
<1>3. p.length <= r.length
  BY <1>1 DEF Printed, Printbuffer
<1>4. p.inside => r.inside
  BY Zenon DEF Printed
<1>5. r.ok => p.ok
  BY Zenon DEF Printed
<1>6. r.ok => r.offset <= Len(r.out)
  BY Zenon DEF Printed
<1>7. r.ok => Begins(r.out, p.out)
  <2>. SUFFICES ASSUME r.ok PROVE Begins(r.out, p.out)
    OBVIOUS
  <2>1. Begins(r.out, q.out) /\ Begins(q.out, p.out)
    BY Zenon DEF Printed
  <2>2. p.out \in Seq(Int) /\ q.out \in Seq(Int) /\ r.out \in Seq(Int)
    BY <1>1 DEF Printbuffer
  <2>. QED  BY <2>1, <2>2 DEF Begins
<1>. QED  BY <1>1, <1>2, <1>3, <1>4, <1>5, <1>6, <1>7, Zenon DEF Printed

\* The same text, and then the same text, is the same text.
LEMMA TwinTrans ==
  ASSUME NEW p \in Printbuffer, NEW q \in Printbuffer, NEW p1 \in Printbuffer,
         NEW q1 \in Printbuffer, NEW p2 \in Printbuffer, NEW q2 \in Printbuffer,
         Printed(p, p1), Printed(p1, p2), Printed(q1, q2),
         Twin(p, q, p1, q1), Twin(p1, q1, p2, q2)
  PROVE  Twin(p, q, p2, q2)
<1>. SUFFICES ASSUME Same(p, q), q2.ok, p2.ok \/ Len(q2.out) + 2 <= p.length
              PROVE  p2.ok /\ Same(p2, q2)
  BY Zenon DEF Twin
<1>1. q1.ok /\ Begins(q2.out, q1.out)
  BY Zenon DEF Printed
<1>2. Len(q1.out) \in Nat /\ Len(q2.out) \in Nat /\ Len(q1.out) <= Len(q2.out)
  <2>1. q1.out \in Seq(Int) /\ q2.out \in Seq(Int)
    BY DEF Printbuffer
  <2>. QED  BY <1>1, <2>1 DEF Begins
<1>3. p.length \in Nat /\ p1.length \in Nat /\ p.length <= p1.length
  BY DEF Printed, Printbuffer
<1>4. p2.ok => p1.ok
  BY Zenon DEF Printed
<1>5. Len(q2.out) + 2 <= p.length => Len(q1.out) + 2 <= p.length /\ Len(q2.out) + 2 <= p1.length
  BY <1>2, <1>3
<1>6. p1.ok /\ Same(p1, q1)
  BY <1>1, <1>4, <1>5, Zenon DEF Twin
<1>. QED  BY <1>5, <1>6, Zenon DEF Twin

\* A failure changes nothing but that nothing more is printed.
LEMMA FailIs ==
  ASSUME NEW p \in Printbuffer
  PROVE  /\ Fail(p) \in Printbuffer
         /\ ~Fail(p).ok
         /\ Fail(p).format = p.format
         /\ Fail(p).depth = p.depth
         /\ Fail(p).offset = p.offset
         /\ Fail(p).length = p.length
         /\ Fail(p).inside = p.inside
         /\ Fail(p).out = p.out
  BY DEF Printbuffer, Fail

\* What ensure does, and when there is enough.
Ensured(p, q, needed) ==
  /\ q \in Printbuffer
  /\ q.format = p.format
  /\ q.depth = p.depth
  /\ q.offset = p.offset
  /\ q.out = p.out
  /\ q.inside = p.inside
  /\ p.length <= q.length
  /\ q.ok => p.ok
  /\ q.ok => needed + p.offset + 1 <= q.length
  /\ p.ok => (needed + p.offset + 1 <= p.length => q.ok)

\* The memory that there is more of.
Larger(p, n) == [p EXCEPT !.length = 2 * n, !.grows = @ - 1]

\* ... which has its new length, and is otherwise what it was.
LEMMA LargerIs ==
  ASSUME NEW p \in Printbuffer, NEW n \in Nat, p.grows # 0
  PROVE  /\ Larger(p, n) \in Printbuffer
         /\ Larger(p, n).format = p.format
         /\ Larger(p, n).depth = p.depth
         /\ Larger(p, n).offset = p.offset
         /\ Larger(p, n).out = p.out
         /\ Larger(p, n).inside = p.inside
         /\ Larger(p, n).ok = p.ok
         /\ Larger(p, n).length = 2 * n
<1>. DEFINE m == 2 * n
            g == p.grows - 1
<1>1. m \in Nat /\ g \in Nat
  <2>1. p.grows \in Nat
    BY DEF Printbuffer
  <2>. QED  BY <2>1
<1>2. Larger(p, n) = [p EXCEPT !.length = m, !.grows = g]
  BY Zenon DEF Larger
<1>3. m = 2 * n
  OBVIOUS
<1>. HIDE DEF m, g
<1>. QED  BY <1>1, <1>2, <1>3 DEF Printbuffer

\* ensure finds or gets the memory that is needed, or fails, and fails never where there is enough.
LEMMA EnsureIs ==
  ASSUME NEW p \in Printbuffer, NEW needed \in Nat
  PROVE  Ensured(p, ensure(p, needed), needed)
<1>. DEFINE n == needed + p.offset + 1
<1>1. n \in Nat /\ p.length \in Nat /\ p.offset \in Nat /\ n > p.offset
  BY DEF Printbuffer
<1>2. ensure(p, needed) =
        IF ~p.ok THEN p
        ELSE IF p.length > 0 /\ p.offset >= p.length THEN Fail(p)
        ELSE IF n <= p.length THEN p
        ELSE IF p.grows = 0 THEN Fail(p)
        ELSE Larger(p, n)
  BY DEF ensure, Larger
<1>. HIDE DEF n
<1>3. CASE ~p.ok
  <2>1. ensure(p, needed) = p
    BY <1>2, <1>3
  <2>. QED  BY <1>1, <1>3, <2>1 DEF Ensured
<1>4. CASE p.ok /\ p.length > 0 /\ p.offset >= p.length
  <2>1. ensure(p, needed) = Fail(p)
    BY <1>2, <1>4
  <2>2. ~(n <= p.length)
    BY <1>1, <1>4
  <2>. QED  BY <1>1, <2>1, <2>2, FailIs DEF Ensured, n
<1>5. CASE p.ok /\ ~(p.length > 0 /\ p.offset >= p.length) /\ n <= p.length
  <2>1. ensure(p, needed) = p
    BY <1>2, <1>5
  <2>. QED  BY <1>1, <1>5, <2>1 DEF Ensured, n
<1>6. CASE p.ok /\ ~(p.length > 0 /\ p.offset >= p.length) /\ ~(n <= p.length) /\ p.grows = 0
  <2>1. ensure(p, needed) = Fail(p)
    BY <1>2, <1>6
  <2>. QED  BY <1>1, <1>6, <2>1, FailIs DEF Ensured, n
<1>7. CASE p.ok /\ ~(p.length > 0 /\ p.offset >= p.length) /\ ~(n <= p.length) /\ p.grows # 0
  <2>1. ensure(p, needed) = Larger(p, n)
    BY <1>2, <1>7
  <2>2. p.length <= 2 * n /\ n <= 2 * n
    BY <1>1, <1>7
  <2>. QED  BY <1>1, <1>7, <2>1, <2>2, LargerIs DEF Ensured, n
<1>. QED  BY <1>3, <1>4, <1>5, <1>6, <1>7

\* What is written behind what is there.
Wrote(p, r, bytes, needed) ==
  /\ r \in Printbuffer
  /\ r.format = p.format
  /\ r.depth = p.depth
  /\ r.offset = p.offset
  /\ p.length <= r.length
  /\ p.inside => r.inside
  /\ r.ok => p.ok
  /\ r.ok => r.out = p.out \o bytes
  /\ p.ok => (needed + p.offset + 1 <= p.length => r.ok)

\* Bytes at the offset of q, which has room for them.
Extended(q, bytes, nul) ==
  [q EXCEPT !.out = SubSeq(@, 1, q.offset) \o bytes,
            !.inside = @ /\ q.offset + Len(bytes) + nul <= q.length]

\* ... and no other ones, if they follow what was there.
LEMMA ExtendedIs ==
  ASSUME NEW q \in Printbuffer, NEW bytes \in Seq(Int), NEW nul \in Nat, q.offset = Len(q.out)
  PROVE  /\ Extended(q, bytes, nul) \in Printbuffer
         /\ Extended(q, bytes, nul).format = q.format
         /\ Extended(q, bytes, nul).depth = q.depth
         /\ Extended(q, bytes, nul).offset = q.offset
         /\ Extended(q, bytes, nul).length = q.length
         /\ Extended(q, bytes, nul).ok = q.ok
         /\ Extended(q, bytes, nul).out = q.out \o bytes
         /\ q.offset + Len(bytes) + nul <= q.length =>
              (q.inside => Extended(q, bytes, nul).inside)
<1>1. q.out \in Seq(Int) /\ q.offset \in Nat /\ SubSeq(q.out, 1, q.offset) = q.out
  BY DEF Printbuffer
<1>2. SubSeq(q.out, 1, q.offset) \o bytes \in Seq(Int) /\ q.out \o bytes \in Seq(Int)
  BY <1>1
<1>. DEFINE o == SubSeq(q.out, 1, q.offset) \o bytes
            i == q.inside /\ q.offset + Len(bytes) + nul <= q.length
<1>3. Extended(q, bytes, nul) = [q EXCEPT !.out = o, !.inside = i]
  BY Zenon DEF Extended
<1>4. o \in Seq(Int) /\ i \in BOOLEAN /\ o = q.out \o bytes
  BY <1>1, <1>2
<1>5. q.offset + Len(bytes) + nul <= q.length => (q.inside => i)
  BY Zenon
<1>. HIDE DEF o, i
<1>. QED  BY <1>3, <1>4, <1>5 DEF Printbuffer

\* Write writes its bytes inside the memory, if it asked for as many as they are.
LEMMA WriteIs ==
  ASSUME NEW p \in Ready, NEW needed \in Nat, NEW bytes \in Seq(Int), NEW nul \in Nat,
         Len(bytes) + nul <= needed + 1
  PROVE  Wrote(p, Write(p, needed, bytes, nul), bytes, needed)
<1>. DEFINE q == ensure(p, needed)
<1>0. p \in Printbuffer
  BY DEF Ready
<1>1. Ensured(p, q, needed)
  BY <1>0, EnsureIs
<1>2. Write(p, needed, bytes, nul) = IF ~q.ok THEN q ELSE Extended(q, bytes, nul)
  BY Zenon DEF Write, Extended
<1>. HIDE DEF q
<1>3. CASE ~q.ok
  <2>1. Write(p, needed, bytes, nul) = q
    BY <1>2, <1>3, Zenon
  <2>2. Wrote(p, q, bytes, needed)
    BY <1>1, <1>3, Zenon DEF Ensured, Wrote
  <2>. QED  BY <2>1, <2>2, Zenon
<1>4. CASE q.ok
  <2>1. Write(p, needed, bytes, nul) = Extended(q, bytes, nul)
    BY <1>2, <1>4, Zenon
  <2>2. q \in Printbuffer /\ q.offset = Len(q.out) /\ q.out = p.out
    BY <1>1, <1>4, Zenon DEF Ensured, Ready
  <2>3. q.offset + Len(bytes) + nul <= q.length
    <3>1. needed + p.offset + 1 <= q.length /\ q.offset = p.offset
      BY <1>1, <1>4, Zenon DEF Ensured
    <3>2. q.length \in Nat /\ p.offset \in Nat /\ Len(bytes) \in Nat
      BY <1>0, <2>2 DEF Printbuffer
    <3>. QED  BY <3>1, <3>2
  <2>4. Wrote(p, Extended(q, bytes, nul), bytes, needed)
    <3>. DEFINE e == Extended(q, bytes, nul)
    <3>1. /\ e \in Printbuffer
          /\ e.format = q.format
          /\ e.depth = q.depth
          /\ e.offset = q.offset
          /\ e.length = q.length
          /\ e.ok = q.ok
          /\ e.out = q.out \o bytes
          /\ q.inside => e.inside
      BY <2>2, <2>3, ExtendedIs
    <3>. HIDE DEF e
    <3>2. Wrote(p, e, bytes, needed)
      BY <1>1, <1>4, <2>2, <3>1, Zenon DEF Ensured, Wrote
    <3>. QED  BY <3>2 DEF e
  <2>. QED  BY <2>1, <2>4, Zenon
<1>. QED  BY <1>3, <1>4

\* Bytes, with their NUL or without, that as much was asked for as they take.
Fit(bytes, needed, nul) ==
  /\ bytes \in Seq(Int)
  /\ needed \in Nat
  /\ nul \in Nat
  /\ Len(bytes) + nul <= needed + 1
  /\ needed <= Len(bytes) + 1

\* What is written follows what was there.
LEMMA WroteIsPrinted ==
  ASSUME NEW p \in Ready, NEW r, NEW bytes \in Seq(Int), NEW needed, Wrote(p, r, bytes, needed)
  PROVE  /\ Printed(p, r)
         /\ r.ok => p.out \o bytes = r.out
         /\ r.ok => r.offset + Len(bytes) = Len(r.out)
<1>1. p \in Printbuffer /\ r \in Printbuffer
  BY DEF Ready, Wrote
<1>2. p.out \in Seq(Int) /\ p.offset \in Nat
  BY <1>1 DEF Printbuffer
<1>3. ASSUME r.ok
      PROVE  /\ r.offset <= Len(r.out)
             /\ Begins(r.out, p.out)
             /\ r.out = p.out \o bytes
             /\ r.offset + Len(bytes) = Len(r.out)
  <2>1. r.out = p.out \o bytes /\ p.ok /\ r.offset = p.offset
    BY <1>3, Zenon DEF Wrote
  <2>2. p.offset = Len(p.out)
    BY <2>1, Zenon DEF Ready
  <2>3. Len(r.out) = Len(p.out) + Len(bytes) /\ Len(bytes) \in Nat /\ Len(p.out) \in Nat
    BY <1>2, <2>1
  <2>4. Begins(r.out, p.out)
    BY <1>2, <2>1, <2>3 DEF Begins
  <2>. QED  BY <2>1, <2>2, <2>3, <2>4
<1>4. Printed(p, r)
  BY <1>1, <1>3, Zenon DEF Printed, Wrote
<1>. QED  BY <1>3, <1>4, Zenon

\* What is written is the same in two buffers, and has room with two bytes more.
LEMMA WroteIsTwin ==
  ASSUME NEW p \in Ready, NEW q \in Ready, NEW r, NEW s, NEW bytes \in Seq(Int), NEW needed \in Nat,
         Wrote(p, r, bytes, needed), Wrote(q, s, bytes, needed), needed <= Len(bytes) + 1
  PROVE  Twin(p, q, r, s)
<1>. SUFFICES ASSUME Same(p, q), s.ok, r.ok \/ Len(s.out) + 2 <= p.length
              PROVE  r.ok /\ Same(r, s)
  BY Zenon DEF Twin
<1>1. r.ok
  <2>1. p.ok /\ p.offset = Len(p.out) /\ s.out = p.out \o bytes
    BY Zenon DEF Wrote, Same, Ready
  <2>2. p.out \in Seq(Int) /\ p.length \in Nat
    BY DEF Ready, Printbuffer
  <2>3. Len(s.out) = Len(p.out) + Len(bytes) /\ Len(bytes) \in Nat /\ Len(p.out) \in Nat
    BY <2>1, <2>2
  <2>4. Len(s.out) + 2 <= p.length => needed + p.offset + 1 <= p.length
    BY <2>1, <2>2, <2>3
  <2>. QED  BY <2>1, <2>4, Zenon DEF Wrote
<1>2. r.out = s.out
  BY <1>1, Zenon DEF Wrote, Same
<1>. QED  BY <1>1, <1>2, Zenon DEF Wrote, Same

\* Put prints, and leaves the offset where it is.
LEMMA PutIs ==
  ASSUME NEW p \in Ready, NEW bytes, NEW needed, Fit(bytes, needed, 1)
  PROVE  Printed(p, Put(p, needed, bytes)) /\ Put(p, needed, bytes).depth = p.depth
<1>1. bytes \in Seq(Int) /\ needed \in Nat /\ Len(bytes) + 1 <= needed + 1
  BY DEF Fit
<1>2. Wrote(p, Put(p, needed, bytes), bytes, needed)
  BY <1>1, WriteIs DEF Put
<1>. QED  BY <1>1, <1>2, WroteIsPrinted DEF Wrote

\* ... the same in two buffers.
LEMMA PutTwin ==
  ASSUME NEW p \in Ready, NEW q \in Ready, NEW bytes, NEW needed, Fit(bytes, needed, 1)
  PROVE  Twin(p, q, Put(p, needed, bytes), Put(q, needed, bytes))
<1>1. bytes \in Seq(Int) /\ needed \in Nat /\ Len(bytes) + 1 <= needed + 1 /\ needed <= Len(bytes) + 1
  BY DEF Fit
<1>2. Wrote(p, Put(p, needed, bytes), bytes, needed) /\ Wrote(q, Put(q, needed, bytes), bytes, needed)
  BY <1>1, WriteIs DEF Put
<1>. QED  BY <1>1, <1>2, WroteIsTwin

\* Advance changes the offset alone.
LEMMA AdvanceIs ==
  ASSUME NEW p \in Printbuffer, NEW n \in Nat
  PROVE  /\ Advance(p, n) \in Printbuffer
         /\ Advance(p, n).format = p.format
         /\ Advance(p, n).depth = p.depth
         /\ Advance(p, n).offset = p.offset + n
         /\ Advance(p, n).length = p.length
         /\ Advance(p, n).inside = p.inside
         /\ Advance(p, n).out = p.out
         /\ Advance(p, n).ok = p.ok
<1>. DEFINE m == p.offset + n
<1>1. m \in Nat /\ m = p.offset + n
  BY DEF Printbuffer
<1>2. Advance(p, n) = [p EXCEPT !.offset = m]
  BY Zenon DEF Advance
<1>. HIDE DEF m
<1>. QED  BY <1>1, <1>2 DEF Printbuffer

\* What was written, as far as the offset is concerned.
LEMMA AdvancedIsLevel ==
  ASSUME NEW p \in Ready, NEW r, Printed(p, r), r.depth = p.depth, NEW n \in Nat,
         r.ok => r.offset + n = Len(r.out)
  PROVE  Level(p, Advance(r, n))
<1>0. r \in Printbuffer
  BY Zenon DEF Printed
<1>. DEFINE a == Advance(r, n)
<1>1. /\ a \in Printbuffer
      /\ a.format = r.format
      /\ a.depth = r.depth
      /\ a.offset = r.offset + n
      /\ a.length = r.length
      /\ a.inside = r.inside
      /\ a.out = r.out
      /\ a.ok = r.ok
  BY <1>0, AdvanceIs
<1>. HIDE DEF a
<1>2. a \in Ready
  BY <1>1, Zenon DEF Ready
<1>3. a.ok => a.offset <= Len(a.out)
  <2>1. a.offset \in Nat
    BY <1>1 DEF Printbuffer
  <2>. QED  BY <1>1, <2>1
<1>4. Printed(p, a)
  BY <1>1, <1>3, Zenon DEF Printed
<1>5. Level(p, a)
  BY <1>1, <1>2, <1>4, Zenon DEF Level
<1>. QED  BY <1>5 DEF a

\* Add prints, and the offset is behind it.
LEMMA AddIs ==
  ASSUME NEW p \in Ready, NEW bytes, NEW needed, NEW nul, Fit(bytes, needed, nul)
  PROVE  Level(p, Add(p, needed, bytes, nul))
<1>. DEFINE r == Write(p, needed, bytes, nul)
<1>1. bytes \in Seq(Int) /\ needed \in Nat /\ nul \in Nat /\ Len(bytes) + nul <= needed + 1
  BY DEF Fit
<1>2. Wrote(p, r, bytes, needed)
  BY <1>1, WriteIs
<1>3. Add(p, needed, bytes, nul) = Advance(r, Len(bytes))
  BY Zenon DEF Add
<1>. HIDE DEF r
<1>4. Printed(p, r) /\ (r.ok => r.offset + Len(bytes) = Len(r.out))
  BY <1>1, <1>2, WroteIsPrinted
<1>5. r.depth = p.depth /\ Len(bytes) \in Nat
  BY <1>1, <1>2 DEF Wrote
<1>6. Level(p, Advance(r, Len(bytes)))
  BY <1>4, <1>5, AdvancedIsLevel
<1>. QED  BY <1>3, <1>6

\* ... the same in two buffers.
LEMMA AddTwin ==
  ASSUME NEW p \in Ready, NEW q \in Ready, NEW bytes, NEW needed, NEW nul, Fit(bytes, needed, nul)
  PROVE  Twin(p, q, Add(p, needed, bytes, nul), Add(q, needed, bytes, nul))
<1>. DEFINE r == Write(p, needed, bytes, nul)
            s == Write(q, needed, bytes, nul)
            n == Len(bytes)
<1>1. /\ bytes \in Seq(Int) /\ needed \in Nat /\ nul \in Nat /\ Len(bytes) + nul <= needed + 1
      /\ needed <= Len(bytes) + 1 /\ n \in Nat
  BY DEF Fit
<1>2. Wrote(p, r, bytes, needed) /\ Wrote(q, s, bytes, needed)
  BY <1>1, WriteIs
<1>3. Add(p, needed, bytes, nul) = Advance(r, n) /\ Add(q, needed, bytes, nul) = Advance(s, n)
  BY Zenon DEF Add
<1>. HIDE DEF r, s, n
<1>4. Twin(p, q, r, s)
  BY <1>1, <1>2, WroteIsTwin
<1>5. r \in Printbuffer /\ s \in Printbuffer
  BY <1>2, Zenon DEF Wrote
<1>6. Twin(p, q, Advance(r, n), Advance(s, n))
  <2>. DEFINE a == Advance(r, n)
              b == Advance(s, n)
  <2>1. /\ a.ok = r.ok /\ a.format = r.format /\ a.depth = r.depth /\ a.offset = r.offset + n
        /\ a.out = r.out
    BY <1>1, <1>5, AdvanceIs
  <2>2. /\ b.ok = s.ok /\ b.format = s.format /\ b.depth = s.depth /\ b.offset = s.offset + n
        /\ b.out = s.out
    BY <1>1, <1>5, AdvanceIs
  <2>. HIDE DEF a, b
  <2>3. Twin(p, q, a, b)
    BY <1>4, <2>1, <2>2, Zenon DEF Twin, Same
  <2>. QED  BY <2>3 DEF a, b
<1>. QED  BY <1>3, <1>6, Zenon

\* What printing a value does to p: it leaves the offset where the value starts.
Done(p, r) == Printed(p, r) /\ r.depth = p.depth

\* Who prints up to the end, and then up to the end, does.
LEMMA LevelTrans ==
  ASSUME NEW p \in Ready, NEW q, NEW r, Level(p, q), Level(q, r)
  PROVE  Level(p, r)
<1>1. p \in Printbuffer /\ q \in Printbuffer /\ Printed(p, q) /\ Printed(q, r)
  BY Zenon DEF Level, Printed, Ready
<1>2. Printed(p, r)
  BY <1>1, PrintedTrans
<1>. QED  BY <1>2, Zenon DEF Level

\* ... as does who prints nothing.
LEMMA LevelItself ==
  ASSUME NEW p \in Ready
  PROVE  Level(p, p)
<1>1. p \in Printbuffer /\ (p.ok => p.offset = Len(p.out))
  BY Zenon DEF Ready
<1>2. p.out \in Seq(Int) /\ p.offset \in Nat /\ p.length \in Nat
  BY <1>1 DEF Printbuffer
<1>3. Begins(p.out, p.out) /\ p.length <= p.length /\ (p.ok => p.offset <= Len(p.out))
  BY <1>1, <1>2 DEF Begins
<1>. QED  BY <1>1, <1>3, Zenon DEF Level, Printed

\* A value is printed after what precedes it.
LEMMA DoneAfterLevel ==
  ASSUME NEW p \in Ready, NEW q, NEW r, Level(p, q), Done(q, r)
  PROVE  Done(p, r)
<1>1. p \in Printbuffer /\ q \in Printbuffer /\ Printed(p, q) /\ Printed(q, r)
  BY Zenon DEF Level, Printed, Ready, Done
<1>2. Printed(p, r)
  BY <1>1, PrintedTrans
<1>. QED  BY <1>2, Zenon DEF Level, Done

\* An assignment to the offset changes it alone.
LEMMA SetOffset ==
  ASSUME NEW p \in Printbuffer, NEW n \in Nat
  PROVE  /\ [p EXCEPT !.offset = n] \in Printbuffer
         /\ [p EXCEPT !.offset = n].format = p.format
         /\ [p EXCEPT !.offset = n].depth = p.depth
         /\ [p EXCEPT !.offset = n].offset = n
         /\ [p EXCEPT !.offset = n].length = p.length
         /\ [p EXCEPT !.offset = n].inside = p.inside
         /\ [p EXCEPT !.offset = n].out = p.out
         /\ [p EXCEPT !.offset = n].ok = p.ok
  BY DEF Printbuffer

\* An assignment to the depth changes it alone.
LEMMA SetDepth ==
  ASSUME NEW p \in Printbuffer, NEW n \in Nat
  PROVE  /\ [p EXCEPT !.depth = n] \in Printbuffer
         /\ [p EXCEPT !.depth = n].format = p.format
         /\ [p EXCEPT !.depth = n].depth = n
         /\ [p EXCEPT !.depth = n].offset = p.offset
         /\ [p EXCEPT !.depth = n].length = p.length
         /\ [p EXCEPT !.depth = n].inside = p.inside
         /\ [p EXCEPT !.depth = n].out = p.out
         /\ [p EXCEPT !.depth = n].ok = p.ok
  BY DEF Printbuffer

\* update_offset makes a buffer ready again.
LEMMA UpdateIs ==
  ASSUME NEW p \in Ready, NEW r, Done(p, r)
  PROVE  Level(p, update_offset(r))
<1>1. r \in Printbuffer
  BY Zenon DEF Printed, Done
<1>. DEFINE n == Len(r.out)
            a == [r EXCEPT !.offset = n]
<1>2. n \in Nat
  BY <1>1 DEF Printbuffer
<1>3. update_offset(r) = a
  BY Zenon DEF update_offset
<1>4. /\ a \in Printbuffer /\ a.format = r.format /\ a.depth = r.depth /\ a.offset = n
      /\ a.length = r.length /\ a.inside = r.inside /\ a.out = r.out /\ a.ok = r.ok
  BY <1>1, <1>2, SetOffset
<1>5. a.offset = Len(a.out) /\ a.offset <= Len(a.out)
  BY <1>2, <1>4
<1>. HIDE DEF n, a
<1>6. Level(p, a)
  BY <1>4, <1>5, Zenon DEF Level, Printed, Ready, Done
<1>. QED  BY <1>3, <1>6

\* ... the same in two buffers.
LEMMA UpdateTwin ==
  ASSUME NEW p, NEW q, NEW r \in Printbuffer, NEW s \in Printbuffer, Twin(p, q, r, s)
  PROVE  Twin(p, q, update_offset(r), update_offset(s))
<1>. DEFINE n == Len(r.out)
            m == Len(s.out)
            a == [r EXCEPT !.offset = n]
            b == [s EXCEPT !.offset = m]
<1>1. n \in Nat /\ m \in Nat /\ (r.out = s.out => n = m)
  BY DEF Printbuffer
<1>2. update_offset(r) = a /\ update_offset(s) = b
  BY Zenon DEF update_offset
<1>3. a.format = r.format /\ a.depth = r.depth /\ a.offset = n /\ a.out = r.out /\ a.ok = r.ok
  BY <1>1, SetOffset
<1>4. b.format = s.format /\ b.depth = s.depth /\ b.offset = m /\ b.out = s.out /\ b.ok = s.ok
  BY <1>1, SetOffset
<1>. HIDE DEF n, m, a, b
<1>5. Twin(p, q, a, b)
  BY <1>1, <1>3, <1>4, Zenon DEF Twin, Same
<1>. QED  BY <1>2, <1>5, Zenon

\* One level deeper the buffer is as ready as before.
LEMMA DeeperIs ==
  ASSUME NEW p \in Ready, NEW r, Level(p, r)
  PROVE  Printed(p, Deeper(r)) /\ Deeper(r) \in Ready /\ Deeper(r).depth = p.depth + 1
<1>1. r \in Printbuffer /\ r.depth = p.depth
  BY Zenon DEF Printed, Level
<1>. DEFINE n == r.depth + 1
            a == [r EXCEPT !.depth = n]
<1>2. n \in Nat /\ n = p.depth + 1
  BY <1>1 DEF Printbuffer
<1>3. Deeper(r) = a
  BY Zenon DEF Deeper
<1>4. /\ a \in Printbuffer /\ a.format = r.format /\ a.depth = n /\ a.offset = r.offset
      /\ a.length = r.length /\ a.inside = r.inside /\ a.out = r.out /\ a.ok = r.ok
  BY <1>1, <1>2, SetDepth
<1>. HIDE DEF n, a
<1>5. Printed(p, a) /\ a \in Ready
  BY <1>4, Zenon DEF Level, Printed, Ready
<1>. QED  BY <1>2, <1>3, <1>4, <1>5

\* ... the same in two buffers.
LEMMA DeeperTwin ==
  ASSUME NEW p, NEW q, NEW r \in Printbuffer, NEW s \in Printbuffer, Twin(p, q, r, s)
  PROVE  Twin(p, q, Deeper(r), Deeper(s))
<1>. DEFINE n == r.depth + 1
            m == s.depth + 1
            a == [r EXCEPT !.depth = n]
            b == [s EXCEPT !.depth = m]
<1>1. n \in Nat /\ m \in Nat /\ (r.depth = s.depth => n = m)
  BY DEF Printbuffer
<1>2. Deeper(r) = a /\ Deeper(s) = b
  BY Zenon DEF Deeper
<1>3. a.format = r.format /\ a.depth = n /\ a.offset = r.offset /\ a.out = r.out /\ a.ok = r.ok
  BY <1>1, SetDepth
<1>4. b.format = s.format /\ b.depth = m /\ b.offset = s.offset /\ b.out = s.out /\ b.ok = s.ok
  BY <1>1, SetDepth
<1>. HIDE DEF n, m, a, b
<1>5. Twin(p, q, a, b)
  BY <1>1, <1>3, <1>4, Zenon DEF Twin, Same
<1>. QED  BY <1>2, <1>5, Zenon

\* Back at its level, a list is printed.
LEMMA ShallowerIs ==
  ASSUME NEW p \in Ready, NEW r, Printed(p, r), r.depth = p.depth + 1
  PROVE  Done(p, Shallower(r))
<1>1. r \in Printbuffer /\ p \in Printbuffer
  BY Zenon DEF Printed, Ready
<1>. DEFINE n == r.depth - 1
            a == [r EXCEPT !.depth = n]
<1>2. n \in Nat /\ n = p.depth
  <2>1. p.depth \in Nat
    BY <1>1 DEF Printbuffer
  <2>. QED  BY <2>1
<1>3. Shallower(r) = a
  BY Zenon DEF Shallower
<1>4. /\ a \in Printbuffer /\ a.format = r.format /\ a.depth = n /\ a.offset = r.offset
      /\ a.length = r.length /\ a.inside = r.inside /\ a.out = r.out /\ a.ok = r.ok
  BY <1>1, <1>2, SetDepth
<1>. HIDE DEF n, a
<1>5. Printed(p, a)
  BY <1>4, Zenon DEF Printed
<1>. QED  BY <1>2, <1>3, <1>4, <1>5 DEF Done

\* ... the same in two buffers.
LEMMA ShallowerTwin ==
  ASSUME NEW p, NEW q, NEW r \in Printbuffer, NEW s \in Printbuffer, r.depth > 0, s.depth > 0,
         Twin(p, q, r, s)
  PROVE  Twin(p, q, Shallower(r), Shallower(s))
<1>. DEFINE n == r.depth - 1
            m == s.depth - 1
            a == [r EXCEPT !.depth = n]
            b == [s EXCEPT !.depth = m]
<1>1. n \in Nat /\ m \in Nat /\ (r.depth = s.depth => n = m)
  BY DEF Printbuffer
<1>2. Shallower(r) = a /\ Shallower(s) = b
  BY Zenon DEF Shallower
<1>3. a.format = r.format /\ a.depth = n /\ a.offset = r.offset /\ a.out = r.out /\ a.ok = r.ok
  BY <1>1, SetDepth
<1>4. b.format = s.format /\ b.depth = m /\ b.offset = s.offset /\ b.out = s.out /\ b.ok = s.ok
  BY <1>1, SetDepth
<1>. HIDE DEF n, m, a, b
<1>5. Twin(p, q, a, b)
  BY <1>1, <1>3, <1>4, Zenon DEF Twin, Same
<1>. QED  BY <1>2, <1>5, Zenon

\* A set of numbers has a smallest one.
LEMMA Smallest ==
  ASSUME NEW T \in SUBSET Nat, T # {}
  PROVE  \E x \in T : \A y \in T : ~(y < x)
<1>1. PICK x \in T : \A y \in T : ~(<<y, x>> \in OpToRel(<, Nat))
  BY NatLessThanWellFounded, WFMin
<1>2. \A y \in T : <<y, x>> \in OpToRel(<, Nat) <=> y < x
  BY DEF OpToRel
<1>. QED  BY <1>1, <1>2

\* A walk of n steps from `first', the k-th one of which G takes.
Walk(f, B, first, n, G) ==
  /\ f \in [0..n -> B]
  /\ f[0] = first
  /\ \A k \in 1..n : f[k] = G[k][f[k - 1]]

\* ... is there, if G leads from B to B.
LEMMA WalkExists ==
  ASSUME NEW B, NEW first \in B, NEW n \in Nat, NEW G,
         \A k \in 1..n : \A x \in B : G[k][x] \in B
  PROVE  \E f : Walk(f, B, first, n, G)
<1>. DEFINE T == {m \in 0..n : ~\E f : Walk(f, B, first, m, G)}
<1>. SUFFICES ASSUME T # {} PROVE FALSE
  <2>. n \in 0..n
    OBVIOUS
  <2>. QED  OBVIOUS
<1>0. T \in SUBSET Nat
  OBVIOUS
<1>1. PICK m \in T : \A y \in T : ~(y < m)
  <2>. HIDE DEF T
  <2>. QED  BY <1>0, Smallest
<1>2. m \in 0..n /\ m \in Nat /\ ~\E f : Walk(f, B, first, m, G)
  OBVIOUS
<1>3. CASE m = 0
  <2>. DEFINE f == [k \in 0..m |-> first]
  <2>1. Walk(f, B, first, m, G)
    BY <1>3 DEF Walk
  <2>. QED  BY <1>2, <2>1
<1>4. CASE m # 0
  <2>1. m - 1 \in 0..n /\ m - 1 < m /\ m - 1 \in Nat
    BY <1>2, <1>4
  <2>2. PICK f : Walk(f, B, first, m - 1, G)
    BY <1>1, <2>1
  <2>. DEFINE x == G[m][f[m - 1]]
              g == [k \in 0..m |-> IF k < m THEN f[k] ELSE x]
  <2>3. /\ f \in [0..(m - 1) -> B]
        /\ f[0] = first
        /\ \A k \in 1..(m - 1) : f[k] = G[k][f[k - 1]]
    BY <2>2, Zenon DEF Walk
  <2>4. x \in B
    BY <1>2, <1>4, <2>1, <2>3
  <2>5. x = G[m][f[m - 1]]
    OBVIOUS
  <2>. HIDE DEF x
  <2>6. g \in [0..m -> B] /\ g[0] = first /\ g[m - 1] = f[m - 1] /\ g[m] = x
    BY <1>2, <1>4, <2>1, <2>3, <2>4
  <2>7. \A k \in 1..m : g[k] = G[k][g[k - 1]]
    <3>. TAKE k \in 1..m
    <3>1. CASE k = m
      BY <2>5, <2>6, <3>1
    <3>2. CASE k # m
      <4>1. k \in 1..(m - 1) /\ k \in 0..m /\ k - 1 \in 0..m /\ k < m /\ k - 1 < m
        BY <1>2, <3>2
      <4>2. g[k] = f[k] /\ g[k - 1] = f[k - 1]
        BY <4>1
      <4>. QED  BY <2>3, <4>1, <4>2
    <3>. QED  BY <3>1, <3>2
  <2>. HIDE DEF g
  <2>8. Walk(g, B, first, m, G)
    BY <2>6, <2>7, Zenon DEF Walk
  <2>. QED  BY <1>2, <2>8
<1>. QED  BY <1>3, <1>4

\* Sequences of bytes, one after the other, are a sequence of bytes.
LEMMA FlatIsBytes ==
  ASSUME NEW s \in Seq(Seq(Int))
  PROVE  FlattenSeq(s) \in Seq(Int)
<1>1. CASE Len(s) = 0
  <2>1. FlattenSeq(s) = s /\ s = <<>>
    BY <1>1 DEF FlattenSeq
  <2>. QED  BY <2>1
<1>2. CASE Len(s) # 0
  <2>. DEFINE Is(f) == f = [i \in 1..Len(s) |-> IF i = 1 THEN s[i] ELSE f[i - 1] \o s[i]]
              at == CHOOSE f : Is(f)
              G == [i \in 1..Len(s) |-> [x \in Seq(Int) |-> x \o s[i]]]
              E == <<>>
  <2>0. \A i \in 1..Len(s) : s[i] \in Seq(Int)
    OBVIOUS
  <2>1. Len(s) \in Nat /\ Len(s) \in 1..Len(s)
    BY <1>2
  <2>2. \A i \in 1..Len(s) : \A x \in Seq(Int) : G[i][x] = x \o s[i] /\ G[i][x] \in Seq(Int)
    BY <2>0
  <2>3. E \in Seq(Int) /\ \A x \in Seq(Int) : E \o x = x
    OBVIOUS
  <2>. HIDE DEF E, G
  <2>4. PICK w : Walk(w, Seq(Int), E, Len(s), G)
    BY <2>1, <2>2, <2>3, WalkExists
  <2>5. /\ \A i \in 0..Len(s) : w[i] \in Seq(Int)
        /\ w[0] = E
        /\ \A i \in 1..Len(s) : w[i] = G[i][w[i - 1]]
    BY <2>4 DEF Walk
  <2>6. \A i \in 1..Len(s) : w[i] = IF i = 1 THEN s[i] ELSE w[i - 1] \o s[i]
    <3>. TAKE i \in 1..Len(s)
    <3>1. i - 1 \in 0..Len(s)
      BY <2>1
    <3>2. w[i - 1] \in Seq(Int) /\ w[i] = w[i - 1] \o s[i] /\ s[i] \in Seq(Int)
      BY <2>0, <2>2, <2>5, <3>1
    <3>3. i = 1 => w[i - 1] = E
      BY <2>5
    <3>4. i = 1 => w[i] = s[i]
      BY <2>3, <3>2, <3>3
    <3>. QED  BY <3>2, <3>4
  <2>7. Is([i \in 1..Len(s) |-> w[i]])
    <3>. DEFINE v == [i \in 1..Len(s) |-> w[i]]
    <3>1. \A i \in 1..Len(s) : i # 1 => v[i - 1] = w[i - 1]
      BY <2>1
    <3>2. v = [i \in 1..Len(s) |-> IF i = 1 THEN s[i] ELSE v[i - 1] \o s[i]]
      BY <2>6, <3>1
    <3>. QED  BY <3>2
  <2>8. Is(at)
    BY <2>7
  <2>9. FlattenSeq(s) = at[Len(s)]
    BY <1>2 DEF FlattenSeq
  <2>. HIDE DEF at
  <2>10. \A i \in 1..Len(s) : at[i] \in Seq(Int)
    <3>. DEFINE T == {i \in 1..Len(s) : at[i] \notin Seq(Int)}
    <3>. SUFFICES ASSUME T # {} PROVE FALSE
      OBVIOUS
    <3>0. T \in SUBSET Nat
      BY <2>1
    <3>1. PICK i \in T : \A y \in T : ~(y < i)
      <4>. HIDE DEF T
      <4>. QED  BY <3>0, Smallest
    <3>2. at[i] = IF i = 1 THEN s[i] ELSE at[i - 1] \o s[i]
      BY <2>8
    <3>3. i # 1
      BY <2>0, <3>2
    <3>4. i - 1 \in 1..Len(s) /\ i - 1 < i
      BY <2>1, <3>3
    <3>5. at[i - 1] \in Seq(Int) /\ s[i] \in Seq(Int)
      BY <2>0, <3>1, <3>4
    <3>6. at[i] \in Seq(Int)
      BY <3>2, <3>3, <3>5
    <3>. QED  BY <3>6
  <2>. QED  BY <2>1, <2>9, <2>10
<1>. QED  BY <1>1, <1>2

\* What is printed of a string and of a number.
LEMMA QuotedIsBytes ==
  ASSUME NEW s \in Seq(Int)
  PROVE  Quoted(s) \in Seq(Int)
<1>1. \A c \in Int : Escaped(c) \in Seq(Int)
  <2>. TAKE c \in Int
  <2>1. CASE c \in DOMAIN Short
    <3>1. Short[c] \in Int
      BY <2>1 DEF Short
    <3>. QED  BY <2>1, <3>1 DEF Escaped, Backslash
  <2>2. CASE c \notin DOMAIN Short /\ c < 32
    <3>1. Hex(c \div 16) \in Int /\ Hex(c % 16) \in Int
      BY DEF Hex, Digit
    <3>. QED  BY <2>2, <3>1 DEF Escaped, Backslash, Digit
  <2>3. CASE c \notin DOMAIN Short /\ ~(c < 32)
    BY <2>3 DEF Escaped
  <2>. QED  BY <2>1, <2>2, <2>3
<1>. DEFINE e == [i \in DOMAIN s |-> Escaped(s[i])]
<1>2. e \in Seq(Seq(Int))
  <2>1. \A i \in 1..Len(s) : Escaped(s[i]) \in Seq(Int)
    BY <1>1
  <2>. QED  BY <2>1
<1>. HIDE DEF e
<1>3. FlattenSeq(e) \in Seq(Int)
  BY <1>2, FlatIsBytes
<1>4. Quoted(s) = <<Quote>> \o FlattenSeq(e) \o <<Quote>>
  BY Zenon DEF Quoted, e
<1>5. <<Quote>> \in Seq(Int)
  BY DEF Quote
<1>. QED  BY <1>3, <1>4, <1>5

\* ... and of a number.
LEMMA DecimalIsBytes ==
  ASSUME NEW n \in Int
  PROVE  Decimal(n) \in Seq(Int)
<1>1. \A m \in Nat : Digits(m) \in Seq(Int)
  <2>. TAKE m \in Nat
  <2>. DEFINE K == {k \in 2..10 : Tens[k] <= m}
              d == 1 + Cardinality(K)
              x == [i \in 1..d |-> Digit((m \div Tens[d + 1 - i]) % 10)]
  <2>1. d \in 1..10
    <3>1. IsFiniteSet(2..10) /\ Cardinality(2..10) = 9
      <4>1. PICK a \in Int, b \in Int : a = 2 /\ b = 10
        OBVIOUS
      <4>2. IsFiniteSet(a..b) /\ Cardinality(a..b) = IF a > b THEN 0 ELSE b - a + 1
        BY FS_Interval
      <4>. QED  BY <4>1, <4>2
    <3>2. IsFiniteSet(K) /\ Cardinality(K) <= 9
      BY <3>1, FS_Subset
    <3>3. Cardinality(K) \in Nat
      BY <3>2, FS_CardinalityType
    <3>. QED  BY <3>2, <3>3
  <2>2. Digits(m) = x
    BY Zenon DEF Digits
  <2>. HIDE DEF d
  <2>3. \A i \in 1..d : Digit((m \div Tens[d + 1 - i]) % 10) \in Int
    <3>. TAKE i \in 1..d
    <3>1. d + 1 - i \in 1..10
      BY <2>1
    <3>2. \A k \in 1..10 : Tens[k] \in Nat /\ Tens[k] > 0
      BY DEF Tens
    <3>3. PICK t \in Nat : t = Tens[d + 1 - i] /\ t > 0
      BY <3>1, <3>2
    <3>4. (m \div t) % 10 \in Int
      BY <3>3
    <3>. QED  BY <3>3, <3>4 DEF Digit
  <2>. QED  BY <2>1, <2>2, <2>3
<1>2. CASE n < 0
  <2>1. Decimal(n) = <<Minus>> \o Digits(-n) /\ -n \in Nat /\ <<Minus>> \in Seq(Int)
    BY <1>2 DEF Decimal, Minus
  <2>. QED  BY <1>1, <2>1
<1>3. CASE ~(n < 0)
  BY <1>1, <1>3 DEF Decimal
<1>. QED  BY <1>2, <1>3

\* Two buffers in which the same thing is done.
Both(p, q, r, s)     == Level(p, r) /\ Level(q, s) /\ Twin(p, q, r, s)
BothDone(p, q, r, s) == Done(p, r) /\ Done(q, s) /\ Twin(p, q, r, s)

\* One after the other in two buffers.
LEMMA BothTrans ==
  ASSUME NEW p \in Ready, NEW q \in Ready, NEW r, NEW s, NEW t, NEW u,
         Both(p, q, r, s), Both(r, s, t, u)
  PROVE  Both(p, q, t, u)
<1>1. r \in Ready /\ s \in Ready
  BY Zenon DEF Both, Level
<1>2. Level(p, t) /\ Level(q, u)
  BY LevelTrans DEF Both
<1>3. /\ p \in Printbuffer /\ q \in Printbuffer /\ r \in Printbuffer /\ s \in Printbuffer
      /\ t \in Printbuffer /\ u \in Printbuffer
      /\ Printed(p, r) /\ Printed(r, t) /\ Printed(s, u)
  BY <1>1, Zenon DEF Both, Level, Printed, Ready
<1>4. Twin(p, q, t, u)
  BY <1>3, TwinTrans DEF Both
<1>. QED  BY <1>2, <1>4 DEF Both

\* A value after what precedes it, in two buffers.
LEMMA BothThenDone ==
  ASSUME NEW p \in Ready, NEW q \in Ready, NEW r, NEW s, NEW t, NEW u,
         Both(p, q, r, s), BothDone(r, s, t, u)
  PROVE  BothDone(p, q, t, u)
<1>1. r \in Ready /\ s \in Ready
  BY Zenon DEF Both, Level
<1>2. Done(p, t) /\ Done(q, u)
  BY DoneAfterLevel DEF Both, BothDone
<1>3. /\ p \in Printbuffer /\ q \in Printbuffer /\ r \in Printbuffer /\ s \in Printbuffer
      /\ t \in Printbuffer /\ u \in Printbuffer
      /\ Printed(p, r) /\ Printed(r, t) /\ Printed(s, u)
  BY <1>1, Zenon DEF Both, BothDone, Level, Done, Printed, Ready
<1>4. Twin(p, q, t, u)
  BY <1>3, TwinTrans DEF Both, BothDone
<1>. QED  BY <1>2, <1>4 DEF BothDone

\* update_offset in two buffers.
LEMMA BothUpdated ==
  ASSUME NEW p \in Ready, NEW q \in Ready, NEW r, NEW s, BothDone(p, q, r, s)
  PROVE  Both(p, q, update_offset(r), update_offset(s))
<1>1. r \in Printbuffer /\ s \in Printbuffer
  BY Zenon DEF BothDone, Done, Printed
<1>2. Level(p, update_offset(r)) /\ Level(q, update_offset(s))
  BY UpdateIs DEF BothDone
<1>3. Twin(p, q, update_offset(r), update_offset(s))
  BY <1>1, UpdateTwin DEF BothDone
<1>. QED  BY <1>2, <1>3 DEF Both

\* Nothing in two buffers.
LEMMA BothItself ==
  ASSUME NEW p \in Ready, NEW q \in Ready
  PROVE  Both(p, q, p, q)
<1>1. Twin(p, q, p, q)
  BY Zenon DEF Twin, Same
<1>. QED  BY <1>1, LevelItself DEF Both

\* What is added may depend on the format and on the depth.
LEMMA BothAdd ==
  ASSUME NEW p \in Ready, NEW q \in Ready, NEW b, NEW c, NEW n, NEW m, NEW nul,
         Fit(b, n, nul), Fit(c, m, nul), Same(p, q) => b = c /\ n = m
  PROVE  Both(p, q, Add(p, n, b, nul), Add(q, m, c, nul))
<1>1. Level(p, Add(p, n, b, nul)) /\ Level(q, Add(q, m, c, nul))
  BY AddIs
<1>2. CASE Same(p, q)
  <2>1. Twin(p, q, Add(p, n, b, nul), Add(q, n, b, nul))
    BY AddTwin
  <2>. QED  BY <1>1, <1>2, <2>1 DEF Both
<1>3. CASE ~Same(p, q)
  BY <1>1, <1>3, Zenon DEF Both, Twin
<1>. QED  BY <1>2, <1>3

\* Put in two buffers, with the same if they are at the same text.
LEMMA BothPut ==
  ASSUME NEW p \in Ready, NEW q \in Ready, NEW b, NEW c, NEW n, NEW m,
         Fit(b, n, 1), Fit(c, m, 1), Same(p, q) => b = c /\ n = m
  PROVE  BothDone(p, q, Put(p, n, b), Put(q, m, c))
<1>1. Done(p, Put(p, n, b)) /\ Done(q, Put(q, m, c))
  BY PutIs DEF Done
<1>2. CASE Same(p, q)
  <2>1. Twin(p, q, Put(p, n, b), Put(q, n, b))
    BY PutTwin
  <2>. QED  BY <1>1, <1>2, <2>1 DEF BothDone
<1>3. CASE ~Same(p, q)
  BY <1>1, <1>3, Zenon DEF BothDone, Twin
<1>. QED  BY <1>2, <1>3

\* A walk in two buffers.
LEMMA BothChain ==
  ASSUME NEW n \in Nat, NEW f, NEW g, f[0] \in Ready, g[0] \in Ready,
         \A k \in 1..n : f[k - 1] \in Ready /\ g[k - 1] \in Ready =>
                           Both(f[k - 1], g[k - 1], f[k], g[k])
  PROVE  \A k \in 0..n : Both(f[0], g[0], f[k], g[k])
<1>. DEFINE T == {k \in 0..n : ~Both(f[0], g[0], f[k], g[k])}
<1>. SUFFICES ASSUME T # {} PROVE FALSE
  OBVIOUS
<1>0. T \in SUBSET Nat
  OBVIOUS
<1>1. PICK k \in T : \A y \in T : ~(y < k)
  <2>. HIDE DEF T
  <2>. QED  BY <1>0, Smallest
<1>2. k # 0
  BY BothItself
<1>3. k \in 1..n /\ k \in 0..n /\ k - 1 \in 0..n /\ k - 1 < k
  BY <1>2
<1>4. Both(f[0], g[0], f[k - 1], g[k - 1])
  BY <1>1, <1>3
<1>5. f[k - 1] \in Ready /\ g[k - 1] \in Ready
  BY <1>4, Zenon DEF Both, Level
<1>6. Both(f[k - 1], g[k - 1], f[k], g[k])
  BY <1>3, <1>5
<1>7. Both(f[0], g[0], f[k], g[k])
  BY <1>4, <1>6, BothTrans
<1>. QED  BY <1>7

\* Brackets are bytes.
LEMMA Brackets ==
  \A t : <<Open(t)>> \in Seq(Int) /\ <<Close(t)>> \in Seq(Int)
<1>. TAKE t
<1>1. Open(t) \in Int /\ Close(t) \in Int
  BY DEF Open, Close
<1>. QED  BY <1>1

\* What the functions ask for: one more than the bytes, or, without a NUL, as many.
LEMMA FitIs ==
  ASSUME NEW b \in Seq(Int)
  PROVE  Fit(b, Len(b) + 1, 1) /\ Fit(b, Len(b) + 1, 0) /\ Fit(b, Len(b), 0)
<1>1. PICK n \in Nat : n = Len(b)
  OBVIOUS
<1>2. n + 1 \in Nat /\ n + 1 <= n + 1 + 1 /\ n + 0 <= n + 1 + 1 /\ n + 0 <= n + 1 /\ n <= n + 1
  OBVIOUS
<1>. QED  BY <1>1, <1>2 DEF Fit

\* The comma and the space after an element.
LEMMA BothSeparated ==
  ASSUME NEW p \in Ready, NEW q \in Ready, NEW last \in BOOLEAN
  PROVE  Both(p, q, Separated(p, last), Separated(q, last))
<1>. DEFINE C(x) == IF x.format THEN <<Comma, Space>> ELSE <<Comma>>
<1>1. CASE last
  <2>1. Separated(p, last) = p /\ Separated(q, last) = q
    BY <1>1, Zenon DEF Separated
  <2>. QED  BY <2>1, BothItself
<1>2. CASE ~last
  <2>1. /\ Separated(p, last) = Add(p, Len(C(p)) + 1, C(p), 1)
        /\ Separated(q, last) = Add(q, Len(C(q)) + 1, C(q), 1)
    BY <1>2, Zenon DEF Separated
  <2>2. C(p) \in Seq(Int) /\ C(q) \in Seq(Int)
    BY DEF Comma, Space
  <2>3. Same(p, q) => C(p) = C(q)
    BY Zenon DEF Same
  <2>. HIDE DEF C
  <2>4. Fit(C(p), Len(C(p)) + 1, 1) /\ Fit(C(q), Len(C(q)) + 1, 1)
    BY <2>2, FitIs
  <2>5. Both(p, q, Add(p, Len(C(p)) + 1, C(p), 1), Add(q, Len(C(q)) + 1, C(q), 1))
    BY <2>3, <2>4, BothAdd
  <2>. QED  BY <2>1, <2>5
<1>. QED  BY <1>1, <1>2

\* The comma and the newline after a member.
LEMMA BothEnd ==
  ASSUME NEW p \in Ready, NEW q \in Ready, NEW last \in BOOLEAN
  PROVE  Both(p, q, EndOfMember(p, last), EndOfMember(q, last))
<1>. DEFINE C(x) == (IF last THEN <<>> ELSE <<Comma>>) \o IfFormat(x, <<Newline>>)
<1>1. /\ EndOfMember(p, last) = Add(p, Len(C(p)) + 1, C(p), 1)
      /\ EndOfMember(q, last) = Add(q, Len(C(q)) + 1, C(q), 1)
  BY Zenon DEF EndOfMember
<1>2. C(p) \in Seq(Int) /\ C(q) \in Seq(Int)
  <2>1. IfFormat(p, <<Newline>>) \in Seq(Int) /\ IfFormat(q, <<Newline>>) \in Seq(Int)
    BY DEF IfFormat, Newline
  <2>2. (IF last THEN <<>> ELSE <<Comma>>) \in Seq(Int)
    BY DEF Comma
  <2>. QED  BY <2>1, <2>2
<1>3. Same(p, q) => C(p) = C(q)
  BY Zenon DEF Same, IfFormat
<1>. HIDE DEF C
<1>4. Fit(C(p), Len(C(p)) + 1, 1) /\ Fit(C(q), Len(C(q)) + 1, 1)
  BY <1>2, FitIs
<1>5. Both(p, q, Add(p, Len(C(p)) + 1, C(p), 1), Add(q, Len(C(q)) + 1, C(q), 1))
  BY <1>3, <1>4, BothAdd
<1>. QED  BY <1>1, <1>5

\* A string, in its quotes.
LEMMA BothString ==
  ASSUME NEW p \in Ready, NEW q \in Ready, NEW s \in Seq(Int)
  PROVE  BothDone(p, q, print_string_ptr(s, p), print_string_ptr(s, q))
<1>. DEFINE b == IF s = NoName THEN <<Quote, Quote>> ELSE Quoted(s)
<1>1. /\ print_string_ptr(s, p) = Put(p, Len(b) + 1, b)
      /\ print_string_ptr(s, q) = Put(q, Len(b) + 1, b)
  BY Zenon DEF print_string_ptr
<1>2. b \in Seq(Int)
  <2>1. <<Quote, Quote>> \in Seq(Int)
    BY DEF Quote
  <2>. QED  BY <2>1, QuotedIsBytes
<1>. HIDE DEF b
<1>3. Fit(b, Len(b) + 1, 1)
  BY <1>2, FitIs
<1>4. BothDone(p, q, Put(p, Len(b) + 1, b), Put(q, Len(b) + 1, b))
  BY <1>3, BothPut
<1>. QED  BY <1>1, <1>4

\* As many tabs as the depth.
LEMMA TabsAre ==
  ASSUME NEW n \in Nat
  PROVE  Tabs(n) \in Seq(Int) /\ Len(Tabs(n)) = n
  BY DEF Tabs, Tab

\* ... before a member.
LEMMA BothIndented ==
  ASSUME NEW p \in Ready, NEW q \in Ready
  PROVE  Both(p, q, Indented(p), Indented(q))
<1>1. p.depth \in Nat /\ q.depth \in Nat
  BY DEF Ready, Printbuffer
<1>2. Fit(Tabs(p.depth), p.depth, 0) /\ Fit(Tabs(q.depth), q.depth, 0)
  BY <1>1, TabsAre, FitIs
<1>3. Level(p, Indented(p)) /\ Level(q, Indented(q))
  <2>1. Level(p, Add(p, p.depth, Tabs(p.depth), 0)) /\ Level(q, Add(q, q.depth, Tabs(q.depth), 0))
    BY <1>2, AddIs
  <2>. QED  BY <2>1, LevelItself, Zenon DEF Indented
<1>4. CASE Same(p, q) /\ p.format
  <2>1. /\ Indented(p) = Add(p, p.depth, Tabs(p.depth), 0)
        /\ Indented(q) = Add(q, q.depth, Tabs(q.depth), 0)
    BY <1>4, Zenon DEF Indented, Same
  <2>2. Tabs(p.depth) = Tabs(q.depth) /\ p.depth = q.depth
    BY <1>4, Zenon DEF Same
  <2>. QED  BY <1>2, <2>1, <2>2, BothAdd
<1>5. CASE Same(p, q) /\ ~p.format
  <2>1. Indented(p) = p /\ Indented(q) = q
    BY <1>5, Zenon DEF Indented, Same
  <2>. QED  BY <2>1, BothItself
<1>6. CASE ~Same(p, q)
  BY <1>3, <1>6, Zenon DEF Both, Twin
<1>. QED  BY <1>4, <1>5, <1>6

\* The name of a member, and the colon.
LEMMA BothNamed ==
  ASSUME NEW p \in Ready, NEW q \in Ready, NEW name \in Seq(Int)
  PROVE  Both(p, q, NameThenColon(name, p), NameThenColon(name, q))
<1>. DEFINE N(x) == update_offset(print_string_ptr(name, Indented(x)))
            C(x) == <<Colon>> \o IfFormat(x, <<Tab>>)
<1>1. /\ NameThenColon(name, p) = Add(N(p), Len(C(p)), C(p), 0)
      /\ NameThenColon(name, q) = Add(N(q), Len(C(q)), C(q), 0)
  BY Zenon DEF NameThenColon
<1>2. Both(p, q, Indented(p), Indented(q))
  BY BothIndented
<1>3. Indented(p) \in Ready /\ Indented(q) \in Ready
  BY <1>2, Zenon DEF Both, Level
<1>4. BothDone(Indented(p), Indented(q), print_string_ptr(name, Indented(p)),
               print_string_ptr(name, Indented(q)))
  BY <1>3, BothString
<1>5. Both(Indented(p), Indented(q), N(p), N(q))
  BY <1>3, <1>4, BothUpdated
<1>6. Both(p, q, N(p), N(q))
  BY <1>2, <1>5, BothTrans
<1>7. C(p) \in Seq(Int) /\ C(q) \in Seq(Int)
  <2>1. <<Colon>> \in Seq(Int) /\ IfFormat(p, <<Tab>>) \in Seq(Int) /\ IfFormat(q, <<Tab>>) \in Seq(Int)
    BY DEF IfFormat, Tab, Colon
  <2>. QED  BY <2>1
<1>8. N(p) \in Ready /\ N(q) \in Ready /\ N(p).format = p.format /\ N(q).format = q.format
  BY <1>6, Zenon DEF Both, Level, Printed
<1>9. Same(N(p), N(q)) => C(p) = C(q)
  BY <1>8, Zenon DEF Same, IfFormat
<1>. HIDE DEF N, C
<1>10. Fit(C(p), Len(C(p)), 0) /\ Fit(C(q), Len(C(q)), 0)
  BY <1>7, FitIs
<1>11. Both(N(p), N(q), Add(N(p), Len(C(p)), C(p), 0), Add(N(q), Len(C(q)), C(q), 0))
  BY <1>8, <1>9, <1>10, BothAdd
<1>12. Both(p, q, Add(N(p), Len(C(p)), C(p), 0), Add(N(q), Len(C(q)), C(q), 0))
  BY <1>6, <1>11, BothTrans
<1>. QED  BY <1>1, <1>12

\* What fails in two buffers.
LEMMA BothFail ==
  ASSUME NEW p \in Ready, NEW q \in Ready
  PROVE  BothDone(p, q, Fail(p), Fail(q))
<1>1. ASSUME NEW r \in Ready
      PROVE  Done(r, Fail(r)) /\ ~Fail(r).ok
  <2>1. r \in Printbuffer
    BY DEF Ready
  <2>. DEFINE f == Fail(r)
  <2>2. /\ f \in Printbuffer
        /\ ~f.ok
        /\ f.format = r.format
        /\ f.depth = r.depth
        /\ f.length = r.length
        /\ f.inside = r.inside
    BY <2>1, FailIs
  <2>3. r.length <= f.length
    <3>1. r.length \in Nat
      BY <2>1 DEF Printbuffer
    <3>. QED  BY <2>2, <3>1
  <2>. HIDE DEF f
  <2>4. Done(r, f) /\ ~f.ok
    BY <2>2, <2>3, Zenon DEF Done, Printed
  <2>. QED  BY <2>4 DEF f
<1>. QED  BY <1>1, Zenon DEF BothDone, Twin

\* What ends at its offset is printed.
LEMMA BothIsDone ==
  ASSUME NEW p, NEW q, NEW r, NEW s, Both(p, q, r, s)
  PROVE  BothDone(p, q, r, s)
  BY Zenon DEF Both, BothDone, Level, Done

\* A word is bytes.
LEMMA WordIsBytes ==
  \A t : Word(t) \in Seq(Int)
  BY DEF Word

\* A value that is no list.
LEMMA BothScalar ==
  ASSUME NEW p \in Ready, NEW q \in Ready, NEW v, v.num \in Int, v.str \in Seq(Int)
  PROVE  BothDone(p, q, print_scalar(v, p), print_scalar(v, q))
<1>. DEFINE w == Word(v.type)
            d == Decimal(v.num)
            s == v.str
<1>1. \/ /\ print_scalar(v, p) = Put(p, Len(w) + 1, w)
         /\ print_scalar(v, q) = Put(q, Len(w) + 1, w)
      \/ /\ print_scalar(v, p) = Add(p, Len(d) + 1, d, 1)
         /\ print_scalar(v, q) = Add(q, Len(d) + 1, d, 1)
      \/ /\ print_scalar(v, p) = Put(p, Len(s) + 1, s)
         /\ print_scalar(v, q) = Put(q, Len(s) + 1, s)
      \/ /\ print_scalar(v, p) = print_string_ptr(s, p)
         /\ print_scalar(v, q) = print_string_ptr(s, q)
      \/ /\ print_scalar(v, p) = Fail(p)
         /\ print_scalar(v, q) = Fail(q)
  BY Zenon DEF print_scalar, print_number
<1>2. w \in Seq(Int) /\ d \in Seq(Int) /\ s \in Seq(Int)
  BY WordIsBytes, DecimalIsBytes
<1>. HIDE DEF w, d, s
<1>3. Fit(w, Len(w) + 1, 1) /\ Fit(d, Len(d) + 1, 1) /\ Fit(s, Len(s) + 1, 1)
  BY <1>2, FitIs
<1>4. BothDone(p, q, Put(p, Len(w) + 1, w), Put(q, Len(w) + 1, w))
  BY <1>3, BothPut
<1>5. BothDone(p, q, Add(p, Len(d) + 1, d, 1), Add(q, Len(d) + 1, d, 1))
  BY <1>3, BothAdd, BothIsDone
<1>6. BothDone(p, q, Put(p, Len(s) + 1, s), Put(q, Len(s) + 1, s))
  BY <1>3, BothPut
<1>7. BothDone(p, q, print_string_ptr(s, p), print_string_ptr(s, q))
  BY <1>2, BothString
<1>. QED  BY <1>1, <1>4, <1>5, <1>6, <1>7, BothFail, Zenon

\* What a list of values does to a buffer, between its brackets.
LEMMA BothDeeper ==
  ASSUME NEW p \in Ready, NEW q \in Ready, NEW r, NEW s, Both(p, q, r, s)
  PROVE  /\ Printed(p, Deeper(r)) /\ Deeper(r) \in Ready /\ Deeper(r).depth = p.depth + 1
         /\ Printed(q, Deeper(s)) /\ Deeper(s) \in Ready /\ Deeper(s).depth = q.depth + 1
         /\ Twin(p, q, Deeper(r), Deeper(s))
<1>1. r \in Printbuffer /\ s \in Printbuffer
  BY Zenon DEF Both, Level, Printed
<1>. QED  BY <1>1, DeeperIs, DeeperTwin DEF Both

\* From a deeper level to its bracket and back.
LEMMA BothClosed ==
  ASSUME NEW p \in Ready, NEW q \in Ready, NEW r \in Ready, NEW s \in Ready, NEW t, NEW u,
         Printed(p, r), r.depth = p.depth + 1, Printed(q, s), s.depth = q.depth + 1,
         Twin(p, q, r, s), BothDone(r, s, t, u)
  PROVE  BothDone(p, q, Shallower(t), Shallower(u))
<1>1. /\ p \in Printbuffer /\ q \in Printbuffer /\ r \in Printbuffer /\ s \in Printbuffer
      /\ t \in Printbuffer /\ u \in Printbuffer /\ Printed(r, t) /\ Printed(s, u)
  BY Zenon DEF BothDone, Done, Printed, Ready
<1>2. Printed(p, t) /\ Printed(q, u)
  BY <1>1, PrintedTrans
<1>3. t.depth = p.depth + 1 /\ u.depth = q.depth + 1
  BY Zenon DEF BothDone, Done
<1>4. Done(p, Shallower(t)) /\ Done(q, Shallower(u))
  BY <1>2, <1>3, ShallowerIs
<1>5. Twin(p, q, t, u)
  BY <1>1, TwinTrans DEF BothDone
<1>6. t.depth > 0 /\ u.depth > 0
  <2>1. p.depth \in Nat /\ q.depth \in Nat
    BY <1>1 DEF Printbuffer
  <2>. QED  BY <1>3, <2>1
<1>7. Twin(p, q, Shallower(t), Shallower(u))
  BY <1>1, <1>5, <1>6, ShallowerTwin
<1>. QED  BY <1>4, <1>7 DEF BothDone

\* The printer of a set of documents: what print_value makes of a document and of a buffer.
Prints(Pr, D) == \A v \in D : \A p \in Ready : Pr[v][p] = printed(Pr, v, p)

\* A member printed, and what follows it.
Element(Pr, v, k, p) == Separated(update_offset(Pr[v.items[k]][p]), k = Len(v.items))
Member(Pr, v, k, p) ==
  LET named == NameThenColon(v.items[k].name, p)
  IN  EndOfMember(update_offset(Pr[v.items[k]][named]), k = Len(v.items))

\* All buffers from the bracket on.
OpenArray(p) == Deeper(Add(p, 1, <<Open("array")>>, 0))
OpenObject(p) ==
  LET open == <<Open("object")>> \o IfFormat(p, <<Newline>>)
  IN  Deeper(Add(p, Len(open) + 1, open, 0))
CloseArray(q) == Shallower(Put(q, 2, <<Close("array")>>))
CloseObject(p, q) ==
  LET close == IfFormat(p, Tabs(p.depth)) \o <<Close("object")>>
  IN  Shallower(Put(q, IF p.format THEN p.depth + 2 ELSE 2, close))
InArray(Pr, v, f, p) ==
  f[0] = OpenArray(p) /\ \A k \in 1..Len(v.items) : f[k] = Element(Pr, v, k, f[k - 1])
InObject(Pr, v, f, p) ==
  f[0] = OpenObject(p) /\ \A k \in 1..Len(v.items) : f[k] = Member(Pr, v, k, f[k - 1])

\* The buffers of print_array, each made of the one before it.
LEMMA ArrayWalk ==
  ASSUME NEW Pr, NEW v, Len(v.items) \in Nat, NEW p, OpenArray(p) \in Ready,
         \A k \in 1..Len(v.items) : \A q \in Ready : Element(Pr, v, k, q) \in Ready
  PROVE  \E f : /\ InArray(Pr, v, f, p)
                /\ print_array(Pr, v, p) = CloseArray(f[Len(v.items)])
<1>. DEFINE n == Len(v.items)
            first == OpenArray(p)
            Is(f) == f = [k \in 0..n |-> IF k = 0 THEN first ELSE Element(Pr, v, k, f[k - 1])]
            at == CHOOSE f : Is(f)
            G == [k \in 1..n |-> [q \in Ready |-> Element(Pr, v, k, q)]]
<1>1. print_array(Pr, v, p) = CloseArray(at[n])
  BY Zenon DEF print_array, CloseArray, OpenArray, Element
<1>2. n \in Nat /\ first \in Ready
  OBVIOUS
<1>3. \A k \in 1..n : \A q \in Ready : G[k][q] = Element(Pr, v, k, q) /\ G[k][q] \in Ready
  OBVIOUS
<1>. HIDE DEF G
<1>4. PICK w : Walk(w, Ready, first, n, G)
  BY <1>2, <1>3, WalkExists
<1>5. w \in [0..n -> Ready] /\ w[0] = first /\ \A k \in 1..n : w[k] = G[k][w[k - 1]]
  BY <1>4, Zenon DEF Walk
<1>6. \A k \in 0..n : w[k] = IF k = 0 THEN first ELSE Element(Pr, v, k, w[k - 1])
  <2>. TAKE k \in 0..n
  <2>1. CASE k = 0
    BY <1>5, <2>1
  <2>2. CASE k # 0
    <3>1. k \in 1..n /\ k - 1 \in 0..n
      BY <1>2, <2>2
    <3>. QED  BY <1>3, <1>5, <2>2, <3>1
  <2>. QED  BY <2>1, <2>2
<1>7. Is(w)
  BY <1>5, <1>6
<1>8. Is(at)
  BY <1>7
<1>. HIDE DEF at
<1>9. at[0] = first /\ \A k \in 1..n : at[k] = Element(Pr, v, k, at[k - 1])
  BY <1>2, <1>8
<1>10. InArray(Pr, v, at, p)
  BY <1>9 DEF InArray
<1>. QED  BY <1>1, <1>10

\* The buffers of print_object, each made of the one before it.
LEMMA ObjectWalk ==
  ASSUME NEW Pr, NEW v, Len(v.items) \in Nat, NEW p, OpenObject(p) \in Ready,
         \A k \in 1..Len(v.items) : \A q \in Ready : Member(Pr, v, k, q) \in Ready
  PROVE  \E f : /\ InObject(Pr, v, f, p)
                /\ print_object(Pr, v, p) = CloseObject(p, f[Len(v.items)])
<1>. DEFINE n == Len(v.items)
            first == OpenObject(p)
            Is(f) == f = [k \in 0..n |-> IF k = 0 THEN first ELSE Member(Pr, v, k, f[k - 1])]
            at == CHOOSE f : Is(f)
            G == [k \in 1..n |-> [q \in Ready |-> Member(Pr, v, k, q)]]
<1>1. print_object(Pr, v, p) = CloseObject(p, at[n])
  BY Zenon DEF print_object, CloseObject, OpenObject, Member
<1>2. n \in Nat /\ first \in Ready
  OBVIOUS
<1>3. \A k \in 1..n : \A q \in Ready : G[k][q] = Member(Pr, v, k, q) /\ G[k][q] \in Ready
  OBVIOUS
<1>. HIDE DEF G
<1>4. PICK w : Walk(w, Ready, first, n, G)
  BY <1>2, <1>3, WalkExists
<1>5. w \in [0..n -> Ready] /\ w[0] = first /\ \A k \in 1..n : w[k] = G[k][w[k - 1]]
  BY <1>4, Zenon DEF Walk
<1>6. \A k \in 0..n : w[k] = IF k = 0 THEN first ELSE Member(Pr, v, k, w[k - 1])
  <2>. TAKE k \in 0..n
  <2>1. CASE k = 0
    BY <1>5, <2>1
  <2>2. CASE k # 0
    <3>1. k \in 1..n /\ k - 1 \in 0..n
      BY <1>2, <2>2
    <3>. QED  BY <1>3, <1>5, <2>2, <3>1
  <2>. QED  BY <2>1, <2>2
<1>7. Is(w)
  BY <1>5, <1>6
<1>8. Is(at)
  BY <1>7
<1>. HIDE DEF at
<1>9. at[0] = first /\ \A k \in 1..n : at[k] = Member(Pr, v, k, at[k - 1])
  BY <1>2, <1>8
<1>10. InObject(Pr, v, at, p)
  BY <1>9 DEF InObject
<1>. QED  BY <1>1, <1>10

\* What Pr does to two buffers with a value, whatever the value is a part of.
Printable(Pr, v) == \A p, q \in Ready : BothDone(p, q, Pr[v][p], Pr[v][q])

\* One element, and what follows it.
LEMMA BothElement ==
  ASSUME NEW Pr, NEW v, NEW k, Printable(Pr, v.items[k]), NEW p \in Ready, NEW q \in Ready
  PROVE  Both(p, q, Element(Pr, v, k, p), Element(Pr, v, k, q))
<1>. DEFINE r == update_offset(Pr[v.items[k]][p])
            s == update_offset(Pr[v.items[k]][q])
            last == k = Len(v.items)
<1>1. Element(Pr, v, k, p) = Separated(r, last) /\ Element(Pr, v, k, q) = Separated(s, last)
  BY Zenon DEF Element
<1>2. BothDone(p, q, Pr[v.items[k]][p], Pr[v.items[k]][q])
  BY DEF Printable
<1>3. Both(p, q, r, s)
  BY <1>2, BothUpdated
<1>4. last \in BOOLEAN
  OBVIOUS
<1>. HIDE DEF r, s, last
<1>5. r \in Ready /\ s \in Ready
  BY <1>3, Zenon DEF Both, Level
<1>6. Both(r, s, Separated(r, last), Separated(s, last))
  BY <1>4, <1>5, BothSeparated
<1>7. Both(p, q, Separated(r, last), Separated(s, last))
  BY <1>3, <1>6, BothTrans
<1>. QED  BY <1>1, <1>7, Zenon

\* One member, its name before it, and what follows it.
LEMMA BothMember ==
  ASSUME NEW Pr, NEW v, NEW k, Printable(Pr, v.items[k]), v.items[k].name \in Seq(Int),
         NEW p \in Ready, NEW q \in Ready
  PROVE  Both(p, q, Member(Pr, v, k, p), Member(Pr, v, k, q))
<1>. DEFINE a == NameThenColon(v.items[k].name, p)
            b == NameThenColon(v.items[k].name, q)
            r == update_offset(Pr[v.items[k]][a])
            s == update_offset(Pr[v.items[k]][b])
            last == k = Len(v.items)
<1>1. Member(Pr, v, k, p) = EndOfMember(r, last) /\ Member(Pr, v, k, q) = EndOfMember(s, last)
  BY Zenon DEF Member
<1>2. Both(p, q, a, b)
  BY BothNamed
<1>3. a \in Ready /\ b \in Ready
  BY <1>2, Zenon DEF Both, Level
<1>4. BothDone(a, b, Pr[v.items[k]][a], Pr[v.items[k]][b])
  BY <1>3 DEF Printable
<1>5. Both(a, b, r, s)
  BY <1>3, <1>4, BothUpdated
<1>6. last \in BOOLEAN
  OBVIOUS
<1>. HIDE DEF a, b, r, s, last
<1>7. r \in Ready /\ s \in Ready
  BY <1>5, Zenon DEF Both, Level
<1>8. Both(r, s, EndOfMember(r, last), EndOfMember(s, last))
  BY <1>6, <1>7, BothEnd
<1>9. Both(p, q, EndOfMember(r, last), EndOfMember(s, last))
  BY <1>2, <1>5, <1>8, <1>3, BothTrans
<1>. QED  BY <1>1, <1>9, Zenon

\* The bracket of an array.
LEMMA BothOpenArray ==
  ASSUME NEW p \in Ready, NEW q \in Ready
  PROVE  /\ Printed(p, OpenArray(p)) /\ OpenArray(p) \in Ready /\ OpenArray(p).depth = p.depth + 1
         /\ Printed(q, OpenArray(q)) /\ OpenArray(q) \in Ready /\ OpenArray(q).depth = q.depth + 1
         /\ Twin(p, q, OpenArray(p), OpenArray(q))
<1>. DEFINE b == <<Open("array")>>
            r == Add(p, 1, b, 0)
            s == Add(q, 1, b, 0)
<1>1. b \in Seq(Int) /\ Len(b) = 1
  BY Brackets
<1>2. OpenArray(p) = Deeper(r) /\ OpenArray(q) = Deeper(s)
  BY Zenon DEF OpenArray
<1>. HIDE DEF b
<1>3. Fit(b, 1, 0)
  BY <1>1, FitIs
<1>4. Both(p, q, r, s)
  BY <1>3, BothAdd
<1>. HIDE DEF r, s
<1>. QED  BY <1>2, <1>4, BothDeeper

\* The bracket of an object.
LEMMA BothOpenObject ==
  ASSUME NEW p \in Ready, NEW q \in Ready
  PROVE  /\ Printed(p, OpenObject(p)) /\ OpenObject(p) \in Ready /\ OpenObject(p).depth = p.depth + 1
         /\ Printed(q, OpenObject(q)) /\ OpenObject(q) \in Ready /\ OpenObject(q).depth = q.depth + 1
         /\ Twin(p, q, OpenObject(p), OpenObject(q))
<1>. DEFINE C(x) == <<Open("object")>> \o IfFormat(x, <<Newline>>)
            r == Add(p, Len(C(p)) + 1, C(p), 0)
            s == Add(q, Len(C(q)) + 1, C(q), 0)
<1>1. C(p) \in Seq(Int) /\ C(q) \in Seq(Int)
  <2>1. IfFormat(p, <<Newline>>) \in Seq(Int) /\ IfFormat(q, <<Newline>>) \in Seq(Int)
    BY DEF IfFormat, Newline
  <2>. QED  BY <2>1, Brackets
<1>2. OpenObject(p) = Deeper(r) /\ OpenObject(q) = Deeper(s)
  BY Zenon DEF OpenObject
<1>3. Same(p, q) => C(p) = C(q)
  BY Zenon DEF Same, IfFormat
<1>. HIDE DEF C
<1>4. Fit(C(p), Len(C(p)) + 1, 0) /\ Fit(C(q), Len(C(q)) + 1, 0)
  BY <1>1, FitIs
<1>5. Both(p, q, r, s)
  BY <1>3, <1>4, BothAdd
<1>. HIDE DEF r, s
<1>. QED  BY <1>2, <1>5, BothDeeper

\* print_array, when its elements can be printed.
LEMMA BothArray ==
  ASSUME NEW Pr, NEW v, Len(v.items) \in Nat,
         \A k \in 1..Len(v.items) : Printable(Pr, v.items[k]), NEW p \in Ready, NEW q \in Ready
  PROVE  BothDone(p, q, print_array(Pr, v, p), print_array(Pr, v, q))
<1>. DEFINE n == Len(v.items)
<1>1. \A k \in 1..n : \A x, y \in Ready : Both(x, y, Element(Pr, v, k, x), Element(Pr, v, k, y))
  BY BothElement
<1>2. \A k \in 1..n : \A x \in Ready : Element(Pr, v, k, x) \in Ready
  BY <1>1, Zenon DEF Both, Level
<1>3. OpenArray(p) \in Ready /\ OpenArray(q) \in Ready
  BY BothOpenArray
<1>4. PICK f : /\ InArray(Pr, v, f, p)
               /\ print_array(Pr, v, p) = CloseArray(f[n])
  BY <1>2, <1>3, ArrayWalk
<1>5. PICK g : /\ InArray(Pr, v, g, q)
               /\ print_array(Pr, v, q) = CloseArray(g[n])
  BY <1>2, <1>3, ArrayWalk
<1>6. /\ f[0] = OpenArray(p) /\ \A k \in 1..n : f[k] = Element(Pr, v, k, f[k - 1])
      /\ g[0] = OpenArray(q) /\ \A k \in 1..n : g[k] = Element(Pr, v, k, g[k - 1])
  BY <1>4, <1>5, Zenon DEF InArray
<1>. DEFINE a == CloseArray(f[n])
            b == CloseArray(g[n])
<1>. SUFFICES BothDone(p, q, a, b)
  BY <1>4, <1>5, Zenon
<1>7. \A k \in 1..n : f[k - 1] \in Ready /\ g[k - 1] \in Ready =>
                        Both(f[k - 1], g[k - 1], f[k], g[k])
  BY <1>1, <1>6
<1>. HIDE DEF n
<1>8. n \in Nat /\ n \in 0..n
  BY DEF n
<1>9. f[0] \in Ready /\ g[0] \in Ready
  BY <1>3, <1>6
<1>10. Both(f[0], g[0], f[n], g[n])
  BY <1>7, <1>8, <1>9, BothChain
<1>11. f[n] \in Ready /\ g[n] \in Ready
  BY <1>10, Zenon DEF Both, Level
<1>. DEFINE c == <<Close("array")>>
<1>12. c \in Seq(Int) /\ Len(c) + 1 = 2
  BY Brackets
<1>13. CloseArray(f[n]) = Shallower(Put(f[n], 2, c)) /\ CloseArray(g[n]) = Shallower(Put(g[n], 2, c))
  BY Zenon DEF CloseArray
<1>. HIDE DEF c
<1>14. Fit(c, 2, 1)
  BY <1>12, FitIs
<1>15. BothDone(f[n], g[n], Put(f[n], 2, c), Put(g[n], 2, c))
  BY <1>11, <1>14, BothPut
<1>16. BothDone(f[0], g[0], Put(f[n], 2, c), Put(g[n], 2, c))
  BY <1>9, <1>10, <1>15, BothThenDone
<1>17. BothDone(p, q, Shallower(Put(f[n], 2, c)), Shallower(Put(g[n], 2, c)))
  <2>1. /\ Printed(p, f[0]) /\ f[0].depth = p.depth + 1
        /\ Printed(q, g[0]) /\ g[0].depth = q.depth + 1
        /\ Twin(p, q, f[0], g[0])
    BY <1>6, BothOpenArray
  <2>. QED  BY <1>9, <1>16, <2>1, BothClosed
<1>. QED  BY <1>13, <1>17

\* What closes an object, and what is asked for it.
CloseBytes(p) == IfFormat(p, Tabs(p.depth)) \o <<Close("object")>>
CloseNeeds(p) == IF p.format THEN p.depth + 2 ELSE 2

\* ... which is as much as it takes.
LEMMA CloseFits ==
  ASSUME NEW p \in Ready
  PROVE  Fit(CloseBytes(p), CloseNeeds(p), 1)
<1>. DEFINE t == IfFormat(p, Tabs(p.depth))
            c == <<Close("object")>>
<1>1. p.depth \in Nat
  BY DEF Ready, Printbuffer
<1>2. t \in Seq(Int) /\ Len(t) = IF p.format THEN p.depth ELSE 0
  BY <1>1, TabsAre DEF IfFormat
<1>3. c \in Seq(Int) /\ Len(c) = 1
  BY Brackets
<1>4. CloseBytes(p) = t \o c
  BY Zenon DEF CloseBytes
<1>. HIDE DEF t, c
<1>5. CloseBytes(p) \in Seq(Int) /\ Len(CloseBytes(p)) + 1 = CloseNeeds(p)
  <2>1. t \o c \in Seq(Int) /\ Len(t \o c) = Len(t) + Len(c)
    <3>1. t \in Seq(Int) /\ c \in Seq(Int)
      BY <1>2, <1>3
    <3>. QED  BY <3>1
  <2>2. Len(t) + 1 + 1 = CloseNeeds(p)
    BY <1>1, <1>2 DEF CloseNeeds
  <2>. QED  BY <1>3, <1>4, <2>1, <2>2
<1>. QED  BY <1>5, FitIs

\* print_object, when its members can be printed.
LEMMA BothObject ==
  ASSUME NEW Pr, NEW v, Len(v.items) \in Nat,
         \A k \in 1..Len(v.items) : Printable(Pr, v.items[k]) /\ v.items[k].name \in Seq(Int),
         NEW p \in Ready, NEW q \in Ready
  PROVE  BothDone(p, q, print_object(Pr, v, p), print_object(Pr, v, q))
<1>. DEFINE n == Len(v.items)
<1>1. \A k \in 1..n : \A x, y \in Ready : Both(x, y, Member(Pr, v, k, x), Member(Pr, v, k, y))
  BY BothMember
<1>2. \A k \in 1..n : \A x \in Ready : Member(Pr, v, k, x) \in Ready
  BY <1>1, Zenon DEF Both, Level
<1>3. OpenObject(p) \in Ready /\ OpenObject(q) \in Ready
  BY BothOpenObject
<1>4. PICK f : InObject(Pr, v, f, p) /\ print_object(Pr, v, p) = CloseObject(p, f[n])
  BY <1>2, <1>3, ObjectWalk
<1>5. PICK g : InObject(Pr, v, g, q) /\ print_object(Pr, v, q) = CloseObject(q, g[n])
  BY <1>2, <1>3, ObjectWalk
<1>6. /\ f[0] = OpenObject(p) /\ \A k \in 1..n : f[k] = Member(Pr, v, k, f[k - 1])
      /\ g[0] = OpenObject(q) /\ \A k \in 1..n : g[k] = Member(Pr, v, k, g[k - 1])
  BY <1>4, <1>5, Zenon DEF InObject
<1>. DEFINE a == CloseObject(p, f[n])
            b == CloseObject(q, g[n])
<1>. SUFFICES BothDone(p, q, a, b)
  BY <1>4, <1>5, Zenon
<1>7. \A k \in 1..n : f[k - 1] \in Ready /\ g[k - 1] \in Ready =>
                        Both(f[k - 1], g[k - 1], f[k], g[k])
  BY <1>1, <1>6
<1>. HIDE DEF n
<1>8. n \in Nat /\ n \in 0..n
  BY DEF n
<1>9. f[0] \in Ready /\ g[0] \in Ready
  BY <1>3, <1>6
<1>10. Both(f[0], g[0], f[n], g[n])
  BY <1>7, <1>8, <1>9, BothChain
<1>11. f[n] \in Ready /\ g[n] \in Ready
  BY <1>10, Zenon DEF Both, Level
<1>12. /\ Printed(p, f[0]) /\ f[0].depth = p.depth + 1
       /\ Printed(q, g[0]) /\ g[0].depth = q.depth + 1
       /\ Twin(p, q, f[0], g[0])
  BY <1>6, BothOpenObject
<1>. DEFINE x == Put(f[n], CloseNeeds(p), CloseBytes(p))
            y == Put(g[n], CloseNeeds(q), CloseBytes(q))
<1>13. CloseObject(p, f[n]) = Shallower(x) /\ CloseObject(q, g[n]) = Shallower(y)
  BY Zenon DEF CloseObject, CloseBytes, CloseNeeds
<1>14. Same(f[n], g[n]) => CloseBytes(p) = CloseBytes(q) /\ CloseNeeds(p) = CloseNeeds(q)
  <2>1. /\ f[n].depth = f[0].depth /\ f[n].format = f[0].format
        /\ g[n].depth = g[0].depth /\ g[n].format = g[0].format
    BY <1>10, Zenon DEF Both, Level, Printed
  <2>2. f[0].format = p.format /\ g[0].format = q.format
    BY <1>12, Zenon DEF Printed
  <2>3. p.depth \in Nat /\ q.depth \in Nat
    BY DEF Ready, Printbuffer
  <2>4. f[n].depth = g[n].depth => p.depth = q.depth
    BY <1>12, <2>1, <2>3
  <2>. QED  BY <2>1, <2>2, <2>4, Zenon DEF Same, CloseBytes, CloseNeeds, IfFormat
<1>15. Fit(CloseBytes(p), CloseNeeds(p), 1) /\ Fit(CloseBytes(q), CloseNeeds(q), 1)
  BY CloseFits
<1>16. BothDone(f[n], g[n], x, y)
  BY <1>11, <1>14, <1>15, BothPut
<1>. HIDE DEF x, y
<1>17. BothDone(f[0], g[0], x, y)
  BY <1>9, <1>10, <1>16, BothThenDone
<1>18. BothDone(p, q, Shallower(x), Shallower(y))
  BY <1>9, <1>12, <1>17, BothClosed
<1>. QED  BY <1>13, <1>18

\* A buffer that failed stays what it is.
LEMMA FailedIsDone ==
  ASSUME NEW p \in Ready
  PROVE  Done(p, p)
  BY LevelItself DEF Level, Done

\* One value, when what is in it can be printed.
LEMMA BothPrinted ==
  ASSUME NEW Pr, NEW v, v.num \in Int, v.str \in Seq(Int), Len(v.items) \in Nat,
         \A k \in 1..Len(v.items) : Printable(Pr, v.items[k]) /\ v.items[k].name \in Seq(Int),
         NEW p \in Ready, NEW q \in Ready
  PROVE  BothDone(p, q, printed(Pr, v, p), printed(Pr, v, q))
<1>. DEFINE r == printed(Pr, v, p)
            s == printed(Pr, v, q)
<1>1. /\ ~p.ok => r = p
      /\ ~q.ok => s = q
      /\ p.ok => \/ v.type = "array" /\ r = print_array(Pr, v, p)
                 \/ v.type # "array" /\ v.type = "object" /\ r = print_object(Pr, v, p)
                 \/ v.type # "array" /\ v.type # "object" /\ r = print_scalar(v, p)
      /\ q.ok => \/ v.type = "array" /\ s = print_array(Pr, v, q)
                 \/ v.type # "array" /\ v.type = "object" /\ s = print_object(Pr, v, q)
                 \/ v.type # "array" /\ v.type # "object" /\ s = print_scalar(v, q)
  BY Zenon DEF printed
<1>. HIDE DEF r, s
<1>. SUFFICES BothDone(p, q, r, s)
  BY DEF r, s
<1>2. /\ BothDone(p, q, print_array(Pr, v, p), print_array(Pr, v, q))
      /\ BothDone(p, q, print_object(Pr, v, p), print_object(Pr, v, q))
      /\ BothDone(p, q, print_scalar(v, p), print_scalar(v, q))
  BY BothArray, BothObject, BothScalar
<1>3. Done(p, p) /\ Done(q, q)
  BY FailedIsDone
<1>4. Done(p, r) /\ Done(q, s)
  BY <1>1, <1>2, <1>3, Zenon DEF BothDone
<1>5. CASE p.ok /\ q.ok
  <2>1. CASE v.type = "array"
    <3>1. r = print_array(Pr, v, p) /\ s = print_array(Pr, v, q)
      BY <1>1, <1>5, <2>1, Zenon
    <3>. QED  BY <1>2, <3>1, Zenon
  <2>2. CASE v.type # "array" /\ v.type = "object"
    <3>1. r = print_object(Pr, v, p) /\ s = print_object(Pr, v, q)
      BY <1>1, <1>5, <2>2, Zenon
    <3>. QED  BY <1>2, <3>1, Zenon
  <2>3. CASE v.type # "array" /\ v.type # "object"
    <3>1. r = print_scalar(v, p) /\ s = print_scalar(v, q)
      BY <1>1, <1>5, <2>3, Zenon
    <3>. QED  BY <1>2, <3>1, Zenon
  <2>. QED  BY <2>1, <2>2, <2>3, Zenon
<1>6. CASE ~(p.ok /\ q.ok)
  <2>1. Twin(p, q, r, s)
    BY <1>6, Zenon DEF Twin, Same
  <2>. QED  BY <1>4, <2>1, Zenon DEF BothDone
<1>. QED  BY <1>5, <1>6, Zenon

\* By the height of the documents, everything in them can be printed.
LEMMA AllPrintable ==
  ASSUME NEW D, NEW height, Documents(D, height), NEW Pr, Prints(Pr, D)
  PROVE  \A v \in D : Printable(Pr, v)
<1>. DEFINE T == {h \in Nat : \E v \in D : height[v] = h /\ ~Printable(Pr, v)}
<1>. SUFFICES ASSUME T # {} PROVE FALSE
  BY DEF Documents
<1>0. T \in SUBSET Nat
  OBVIOUS
<1>1. PICK h \in T : \A y \in T : ~(y < h)
  <2>. HIDE DEF T
  <2>. QED  BY <1>0, Smallest
<1>2. PICK v \in D : height[v] = h /\ ~Printable(Pr, v)
  BY <1>1
<1>3. /\ v.num \in Int /\ v.str \in Seq(Int) /\ v.items \in Seq(D)
      /\ \A k \in DOMAIN v.items : height[v.items[k]] < height[v]
  BY DEF Documents
<1>4. Len(v.items) \in Nat /\ DOMAIN v.items = 1..Len(v.items)
      /\ \A k \in 1..Len(v.items) : v.items[k] \in D
  BY <1>3
<1>5. \A k \in 1..Len(v.items) : Printable(Pr, v.items[k]) /\ v.items[k].name \in Seq(Int)
  <2>. TAKE k \in 1..Len(v.items)
  <2>1. v.items[k] \in D /\ height[v.items[k]] < h
    BY <1>2, <1>3, <1>4
  <2>2. height[v.items[k]] \in Nat /\ v.items[k].name \in Seq(Int)
    BY <2>1 DEF Documents
  <2>. QED  BY <1>1, <2>1, <2>2
<1>6. \A p, q \in Ready : BothDone(p, q, printed(Pr, v, p), printed(Pr, v, q))
  BY <1>3, <1>4, <1>5, BothPrinted
<1>7. \A p \in Ready : Pr[v][p] = printed(Pr, v, p)
  BY Zenon DEF Prints
<1>8. Printable(Pr, v)
  BY <1>6, <1>7, Zenon DEF Printable
<1>. QED  BY <1>2, <1>8

\* Two printers print a value alike.
Agree(P1, P2, v) == \A q \in Ready : P1[v][q] = P2[v][q]

\* Two walks that start alike and go on alike are the same.
LEMMA AlikeStepByStep ==
  ASSUME NEW n \in Nat, NEW f, NEW g, f[0] = g[0], f[0] \in Ready,
         \A k \in 1..n : f[k - 1] \in Ready /\ f[k - 1] = g[k - 1] => f[k] = g[k] /\ f[k] \in Ready
  PROVE  \A k \in 0..n : f[k] = g[k] /\ f[k] \in Ready
<1>. DEFINE T == {k \in 0..n : ~(f[k] = g[k] /\ f[k] \in Ready)}
<1>. SUFFICES ASSUME T # {} PROVE FALSE
  OBVIOUS
<1>0. T \in SUBSET Nat
  OBVIOUS
<1>1. PICK k \in T : \A y \in T : ~(y < k)
  <2>. HIDE DEF T
  <2>. QED  BY <1>0, Smallest
<1>2. k \in 1..n /\ k - 1 \in 0..n /\ k - 1 < k
  OBVIOUS
<1>3. f[k - 1] = g[k - 1] /\ f[k - 1] \in Ready
  BY <1>1, <1>2
<1>. QED  BY <1>2, <1>3

\* Printers that print the elements alike print the array alike.
LEMMA SameArray ==
  ASSUME NEW P1, NEW P2, NEW v, Len(v.items) \in Nat,
         \A k \in 1..Len(v.items) : Agree(P1, P2, v.items[k]) /\ Printable(P1, v.items[k]),
         NEW p \in Ready
  PROVE  print_array(P1, v, p) = print_array(P2, v, p)
<1>. DEFINE n == Len(v.items)
<1>1. \A k \in 1..n : \A q \in Ready : Element(P1, v, k, q) = Element(P2, v, k, q)
  BY Zenon DEF Element, Agree
<1>2. \A k \in 1..n : \A q \in Ready : Element(P1, v, k, q) \in Ready
  BY BothElement, Zenon DEF Both, Level
<1>3. \A k \in 1..n : \A q \in Ready : Element(P2, v, k, q) \in Ready
  BY <1>1, <1>2
<1>4. OpenArray(p) \in Ready
  BY BothOpenArray
<1>5. PICK f : InArray(P1, v, f, p) /\ print_array(P1, v, p) = CloseArray(f[n])
  BY <1>2, <1>4, ArrayWalk
<1>6. PICK g : InArray(P2, v, g, p) /\ print_array(P2, v, p) = CloseArray(g[n])
  BY <1>3, <1>4, ArrayWalk
<1>7. /\ f[0] = OpenArray(p) /\ \A k \in 1..n : f[k] = Element(P1, v, k, f[k - 1])
      /\ g[0] = OpenArray(p) /\ \A k \in 1..n : g[k] = Element(P2, v, k, g[k - 1])
  BY <1>5, <1>6, Zenon DEF InArray
<1>. HIDE DEF n
<1>8. n \in Nat /\ n \in 0..n
  BY DEF n
<1>9. \A k \in 1..n : f[k - 1] \in Ready /\ f[k - 1] = g[k - 1] => f[k] = g[k] /\ f[k] \in Ready
  BY <1>1, <1>2, <1>7 DEF n
<1>10. f[0] = g[0] /\ f[0] \in Ready
  BY <1>4, <1>7
<1>11. \A k \in 0..n : f[k] = g[k] /\ f[k] \in Ready
  BY <1>8, <1>9, <1>10, AlikeStepByStep
<1>. QED  BY <1>5, <1>6, <1>8, <1>11

\* Printers that print the members alike print the object alike.
LEMMA SameObject ==
  ASSUME NEW P1, NEW P2, NEW v, Len(v.items) \in Nat,
         \A k \in 1..Len(v.items) : /\ Agree(P1, P2, v.items[k]) /\ Printable(P1, v.items[k])
                                  /\ v.items[k].name \in Seq(Int),
         NEW p \in Ready
  PROVE  print_object(P1, v, p) = print_object(P2, v, p)
<1>. DEFINE n == Len(v.items)
<1>1. \A k \in 1..n : \A q \in Ready : Member(P1, v, k, q) = Member(P2, v, k, q)
  <2>. TAKE k \in 1..n
  <2>. TAKE q \in Ready
  <2>1. Both(q, q, NameThenColon(v.items[k].name, q), NameThenColon(v.items[k].name, q))
    BY BothNamed
  <2>2. NameThenColon(v.items[k].name, q) \in Ready
    BY <2>1, Zenon DEF Both, Level
  <2>3. Agree(P1, P2, v.items[k])
    OBVIOUS
  <2>. QED  BY <2>2, <2>3, Zenon DEF Member, Agree
<1>2. \A k \in 1..n : \A q \in Ready : Member(P1, v, k, q) \in Ready
  BY BothMember, Zenon DEF Both, Level
<1>3. \A k \in 1..n : \A q \in Ready : Member(P2, v, k, q) \in Ready
  BY <1>1, <1>2
<1>4. OpenObject(p) \in Ready
  BY BothOpenObject
<1>5. PICK f : InObject(P1, v, f, p) /\ print_object(P1, v, p) = CloseObject(p, f[n])
  BY <1>2, <1>4, ObjectWalk
<1>6. PICK g : InObject(P2, v, g, p) /\ print_object(P2, v, p) = CloseObject(p, g[n])
  BY <1>3, <1>4, ObjectWalk
<1>7. /\ f[0] = OpenObject(p) /\ \A k \in 1..n : f[k] = Member(P1, v, k, f[k - 1])
      /\ g[0] = OpenObject(p) /\ \A k \in 1..n : g[k] = Member(P2, v, k, g[k - 1])
  BY <1>5, <1>6, Zenon DEF InObject
<1>. HIDE DEF n
<1>8. n \in Nat /\ n \in 0..n
  BY DEF n
<1>9. \A k \in 1..n : f[k - 1] \in Ready /\ f[k - 1] = g[k - 1] => f[k] = g[k] /\ f[k] \in Ready
  BY <1>1, <1>2, <1>7 DEF n
<1>10. f[0] = g[0] /\ f[0] \in Ready
  BY <1>4, <1>7
<1>11. \A k \in 0..n : f[k] = g[k] /\ f[k] \in Ready
  BY <1>8, <1>9, <1>10, AlikeStepByStep
<1>. QED  BY <1>5, <1>6, <1>8, <1>11

\* What is printed of a value is determined by what is printed of its members.
LEMMA SamePrinted ==
  ASSUME NEW P1, NEW P2, NEW v, Len(v.items) \in Nat,
         \A k \in 1..Len(v.items) : /\ Agree(P1, P2, v.items[k]) /\ Printable(P1, v.items[k])
                                    /\ v.items[k].name \in Seq(Int),
         NEW p \in Ready
  PROVE  printed(P1, v, p) = printed(P2, v, p)
<1>1. print_array(P1, v, p) = print_array(P2, v, p)
  BY SameArray
<1>2. print_object(P1, v, p) = print_object(P2, v, p)
  BY SameObject
<1>. QED  BY <1>1, <1>2, Zenon DEF printed

\* The items of a document are documents, and lower.
LEMMA ItemsOf ==
  ASSUME NEW D, NEW height, Documents(D, height), NEW v \in D
  PROVE  /\ Len(v.items) \in Nat
         /\ \A k \in 1..Len(v.items) :
              /\ v.items[k] \in D
              /\ v.items[k].name \in Seq(Int)
              /\ height[v.items[k]] \in Nat
              /\ height[v.items[k]] < height[v]
<1>1. v.items \in Seq(D) /\ \A k \in DOMAIN v.items : height[v.items[k]] < height[v]
  BY DEF Documents
<1>2. Len(v.items) \in Nat /\ \A k \in 1..Len(v.items) : v.items[k] \in D /\ k \in DOMAIN v.items
  BY <1>1
<1>. QED  BY <1>1, <1>2 DEF Documents

\* There is no more than one printer of a set of documents.
THEOREM OnePrinter ==
  ASSUME NEW D, NEW height, Documents(D, height),
         NEW P1, Prints(P1, D), NEW P2, Prints(P2, D)
  PROVE  \A v \in D : Agree(P1, P2, v)
<1>. DEFINE T == {h \in Nat : \E v \in D : height[v] = h /\ ~Agree(P1, P2, v)}
<1>. SUFFICES ASSUME T # {} PROVE FALSE
  BY DEF Documents
<1>0. T \in SUBSET Nat
  OBVIOUS
<1>1. PICK h \in T : \A y \in T : ~(y < h)
  <2>. HIDE DEF T
  <2>. QED  BY <1>0, Smallest
<1>2. PICK v \in D : height[v] = h /\ ~Agree(P1, P2, v)
  BY <1>1
<1>3. \A k \in 1..Len(v.items) : Agree(P1, P2, v.items[k])
  <2>. TAKE k \in 1..Len(v.items)
  <2>1. v.items[k] \in D /\ height[v.items[k]] \in Nat /\ height[v.items[k]] < h
    BY <1>2, ItemsOf
  <2>. QED  BY <1>1, <2>1
<1>4. /\ Len(v.items) \in Nat
      /\ \A k \in 1..Len(v.items) : Printable(P1, v.items[k]) /\ v.items[k].name \in Seq(Int)
  BY AllPrintable, ItemsOf
<1>5. \A p \in Ready : printed(P1, v, p) = printed(P2, v, p)
  BY <1>3, <1>4, SamePrinted
<1>6. \A p \in Ready : P1[v][p] = printed(P1, v, p) /\ P2[v][p] = printed(P2, v, p)
  BY <1>2, Zenon DEF Prints
<1>7. \A p \in Ready : P1[v][p] = P2[v][p]
  <2>. TAKE p \in Ready
  <2>1. printed(P1, v, p) = printed(P2, v, p)
    BY <1>5
  <2>2. P1[v][p] = printed(P1, v, p) /\ P2[v][p] = printed(P2, v, p)
    BY <1>6
  <2>. QED  BY <2>1, <2>2
<1>8. Agree(P1, P2, v)
  BY <1>7, Zenon DEF Agree
<1>. QED  BY <1>2, <1>8

\* The documents lower than h, and a printer of them.
Lower(D, height, h) == {v \in D : height[v] < h}
Printer(D, height, h) == CHOOSE P : Prints(P, Lower(D, height, h))

\* ... with their members.
LEMMA LowerDocuments ==
  ASSUME NEW D, NEW height, Documents(D, height), NEW h \in Nat
  PROVE  Documents(Lower(D, height, h), height)
<1>. SUFFICES ASSUME NEW v \in Lower(D, height, h)
              PROVE  /\ height[v] \in Nat
                     /\ v.num \in Int /\ v.str \in Seq(Int) /\ v.name \in Seq(Int)
                     /\ v.items \in Seq(Lower(D, height, h))
                     /\ \A k \in DOMAIN v.items : height[v.items[k]] < height[v]
  BY Zenon DEF Documents
<1>1. v \in D /\ height[v] < h
  BY DEF Lower
<1>2. /\ height[v] \in Nat /\ v.num \in Int /\ v.str \in Seq(Int) /\ v.name \in Seq(Int)
      /\ v.items \in Seq(D)
      /\ \A k \in DOMAIN v.items : height[v.items[k]] < height[v]
  BY <1>1 DEF Documents
<1>3. \A k \in 1..Len(v.items) : v.items[k] \in Lower(D, height, h)
  <2>. TAKE k \in 1..Len(v.items)
  <2>1. v.items[k] \in D /\ height[v.items[k]] \in Nat /\ height[v.items[k]] < height[v]
    BY <1>1, ItemsOf
  <2>. QED  BY <1>1, <1>2, <2>1 DEF Lower
<1>4. v.items \in Seq(Lower(D, height, h))
  <2>. DEFINE L == Lower(D, height, h)
              s == v.items
  <2>1. s \in Seq(D) /\ \A k \in 1..Len(s) : s[k] \in L
    BY <1>2, <1>3
  <2>. HIDE DEF L, s
  <2>2. s \in Seq(L)
    BY <2>1
  <2>. QED  BY <2>2 DEF L, s
<1>. QED  BY <1>2, <1>4

\* ... which there is.
LEMMA LowerPrinter ==
  ASSUME NEW D, NEW height, Documents(D, height)
  PROVE  \A h \in Nat : \E P : Prints(P, Lower(D, height, h))
<1>. DEFINE L(h) == Lower(D, height, h)
            T == {h \in Nat : ~\E P : Prints(P, L(h))}
<1>. SUFFICES ASSUME T # {} PROVE FALSE
  OBVIOUS
<1>0. T \in SUBSET Nat
  OBVIOUS
<1>1. PICK h \in T : \A y \in T : ~(y < h)
  <2>. HIDE DEF T
  <2>. QED  BY <1>0, Smallest
<1>2. CASE h = 0
  <2>. DEFINE P == <<>>
  <2>1. L(h) = {}
    BY <1>2 DEF Lower, Documents
  <2>2. Prints(P, L(h))
    BY <2>1, Zenon DEF Prints
  <2>. QED  BY <2>2
<1>3. CASE h # 0
  <2>1. h - 1 \in Nat /\ h - 1 < h
    BY <1>3
  <2>2. PICK P : Prints(P, L(h - 1))
    BY <1>1, <2>1
  <2>. DEFINE Q == [v \in D |-> [p \in Ready |-> printed(P, v, p)]]
  <2>3. \A v \in D : \A p \in Ready : Q[v][p] = printed(P, v, p)
    OBVIOUS
  <2>. HIDE DEF Q
  <2>4. Documents(L(h - 1), height)
    BY <2>1, LowerDocuments
  <2>5. ASSUME NEW v \in L(h), NEW p \in Ready
        PROVE  Q[v][p] = printed(Q, v, p)
    <3>1. v \in D /\ height[v] < h /\ height[v] \in Nat
      BY DEF Lower, Documents
    <3>2. /\ Len(v.items) \in Nat
          /\ \A k \in 1..Len(v.items) : v.items[k] \in L(h - 1) /\ v.items[k].name \in Seq(Int)
      BY <2>1, <3>1, ItemsOf DEF Lower
    <3>3. \A k \in 1..Len(v.items) : v.items[k] \in D
      BY <3>1, ItemsOf
    <3>4. \A k \in 1..Len(v.items) : Printable(P, v.items[k])
      BY <2>2, <2>4, <3>2, AllPrintable
    <3>5. \A k \in 1..Len(v.items) : Agree(P, Q, v.items[k])
      <4>. TAKE k \in 1..Len(v.items)
      <4>1. \A q \in Ready : P[v.items[k]][q] = printed(P, v.items[k], q)
        BY <2>2, <3>2, Zenon DEF Prints
      <4>2. \A q \in Ready : Q[v.items[k]][q] = printed(P, v.items[k], q)
        BY <2>3, <3>3
      <4>. QED  BY <4>1, <4>2, Zenon DEF Agree
    <3>6. printed(P, v, p) = printed(Q, v, p)
      BY <3>2, <3>4, <3>5, SamePrinted
    <3>. QED  BY <2>3, <3>1, <3>6
  <2>6. Prints(Q, L(h))
    BY <2>5, Zenon DEF Prints
  <2>. QED  BY <1>1, <2>6
<1>. QED  BY <1>2, <1>3

\* There is a printer of every set of documents.
THEOREM PrinterThere ==
  ASSUME NEW D, NEW height, Documents(D, height)
  PROVE  \E Pr : Prints(Pr, D)
<1>. DEFINE P(v) == Printer(D, height, height[v])
            Pr == [v \in D |-> [p \in Ready |-> printed(P(v), v, p)]]
<1>1. \A v \in D : \A p \in Ready : Pr[v][p] = printed(P(v), v, p)
  OBVIOUS
<1>2. \A v \in D : Prints(P(v), Lower(D, height, height[v]))
  <2>. TAKE v \in D
  <2>1. height[v] \in Nat
    BY DEF Documents
  <2>2. \E Q : Prints(Q, Lower(D, height, height[v]))
    BY <2>1, LowerPrinter
  <2>. QED  BY <2>2, Zenon DEF Printer
<1>. HIDE DEF P, Pr
<1>3. ASSUME NEW v \in D, NEW p \in Ready
      PROVE  Pr[v][p] = printed(Pr, v, p)
  <2>1. /\ Len(v.items) \in Nat
        /\ \A k \in 1..Len(v.items) : v.items[k] \in D /\ v.items[k].name \in Seq(Int)
    BY ItemsOf
  <2>2. \A k \in 1..Len(v.items) : v.items[k] \in Lower(D, height, height[v])
    BY ItemsOf DEF Lower
  <2>3. Documents(Lower(D, height, height[v]), height)
    BY LowerDocuments DEF Documents
  <2>4. \A k \in 1..Len(v.items) : Printable(P(v), v.items[k])
    BY <1>2, <2>2, <2>3, AllPrintable
  <2>5. \A k \in 1..Len(v.items) : Agree(P(v), Pr, v.items[k])
    <3>. TAKE k \in 1..Len(v.items)
    <3>. DEFINE x == v.items[k]
    <3>1. x \in D /\ x \in Lower(D, height, height[v]) /\ height[x] \in Nat
          /\ height[x] < height[v] /\ height[v] \in Nat
      BY <2>1, <2>2, ItemsOf DEF Documents
    <3>2. Documents(Lower(D, height, height[x]), height)
      BY <3>1, LowerDocuments
    <3>3. Prints(P(x), Lower(D, height, height[x]))
      BY <1>2, <3>1
    <3>4. Prints(P(v), Lower(D, height, height[x]))
      <4>1. \A y \in Lower(D, height, height[x]) : y \in Lower(D, height, height[v])
        BY <3>1 DEF Lower, Documents
      <4>2. Prints(P(v), Lower(D, height, height[v]))
        BY <1>2
      <4>. QED  BY <4>1, <4>2, Zenon DEF Prints
    <3>5. /\ Len(x.items) \in Nat
          /\ \A l \in 1..Len(x.items) :
               x.items[l] \in Lower(D, height, height[x]) /\ x.items[l].name \in Seq(Int)
      BY <3>1, ItemsOf DEF Lower
    <3>6. \A l \in 1..Len(x.items) : Agree(P(v), P(x), x.items[l])
      BY <3>2, <3>3, <3>4, <3>5, OnePrinter
    <3>7. \A l \in 1..Len(x.items) : Printable(P(v), x.items[l])
      BY <3>2, <3>4, <3>5, AllPrintable
    <3>8. \A q \in Ready : printed(P(v), x, q) = printed(P(x), x, q)
      BY <3>5, <3>6, <3>7, SamePrinted
    <3>9. \A q \in Ready : P(v)[x][q] = printed(P(v), x, q)
      BY <1>2, <3>1, Zenon DEF Prints
    <3>10. \A q \in Ready : Pr[x][q] = printed(P(x), x, q)
      BY <1>1, <3>1
    <3>. HIDE DEF x
    <3>11. Agree(P(v), Pr, x)
      BY <3>8, <3>9, <3>10, Zenon DEF Agree
    <3>. QED  BY <3>11 DEF x
  <2>6. printed(P(v), v, p) = printed(Pr, v, p)
    BY <2>1, <2>4, <2>5, SamePrinted
  <2>. QED  BY <1>1, <2>6
<1>4. Prints(Pr, D)
  BY <1>3, Zenon DEF Prints
<1>. QED  BY <1>4

\* Whatever a document holds and however deep it is, print_value writes nothing outside
\* the buffer, nothing over what was there before, and leaves the depth and the format as
\* they were; what it writes depends only on the document and on the format, and is
\* written if there is room for two bytes more.
THEOREM PrintsBehind ==
  ASSUME NEW D, NEW height, Documents(D, height), NEW Pr, Prints(Pr, D), NEW v \in D,
         NEW p \in Ready, NEW q \in Ready
  PROVE  /\ Printed(p, Pr[v][p]) /\ Pr[v][p].depth = p.depth
         /\ Twin(p, q, Pr[v][p], Pr[v][q])
<1>1. Printable(Pr, v)
  BY AllPrintable
<1>. QED  BY <1>1, Zenon DEF Printable, BothDone, Done

\* A new buffer is one to print into.
LEMMA NewBuffer ==
  ASSUME NEW length \in Nat, NEW format \in BOOLEAN, NEW grows \in Nat
  PROVE  /\ printbuffer(length, format, grows) \in Ready
         /\ printbuffer(length, format, grows).inside
         /\ printbuffer(length, format, grows).length = length
<1>. DEFINE E == <<>>
<1>1. E \in Seq(Int) /\ Len(E) = 0
  OBVIOUS
<1>2. printbuffer(length, format, grows) =
        [length |-> length, offset |-> 0, depth |-> 0, format |-> format, ok |-> TRUE,
         out |-> E, grows |-> grows, inside |-> TRUE]
  BY Zenon DEF printbuffer
<1>. HIDE DEF E
<1>. QED  BY <1>1, <1>2 DEF Ready, Printbuffer

\* cJSON_Print, cJSON_PrintBuffered and cJSON_PrintPreallocated write every byte inside the
\* memory there is, whatever its size and however often it can grow (ensure).
THEOREM StaysInside ==
  ASSUME NEW D, NEW height, Documents(D, height), NEW Pr, Prints(Pr, D), NEW v \in D,
         NEW length \in Nat, NEW format \in BOOLEAN, NEW grows \in Nat
  PROVE  Pr[v][printbuffer(length, format, grows)].inside
<1>. DEFINE p == printbuffer(length, format, grows)
<1>1. p \in Ready /\ p.inside
  BY NewBuffer
<1>. HIDE DEF p
<1>2. Printed(p, Pr[v][p])
  BY <1>1, PrintsBehind
<1>3. Pr[v][p].inside
  BY <1>1, <1>2, Zenon DEF Printed
<1>. QED  BY <1>3 DEF p

\* Two new buffers are the same for who prints.
LEMMA NewBuffersAreSame ==
  ASSUME NEW n, NEW m, NEW format, NEW g, NEW h
  PROVE  Same(printbuffer(n, format, g), printbuffer(m, format, h))
  BY Zenon DEF Same, printbuffer

\* The text of a document is the same in whatever buffers it is printed.
THEOREM OneText ==
  ASSUME NEW D, NEW height, Documents(D, height), NEW Pr, Prints(Pr, D), NEW v \in D,
         NEW n \in Nat, NEW m \in Nat, NEW format \in BOOLEAN, NEW g \in Nat, NEW h \in Nat,
         Pr[v][printbuffer(n, format, g)].ok, Pr[v][printbuffer(m, format, h)].ok
  PROVE  Pr[v][printbuffer(n, format, g)].out = Pr[v][printbuffer(m, format, h)].out
<1>. DEFINE p == printbuffer(n, format, g)
            q == printbuffer(m, format, h)
<1>1. p \in Ready /\ q \in Ready /\ Same(p, q)
  BY NewBuffer, NewBuffersAreSame
<1>2. Pr[v][p].ok /\ Pr[v][q].ok
  OBVIOUS
<1>. HIDE DEF p, q
<1>3. Twin(p, q, Pr[v][p], Pr[v][q])
  BY <1>1, PrintsBehind
<1>4. Pr[v][p].out = Pr[v][q].out
  BY <1>1, <1>2, <1>3, Zenon DEF Twin, Same
<1>. QED  BY <1>4 DEF p, q

\* A buffer of two bytes more than the text, which cannot grow, is enough to print it.
THEOREM TwoMoreIsEnough ==
  ASSUME NEW D, NEW height, Documents(D, height), NEW Pr, Prints(Pr, D), NEW v \in D,
         NEW n \in Nat, NEW m \in Nat, NEW format \in BOOLEAN, NEW g \in Nat, NEW h \in Nat,
         Pr[v][printbuffer(m, format, h)].ok,
         Len(Pr[v][printbuffer(m, format, h)].out) + 2 <= n
  PROVE  /\ Pr[v][printbuffer(n, format, g)].ok
         /\ Pr[v][printbuffer(n, format, g)].out = Pr[v][printbuffer(m, format, h)].out
<1>. DEFINE p == printbuffer(n, format, g)
            q == printbuffer(m, format, h)
<1>1. p \in Ready /\ q \in Ready /\ Same(p, q) /\ p.length = n
  BY NewBuffer, NewBuffersAreSame
<1>2. Pr[v][q].ok /\ Len(Pr[v][q].out) + 2 <= p.length
  BY <1>1
<1>. HIDE DEF p, q
<1>3. Twin(p, q, Pr[v][p], Pr[v][q])
  BY <1>1, PrintsBehind
<1>4. Pr[v][p].ok /\ Pr[v][p].out = Pr[v][q].out
  BY <1>1, <1>2, <1>3, Zenon DEF Twin, Same
<1>. QED  BY <1>4 DEF p, q

\* ... so that the five bytes more that cJSON.h asks for, for cJSON_PrintPreallocated, are.
THEOREM FiveMoreIsEnough ==
  ASSUME NEW D, NEW height, Documents(D, height), NEW Pr, Prints(Pr, D), NEW v \in D,
         NEW format \in BOOLEAN, NEW grows \in Nat,
         Pr[v][printbuffer(256, format, grows)].ok
  PROVE  LET text == update_offset(Pr[v][printbuffer(256, format, grows)]).out
         IN  Pr[v][printbuffer(Len(text) + 1 + 5, format, 0)].ok
<1>. DEFINE q == printbuffer(256, format, grows)
            r == Pr[v][q]
            n == Len(r.out) + 1 + 5
<1>1. q \in Ready
  BY NewBuffer
<1>2. r.ok
  OBVIOUS
<1>3. Printed(q, r)
  <2>. HIDE DEF q
  <2>. QED  BY <1>1, PrintsBehind
<1>. HIDE DEF r
<1>4. r \in Printbuffer
  BY <1>3, Zenon DEF Printed
<1>5. n \in Nat /\ Len(r.out) + 2 <= n
  <2>1. r.out \in Seq(Int)
    BY <1>4 DEF Printbuffer
  <2>. QED  BY <2>1
<1>6. update_offset(r).out = r.out
  <2>1. Len(r.out) \in Nat
    BY <1>4 DEF Printbuffer
  <2>. QED  BY <1>4, <2>1, SetOffset DEF update_offset
<1>7. Pr[v][printbuffer(n, format, 0)].ok
  <2>. HIDE DEF n
  <2>1. Len(Pr[v][printbuffer(256, format, grows)].out) + 2 <= n
    BY <1>5 DEF r, q
  <2>. QED  BY <1>5, <2>1, TwoMoreIsEnough
<1>. QED  BY <1>6, <1>7 DEF r, q
=============================================================================
