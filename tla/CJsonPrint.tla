------------------------------ MODULE CJsonPrint ------------------------------
(***************************************************************************)
(* cJSON.c from a document to its text.  A document is a value with its    *)
(* members in a sequence (CJsonTree is about the list they are); a text is *)
(* a sequence of bytes.  Numbers are integers, printed with %d.            *)
(***************************************************************************)
EXTENDS Integers, Sequences, SequencesExt, FiniteSets

NoName == <<-1>>

\* tail: the place of the member the first one's prev points to: that of the last
\* one but in an object that was sorted, where it may be 0, nowhere.
Value == [type |-> "null", name |-> NoName, num |-> 0, str |-> <<>>, items |-> <<>>, tail |-> 0]

Literal(t)  == [Value EXCEPT !.type = t]
Number(n)   == [Value EXCEPT !.type = "number", !.num = n]
String(s)   == [Value EXCEPT !.type = "string", !.str = s]
List(t, s)  == [Value EXCEPT !.type = t, !.items = s, !.tail = Len(s)]
As(name, v) == [v EXCEPT !.name = name]

\* Bytes with a name.
NUL == 0  Tab == 9  Newline == 10  Space == 32  Quote == 34  Comma == 44  Minus == 45
Digit(n) == 48 + n  Colon == 58  Backslash == 92  Slash == 47  Star == 42
Open(t)  == IF t = "array" THEN 91 ELSE 123
Close(t) == IF t = "array" THEN 93 ELSE 125
Tabs(n) == [i \in 1..n |-> Tab]
Word(t) == IF t = "null" THEN <<110, 117, 108, 108>>
           ELSE IF t = "true" THEN <<116, 114, 117, 101>> ELSE <<102, 97, 108, 115, 101>>
IsDigit(c) == c \in 48..57

\* The digits of a number of 32 bits: one, and one for each power of ten it reaches.
Tens == <<1, 10, 100, 1000, 10000, 100000, 1000000, 10000000, 100000000, 1000000000>>
Digits(n) == LET d == 1 + Cardinality({k \in 2..10 : Tens[k] <= n})
             IN  [i \in 1..d |-> Digit((n \div Tens[d + 1 - i]) % 10)]
Decimal(n) == IF n < 0 THEN <<Minus>> \o Digits(-n) ELSE Digits(n)

\* Documents of any height: values whose members are of the same set, and lower.
Documents(D, height) ==
  \A v \in D : /\ height[v] \in Nat
                /\ v.num \in Int /\ v.str \in Seq(Int) /\ v.name \in Seq(Int)
                /\ v.items \in Seq(D)
                /\ \A k \in DOMAIN v.items : height[v.items[k]] < height[v]
-----------------------------------------------------------------------------
(* A printbuffer, with what is written from its start to its terminator,   *)
(* how many times its memory can grow, and whether everything was written  *)
(* inside it.                                                              *)

Printbuffer == [length : Nat, offset : Nat, depth : Nat, format : BOOLEAN, ok : BOOLEAN,
                out : Seq(Int), grows : Nat, inside : BOOLEAN]

printbuffer(length, format, grows) ==
  [length |-> length, offset |-> 0, depth |-> 0, format |-> format, ok |-> TRUE,
   out |-> <<>>, grows |-> grows, inside |-> TRUE]

Fail(p) == [p EXCEPT !.ok = FALSE]

\* (needed beyond INT_MAX is left out.)
ensure(p, needed) ==
  LET n == needed + p.offset + 1
  IN  IF ~p.ok THEN p
      ELSE IF p.length > 0 /\ p.offset >= p.length THEN Fail(p)
      ELSE IF n <= p.length THEN p
      ELSE IF p.grows = 0 THEN Fail(p)
      ELSE [p EXCEPT !.length = 2 * n, !.grows = @ - 1]

\* Bytes written at the offset, with the NUL that ends them (1) or without (0), when
\* there is room for as many as were `needed'.
Write(p, needed, bytes, nul) ==
  LET q == ensure(p, needed)
      last == q.offset + Len(bytes) + nul
  IN  IF ~q.ok THEN q
      ELSE [q EXCEPT !.out = SubSeq(@, 1, q.offset) \o bytes, !.inside = @ /\ last <= q.length]

Put(p, needed, bytes) == Write(p, needed, bytes, 1)
Advance(p, n) == [p EXCEPT !.offset = @ + n]
\* Bytes that the offset goes past.
Add(p, needed, bytes, nul) == Advance(Write(p, needed, bytes, nul), Len(bytes))
update_offset(p) == [p EXCEPT !.offset = Len(p.out)]
Deeper(p)  == [p EXCEPT !.depth = @ + 1]
Shallower(p) == [p EXCEPT !.depth = @ - 1]
-----------------------------------------------------------------------------
(* What is printed of a value.                                             *)

\* Mutant: it asks for the size of its own buffer, not of the number.
print_number_buffer(v, p) == Add(p, 26, Decimal(v.num), 1)

print_number(v, p) == Add(p, Len(Decimal(v.num)) + 1, Decimal(v.num), 1)

Hex(n) == IF n < 10 THEN Digit(n) ELSE 87 + n
Short == [c \in {34, 92, 8, 12, 10, 13, 9} |->
            IF c = 8 THEN 98 ELSE IF c = 12 THEN 102 ELSE IF c = 10 THEN 110
            ELSE IF c = 13 THEN 114 ELSE IF c = 9 THEN 116 ELSE c]
Escaped(c) ==
  IF c \in DOMAIN Short THEN <<Backslash, Short[c]>>
  ELSE IF c < 32 THEN <<Backslash, 117, Digit(0), Digit(0), Hex(c \div 16), Hex(c % 16)>>
  ELSE <<c>>
Quoted(s) == <<Quote>> \o FlattenSeq([i \in DOMAIN s |-> Escaped(s[i])]) \o <<Quote>>

\* A string that is not there is printed as an empty one.
print_string_ptr(s, p) ==
  LET q == IF s = NoName THEN <<Quote, Quote>> ELSE Quoted(s) IN Put(p, Len(q) + 1, q)

\* The members are printed one after the other, each where the one before it ended:
\* inner[x][q] is what print_value does to the buffer q with member x.
Separated(p, last) ==
  LET comma == IF p.format THEN <<Comma, Space>> ELSE <<Comma>>
  IN  IF last THEN p ELSE Add(p, Len(comma) + 1, comma, 1)

print_array(inner, v, p) ==
  LET n == Len(v.items)
      at[k \in 0..n] ==
        IF k = 0 THEN Deeper(Add(p, 1, <<Open("array")>>, 0))
        ELSE Separated(update_offset(inner[v.items[k]][at[k - 1]]), k = n)
  IN  Shallower(Put(at[n], 2, <<Close("array")>>))

IfFormat(p, bytes) == IF p.format THEN bytes ELSE <<>>
Indented(p) == IF p.format THEN Add(p, p.depth, Tabs(p.depth), 0) ELSE p
NameThenColon(name, p) ==
  LET q == update_offset(print_string_ptr(name, Indented(p)))
      colon == <<Colon>> \o IfFormat(p, <<Tab>>)
  IN  Add(q, Len(colon), colon, 0)
EndOfMember(p, last) ==
  LET end == (IF last THEN <<>> ELSE <<Comma>>) \o IfFormat(p, <<Newline>>)
  IN  Add(p, Len(end) + 1, end, 1)

print_object(inner, v, p) ==
  LET n == Len(v.items)
      open == <<Open("object")>> \o IfFormat(p, <<Newline>>)
      at[k \in 0..n] ==
        IF k = 0 THEN Deeper(Add(p, Len(open) + 1, open, 0))
        ELSE LET named == NameThenColon(v.items[k].name, at[k - 1])
             IN  EndOfMember(update_offset(inner[v.items[k]][named]), k = n)
      close == IfFormat(p, Tabs(p.depth)) \o <<Close("object")>>
  IN  Shallower(Put(at[n], IF p.format THEN p.depth + 2 ELSE 2, close))

print_scalar(v, p) ==
  IF v.type \in {"null", "true", "false"} THEN Put(p, Len(Word(v.type)) + 1, Word(v.type))
  ELSE IF v.type = "number" THEN print_number(v, p)
  ELSE IF v.type = "raw" THEN Put(p, Len(v.str) + 1, v.str)
  ELSE IF v.type = "string" THEN print_string_ptr(v.str, p)
  ELSE Fail(p)

\* print_value, where `inner' is print_value of what is in v.
printed(inner, v, p) ==
  IF ~p.ok THEN p
  ELSE IF v.type = "array" THEN print_array(inner, v, p)
  ELSE IF v.type = "object" THEN print_object(inner, v, p)
  ELSE print_scalar(v, p)
=============================================================================
