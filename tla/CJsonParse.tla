------------------------------ MODULE CJsonParse ------------------------------
(***************************************************************************)
(* cJSON.c from a text to its document.  A loop is a function of the       *)
(* rounds it has made; a round too many changes nothing.  Numbers are read *)
(* by strtod as far as a sign and digits go.                               *)
(***************************************************************************)
EXTENDS CJsonPrint

CONSTANTS
  NESTING_LIMIT,   \* CJSON_NESTING_LIMIT
  NUMBER_MAX       \* sizeof(number_c_string) - 1

ASSUME LimitsAssumption == NESTING_LIMIT \in Nat /\ NUMBER_MAX \in Nat \ {0}
-----------------------------------------------------------------------------
(* A parse_buffer, with the value that was read (got), and whether every   *)
(* byte read or written was inside its buffer.  Before it is read, a value *)
(* may have a name.                                                        *)

Unread == [type : {"null"}, name : Seq(Int), num : {0}, str : {<<>>}, items : {<<>>}, tail : {0}]
ParseBuffer == [content : Seq(Int), length : Nat, offset : Nat, depth : Nat, ok : BOOLEAN,
                got : Unread, inside : BOOLEAN]

parse_buffer(content) ==
  [content |-> content, length |-> Len(content), offset |-> 0, depth |-> 0, ok |-> TRUE,
   got |-> Value, inside |-> TRUE]

can_access(b, i) == b.offset + i < b.length
\* The byte at the offset, or none.
Byte(b) == IF can_access(b, 0) THEN b.content[b.offset + 1] ELSE -1
Is(b, c) == Byte(b) = c
Reads(b, word) == /\ b.offset + Len(word) <= b.length
                  /\ SubSeq(b.content, b.offset + 1, b.offset + Len(word)) = word
Got(b, v) == [b EXCEPT !.got = v]
Forward(b, n) == [b EXCEPT !.offset = @ + n]

\* At the end of the input the last byte is left, whatever it is.
skip_whitespace(b) ==
  LET later == {i \in b.offset..b.length - 1 : b.content[i + 1] > 32}
  IN  IF b.offset >= b.length THEN b
      ELSE [b EXCEPT !.offset = IF later = {} THEN b.length - 1 ELSE Min(later)]

skip_utf8_bom(b) ==
  IF can_access(b, 4) /\ Reads(b, <<239, 187, 191>>) THEN Forward(b, 3) ELSE b
ThenSpace(b) == IF b.ok THEN skip_whitespace(b) ELSE b

\* strtod, of at most NUMBER_MAX bytes.
parse_number(b) ==
  LET sign  == Is(b, Minus)
      first == b.offset + IF sign THEN 1 ELSE 0
      count == Max({n \in 0..NUMBER_MAX : /\ first + n <= Min({b.length, b.offset + NUMBER_MAX})
                                         /\ \A k \in 1..n : IsDigit(b.content[first + k])})
      read[k \in 0..count] ==
        IF k = 0 THEN 0 ELSE 10 * read[k - 1] + (b.content[first + k] - Digit(0))
  IN  IF count = 0 THEN Fail(b)
      ELSE [b EXCEPT !.offset = first + count, !.got.type = "number",
                     !.got.num = IF sign THEN -read[count] ELSE read[count]]
-----------------------------------------------------------------------------
(* Strings                                                                 *)

HexDigit == [c \in (48..57) \cup (65..70) \cup (97..102) |->
               IF c < 58 THEN c - 48 ELSE IF c < 71 THEN c - 55 ELSE c - 87]
\* What is not hexadecimal is 0.
parse_hex4(s) ==
  IF \A i \in 1..4 : s[i] \in DOMAIN HexDigit
  THEN 4096 * HexDigit[s[1]] + 256 * HexDigit[s[2]] + 16 * HexDigit[s[3]] + HexDigit[s[4]]
  ELSE 0

utf8(n) ==
  IF n < 128 THEN <<n>>
  ELSE IF n < 2048 THEN <<192 + n \div 64, 128 + (n % 64)>>
  ELSE IF n < 65536 THEN <<224 + n \div 4096, 128 + ((n \div 64) % 64), 128 + (n % 64)>>
  ELSE <<240 + n \div 262144, 128 + ((n \div 4096) % 64),
         128 + ((n \div 64) % 64), 128 + (n % 64)>>

\* The bytes that an escape stands for, and its length; 0 if it is not one.
Escape(length, bytes) == [length |-> length, bytes |-> bytes]
NoEscape == Escape(0, <<>>)

\* A \uXXXX, or two that are a surrogate pair, that s starts with.
utf16_literal_to_utf8(s) ==
  LET first  == parse_hex4(SubSeq(s, 3, 6))
      second == parse_hex4(SubSeq(s, 9, 12))
  IN  IF Len(s) < 6 \/ first \in 56320..57343 THEN NoEscape
      ELSE IF first \notin 55296..56319 THEN Escape(6, utf8(first))
      ELSE IF Len(s) < 12 \/ SubSeq(s, 7, 8) # <<Backslash, 117>> \/ second \notin 56320..57343
           THEN NoEscape
      ELSE Escape(12, utf8(65536 + (first % 1024) * 1024 + (second % 1024)))

NoEnd == -1

\* Mutant: both bytes of an escape are left out of what is allocated.
Scanned_two(b, e) ==
  IF e.at = NoEnd THEN e
  ELSE IF e.at >= b.length THEN [e EXCEPT !.at = NoEnd]
  ELSE IF b.content[e.at + 1] = Quote THEN e
  ELSE IF b.content[e.at + 1] # Backslash THEN [e EXCEPT !.at = @ + 1]
  ELSE [e EXCEPT !.at = IF e.at + 1 >= b.length THEN NoEnd ELSE @ + 2, !.skipped = @ + 2]

\* One step towards the end of a string, over a byte or over an escape.
Scanned(b, e) ==
  IF e.at = NoEnd THEN e
  ELSE IF e.at >= b.length THEN [e EXCEPT !.at = NoEnd]
  ELSE IF b.content[e.at + 1] = Quote THEN e
  ELSE IF b.content[e.at + 1] # Backslash THEN [e EXCEPT !.at = @ + 1]
  ELSE [e EXCEPT !.at = IF e.at + 1 >= b.length THEN NoEnd ELSE @ + 2, !.skipped = @ + 1]

\* The string at the offset does not go on behind a quote with no backslash before it.
AtMostTo(b) ==
  Min({b.length} \cup {i \in b.offset + 1..b.length - 1 :
                         b.content[i + 1] = Quote /\ b.content[i] # Backslash})

\* Where the string at the offset ends, and how many escapes it has.
StringEnd(b) ==
  LET n == AtMostTo(b) - b.offset
      end[k \in 0..n] ==
        IF k = 0 THEN [at |-> b.offset + 1, skipped |-> 0] ELSE Scanned(b, end[k - 1])
  IN  end[n]

Unshort == [c \in {98, 102, 110, 114, 116, 34, 92, 47} |->
              IF c = 98 THEN 8 ELSE IF c = 102 THEN 12 ELSE IF c = 110 THEN 10
              ELSE IF c = 114 THEN 13 ELSE IF c = 116 THEN 9 ELSE c]

\* What comes next in s, which ends with a quote, after i bytes.
NextOf(s, i) ==
  LET c == s[i + 1]
      e == s[i + 2]
  IN  IF c # Backslash THEN Escape(1, <<c>>)
      ELSE IF e \in DOMAIN Unshort THEN Escape(2, <<Unshort[e]>>)
      ELSE IF e = 117 THEN utf16_literal_to_utf8(SubSeq(s, i + 1, Len(s) - 1))
      ELSE NoEscape

\* x: what the first bytes of s stand for (out), and how many they are (at).
Translated(s, x) ==
  LET u == NextOf(s, x.at)
  IN  IF ~x.ok \/ x.at >= Len(s) - 1 THEN x
      ELSE IF u.length = 0 THEN Fail(x)
      ELSE [x EXCEPT !.at = @ + u.length, !.out = @ \o u.bytes]

Unescaped(s) ==
  LET read[k \in 0..Len(s)] ==
        IF k = 0 THEN [ok |-> TRUE, at |-> 0, out |-> <<>>] ELSE Translated(s, read[k - 1])
  IN  read[Len(s)]

\* An escaped NUL ends the string for who reads it.
CString(s) ==
  LET ends == {i \in 1..Len(s) : s[i] = NUL} \cup {Len(s) + 1}
  IN  SubSeq(s, 1, Min(ends) - 1)

\* x is what the bytes up to `end' stand for; room for it is allocated before.
Stored(b, end, x) ==
  LET allocated == end.at - b.offset - end.skipped + 1
      room == [b EXCEPT !.inside = @ /\ Len(x.out) + 1 <= allocated]
  IN  IF x.ok
      THEN [room EXCEPT !.offset = end.at + 1, !.got.type = "string", !.got.str = CString(x.out)]
      ELSE Fail([room EXCEPT !.offset = @ + 1 + x.at])

\* The first byte is read unseen.
parse_string(b) ==
  LET seen == [b EXCEPT !.inside = @ /\ can_access(b, 0)]
      end == StringEnd(b)
  IN  IF ~Is(b, Quote) \/ end.at = NoEnd THEN Fail(Forward(seen, 1))
      ELSE Stored(seen, end, Unescaped(SubSeq(b.content, b.offset + 2, end.at + 1)))
-----------------------------------------------------------------------------
(* Values: inner[q] is what parse_value makes of the buffer q.             *)

parse_element(inner, b) == ThenSpace(inner[skip_whitespace(Forward(b, 1))])

\* The string that was read is the member's name.
Named(m) == IF m.ok THEN ThenSpace([m EXCEPT !.got = As(m.got.str, Value)]) ELSE m
Valued(inner, m) == IF m.ok /\ Is(m, Colon) THEN parse_element(inner, m) ELSE Fail(m)
parse_member(inner, b) ==
  IF ~can_access(b, 1) THEN Fail(b)
  ELSE Valued(inner, Named(parse_string(skip_whitespace(Forward(b, 1)))))

\* Mutant: the end of the text ends the list.
AfterMember_open(m, t, items) ==
  [b |-> m, items |-> Append(items, m.got), more |-> m.ok /\ Is(m, Comma)]

\* m, after a member of a list of type t, which has `items' before it.
AfterMember(m, t, items) ==
  [b |-> IF m.ok /\ ~Is(m, Comma) /\ ~Is(m, Close(t)) THEN Fail(m) ELSE m,
   items |-> Append(items, m.got), more |-> m.ok /\ Is(m, Comma)]

\* A round of the loop: one more member, after the byte at the offset.
NextMember(inner, t, x) ==
  LET b == Got(x.b, Value)
      m == IF t = "array" THEN parse_element(inner, b) ELSE parse_member(inner, b)
  IN  IF x.more THEN AfterMember(m, t, x.items) ELSE x

\* There are no more members than that: all but the first are behind a comma.
Commas(b) == {i \in b.offset + 1..b.length : b.content[i] = Comma}
MostMembers(b) == 1 + Cardinality(Commas(b))

Members(inner, b, t) ==
  LET n == MostMembers(b)
      after[k \in 0..n] ==
        IF k = 0 THEN [b |-> b, items |-> <<>>, more |-> TRUE]
        ELSE NextMember(inner, t, after[k - 1])
  IN  Got(after[n].b, List(t, after[n].items))

\* What is in it, from the first byte after the bracket on.
Content(inner, b, t) ==
  IF Is(b, Close(t)) THEN Got(b, List(t, <<>>))
  ELSE IF can_access(b, 0) THEN Members(inner, Forward(b, -1), t)
  ELSE Fail(Forward(b, -1))

\* parse_array, parse_object: in both, what a container's name was is kept.
parse_list(inner, b, t) ==
  LET m == Content(inner, skip_whitespace(Forward(Deeper(b), 1)), t)
  IN  IF b.depth >= NESTING_LIMIT THEN Fail(b)
      ELSE IF ~m.ok THEN m
      ELSE Got(Forward(Shallower(m), 1), As(b.got.name, m.got))

parsed(inner, b) ==
  LET words == {w \in {"null", "false", "true"} : Reads(b, Word(w))}
      w == CHOOSE w \in words : TRUE
  IN  IF ~b.ok THEN b
      ELSE IF words # {} THEN Forward([b EXCEPT !.got.type = w], Len(Word(w)))
      ELSE IF Is(b, Quote) THEN parse_string(b)
      ELSE IF Is(b, Minus) \/ IsDigit(Byte(b)) THEN parse_number(b)
      ELSE IF Is(b, Open("array")) THEN parse_list(inner, b, "array")
      ELSE IF Is(b, Open("object")) THEN parse_list(inner, b, "object")
      ELSE Fail(b)

\* What cJSON_ParseWithLengthOpts makes of b, which parse_value left: the value or,
\* with ok = FALSE, where the error is.
Ended(b, require_null_terminated) ==
  LET s == IF require_null_terminated THEN ThenSpace(b) ELSE b
  IN  IF s.ok /\ (require_null_terminated => Is(s, NUL)) THEN s
      ELSE Fail([s EXCEPT !.offset = IF @ < s.length THEN @ ELSE s.length - 1])
=============================================================================
