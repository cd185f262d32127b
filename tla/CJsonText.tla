------------------------------ MODULE CJsonText ------------------------------
(***************************************************************************)
(* cJSON.c from a document to its text and back, and what it does with a   *)
(* text or with documents alone.  CJsonPrint and CJsonParse say what one   *)
(* call of print_value and of parse_value does; here they call themselves. *)
(***************************************************************************)
EXTENDS CJsonParse, FiniteSetsExt
-----------------------------------------------------------------------------
RECURSIVE print_value(_, _)
print_value(v, p) ==
  printed([x \in ToSet(v.items) |-> [q \in Printbuffer |-> print_value(x, q)]], v, p)

\* cJSON_Print and cJSON_PrintUnformatted, PrintBuffered, PrintPreallocated.
print(v, format, grows) == update_offset(print_value(v, printbuffer(256, format, grows)))
cJSON_PrintBuffered(v, prebuffer, format, grows) ==
  print_value(v, printbuffer(prebuffer, format, grows))
cJSON_PrintPreallocated(v, length, format) == print_value(v, printbuffer(length, format, 0))

RECURSIVE parse_value(_)
parse_value(b) == parsed([q \in ParseBuffer |-> parse_value(q)], b)

cJSON_ParseWithLengthOpts(content, require_null_terminated) ==
  IF content = <<>> THEN Fail(parse_buffer(content))
  ELSE Ended(parse_value(skip_whitespace(skip_utf8_bom(parse_buffer(content)))),
             require_null_terminated)
cJSON_Parse(text) == cJSON_ParseWithLengthOpts(text \o <<NUL>>, FALSE)
cJSON_ParseWithLength(text) == cJSON_ParseWithLengthOpts(text, FALSE)
-----------------------------------------------------------------------------
(* Minifying, in place: what it reads is never behind what it has written.  *)

At(s, i, w) == i + Len(w) - 1 <= Len(s) /\ SubSeq(s, i, i + Len(w) - 1) = w
\* The places from i on at which `end' stands, and the first one after it.
Where(s, i, end) == {j \in i..Len(s) : At(s, j, end)}
Past(s, i, end) == IF Where(s, i, end) = {} THEN Len(s) + 1 ELSE Min(Where(s, i, end)) + Len(end)

RECURSIVE StringPast(_, _)
StringPast(s, i) ==
  CASE i > Len(s) -> i
    [] i <= Len(s) /\ s[i] = Quote -> i + 1
    [] i < Len(s) /\ s[i] = Backslash /\ s[i + 1] = Quote -> StringPast(s, i + 2)
    [] OTHER -> StringPast(s, i + 1)

RECURSIVE Minify(_, _)
Minify(s, i) ==
  LET From(j) == Minify(s, j)
      Is2(c) == At(s, i, <<Slash, c>>)
  IN  CASE i > Len(s) -> <<>>
        [] i <= Len(s) /\ s[i] \in {Space, Tab, 13, Newline} -> From(i + 1)
        [] Is2(Slash) -> From(Past(s, i + 2, <<Newline>>))
        [] Is2(Star)  -> From(Past(s, i + 2, <<Star, Slash>>))
        [] i <= Len(s) /\ s[i] = Slash /\ ~Is2(Slash) /\ ~Is2(Star) -> From(i + 1)
        [] i <= Len(s) /\ s[i] = Quote ->
             SubSeq(s, i, StringPast(s, i + 1) - 1) \o From(StringPast(s, i + 1))
        [] OTHER -> <<s[i]>> \o From(i + 1)
cJSON_Minify(s) == Minify(s, 1)
-----------------------------------------------------------------------------
(* Comparing, and finding a member by its name. *)

tolower(c) == IF c \in 65..90 THEN c + 32 ELSE c
SameName(a, b, case_sensitive) ==
  /\ a # NoName /\ b # NoName
  /\ IF case_sensitive THEN a = b
     ELSE [i \in DOMAIN a |-> tolower(a[i])] = [i \in DOMAIN b |-> tolower(b[i])]

\* The place of the member, 0 if there is none.
get_object_item(v, name, case_sensitive) ==
  SelectInSeq(v.items, LAMBDA m : SameName(name, m.name, case_sensitive))

RECURSIVE cJSON_Compare(_, _, _)
cJSON_Compare(a, b, case_sensitive) ==
  LET In(x, y) == \A i \in DOMAIN x.items :
        LET j == get_object_item(y, x.items[i].name, case_sensitive)
        IN  j > 0 /\ cJSON_Compare(x.items[i], y.items[j], case_sensitive)
  IN  /\ a.type = b.type /\ a.type # "invalid"
      /\ CASE a.type = "number" -> a.num = b.num
           [] a.type \in {"string", "raw"} -> a.str = b.str
           [] a.type = "array" ->
                /\ Len(a.items) = Len(b.items)
                /\ \A i \in DOMAIN a.items : cJSON_Compare(a.items[i], b.items[i], case_sensitive)
           [] a.type = "object" -> In(a, b) /\ In(b, a)
           [] OTHER -> TRUE
=============================================================================
