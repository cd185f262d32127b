----------------------------- MODULE JsonDocuments -----------------------------
(***************************************************************************)
(* Two programs that keep the same document with cJSON.c and cJSON_Utils.c *)
(* (the programs are external, the functions they call are the library's). *)
(* One edits its document and sends it whole, or what changed since, as a  *)
(* text; the text may be minified, or lose its end; the other one parses   *)
(* it and, on a copy as cJSON_Utils.h says, applies what it says.           *)
(***************************************************************************)
EXTENDS CJsonUtils

CONSTANTS
  Docs,       \* the documents there are
  Buffers,    \* the sizes of a first buffer for a text of changes
  Spare,      \* what a buffer for a whole document has over the text's length
  Names,      \* names that a member may be moved from or copied to
  Cuts,       \* how many bytes may be left of a text
  MaxEdits    \* how many edits there are

ASSUME DocsAreLists == \A d \in Docs : d.type \in {"array", "object"}

VARIABLES
  mine,     \* the document of the one that edits
  sent,     \* its copy of what it sent last
  theirs,   \* the document of the other one
  edits,    \* how many edits there were
  text,     \* the text on its way, NoText if there is none
  says,     \* what it says: [what |-> "whole", "patches", "merge", case_sensitive |-> ...]
  cut,      \* whether it lost its end
  status,   \* how the last text was received: "ok", not, as it was "cut", "failed"
  inside    \* whether every byte so far was read and written inside its buffer

vars == <<mine, sent, theirs, edits, text, says, cut, status, inside>>

NoText == <<-1>>
\* The same JSON, with the same members in any order.
RECURSIVE Same(_, _)
Same(a, b) ==
  /\ a.type = b.type /\ a.num = b.num /\ a.str = b.str /\ Len(a.items) = Len(b.items)
  /\ \A i \in DOMAIN a.items :
       IF a.type = "array" THEN Same(a.items[i], b.items[i])
       ELSE \E j \in DOMAIN b.items : a.items[i].name = b.items[j].name /\ Same(a.items[i], b.items[j])

RECURSIVE Places(_)
Places(v) ==
  {<<>>} \cup UNION {{<<i>> \o p : p \in Places(v.items[i])} : i \in DOMAIN v.items}

\* The documents are what CJsonPrintProofs is about: whatever is in one is lower than it.
Height(v) == Max({Len(p) : p \in Places(v)})
ASSUME DocsAreDocuments ==
  LET all == UNION {{Item(d, p) : p \in Places(d)} : d \in Docs}
  IN  Documents(all, [v \in all |-> Height(v)])

\* Names that a pointer in a patch may hold (decode_pointer_inplace does not decode
\* the others), and documents that a merge patch can say (in one, null removes).
PlainNames(v) == \A p \in Places(v) : \A i \in DOMAIN Item(v, p).name :
                   Item(v, p).name[i] \notin {Slash, Tilde}
NoNull(v) == \A p \in Places(v) : Item(v, p).type # "null"

\* Documents whose merge patch is made right: without case_sensitive, and in any case
\* below the root, generate_merge_patch sorts the members without regard to case and
\* walks them with strcmp, so from {"b","C"} to {"C","d"} it removes C.
InOrder(v) == v.type = "object" => sort_object(v, FALSE) = sort_object(v, TRUE)
WalkedInOrder(v, case_sensitive) ==
  \A p \in Places(v) : (case_sensitive /\ p = <<>>) \/ InOrder(Item(v, p))

Init ==
  /\ mine \in Docs /\ sent = mine
  /\ theirs \in {d \in Docs : Same(d, mine)}
  /\ edits = 0 /\ text = NoText /\ cut = FALSE /\ status = "ok" /\ inside = TRUE
  /\ says = [what |-> "whole", case_sensitive |-> TRUE]

Edit ==
  /\ text = NoText /\ edits < MaxEdits
  /\ mine' \in Docs /\ ~Same(mine', mine) /\ edits' = edits + 1
  /\ UNCHANGED <<sent, theirs, text, says, cut, status, inside>>

\* p, a printbuffer, is sent if all of it was printed.
Send(p, what, case_sensitive, from, to) ==
  /\ inside' = (inside /\ p.inside)
  /\ mine' = to
  /\ IF p.ok
     THEN /\ text' = p.out /\ says' = [what |-> what, case_sensitive |-> case_sensitive]
          /\ sent' = Duplicate(to)
     ELSE text' = NoText /\ says' = says /\ sent' = Duplicate(from)
  /\ UNCHANGED <<theirs, cut, status>>

\* The functions sort both documents; the copy is made anew of the sorted one.  With
\* `grows' = 0 there is no memory for a larger buffer.
SendPatches(case_sensitive, length, format, grows) ==
  LET Sent(r) == Send(cJSON_PrintBuffered(r.patches, length, format, grows), "patches",
                      case_sensitive, r.from, r.to)
  IN  /\ text = NoText /\ status = "ok" /\ ~Same(sent, mine)
      /\ PlainNames(sent) /\ PlainNames(mine)
      /\ Sent(GeneratePatches(sent, mine, case_sensitive))
      /\ UNCHANGED edits

SendMerge(case_sensitive, length, format, grows) ==
  LET Sent(r) == /\ r.patch # Nothing
                 /\ Send(cJSON_PrintBuffered(r.patch, length, format, grows), "merge",
                         case_sensitive, r.from, r.to)
  IN  /\ text = NoText /\ status = "ok" /\ ~Same(sent, mine) /\ NoNull(mine)
      /\ WalkedInOrder(sent, case_sensitive) /\ WalkedInOrder(mine, case_sensitive)
      /\ Sent(generate_merge_patch(sent, mine, case_sensitive))
      /\ UNCHANGED edits

\* A member moved or copied to a new name, with patches of the sender's own: a test of
\* what is moved (of a list it would sort the objects at the other side), and the move.
SendMove(op, x, y) ==
  LET i == get_object_item(mine, x, TRUE)
      m == mine.items[i]
      patch == List("object", <<As(Key["op"], String(Op[op])), As(Key["path"], String(Child(<<>>, y))),
                                As(Key["from"], String(Child(<<>>, x)))>>)
      test == IF m.items = <<>> THEN compose_patch(List("array", <<>>), "test", Child(<<>>, x), m)
              ELSE List("array", <<>>)
      moved == Append(IF op = "move" THEN RemoveAt(mine.items, i) ELSE mine.items, As(y, m))
  IN  /\ text = NoText /\ status = "ok" /\ Same(sent, mine) /\ mine.type = "object"
      /\ edits < MaxEdits /\ edits' = edits + 1
      /\ i > 0 /\ get_object_item(mine, y, TRUE) = 0
      /\ Send(cJSON_PrintBuffered(AddItemToArray(test, patch), 200, FALSE, 9), "patches", TRUE,
              sent, List("object", moved))

SendWhole(length, format) ==
  /\ text = NoText /\ (status # "ok" \/ ~Same(sent, mine))
  /\ Send(cJSON_PrintPreallocated(mine, length, format), "whole", TRUE, sent, mine)
  /\ UNCHANGED edits

Minified ==
  /\ text # NoText /\ text' = cJSON_Minify(text) /\ text' # text
  /\ UNCHANGED <<mine, sent, theirs, edits, says, cut, status, inside>>

Cut(n) ==
  /\ text # NoText /\ ~cut /\ n < Len(text)
  /\ text' = SubSeq(text, 1, n) /\ cut' = TRUE
  /\ UNCHANGED <<mine, sent, theirs, edits, says, status, inside>>

Followed(b) ==
  CASE says.what = "whole"   -> Done(0, b.got)
    [] says.what = "patches" -> ApplyPatches(Duplicate(theirs), b.got, says.case_sensitive)
    [] says.what = "merge"   ->
         Done(0, merge_patch(Duplicate(theirs), b.got, says.case_sensitive))

Kept(r) ==
  IF r.status = 0 THEN status' = "ok" /\ theirs' = r.doc
  ELSE status' = (IF cut THEN "cut" ELSE "failed") /\ UNCHANGED theirs

\* A copy is changed, and kept if all went well (cJSON_Utils.h, AtomicApplyPatches).
Read(b) ==
  /\ inside' = (inside /\ b.inside /\ (b.ok \/ text = <<>> \/ b.offset < Len(text)))
  /\ Kept(IF b.ok THEN Followed(b) ELSE Done(-1, theirs))

Receive ==
  /\ text # NoText /\ text' = NoText /\ cut' = FALSE
  /\ Read(cJSON_ParseWithLength(text))
  /\ UNCHANGED <<mine, sent, edits, says>>

Lengths(v, format) == {n + Len(print(v, format, 9).out) : n \in Spare} \cap Nat

Next ==
  \/ Edit
  \/ \E case_sensitive \in BOOLEAN, n \in Buffers, format \in BOOLEAN, grows \in {0, 9} :
       \/ SendPatches(case_sensitive, n, format, grows)
       \/ SendMerge(case_sensitive, n, format, grows)
  \/ \E op \in {"move", "copy"}, x \in Names, y \in Names : SendMove(op, x, y)
  \/ \E format \in BOOLEAN : \E n \in Lengths(mine, format) : SendWhole(n, format)
  \/ Minified
  \/ \E n \in Cuts : Cut(n)
  \/ Receive

Spec == Init /\ [][Next]_vars
-----------------------------------------------------------------------------
\* A text that arrives whole is accepted, and then both documents are the same: what is generated,
\* composed, printed, parsed and applied leads from one document to the other, and
\* cJSON_Compare says so (create_patches, generate_merge_patch, apply_patch, merge_patch).
InStep == status # "failed" /\ (text = NoText /\ status = "ok" =>
            Same(theirs, sent) /\ cJSON_Compare(theirs, sent, TRUE))

\* No byte is read or written outside a buffer, whatever its size and wherever the
\* text ends, and the place of an error is a place of the text (ensure, parse_string,
\* cJSON_ParseWithLengthOpts).
StaysInside == inside

\* Five bytes more than the text takes are enough to print it (cJSON.h, on
\* cJSON_PrintPreallocated).
FiveMoreIsEnough ==
  text = NoText => \A format \in BOOLEAN :
    cJSON_PrintPreallocated(mine, Len(print(mine, format, 9).out) + 1 + 5, format).ok

\* The pointer to an item leads to that item and no other one
\* (cJSONUtils_FindPointerFromObjectTo, cJSONUtils_GetPointerCaseSensitive).
PointersLeadBack ==
  text = NoText => \A p \in Places(mine) :
    get_item_from_pointer(mine, FindPointerFromObjectTo(mine, p), TRUE) = p

\* A text that lost its end changes nothing at the other side (parse_array,
\* parse_object: there is no value without its closing bracket).
CutIsRefused ==
  [][text # NoText /\ text' = NoText /\ cut => status' # "ok" /\ theirs' = theirs]_vars
=============================================================================
