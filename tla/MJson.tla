-------------------------------- MODULE MJson --------------------------------
(***************************************************************************)
(* mjson.c as the library uses it: the tokenizer mjson(), which reads a    *)
(* text once with a stack of MJSON_MAX_DEPTH brackets, and mjson_get_cb,   *)
(* the callback with which mjson_find follows a path during that reading.  *)
(* The text arrives token by token; all paths are followed side by side.   *)
(***************************************************************************)
EXTENDS Integers, Sequences

CONSTANTS
  Names,            \* the strings of the text; as a key, each is a name
  Paths,            \* the paths looked up
  MJSON_MAX_DEPTH,
  MaxItems          \* bound on the members of an array or object of the text

\* An element of a path: `.key', or `[index]'.
Key(k) == [key |-> k, index |-> -1]
At(i)  == [key |-> "", index |-> i]
IsAt(e) == e.index >= 0

Opening == {"{", "["}
Closing == {"}", "]"}
Scalars == {"true", "false", "null", "number"}
\* "-": a minus sign with no number after it; "?": a byte that starts no token.
Tokens  == Opening \cup Closing \cup Scalars \cup Names \cup {",", ":", "-", "?"}

Kinds == Scalars \cup {"string", "array", "object"}
Kind(t) == IF t \in Scalars THEN t
           ELSE CASE t = "-" -> "number" [] t = "{" -> "object" [] t = "[" -> "array"
                  [] OTHER -> "string"

ASSUME ConstantsAssumption ==
  /\ MJSON_MAX_DEPTH \in Nat \ {0} /\ MaxItems \in Nat
  /\ Names \cap (Opening \cup Closing \cup Scalars
                  \cup {",", ":", "-", "?", "", "never"}) = {}
  /\ Paths \subseteq Seq([key : Names \cup {""}, index : Nat \cup {-1}])
  /\ \A p \in Paths : \A i \in DOMAIN p : p[i].key = "" <=> IsAt(p[i])

VARIABLES
  expecting, nesting,  \* mjson()
  result,              \* "reading", or what mjson() returned
  data,                \* struct msjon_get_data, for each path
  \* history: the containers around the next token, with the keys seen in each;
  \* what JSON allows next; what the text has at each path
  around, allowed, there

vars == <<expecting, nesting, result, data, around, allowed, there>>
-----------------------------------------------------------------------------
(* mjson_get_cb *)

Cursor == [pos : Nat \ {0}, d1 : Int, d2 : Nat, i1 : Nat, i2 : Nat,
           obj : {"none", "right", "wrong"}, tok : Kinds \cup {"invalid"},
           right : BOOLEAN]

\* obj and tok stand for positions in the text: of these the model keeps whether
\* they are those of the value at the path.
Start == [pos |-> 1, d1 |-> 0, d2 |-> 0, i1 |-> 0, i2 |-> 0, obj |-> "none",
          tok |-> "invalid", right |-> FALSE]

Ended(p, d)  == d.pos > Len(p)
Here(p, d)   == Ended(p, d) /\ d.d1 = d.d2

\* `while (path[pos] != ']') pos++; pos++'
PastIndex(p, pos) ==
  LET later == {i \in pos..Len(p) : IsAt(p[i])}
  IN  IF later = {} THEN Len(p) + 2
      ELSE 1 + CHOOSE i \in later : \A j \in later : i <= j

Enter(p, d, here) ==
  [d EXCEPT !.obj = IF Here(p, d) THEN (IF here THEN "right" ELSE "wrong") ELSE @,
            !.d1 = @ + 1]

EnterArray(p, d, here) ==
  IF d.d1 = d.d2 /\ ~Ended(p, d) /\ IsAt(p[d.pos])
  THEN LET i == p[d.pos].index
           e == [d EXCEPT !.i1 = 0, !.i2 = i]
       IN  Enter(p, IF i = 0 THEN [e EXCEPT !.d2 = @ + 1, !.pos = @ + 1] ELSE e, here)
  ELSE Enter(p, d, here)

NextItem(p, d) ==
  IF d.d1 # d.d2 + 1 THEN d
  ELSE IF d.i1 + 1 # d.i2 THEN [d EXCEPT !.i1 = @ + 1]
  ELSE [d EXCEPT !.i1 = @ + 1, !.d2 = @ + 1, !.pos = PastIndex(p, @)]

\* Mutant: a key is compared whatever its depth.
MatchKey_any_depth(p, d, k) ==
  IF ~Ended(p, d) /\ p[d.pos] = Key(k)
  THEN [d EXCEPT !.d2 = @ + 1, !.pos = @ + 1] ELSE d

MatchKey(p, d, k) ==
  IF d.d1 = d.d2 + 1 /\ ~Ended(p, d) /\ p[d.pos] = Key(k)
  THEN [d EXCEPT !.d2 = @ + 1, !.pos = @ + 1] ELSE d

\* Mutant: the object is reported at the first bracket closed inside it.
Leave_any_depth(p, d, t) ==
  LET e == [d EXCEPT !.d1 = @ - 1]
  IN  IF Ended(p, e) /\ e.obj # "none"
      THEN [e EXCEPT !.tok = IF t = "}" THEN "object" ELSE "array",
                     !.right = e.obj = "right"]
      ELSE e

Leave(p, d, t) ==
  LET e == [d EXCEPT !.d1 = @ - 1]
  IN  IF Here(p, e) /\ e.obj # "none"
      THEN [e EXCEPT !.tok = IF t = "}" THEN "object" ELSE "array",
                     !.right = e.obj = "right"]
      ELSE e

Take(p, d, t, here) ==
  IF Here(p, d) THEN [d EXCEPT !.tok = Kind(t), !.right = here] ELSE d

\* The callback, for a token of the text; here: a value at the path starts here.
mjson_get_cb(p, d, t, isKey, here) ==
  CASE d.tok # "invalid" -> d
    [] d.tok = "invalid" /\ t = "{" -> Enter(p, d, here)
    [] d.tok = "invalid" /\ t = "[" -> EnterArray(p, d, here)
    [] d.tok = "invalid" /\ t = "," -> NextItem(p, d)
    [] d.tok = "invalid" /\ t = ":" -> d
    [] d.tok = "invalid" /\ t \in Closing -> Leave(p, d, t)
    [] d.tok = "invalid" /\ t \in Names /\ isKey -> MatchKey(p, d, t)
    [] OTHER -> Take(p, d, t, here)
-----------------------------------------------------------------------------
(* The text: where in it the next token stands, and what JSON allows there. *)

Top(s) == s[Len(s)]
Pop(s) == SubSeq(s, 1, Len(s) - 1)

Where == [i \in DOMAIN around |->
            IF around[i].open = "{" THEN Key(around[i].name) ELSE At(around[i].index)]

AfterValue(s) == IF s = <<>> THEN {} ELSE {",", IF Top(s).open = "{" THEN "}" ELSE "]"}
AnyValue == Opening \cup Scalars \cup Names

Surround(t, isKey) ==
  LET top == Top(around)
  IN  around' =
        CASE t \in Opening -> Append(around, [open |-> t, name |-> "", index |-> 0,
                                              seen |-> {}])
          [] t \in Closing -> Pop(around)
          [] t \in Names /\ isKey ->
               Append(Pop(around), [top EXCEPT !.name = t, !.seen = @ \cup {t}])
          [] t = "," -> Append(Pop(around), [top EXCEPT !.index = @ + 1])
          [] OTHER -> around

Allow(t) ==
  allowed' =
    IF t \notin allowed THEN {"never"}
    ELSE CASE t = "{" -> Names \cup {"}"}
           [] t = "[" -> AnyValue \cup {"]"}
           [] t = ":" -> AnyValue
           [] t = "," -> IF Top(around).open = "{" THEN Names ELSE AnyValue
           [] t \in Closing -> AfterValue(Pop(around))
           [] t \in Names /\ "[" \notin allowed -> {":"}
           [] OTHER -> AfterValue(around)
-----------------------------------------------------------------------------
Init ==
  /\ expecting = "VALUE" /\ nesting = <<>> /\ result = "reading"
  /\ data = [p \in Paths |-> Start]
  /\ around = <<>> /\ allowed = AnyValue /\ there = [p \in Paths |-> "absent"]

\* mjson() returns; the cursors are looked at only when it returns a length.
Return(r) == result' = r /\ UNCHANGED <<expecting, nesting, data, around, there>>

\* MJSONCALL: the callback sees the token before the loop goes on.
Call(t, isKey) ==
  LET isValue == expecting = "VALUE" /\ t \notin Closing
  IN  /\ data' = [p \in Paths |-> mjson_get_cb(p, data[p], t, isKey, Where = p)]
      /\ there' = [p \in Paths |-> IF isValue /\ Where = p THEN Kind(t) ELSE there[p]]
      /\ Surround(t, isKey)

\* After a value: in a container a comma or its end comes next, else it was all.
Ends(n) == result' = IF n = <<>> THEN "length" ELSE "reading"

\* Mutant: the stack has one place fewer than MJSON_MAX_DEPTH.
Open_short(t) ==
  /\ expecting = "VALUE" /\ t \in Opening
  /\ IF Len(nesting) >= MJSON_MAX_DEPTH - 1 THEN Return("TOO_DEEP")
     ELSE /\ nesting' = Append(nesting, t)
          /\ expecting' = IF t = "{" THEN "KEY" ELSE "VALUE"
          /\ Call(t, FALSE) /\ UNCHANGED result

\* Mutant: the depth is compared one too late.
Open_late(t) ==
  /\ expecting = "VALUE" /\ t \in Opening
  /\ IF Len(nesting) > MJSON_MAX_DEPTH THEN Return("TOO_DEEP")
     ELSE /\ nesting' = Append(nesting, t)
          /\ expecting' = IF t = "{" THEN "KEY" ELSE "VALUE"
          /\ Call(t, FALSE) /\ UNCHANGED result

Open(t) ==
  /\ expecting = "VALUE" /\ t \in Opening
  /\ IF Len(nesting) >= MJSON_MAX_DEPTH THEN Return("TOO_DEEP")
     ELSE /\ nesting' = Append(nesting, t)
          /\ expecting' = IF t = "{" THEN "KEY" ELSE "VALUE"
          /\ Call(t, FALSE) /\ UNCHANGED result

\* MJSONEOO, in the three states that accept it: `[' and a comma may be followed
\* by `]', `{' and a comma by `}'.
Close(t) ==
  /\ t \in Closing /\ nesting # <<>> /\ expecting # "COLON"
  /\ expecting \in {"VALUE", "KEY"} => t = IF expecting = "KEY" THEN "}" ELSE "]"
  /\ Top(nesting) = IF t = "}" THEN "{" ELSE "["
  /\ nesting' = Pop(nesting) /\ expecting' = "COMMA_OR_EOO"
  /\ Call(t, FALSE) /\ Ends(nesting')

Scalar(t) ==
  /\ expecting = "VALUE" /\ t \in Scalars \cup Names
  /\ expecting' = "COMMA_OR_EOO" /\ UNCHANGED nesting
  /\ Call(t, FALSE) /\ Ends(nesting)

\* strtod reads nothing: the loop stands before the sign again, which is the
\* value if it is all there is, and is no comma otherwise.
LoneMinus(t) ==
  /\ expecting = "VALUE" /\ t = "-"
  /\ IF nesting = <<>> THEN Call(t, FALSE) /\ Ends(nesting) /\ UNCHANGED <<expecting, nesting>>
     ELSE Return("INVALID_INPUT")

Name(t) ==
  /\ expecting = "KEY" /\ t \in Names
  /\ expecting' = "COLON" /\ Call(t, TRUE) /\ UNCHANGED <<nesting, result>>

Colon(t) ==
  /\ expecting = "COLON" /\ t = ":"
  /\ expecting' = "VALUE" /\ Call(t, FALSE) /\ UNCHANGED <<nesting, result>>

Comma(t) ==
  /\ expecting = "COMMA_OR_EOO" /\ t = ","
  /\ expecting' = IF Top(nesting) = "{" THEN "KEY" ELSE "VALUE"
  /\ Call(t, FALSE) /\ UNCHANGED <<nesting, result>>

Accepted(t) ==
  \/ Close(t) \/ Scalar(t) \/ LoneMinus(t) \/ Name(t) \/ Colon(t) \/ Comma(t)

Expected(t) ==
  CASE expecting = "VALUE" -> \/ t \in AnyValue \cup {"-"}
                              \/ t = "]" /\ nesting # <<>> /\ Top(nesting) = "["
    [] expecting = "KEY"   -> t \in Names \cup {"}"}
    [] expecting = "COLON" -> t = ":"
    [] OTHER -> t = "," \/ t = IF Top(nesting) = "{" THEN "}" ELSE "]"

Reject(t) == ~Expected(t) /\ Return("INVALID_INPUT")

Bounded(t) ==
  /\ t = "," /\ around # <<>> => Top(around).index < MaxItems
  /\ expecting = "KEY" => t \notin Top(around).seen    \* no key twice in an object

Read(t) ==
  /\ result = "reading" /\ Bounded(t)
  /\ Open(t) \/ Accepted(t) \/ Reject(t)
  /\ Allow(t)

\* The text is over and its first value is not.
TextEnds ==
  /\ result = "reading" /\ Return("INVALID_INPUT") /\ allowed' = {"never"}

Next == (\E t \in Tokens : Read(t)) \/ TextEnds

Spec == Init /\ [][Next]_vars
-----------------------------------------------------------------------------
mjson_find(p) == IF result = "length" THEN data[p].tok ELSE "invalid"
-----------------------------------------------------------------------------
(* Properties *)

\* Types; the nesting stack stays inside its array, and no cursor runs past the
\* end of its path looking for a `]'.
TypeOK ==
  /\ expecting \in {"VALUE", "KEY", "COLON", "COMMA_OR_EOO"}
  /\ nesting \in Seq(Opening) /\ Len(nesting) <= MJSON_MAX_DEPTH
  /\ result \in {"reading", "length", "INVALID_INPUT", "TOO_DEEP"}
  /\ \A p \in Paths : data[p] \in Cursor /\ data[p].pos <= Len(p) + 1
  /\ allowed \subseteq Tokens \cup {"never"} /\ there \in [Paths -> Kinds \cup {"absent"}]

\* mjson() refuses a text only where JSON ends, or deeper than its stack; while
\* it reads JSON, its stack holds the open containers; and when it returns a
\* length, every container has been closed.
RefusesOnlyNonJson ==
  /\ result = "INVALID_INPUT" => allowed = {"never"}
  /\ result = "TOO_DEEP" => Len(around) = MJSON_MAX_DEPTH
  /\ result = "length" => around = <<>>
  /\ \A i \in DOMAIN nesting : nesting[i] = around[i].open

Json == result = "length" /\ allowed # {"never"}

\* What a JSON text has at a path, mjson_find finds there: the kind is that of the
\* value, and the place is its place.
FindsWhatIsThere ==
  Json => \A p \in Paths : there[p] # "absent" =>
            mjson_find(p) = there[p] /\ data[p].right

\* A field of the outermost object that is absent is not found elsewhere.  (Of
\* longer paths that is not true: $.a.b is found in a sibling of a.)
AbsentIsNotFound ==
  Json => \A p \in Paths : Len(p) = 1 /\ there[p] = "absent" => mjson_find(p) = "invalid"
=============================================================================
