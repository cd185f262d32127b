---------------------------- MODULE KioskCommands ----------------------------
(***************************************************************************)
(* The command catalogue of libotikiosk.c and the parsers of               *)
(* kiosk_commands.c.  A JSON message is the record of what the parsers can *)
(* tell apart: its id, its method, whether it carries an error object, its *)
(* result and its params.  Text is a member of a small set.                *)
(***************************************************************************)
EXTENDS Integers

KIOSK_RET == {"OK", "GENERAL_ERROR", "MEMORY_ERROR", "PARSING_ERROR",
              "COMM_ERROR", "NEGATIVE_RESP"}

\* What an API call can end with: a KIOSK_RET, or the death of the process.
Outcome == KIOSK_RET \cup {"CRASH"}

NoId == -1     \* "$.id" is absent or not a number
-----------------------------------------------------------------------------
\* The strings parse_get_status knows, and the KIOSK_STATUS each stands for.
KioskStatus ==
  [Ready        |-> "OK_READY",       PaymentTransaction |-> "OK_TRANSACTION",
   Update       |-> "OK_UPDATE",      Unconfirmed        |-> "OK_UNCONFIRMED",
   NotReady     |-> "OK_NOT_READY",   NoReader           |-> "OK_NO_READER",
   NoTerminalId |-> "OK_NO_TERMINAL_ID"]

\* The strings parse_transaction_complete knows, and their otiTransactionStatus.
TransactionStatus ==
  [OK      |-> "OK",      Declined  |-> "Declined",  Error       |-> "Error",
   Timeout |-> "Timeout", Cancelled |-> "Cancelled", Void        |-> "Voided",
   LocalMifare |-> "LocalMifare"]

CancelText == {"Ok", "NoTransaction", "CannotCancel"}

\* A result that mjson_get_string copies out: a string, not empty, that fits.
ReadableText == DOMAIN KioskStatus \cup CancelText \cup {"text"}

Result == {"absent", "true", "false", "empty", "overlong"} \cup ReadableText

\* The params of an event.  texts stands for the seven string fields, amounts
\* for the two double fields of authorizationDetails.
Params == [object    : BOOLEAN,
           status    : DOMAIN TransactionStatus \cup {"absent", "unknown"},
           texts     : {"fit", "overlong"},
           errorCode : {"integer", "fraction", "absent"},
           amounts   : {"number", "absent"}]

NoParams == [object |-> FALSE, status |-> "absent", texts |-> "fit",
             errorCode |-> "absent", amounts |-> "absent"]
-----------------------------------------------------------------------------
(***************************************************************************)
(* The API functions that send a command: the id they send, the id they    *)
(* check the answer against, the parser they end with, and whether they    *)
(* build the command on the heap.                                          *)
(***************************************************************************)
Entry(sent, checked, parser, built) ==
  [sent |-> sent, checked |-> checked, parser |-> parser, built |-> built]

\* Mutant: GetKioskVersion checks the id of the function it was copied from.
Api_copied_id ==
  [GetStatus          |-> Entry( 1,  1, "status", FALSE),
   ShowMessage        |-> Entry( 2,  2, "bool",   TRUE),
   GetKioskId         |-> Entry( 3,  3, "text",   FALSE),
   GetKioskVersion    |-> Entry( 4,  3, "text",   FALSE),
   GetReaderVersion   |-> Entry( 5,  5, "text",   FALSE),
   PreAuthorize       |-> Entry( 6,  6, "bool",   TRUE),
   PayTransaction     |-> Entry( 7,  6, "bool",   TRUE),
   ConfirmTransaction |-> Entry( 8,  8, "bool",   TRUE),
   VoidTransaction    |-> Entry( 9,  9, "bool",   TRUE),
   CancelTransaction  |-> Entry(10, 10, "cancel", FALSE)]

Api ==
  [GetStatus          |-> Entry( 1,  1, "status", FALSE),
   ShowMessage        |-> Entry( 2,  2, "bool",   TRUE),
   GetKioskId         |-> Entry( 3,  3, "text",   FALSE),
   GetKioskVersion    |-> Entry( 4,  4, "text",   FALSE),
   GetReaderVersion   |-> Entry( 5,  5, "text",   FALSE),
   PreAuthorize       |-> Entry( 6,  6, "bool",   TRUE),
   PayTransaction     |-> Entry( 7,  6, "bool",   TRUE),
   ConfirmTransaction |-> Entry( 8,  8, "bool",   TRUE),
   VoidTransaction    |-> Entry( 9,  9, "bool",   TRUE),
   CancelTransaction  |-> Entry(10, 10, "cancel", FALSE)]

Method == DOMAIN Api
-----------------------------------------------------------------------------
parse_resp_result(m, expected) ==
  IF m.id # NoId /\ m.id = expected /\ m.result \in ReadableText
  THEN "OK" ELSE "PARSING_ERROR"

\* Mutant: the id is not checked.
check_response_ok_any_id(m, expected) ==
  IF m.error THEN "NEGATIVE_RESP"
  ELSE IF m.result = "true" THEN "OK"
  ELSE IF m.result = "false" THEN "NEGATIVE_RESP" ELSE "PARSING_ERROR"

check_response_ok(m, expected) ==
  IF m.id = NoId \/ m.id # expected THEN "PARSING_ERROR"
  ELSE IF m.error THEN "NEGATIVE_RESP"
  ELSE IF m.result = "true" THEN "OK"
  ELSE IF m.result = "false" THEN "NEGATIVE_RESP" ELSE "PARSING_ERROR"

parse_get_status(m, expected) ==
  IF parse_resp_result(m, expected) = "OK" /\ m.result \notin DOMAIN KioskStatus
  THEN "PARSING_ERROR" ELSE parse_resp_result(m, expected)

\* Only "Ok" returns: for any other text the misplaced parenthesis of the next
\* comparison, strcmp(buff, "NoTransaction" == 0), passes a null pointer to strcmp.
parse_cancel_resp(m, expected) ==
  IF parse_resp_result(m, expected) = "OK" /\ m.result # "Ok"
  THEN "CRASH" ELSE parse_resp_result(m, expected)

\* What the API function returns for the answer it copied.
ApiReturn(method, m) ==
  LET expected == Api[method].checked
  IN  CASE Api[method].parser = "status" -> parse_get_status(m, expected)
        [] Api[method].parser = "text"   -> parse_resp_result(m, expected)
        [] Api[method].parser = "bool"   -> check_response_ok(m, expected)
        [] Api[method].parser = "cancel" -> parse_cancel_resp(m, expected)

\* All that the parser can make the API function return.
ParserOutcomes(method) ==
  {"OK", "PARSING_ERROR"}
    \cup (IF Api[method].parser = "bool" THEN {"NEGATIVE_RESP"} ELSE {})
    \cup (IF Api[method].parser = "cancel" THEN {"CRASH"} ELSE {})

\* The answer says that the kiosk did what the method asks for.  For
\* CancelTransaction that includes having nothing to cancel.
SaysYes(method, m) ==
  /\ m.id = Api[method].sent /\ m.method = "none" /\ ~m.error
  /\ CASE Api[method].parser = "status" -> m.result \in DOMAIN KioskStatus
       [] Api[method].parser = "text"   -> m.result \in ReadableText
       [] Api[method].parser = "bool"   -> m.result = "true"
       [] Api[method].parser = "cancel" -> m.result \in {"Ok", "NoTransaction"}
-----------------------------------------------------------------------------
\* An absent string field reads as the empty string; an absent or fractional
\* number, or a string that does not fit its buffer, fails the whole message.
parse_json_fields(p) ==
  p.texts = "fit" /\ p.errorCode = "integer" /\ p.amounts = "number"

parse_transaction_complete(m) ==
  IF /\ m.id # NoId /\ m.method = "TransactionComplete" /\ m.params.object
     /\ parse_json_fields(m.params) /\ m.params.status \in DOMAIN TransactionStatus
  THEN "OK" ELSE "PARSING_ERROR"
=============================================================================
