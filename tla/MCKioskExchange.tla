--------------------------- MODULE MCKioskExchange ---------------------------
(* Small instances of KioskExchange for TLC. *)
EXTENDS KioskExchange

Yes(text)  == [error |-> FALSE, result |-> text, len |-> 1]
Refusal    == [error |-> TRUE, result |-> "absent", len |-> 1]
LongYes    == [error |-> FALSE, result |-> "true", len |-> 3]

Declined   == [object |-> TRUE, status |-> "Declined", texts |-> "fit",
               errorCode |-> "integer", amounts |-> "number"]
NoAmount   == [Declined EXCEPT !.amounts = "absent"]

Complete(id, params, len) ==
  [id |-> id, method |-> "TransactionComplete", params |-> params, len |-> len]
Other == [id |-> NoId, method |-> "other", params |-> NoParams, len |-> 1]

MCAnswers      == {Yes("Ready"), Yes("true"), LongYes}
MCAnswersAll   == {Yes("Ready"), Yes("true"), Yes("text"), Refusal}
MCAnswersBroken == {Yes("true"), Yes("NoTransaction")}
MCAnswersPlain == {Yes("true"), Yes("Ready")}

\* The kiosk numbers its notices as it likes: 1 is also the id of GetStatus.
MCNotices      == {Complete(1, Declined, 2)}
\* ... or apart from its commands.
MCNoticesApart == {Complete(77, Declined, 2)}
MCNoticesMixed == {Complete(77, Declined, 2), Complete(77, NoAmount, 1), Other}

MCMethods       == {"GetStatus", "PreAuthorize"}
\* The two whose answers are not read as they should be.
MCMethodsBroken == {"PayTransaction", "CancelTransaction"}
\* Every API function but those two.
MCMethodsAll    == Method \ MCMethodsBroken
=============================================================================
