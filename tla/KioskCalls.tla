----------------------------- MODULE KioskCalls -----------------------------
(***************************************************************************)
(* KioskExchange with the history that KioskApi is about, and the mapping  *)
(* under which it implements KioskApi.  The history only watches: each     *)
(* step is one of KioskExchange.                                           *)
(***************************************************************************)
EXTENDS KioskExchange

VARIABLES
  asked,      \* the method of each call
  performed,  \* the calls whose command the kiosk answered with anything but an error
  used        \* the calls whose answer an API function returned KIOSK_RET_OK for

callVars == <<asked, performed, used>>

Performs(num) == \E i \in 1..Len(to_client') :
  LET m == to_client'[i].msg IN m.num = num /\ m.method = "none" /\ ~m.error

CInit == Init /\ asked = <<>> /\ performed = {} /\ used = {}

CNext ==
  /\ Next
  /\ asked' = IF calls' > calls THEN Append(asked, method') ELSE asked
  /\ performed' = IF KioskAnswers /\ Performs(Head(to_kiosk).num)
                  THEN performed \cup {Head(to_kiosk).num} ELSE performed
  /\ used' = IF apc = "reset" /\ ret' = "OK" THEN used \cup {answer'.num} ELSE used

CSpec == CInit /\ [][CNext]_<<vars, callVars>>
-----------------------------------------------------------------------------
Abstract == INSTANCE KioskApi WITH
  Command <- Methods, Event <- 1..MaxNotices,
  calling <- apc # "idle", announced <- due, reported <- delivered

\* The exchange over the socket, with its semaphores, timeouts and one shared buffer,
\* does no more than KioskApi allows: a call succeeds only for an answer to a command
\* of its own method that made no other call succeed, and each event is reported once
\* (send_receive, kiosk_msg_received, check_response_ok).
KeepsPromise == Abstract!Spec
=============================================================================
