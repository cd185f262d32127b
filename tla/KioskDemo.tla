------------------------------ MODULE KioskDemo ------------------------------
(***************************************************************************)
(* demo/otiKioskDemo.c: the main loop and its state machine, the callback  *)
(* that the commands thread of the library runs in it, and the websocket   *)
(* server it services.  The library is what KioskExchange shows of it: a   *)
(* call can fail although the kiosk did what it asks, its late answer can  *)
(* be taken for that of the next such call, and a TransactionComplete can  *)
(* be lost.  Each of these is a fault, and faults are bounded; how long a  *)
(* kiosk that is down stays down is not.                                   *)
(***************************************************************************)
EXTENDS Integers, Sequences

CONSTANTS
  Clients,      \* the websocket clients
  NULL,         \* no client
  Statuses,     \* how a transaction may complete
  MaxFaults, MaxTrans, MaxConnects  \* bounds on faults, on transactions that
                                    \* start, on clients that connect

DEMO_STATE == {"ST_INIT", "ST_IDLE", "ST_TRANS", "ST_TRANS_COMPLETE", "ST_MESSAGE"}
Approving  == {"OK", "LocalMifare"}

ASSUME ConstantsAssumption ==
  /\ NULL \notin Clients
  /\ Statuses \subseteq Approving \cup {"Declined", "Error", "Timeout", "Cancelled", "Voided"}
  /\ MaxFaults \in Nat /\ MaxTrans \in Nat /\ MaxConnects \in Nat

VARIABLES
  pc,             \* where main is
  cur_state, new_state,
  timer,          \* time_state_expiration: "off", "running" or "out"
  did,            \* the kiosk started the transaction that PreAuthorize asks for
  confirm,        \* the next approval is confirmed (else voided)
  settlements,    \* history: the references confirmed or voided, in order
  interrupted,
  cbpc, cbresp, left,     \* the callback: where it is, what it was given, and
                          \* the fields it has yet to copy
  last_payment_response,
  payment_status, wsi, connected, connects,    \* the websocket server
  send_message_flag, json_message,  \* the message: the number of the completion it tells of
  writable,       \* the clients whose callback on a writable socket was asked for
  ended, told, since,     \* history: the completions so far, the last one that a
                          \* client was told of, and those before a client connected
  running, started, approved, notices, late,   \* the kiosk
  faults

mainVars   == <<pc, did, confirm, settlements, interrupted>>
cbVars     == <<cbpc, cbresp, left, last_payment_response>>
sendVars   == <<send_message_flag, json_message, writable, ended, told>>
wsVars     == <<wsi, connected, connects, sendVars, since>>
kioskVars  == <<running, started, approved, notices, late>>
stateVars  == <<cur_state, new_state, timer>>
vars == <<mainVars, cbVars, wsVars, kioskVars, stateVars, payment_status, faults>>
-----------------------------------------------------------------------------
Fields     == {"status", "reference"}
Response   == [status : Statuses \cup {"none"}, reference : Nat]
NoResponse == [status |-> "none", reference |-> 0]

Init ==
  /\ pc = "check" /\ cur_state = "_ST_INVALID" /\ new_state = "ST_INIT"
  /\ timer = "off" /\ did = FALSE /\ confirm = TRUE /\ settlements = <<>>
  /\ interrupted = FALSE
  /\ cbpc = "idle" /\ cbresp = NoResponse /\ left = {}
  /\ last_payment_response = NoResponse
  /\ payment_status = 0 /\ wsi = NULL /\ connected = {} /\ connects = 0
  /\ send_message_flag = FALSE /\ json_message = 0 /\ writable = {}
  /\ ended = 0 /\ told = 0 /\ since = [c \in Clients |-> 0]
  /\ running = 0 /\ started = 0 /\ approved = {} /\ notices = <<>> /\ late = FALSE
  /\ faults = 0

Fault == faults < MaxFaults /\ faults' = faults + 1

\* A call that asks for nothing but an answer.
Answered(ok) == \/ ok /\ UNCHANGED faults
                \/ ~ok /\ Fault
-----------------------------------------------------------------------------
(* The main loop *)

CheckStatus ==
  /\ pc = "check"
  /\ \E ok \in BOOLEAN : Answered(ok) /\ pc' = IF ok THEN "compare" ELSE "offline"
  /\ UNCHANGED <<did, confirm, settlements, interrupted, stateVars, cbVars, wsVars,
                 kioskVars, payment_status>>

\* While the kiosk does not answer, which may be for ever: ask again, and start over.
WaitForKiosk ==
  /\ pc = "offline" /\ pc' \in {"compare", "offline"}
  /\ new_state' = "ST_INIT"
  /\ UNCHANGED <<did, confirm, settlements, interrupted, cur_state, timer, cbVars,
                 wsVars, kioskVars, payment_status, faults>>

CompareStates ==
  /\ pc = "compare"
  /\ pc' = IF new_state # cur_state THEN "assign" ELSE "service"
  /\ UNCHANGED <<did, confirm, settlements, interrupted, stateVars, cbVars, wsVars,
                 kioskVars, payment_status, faults>>

AssignState ==
  /\ pc = "assign" /\ pc' = "enter" /\ cur_state' = new_state
  /\ UNCHANGED <<did, confirm, settlements, interrupted, new_state, timer, cbVars,
                 wsVars, kioskVars, payment_status, faults>>

Entering(st) == pc = "enter" /\ cur_state = st

\* GetKioskId, GetKioskVersion and GetReaderVersion, if all three answer.
EnterInit ==
  /\ Entering("ST_INIT") /\ pc' = "service"
  /\ \/ new_state' = "ST_IDLE" /\ UNCHANGED faults
     \/ Fault /\ UNCHANGED new_state
  /\ UNCHANGED <<did, confirm, settlements, interrupted, cur_state, timer, cbVars,
                 wsVars, kioskVars, payment_status>>

\* Mutant: ST_MESSAGE relies on the expiration that ST_IDLE set.
EnterIdleOrMessage_once ==
  /\ Entering("ST_IDLE") \/ Entering("ST_MESSAGE")
  /\ pc' = "service"
  /\ timer' = IF cur_state = "ST_IDLE" THEN "running" ELSE timer
  /\ UNCHANGED <<did, confirm, settlements, interrupted, cur_state, new_state, cbVars,
                 wsVars, kioskVars, payment_status, faults>>

\* Both show a message for five seconds; whether it is shown is not looked at.
EnterIdleOrMessage ==
  /\ Entering("ST_IDLE") \/ Entering("ST_MESSAGE")
  /\ pc' = "service" /\ timer' = "running"
  /\ UNCHANGED <<did, confirm, settlements, interrupted, cur_state, new_state, cbVars,
                 wsVars, kioskVars, payment_status, faults>>

\* PreAuthorize reaches the kiosk, which starts a transaction or refuses, or does not.
EnterTrans ==
  /\ Entering("ST_TRANS") /\ pc' = "preauth"
  /\ \/ /\ running = 0 /\ started < MaxTrans
        /\ did' = TRUE /\ running' = started + 1 /\ started' = started + 1
     \/ did' = FALSE /\ UNCHANGED <<running, started>>
  /\ UNCHANGED <<confirm, settlements, interrupted, stateVars, cbVars, wsVars, approved,
                 notices, late, payment_status, faults>>

\* Mutant: main sets new_state once the payment has started, as well as when it has not.
PreAuthorizeReturns_sets ==
  /\ pc = "preauth" /\ pc' = "service" /\ did' = FALSE
  /\ \E ok \in BOOLEAN :
       /\ \/ ok = did /\ UNCHANGED <<faults, late>>
          \/ did /\ ~ok /\ Fault /\ late' = TRUE
          \/ ~did /\ ok /\ late /\ late' = FALSE /\ UNCHANGED faults
       /\ timer' = IF ok THEN "off" ELSE timer
       /\ new_state' = IF ok THEN "ST_TRANS" ELSE "ST_MESSAGE"
  /\ UNCHANGED <<confirm, settlements, interrupted, cur_state, cbVars, wsVars,
                 running, started, approved, notices, payment_status>>

\* PreAuthorize returns: what the kiosk said, an error, or a late OK.
PreAuthorizeReturns ==
  /\ pc = "preauth" /\ pc' = "service" /\ did' = FALSE
  /\ \E ok \in BOOLEAN :
       /\ \/ ok = did /\ UNCHANGED <<faults, late>>
          \/ did /\ ~ok /\ Fault /\ late' = TRUE
          \/ ~did /\ ok /\ late /\ late' = FALSE /\ UNCHANGED faults
       /\ timer' = IF ok THEN "off" ELSE timer
       /\ new_state' = IF ok THEN new_state ELSE "ST_MESSAGE"
  /\ UNCHANGED <<confirm, settlements, interrupted, cur_state, cbVars, wsVars,
                 running, started, approved, notices, payment_status>>

\* Mutant: a message that nobody was told is kept.
send_json_message_kept(n) ==
  /\ IF wsi = NULL THEN UNCHANGED <<send_message_flag, json_message, writable>>
     ELSE /\ send_message_flag' = TRUE /\ writable' = writable \cup {wsi}
          /\ json_message' = IF send_message_flag THEN json_message ELSE n
  /\ UNCHANGED <<wsi, connected, connects, told, since>>

\* There is one message: what nobody was told yet is overwritten.
send_json_message(n) ==
  /\ IF wsi = NULL THEN UNCHANGED <<send_message_flag, json_message, writable>>
     ELSE /\ send_message_flag' = TRUE /\ json_message' = n
          /\ writable' = writable \cup {wsi}
  /\ UNCHANGED <<wsi, connected, connects, told, since>>

EnterComplete ==
  /\ Entering("ST_TRANS_COMPLETE") /\ pc' = "decide"
  /\ payment_status' = 0 /\ ended' = ended + 1 /\ send_json_message(ended')
  /\ UNCHANGED <<did, confirm, settlements, interrupted, stateVars, cbVars, kioskVars, faults>>

\* Mutant: the transaction is settled whatever its status.
Decide_always ==
  /\ pc = "decide" /\ pc' = "settle"
  /\ UNCHANGED <<did, confirm, settlements, interrupted, stateVars, cbVars, wsVars,
                 kioskVars, payment_status, faults>>

\* The status is read again.
Decide ==
  /\ pc = "decide"
  /\ \/ last_payment_response.status \in Approving /\ pc' = "settle" /\ UNCHANGED new_state
     \/ /\ last_payment_response.status \notin Approving
        /\ pc' = "service" /\ new_state' = "ST_MESSAGE"
  /\ UNCHANGED <<did, confirm, settlements, interrupted, cur_state, timer, cbVars,
                 wsVars, kioskVars, payment_status, faults>>

\* ConfirmTransaction or VoidTransaction, of the reference as it is now; a fault
\* loses the command, or only its answer, and nobody looks at what was returned.
Settle ==
  /\ pc = "settle" /\ pc' = "service" /\ new_state' = "ST_MESSAGE"
  /\ confirm' = ~confirm
  /\ \/ /\ settlements' = Append(settlements, last_payment_response.reference)
        /\ UNCHANGED faults
     \/ Fault /\ UNCHANGED settlements
  /\ UNCHANGED <<did, interrupted, cur_state, timer, cbVars, wsVars, kioskVars,
                 payment_status>>

\* lws_service is done (or skipped, once interrupted).
Serviced ==
  /\ pc = "service" /\ pc' = "payment"
  /\ UNCHANGED <<did, confirm, settlements, interrupted, stateVars, cbVars, wsVars,
                 kioskVars, payment_status, faults>>

StartPayment ==
  /\ pc = "payment" /\ pc' = "expire"
  /\ new_state' = IF payment_status = 1 /\ cur_state = "ST_IDLE"
                  THEN "ST_TRANS" ELSE new_state
  /\ UNCHANGED <<did, confirm, settlements, interrupted, cur_state, timer, cbVars,
                 wsVars, kioskVars, payment_status, faults>>

Expire ==
  /\ pc = "expire" /\ pc' = "check"
  /\ new_state' = IF timer = "out" /\ cur_state = "ST_MESSAGE" THEN "ST_IDLE" ELSE new_state
  /\ UNCHANGED <<did, confirm, settlements, interrupted, cur_state, timer, cbVars,
                 wsVars, kioskVars, payment_status, faults>>

MainStep ==
  \/ CheckStatus \/ WaitForKiosk \/ CompareStates \/ AssignState
  \/ EnterInit \/ EnterIdleOrMessage \/ EnterTrans \/ PreAuthorizeReturns
  \/ EnterComplete \/ Decide \/ Settle \/ Serviced \/ StartPayment \/ Expire

\* Five seconds have passed.
Tick ==
  /\ timer = "running" /\ timer' = "out"
  /\ UNCHANGED <<mainVars, cbVars, wsVars, kioskVars, cur_state, new_state,
                 payment_status, faults>>

sigint_handler ==
  /\ ~interrupted /\ interrupted' = TRUE
  /\ UNCHANGED <<pc, did, confirm, settlements, stateVars, cbVars, wsVars, kioskVars,
                 payment_status, faults>>
-----------------------------------------------------------------------------
(* Transaction_Complete_Callback, on the commands thread *)

CallbackStarts ==
  /\ cbpc = "idle" /\ notices # <<>>
  /\ cbpc' = "copy" /\ cbresp' = Head(notices) /\ left' = Fields
  /\ notices' = Tail(notices)
  /\ UNCHANGED <<mainVars, last_payment_response, wsVars, running, started, approved,
                 late, stateVars, payment_status, faults>>

\* memcpy: one field, and then the other.
\* Mutant: the callback goes on after the first field.
CallbackCopies_part ==
  /\ cbpc = "copy"
  /\ \E f \in left :
       /\ last_payment_response' = [last_payment_response EXCEPT ![f] = cbresp[f]]
       /\ left' = left \ {f}
  /\ cbpc' = "test"
  /\ UNCHANGED <<mainVars, cbresp, wsVars, kioskVars, stateVars, payment_status, faults>>

CallbackCopies ==
  /\ cbpc = "copy"
  /\ \E f \in left :
       /\ last_payment_response' = [last_payment_response EXCEPT ![f] = cbresp[f]]
       /\ left' = left \ {f}
  /\ cbpc' = IF left' = {} THEN "test" ELSE "copy"
  /\ UNCHANGED <<mainVars, cbresp, wsVars, kioskVars, stateVars, payment_status, faults>>

\* Mutant: only an approval ends ST_TRANS.
CallbackTests_approved ==
  /\ cbpc = "test"
  /\ cbpc' = IF cur_state = "ST_TRANS" /\ last_payment_response.status \in Approving
             THEN "set" ELSE "idle"
  /\ UNCHANGED <<mainVars, cbresp, left, last_payment_response, wsVars, kioskVars,
                 stateVars, payment_status, faults>>

CallbackTests ==
  /\ cbpc = "test"
  /\ cbpc' = IF cur_state = "ST_TRANS" THEN "set" ELSE "idle"
  /\ UNCHANGED <<mainVars, cbresp, left, last_payment_response, wsVars, kioskVars,
                 stateVars, payment_status, faults>>

CallbackSets ==
  /\ cbpc = "set" /\ cbpc' = "idle"
  /\ new_state' = "ST_TRANS_COMPLETE"
  /\ UNCHANGED <<mainVars, cbresp, left, last_payment_response, wsVars, kioskVars,
                 cur_state, timer, payment_status, faults>>

CallbackStep == CallbackStarts \/ CallbackCopies \/ CallbackTests \/ CallbackSets
-----------------------------------------------------------------------------
(* callback_websocket, inside lws_service *)

Servicing == pc = "service" /\ ~interrupted

Established(c) ==
  /\ Servicing /\ c \notin connected /\ connects < MaxConnects
  /\ connected' = connected \cup {c} /\ connects' = connects + 1
  /\ wsi' = c /\ payment_status' = 1 /\ since' = [since EXCEPT ![c] = ended]
  /\ UNCHANGED <<mainVars, cbVars, kioskVars, stateVars, sendVars, faults>>

\* LWS_CALLBACK_SERVER_WRITEABLE: whoever can be written to first is told.
Writeable(c) ==
  /\ Servicing /\ c \in writable /\ writable' = writable \ {c}
  /\ told' = IF send_message_flag THEN json_message ELSE told
  /\ send_message_flag' = FALSE
  /\ UNCHANGED <<mainVars, cbVars, wsi, connected, connects, json_message, ended, since,
                 kioskVars, stateVars, payment_status, faults>>

\* Mutant: _wsi is not cleared.
Disconnected_kept(c) ==
  /\ Servicing /\ c \in connected
  /\ connected' = connected \ {c}
  /\ writable' = writable \ {c} /\ payment_status' = 0
  /\ UNCHANGED <<mainVars, cbVars, wsi, connects, send_message_flag, json_message, ended,
                 told, since, kioskVars, stateVars, faults>>

Disconnected(c) ==
  /\ Servicing /\ c \in connected
  /\ connected' = connected \ {c}
  /\ wsi' = NULL /\ payment_status' = 0
  /\ writable' = writable \ {c} /\ since' = [since EXCEPT ![c] = 0]
  /\ UNCHANGED <<mainVars, cbVars, connects, send_message_flag, json_message, ended, told,
                 kioskVars, stateVars, faults>>
-----------------------------------------------------------------------------
(* The kiosk *)

KioskCompletes ==
  /\ running # 0 /\ running' = 0
  /\ \E st \in Statuses :
       /\ approved' = IF st \in Approving THEN approved \cup {running} ELSE approved
       /\ \/ /\ notices' = Append(notices, [status |-> st, reference |-> running])
             /\ UNCHANGED faults
          \/ UNCHANGED notices /\ Fault
  /\ UNCHANGED <<mainVars, cbVars, wsVars, started, late, stateVars, payment_status>>
-----------------------------------------------------------------------------
Next ==
  \/ MainStep \/ Tick \/ sigint_handler
  \/ CallbackStep
  \/ \E c \in Clients : Established(c) \/ Writeable(c) \/ Disconnected(c)
  \/ KioskCompletes

Spec == Init /\ [][Next]_vars

\* The main thread, unless it waits for a kiosk that is down, the commands thread
\* and the clock run; the kiosk ends each transaction, which has a timeout of its
\* own.  Nothing is assumed of clients, nor that a kiosk that is down comes back.
FairSpec == /\ Spec
            /\ WF_vars(pc # "offline" /\ MainStep)
            /\ WF_vars(CallbackStep) /\ WF_vars(Tick)
            /\ WF_vars(KioskCompletes)

\* Assumed of the kiosk, not of the code: each time it is down it comes back.
KioskComesBack == (pc = "offline") ~> (pc # "offline")
-----------------------------------------------------------------------------
(* Properties *)

\* The variables keep their types: the callback owes fields only while it
\* copies, and main decides and settles only in ST_TRANS_COMPLETE.
TypeOK ==
  /\ pc \in {"check", "offline", "compare", "assign", "enter", "preauth", "decide",
             "settle", "service", "payment", "expire"}
  /\ cur_state \in DEMO_STATE \cup {"_ST_INVALID"} /\ new_state \in DEMO_STATE
  /\ timer \in {"off", "running", "out"}
  /\ did \in BOOLEAN /\ confirm \in BOOLEAN /\ interrupted \in BOOLEAN
  /\ settlements \in Seq(Nat)
  /\ cbpc \in {"idle", "copy", "test", "set"} /\ left \subseteq Fields
  /\ cbpc = "copy" <=> left # {}
  /\ cbresp \in Response /\ last_payment_response \in Response
  /\ payment_status \in {0, 1} /\ wsi \in Clients \cup {NULL}
  /\ connected \subseteq Clients /\ connects \in 0 .. MaxConnects
  /\ send_message_flag \in BOOLEAN /\ writable \subseteq connected
  /\ {json_message, ended, told} \subseteq Nat /\ since \in [Clients -> Nat]
  /\ running \in 0 .. MaxTrans /\ started \in 0 .. MaxTrans /\ running <= started
  /\ approved \subseteq 1 .. MaxTrans /\ notices \in Seq(Response)
  /\ late \in BOOLEAN /\ faults \in 0 .. MaxFaults
  /\ pc \in {"decide", "settle"} => cur_state = "ST_TRANS_COMPLETE"
  /\ pc = "preauth" => cur_state = "ST_TRANS"

Settled == {settlements[i] : i \in DOMAIN settlements}

\* While nothing fails, main confirms or voids transactions the kiosk approved,
\* and each of them once: the callback never overwrites the response, nor half
\* of it, between the test of its status and the use of its reference
\* (otiKioskDemo.c:85 against 314-324).
SettlesApproved ==
  faults = 0 =>
    /\ Settled \subseteq approved
    /\ \A i, j \in DOMAIN settlements : settlements[i] = settlements[j] => i = j

\* A payment is asked for only on behalf of a client that is still there, and
\* the stored websocket is never that of a client that has gone
\* (otiKioskDemo.c:118-122, 159-162, 312).
ClientPresent ==
  /\ payment_status = 1 => wsi # NULL
  /\ wsi # NULL => wsi \in connected

\* When nothing fails, every transaction that the kiosk approves is confirmed or
\* voided, as libotikiosk.h:64 asks, however the completion and the return of
\* PreAuthorize follow each other (otiKioskDemo.c:88-89 against 302-307).
ApprovedSettled ==
  [](faults = 0) => \A t \in 1 .. MaxTrans : (t \in approved) ~> (t \in Settled)

\* ST_TRANS, which has no expiration, is left for the message that ends the
\* payment, whatever its outcome, when nothing fails (otiKioskDemo.c:303, 331).
TransLeaves ==
  [](faults = 0) => ((cur_state = "ST_TRANS") ~> (cur_state = "ST_MESSAGE"))

\* The message is taken down: from ST_MESSAGE the demo goes back to ST_IDLE, or
\* starts over, whichever calls fail, if a kiosk that is down comes back: until it
\* does main waits for it, with the message shown (otiKioskDemo.c:272-276, 335,
\* 353-360).
ReturnsToIdle ==
  KioskComesBack => ((cur_state = "ST_MESSAGE") ~> (cur_state \in {"ST_IDLE", "ST_INIT"}))

\* A client is told of a payment that ended after it had connected, and no outcome is
\* told twice: not the one that a client did not wait for, and not by two sockets that
\* become writable (send_json_message against LWS_CALLBACK_SERVER_WRITEABLE).
ToldIsNews ==
  [][\A c \in writable : c \notin writable' /\ c \in connected' /\ send_message_flag =>
       json_message > told /\ json_message > since[c]]_vars
=============================================================================
