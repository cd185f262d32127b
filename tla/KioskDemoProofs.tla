--------------------------- MODULE KioskDemoProofs ---------------------------
(***************************************************************************)
(* What holds of KioskDemo for every set of clients and statuses and any   *)
(* number of transactions, connections and faults.                         *)
(***************************************************************************)
EXTENDS KioskDemo, SequenceTheorems, TLAPS

-----------------------------------------------------------------------------
(* Types, and the client that main remembers.  They go together: a message *)
(* makes the remembered client writable, and only who is there may be.     *)

\* The demo starts with its types and no client;
LEMMA InitTypes ==
  ASSUME Init
  PROVE  TypeOK /\ ClientPresent
<1>1. did \in BOOLEAN /\ confirm \in BOOLEAN /\ interrupted \in BOOLEAN /\ late \in BOOLEAN
      /\ send_message_flag \in BOOLEAN
  BY Zenon DEF Init
<1>2. NoResponse \in Response
  BY DEF NoResponse, Response
<1>. QED
  BY <1>1, <1>2, ConstantsAssumption DEF Init, TypeOK, ClientPresent, DEMO_STATE

\* a response has a status and a reference;
LEMMA ResponseFields ==
  ASSUME NEW r \in Response
  PROVE  r.status \in Statuses \cup {"none"} /\ r.reference \in Nat
BY DEF Response

\* main keeps both,
LEMMA MainTypes ==
  ASSUME TypeOK, ClientPresent, MainStep
  PROVE  TypeOK' /\ ClientPresent'
<1>. USE ConstantsAssumption
     DEF TypeOK, ClientPresent, DEMO_STATE, Fault, Answered, Entering, cbVars, wsVars, sendVars,
         kioskVars, stateVars
<1>1. CASE CheckStatus
  BY <1>1 DEF CheckStatus
<1>2. CASE WaitForKiosk
  BY <1>2 DEF WaitForKiosk
<1>3. CASE CompareStates
  BY <1>3 DEF CompareStates
<1>4. CASE AssignState
  BY <1>4 DEF AssignState
<1>5. CASE EnterInit
  BY <1>5 DEF EnterInit
<1>6. CASE EnterIdleOrMessage
  BY <1>6 DEF EnterIdleOrMessage
<1>7. CASE EnterTrans
  <2>1. did' \in BOOLEAN
    BY <1>7, Zenon DEF EnterTrans
  <2>. QED  BY <1>7, <2>1 DEF EnterTrans
<1>8. CASE PreAuthorizeReturns
  <2>1. late' \in BOOLEAN
    BY <1>8, Zenon DEF PreAuthorizeReturns
  <2>2. did' \in BOOLEAN
    BY <1>8, Zenon DEF PreAuthorizeReturns
  <2>3. timer' \in {"off", timer} /\ new_state' \in {new_state, "ST_MESSAGE"} /\ pc' = "service"
    BY <1>8 DEF PreAuthorizeReturns
  <2>4. faults' \in 0 .. MaxFaults
    BY <1>8 DEF PreAuthorizeReturns
  <2>5. UNCHANGED <<confirm, settlements, interrupted, cur_state, cbVars, wsVars,
                    running, started, approved, notices, payment_status>>
    BY <1>8 DEF PreAuthorizeReturns
  <2>. QED  BY <2>1, <2>2, <2>3, <2>4, <2>5
<1>9. CASE EnterComplete
  <2>1. send_message_flag' \in BOOLEAN
    BY <1>9, Zenon DEF EnterComplete, send_json_message
  <2>. QED  BY <1>9, <2>1 DEF EnterComplete, send_json_message
<1>10. CASE Decide
  BY <1>10 DEF Decide
<1>11. CASE Settle
  <2>1. confirm' \in BOOLEAN
    BY <1>11, Zenon DEF Settle
  <2>2. last_payment_response.reference \in Nat
    BY ResponseFields
  <2>3. settlements' \in Seq(Nat)
    <3>1. CASE settlements' = Append(settlements, last_payment_response.reference)
      BY <2>2, <3>1, AppendProperties
    <3>2. CASE settlements' = settlements
      BY <3>2
    <3>. QED  BY <1>11, <3>1, <3>2 DEF Settle
  <2>. QED  BY <1>11, <2>1, <2>3 DEF Settle
<1>12. CASE Serviced
  BY <1>12 DEF Serviced
<1>13. CASE StartPayment
  BY <1>13 DEF StartPayment
<1>14. CASE Expire
  BY <1>14 DEF Expire
<1>. QED
  BY <1>1, <1>2, <1>3, <1>4, <1>5, <1>6, <1>7, <1>8, <1>9, <1>10, <1>11, <1>12, <1>13, <1>14
  DEF MainStep

\* the transaction callback does,
LEMMA CallbackTypes ==
  ASSUME TypeOK, ClientPresent, CallbackStep
  PROVE  TypeOK' /\ ClientPresent'
<1>. USE DEF TypeOK, ClientPresent, mainVars, wsVars, sendVars, kioskVars, stateVars
<1>1. CASE CallbackStarts
  <2>1. Head(notices) \in Response /\ Tail(notices) \in Seq(Response)
    BY <1>1 DEF CallbackStarts
  <2>. QED  BY <1>1, <2>1 DEF CallbackStarts, Fields
<1>2. CASE CallbackCopies
  <2>1. last_payment_response' \in Response
    BY <1>2 DEF CallbackCopies, Response, Fields
  <2>. QED  BY <1>2, <2>1 DEF CallbackCopies
<1>3. CASE CallbackTests
  BY <1>3 DEF CallbackTests
<1>4. CASE CallbackSets
  BY <1>4 DEF CallbackSets, DEMO_STATE
<1>. QED  BY <1>1, <1>2, <1>3, <1>4 DEF CallbackStep

\* clients, the kiosk, time and the signal do,
LEMMA OtherTypes ==
  ASSUME TypeOK, ClientPresent,
         \/ Tick \/ sigint_handler \/ KioskCompletes \/ UNCHANGED vars
         \/ \E c \in Clients : Established(c) \/ Writeable(c) \/ Disconnected(c)
  PROVE  TypeOK' /\ ClientPresent'
<1>. USE ConstantsAssumption
     DEF TypeOK, ClientPresent, mainVars, cbVars, wsVars, sendVars, kioskVars, stateVars
<1>1. CASE Tick
  BY <1>1 DEF Tick
<1>2. CASE sigint_handler
  BY <1>2 DEF sigint_handler
<1>3. ASSUME NEW c \in Clients, Established(c) PROVE TypeOK' /\ ClientPresent'
  BY <1>3 DEF Established
<1>4. ASSUME NEW c \in Clients, Writeable(c) PROVE TypeOK' /\ ClientPresent'
  <2>1. told' \in Nat /\ send_message_flag' \in BOOLEAN
    BY <1>4 DEF Writeable
  <2>. QED  BY <1>4, <2>1 DEF Writeable
<1>5. ASSUME NEW c \in Clients, Disconnected(c) PROVE TypeOK' /\ ClientPresent'
  BY <1>5 DEF Disconnected
<1>6. CASE KioskCompletes
  <2>1. PICK st \in Statuses :
          /\ approved' = IF st \in Approving THEN approved \cup {running} ELSE approved
          /\ \/ notices' = Append(notices, [status |-> st, reference |-> running]) /\ UNCHANGED faults
             \/ UNCHANGED notices /\ Fault
    BY <1>6 DEF KioskCompletes
  <2>2. [status |-> st, reference |-> running] \in Response
    BY DEF Response
  <2>3. notices' \in Seq(Response)
    <3>1. CASE notices' = Append(notices, [status |-> st, reference |-> running])
      BY <2>2, <3>1, AppendProperties
    <3>2. CASE notices' = notices
      BY <3>2
    <3>. QED  BY <2>1, <3>1, <3>2
  <2>4. approved' \subseteq 1 .. MaxTrans
    BY <1>6, <2>1 DEF KioskCompletes
  <2>. QED  BY <1>6, <2>1, <2>3, <2>4 DEF KioskCompletes, Fault
<1>7. CASE UNCHANGED vars
  BY <1>7 DEF vars
<1>. QED  BY <1>1, <1>2, <1>3, <1>4, <1>5, <1>6, <1>7

\* and so does every step.
LEMMA NextTypes ==
  ASSUME TypeOK, ClientPresent, [Next]_vars
  PROVE  TypeOK' /\ ClientPresent'
BY MainTypes, CallbackTypes, OtherTypes DEF Next

\* Main, the callback and the websocket server keep the types of what they share, for
\* any clients, statuses and bounds.
THEOREM TypeCorrect == Spec => []TypeOK
<1>1. TypeOK /\ ClientPresent /\ [Next]_vars => (TypeOK /\ ClientPresent)'
  BY NextTypes
<1>. QED  BY <1>1, InitTypes, PTL DEF Spec

\* However clients come and go, a payment is asked for only while the remembered
\* client is there (callback_websocket).
THEOREM ClientIsPresent == Spec => []ClientPresent
<1>1. TypeOK /\ ClientPresent /\ [Next]_vars => (TypeOK /\ ClientPresent)'
  BY NextTypes
<1>. QED  BY <1>1, InitTypes, PTL DEF Spec
-----------------------------------------------------------------------------
(* The invariant behind ToldIsNews: the pending message tells of a later    *)
(* end than any told before, and than any that a client it may go to came   *)
(* after.                                                                   *)
NewsInv ==
  /\ told <= ended /\ json_message <= ended /\ \A c \in Clients : since[c] <= ended
  /\ send_message_flag => told < json_message
  /\ \A c \in writable : since[c] < json_message

Types == TypeOK /\ ClientPresent

\* What the other steps leave alone.
newsVars == <<sendVars, since>>

\* Only the server and the end of a payment touch what clients are told.
LEMMA OtherSteps ==
  ASSUME Types, [Next]_vars, ~EnterComplete,
         \A c \in Clients : ~Established(c) /\ ~Writeable(c) /\ ~Disconnected(c)
  PROVE  UNCHANGED newsVars
<1>. USE DEF newsVars, wsVars, sendVars
<1>1. CASE MainStep
  BY <1>1
  DEF MainStep, CheckStatus, WaitForKiosk, CompareStates, AssignState, EnterInit,
      EnterIdleOrMessage, EnterTrans, PreAuthorizeReturns, Decide, Settle, Serviced,
      StartPayment, Expire
<1>2. CASE CallbackStep
  BY <1>2 DEF CallbackStep, CallbackStarts, CallbackCopies, CallbackTests, CallbackSets
<1>3. CASE Tick \/ sigint_handler \/ KioskCompletes \/ UNCHANGED vars
  BY <1>3 DEF Tick, sigint_handler, KioskCompletes, vars
<1>. QED  BY <1>1, <1>2, <1>3 DEF Next

\* A client that a message is due to was there before the payment ended.
LEMMA NewsInductive ==
  ASSUME Types, NewsInv, [Next]_vars
  PROVE  NewsInv'
<1>. USE DEF Types, TypeOK, ClientPresent, NewsInv, sendVars
<1>1. CASE EnterComplete
  BY <1>1 DEF EnterComplete, send_json_message
<1>2. ASSUME NEW c \in Clients, Established(c) PROVE NewsInv'
  BY <1>2 DEF Established
<1>3. ASSUME NEW c \in Clients, Writeable(c) PROVE NewsInv'
  BY <1>3 DEF Writeable
<1>4. ASSUME NEW c \in Clients, Disconnected(c) PROVE NewsInv'
  BY <1>4 DEF Disconnected
<1>5. CASE UNCHANGED newsVars
  BY <1>5 DEF newsVars
<1>. QED  BY <1>1, <1>2, <1>3, <1>4, <1>5, OtherSteps

\* Any number of clients may connect, leave and become writable in any order: a client
\* is told only of a payment that ended after it had connected, and each end once.
THEOREM OnlyNewsIsTold == Spec => ToldIsNews
<1>1. Init => NewsInv
  BY DEF Init, NewsInv
<1>2. Types /\ NewsInv /\ [Next]_vars => NewsInv'
  BY NewsInductive
<1>3. NewsInv =>
        \A c \in writable : c \notin writable' /\ c \in connected' /\ send_message_flag =>
          json_message > told /\ json_message > since[c]
  BY DEF NewsInv
<1>4. Init => Types
  BY InitTypes DEF Types
<1>5. Types /\ [Next]_vars => Types'
  BY NextTypes DEF Types
<1>. QED  BY <1>1, <1>2, <1>3, <1>4, <1>5, PTL DEF Spec, ToldIsNews
-----------------------------------------------------------------------------
(* The invariant behind SettlesApproved.  While nothing fails there is at   *)
(* most one transaction that is not over, and it is the last one started.  *)

\* It is with the kiosk, on its way, or in the callback.
Outstanding == running # 0 \/ notices # <<>> \/ cbpc # "idle"

AtOnePlace ==
  /\ running # 0 => running = started /\ notices = <<>> /\ cbpc = "idle"
  /\ notices # <<>> => Len(notices) = 1 /\ cbpc = "idle"

\* What is said of a transaction is said of the last one, and is so.
SaysSo(r) == r.reference = started /\ (r.status \in Approving => started \in approved)

Truthful ==
  /\ notices # <<>> => SaysSo(notices[1])
  /\ cbpc # "idle" => SaysSo(cbresp)
  /\ cbpc # "idle" => \A f \in Fields \ left : last_payment_response[f] = cbresp[f]

\* Main waits for it, and has not settled it.
MainWaits ==
  Outstanding =>
    /\ cur_state = "ST_TRANS" /\ new_state = "ST_TRANS"
    /\ pc \notin {"assign", "enter"} /\ (pc = "preauth" => did)
    /\ started \notin Settled

\* When it is over, what was said of it stays until main has settled it.
MainSettles ==
  /\ new_state = "ST_TRANS_COMPLETE" =>
       /\ SaysSo(last_payment_response) /\ started \notin Settled /\ ~Outstanding
       /\ \/ cur_state = "ST_TRANS" /\ (pc = "preauth" => did)
          \/ cur_state = "ST_TRANS_COMPLETE" /\ pc \in {"enter", "decide", "settle"}
  /\ pc \in {"decide", "settle"} => new_state = "ST_TRANS_COMPLETE"
  /\ pc = "settle" => last_payment_response.status \in Approving
  /\ pc = "enter" => new_state = cur_state

SettledOnce ==
  /\ Settled \subseteq approved /\ Settled \subseteq 1 .. started
  /\ \A i, j \in DOMAIN settlements : settlements[i] = settlements[j] => i = j

Orderly == /\ pc # "offline" /\ late = FALSE
           /\ AtOnePlace /\ Truthful /\ MainWaits /\ MainSettles /\ SettledOnce

SettleInv == faults = 0 => Orderly

\* One more settlement, of what was not settled.
LEMMA SettleOneMore ==
  ASSUME settlements \in Seq(Nat), started \in Nat, started \notin Settled, SettledOnce,
         started \in approved, started \in 1 .. started,
         settlements' = Append(settlements, started), approved' = approved, started' = started
  PROVE  SettledOnce'
<1>. DEFINE n == Len(settlements)
<1>1. /\ DOMAIN settlements = 1 .. n /\ DOMAIN settlements' = 1 .. n + 1 /\ n \in Nat
      /\ settlements'[n + 1] = started /\ \A i \in 1 .. n : settlements'[i] = settlements[i]
  BY AppendProperties
<1>2. \A i \in 1 .. n : settlements[i] \in Settled
  BY <1>1 DEF Settled
<1>3. \A x \in Settled' : x = started \/ x \in Settled
  BY <1>1 DEF Settled
<1>4. Settled' \subseteq approved' /\ Settled' \subseteq 1 .. started'
  BY <1>3 DEF SettledOnce
<1>5. \A i, j \in DOMAIN settlements' : settlements'[i] = settlements'[j] => i = j
  BY <1>1, <1>2 DEF SettledOnce
<1>. QED  BY <1>4, <1>5 DEF SettledOnce

\* What main has settled, and whether once, depends on nothing but these;
LEMMA SettledStays ==
  ASSUME SettledOnce, settlements' = settlements, approved' = approved, started' = started
  PROVE  Settled' = Settled /\ SettledOnce'
<1>1. Settled' = Settled
  BY DEF Settled
<1>. QED  BY <1>1 DEF SettledOnce

\* While nothing fails: main settles in turn,
LEMMA MainOrderly ==
  ASSUME Types, Orderly, faults = 0, faults' = 0, MainStep
  PROVE  Orderly'
<1>a. settlements' = settlements /\ approved' = approved /\ started' = started =>
        Settled' = Settled /\ SettledOnce'
  <2>1. SettledOnce
    BY DEF Orderly
  <2>. QED  BY <2>1, SettledStays
<1>. USE DEF Types, TypeOK, Orderly, Fault, Answered, Entering, Outstanding, AtOnePlace, Truthful,
         MainWaits, MainSettles, SaysSo, cbVars, wsVars, sendVars, kioskVars, stateVars
<1>1. CASE CheckStatus
  BY <1>1, <1>a DEF CheckStatus
<1>2. CASE WaitForKiosk
  BY <1>2, <1>a DEF WaitForKiosk
<1>3. CASE CompareStates
  BY <1>3, <1>a DEF CompareStates
<1>4. CASE AssignState
  BY <1>4, <1>a DEF AssignState
<1>5. CASE EnterInit
  BY <1>5, <1>a DEF EnterInit
<1>6. CASE EnterIdleOrMessage
  BY <1>6, <1>a DEF EnterIdleOrMessage
<1>7. CASE EnterTrans
  <2>1. Settled' = Settled
    BY <1>7 DEF EnterTrans, Settled
  <2>2. SettledOnce' /\ (running' # 0 => started' \notin Settled)
    BY <1>7, <2>1 DEF EnterTrans, SettledOnce
  <2>. QED  BY <1>7, <2>1, <2>2 DEF EnterTrans
<1>8. CASE PreAuthorizeReturns
  <2>1. late' = FALSE /\ new_state' = IF did THEN new_state ELSE "ST_MESSAGE"
    BY <1>8 DEF PreAuthorizeReturns
  <2>. QED  BY <1>8, <1>a, <2>1 DEF PreAuthorizeReturns
<1>9. CASE EnterComplete
  BY <1>9, <1>a DEF EnterComplete
<1>10. CASE Decide
  BY <1>10, <1>a DEF Decide
<1>11. CASE Settle
  <2>1. settlements' = Append(settlements, started) /\ started \notin Settled /\ started \in approved
    BY <1>11 DEF Settle
  <2>2. started \in approved /\ started \in 1 .. started
    BY <2>1, <1>11 DEF SettledOnce
  <2>3. SettledOnce'
    BY <1>11, <2>1, <2>2, SettleOneMore DEF Settle
  <2>. QED  BY <1>11, <2>3 DEF Settle
<1>12. CASE Serviced
  BY <1>12, <1>a DEF Serviced
<1>13. CASE StartPayment
  BY <1>13, <1>a DEF StartPayment
<1>14. CASE Expire
  BY <1>14, <1>a DEF Expire
<1>. QED
  BY <1>1, <1>2, <1>3, <1>4, <1>5, <1>6, <1>7, <1>8, <1>9, <1>10, <1>11, <1>12, <1>13, <1>14
  DEF MainStep

\* the callback reports what the kiosk approved,
LEMMA CallbackOrderly ==
  ASSUME Types, Orderly, faults = 0, faults' = 0, CallbackStep
  PROVE  Orderly'
<1>a. settlements' = settlements /\ approved' = approved /\ started' = started =>
        Settled' = Settled /\ SettledOnce'
  <2>1. SettledOnce
    BY DEF Orderly
  <2>. QED  BY <2>1, SettledStays
<1>. USE DEF Types, TypeOK, Orderly, Outstanding, AtOnePlace, Truthful,
         MainWaits, MainSettles, SaysSo, mainVars, wsVars, sendVars, kioskVars, stateVars
<1>1. CASE CallbackStarts
  <2>1. Head(notices) = notices[1] /\ Tail(notices) = <<>>
    BY <1>1 DEF CallbackStarts
  <2>. QED  BY <1>1, <1>a, <2>1 DEF CallbackStarts, Fields
<1>2. CASE CallbackCopies
  BY <1>2, <1>a DEF CallbackCopies, Fields, Response
<1>3. CASE CallbackTests
  BY <1>3, <1>a DEF CallbackTests
<1>4. CASE CallbackSets
  BY <1>4, <1>a DEF CallbackSets, Fields
<1>. QED  BY <1>1, <1>2, <1>3, <1>4 DEF CallbackStep

\* the others interfere with neither,
LEMMA OtherOrderly ==
  ASSUME Types, Orderly, faults = 0, faults' = 0,
         \/ Tick \/ sigint_handler \/ KioskCompletes \/ UNCHANGED vars
         \/ \E c \in Clients : Established(c) \/ Writeable(c) \/ Disconnected(c)
  PROVE  Orderly'
<1>a. settlements' = settlements /\ approved' = approved /\ started' = started =>
        Settled' = Settled /\ SettledOnce'
  <2>1. SettledOnce
    BY DEF Orderly
  <2>. QED  BY <2>1, SettledStays
<1>. USE DEF Types, TypeOK, Orderly, Outstanding, AtOnePlace, Truthful,
         MainWaits, MainSettles, SaysSo, mainVars, cbVars, wsVars, sendVars, kioskVars, stateVars
<1>1. CASE Tick \/ sigint_handler \/ UNCHANGED vars
  BY <1>1, <1>a DEF Tick, sigint_handler, vars
<1>2. ASSUME NEW c \in Clients, Established(c) \/ Writeable(c) \/ Disconnected(c) PROVE Orderly'
  BY <1>2, <1>a DEF Established, Writeable, Disconnected
<1>3. CASE KioskCompletes
  <2>1. PICK st \in Statuses :
          /\ approved' = IF st \in Approving THEN approved \cup {running} ELSE approved
          /\ notices' = Append(notices, [status |-> st, reference |-> running])
    BY <1>3 DEF KioskCompletes, Fault
  <2>2. notices' = <<[status |-> st, reference |-> running]>>
    BY <1>3, <2>1 DEF KioskCompletes
  <2>3. Settled' = Settled /\ SettledOnce'
    BY <1>3, <2>1 DEF KioskCompletes, SettledOnce, Settled
  <2>. QED  BY <1>3, <2>1, <2>2, <2>3 DEF KioskCompletes
<1>. QED  BY <1>1, <1>2, <1>3

\* and so the order is kept by every step.
LEMMA SettleInductive ==
  ASSUME Types, SettleInv, [Next]_vars
  PROVE  SettleInv'
<1>1. SUFFICES ASSUME faults' = 0 PROVE Orderly'
  BY DEF SettleInv
<1>2. faults' = faults \/ faults' = faults + 1
  <2>. USE DEF Fault, Answered
  <2>1. CASE MainStep
    BY <2>1
    DEF MainStep, CheckStatus, WaitForKiosk, CompareStates, AssignState, EnterInit,
        EnterIdleOrMessage, EnterTrans, PreAuthorizeReturns, EnterComplete, Decide, Settle,
        Serviced, StartPayment, Expire
  <2>2. CASE CallbackStep
    BY <2>2 DEF CallbackStep, CallbackStarts, CallbackCopies, CallbackTests, CallbackSets
  <2>3. CASE Tick \/ sigint_handler \/ KioskCompletes \/ UNCHANGED vars
    BY <2>3 DEF Tick, sigint_handler, KioskCompletes, vars
  <2>4. ASSUME NEW c \in Clients, Established(c) \/ Writeable(c) \/ Disconnected(c)
        PROVE  faults' = faults
    BY <2>4 DEF Established, Writeable, Disconnected
  <2>. QED  BY <2>1, <2>2, <2>3, <2>4 DEF Next
<1>3. faults = 0 /\ Orderly
  BY <1>1, <1>2 DEF SettleInv, Types, TypeOK
<1>. QED  BY <1>1, <1>3, MainOrderly, CallbackOrderly, OtherOrderly DEF Next

\* Main settles only what the kiosk approved, and once, in every order of its steps, the
\* callback's and the kiosk's, for any number of transactions.
THEOREM SettlesOnlyApproved == Spec => []SettlesApproved
<1>1. Init => SettleInv
  BY DEF Init, SettleInv, Orderly, Outstanding, AtOnePlace, Truthful, MainWaits, MainSettles,
         SettledOnce, Settled, NoResponse
<1>2. Types /\ SettleInv /\ [Next]_vars => SettleInv'
  BY SettleInductive
<1>3. SettleInv => SettlesApproved
  BY DEF SettleInv, Orderly, SettledOnce, SettlesApproved
<1>4. Init => Types
  BY InitTypes DEF Types
<1>5. Types /\ [Next]_vars => Types'
  BY NextTypes DEF Types
<1>. QED  BY <1>1, <1>2, <1>3, <1>4, <1>5, PTL DEF Spec
=============================================================================
