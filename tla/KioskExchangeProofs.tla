------------------------- MODULE KioskExchangeProofs -------------------------
(***************************************************************************)
(* What holds of KioskExchange for every value of its constants.           *)
(***************************************************************************)
EXTENDS KioskExchange, SequenceTheorems, TLAPS

(* The operators the actions are built from. *)

\* Every API function sends a natural id and ends with one of four parsers.
LEMMA ApiTypes ==
  ASSUME NEW m \in Method
  PROVE  Api[m].sent \in Nat /\ Api[m].parser \in {"status", "text", "bool", "cancel"}
BY DEF Method, Api, Entry

\* Whatever an API function parses, it ends with a KIOSK_RET or a crash.
LEMMA ParserTypes ==
  ASSUME NEW m \in Method, NEW a
  PROVE  ApiReturn(m, a) \in Outcome /\ ParserOutcomes(m) \subseteq Outcome
<1>1. \A e : /\ parse_resp_result(a, e) \in {"OK", "PARSING_ERROR"}
             /\ check_response_ok(a, e) \in {"OK", "PARSING_ERROR", "NEGATIVE_RESP"}
             /\ parse_get_status(a, e) \in {"OK", "PARSING_ERROR"}
             /\ parse_cancel_resp(a, e) \in {"OK", "PARSING_ERROR", "CRASH"}
  BY DEF parse_resp_result, check_response_ok, parse_get_status, parse_cancel_resp
<1>2. ApiReturn(m, a) \in {"OK", "PARSING_ERROR", "NEGATIVE_RESP", "CRASH"}
  BY <1>1, ApiTypes DEF ApiReturn
<1>3. ParserOutcomes(m) \subseteq {"OK", "PARSING_ERROR", "NEGATIVE_RESP", "CRASH"}
  BY DEF ParserOutcomes
<1>. QED  BY <1>2, <1>3 DEF Outcome, KIOSK_RET

\* What is no message parses as one without fields.
LEMMA GarbageType == Garbage \in Message /\ NoParams \in Params
BY DEF Garbage, Message, NoParams, Params, TransactionStatus, NoId, Result

\* Any bytes parse as a message.
LEMMA ParsedType ==
  ASSUME NEW b \in Seq(Fragment)
  PROVE  Parsed(b) \in Message
<1>1. Len(b) > 0 => b[1] \in Fragment
  BY ElementOfSeq, LenProperties
<1>. QED  BY <1>1, GarbageType DEF Parsed, Fragment

\* A message travels as a sequence of its fragments.
LEMMA FragmentsType ==
  ASSUME NEW m \in Message
  PROVE  Fragments(m) \in Seq(Fragment)
<1>1. m.len \in Nat /\ \A i \in 1..m.len : [msg |-> m, part |-> i] \in Fragment
  BY DEF Message, Fragment
<1>. QED  BY <1>1, IsASeq DEF Fragments

\* Any piece of what has been received is a sequence of fragments.
LEMMA PieceType ==
  ASSUME NEW b \in Seq(Fragment), NEW i \in Nat \ {0}, NEW j \in Nat, j <= Len(b)
  PROVE  SubSeq(b, i, j) \in Seq(Fragment)
<1>1. \A k \in i..j : b[k] \in Fragment
  BY ElementOfSeq, LenProperties
<1>. QED  BY <1>1, SubSeqProperties
-----------------------------------------------------------------------------
(* Type correctness. *)

\* The exchange starts with its types;
LEMMA InitTypes == Init => TypeOK
<1>. SUFFICES ASSUME Init PROVE TypeOK
  OBVIOUS
<1>1. /\ apc \in AppPc /\ rpc \in CommandsThreadPc /\ method \in Methods
      /\ ret \in Outcome \cup {"none"} /\ answer \in Message
      /\ sockfd \in {"open", "closed"}
  BY GarbageType DEF Init, AppPc, CommandsThreadPc
<1>2. torn \in BOOLEAN /\ peer \in BOOLEAN /\ trans_complete_cb \in BOOLEAN
  BY ConstantsAssumption DEF Init
<1>3. /\ resp \in Seq(Fragment) /\ work_buffer \in Seq(Fragment)
      /\ to_client \in Seq(Fragment) /\ to_kiosk \in Seq(Frame)
      /\ delivered \in Seq(Nat)
  BY EmptySeq DEF Init
<1>4. /\ resp_len \in Nat /\ expected_id \in Nat \cup {-1} /\ calls \in Nat
      /\ sema_resp_ready \in Nat /\ sema_resp_done \in Nat
      /\ current_resp_len \in Nat /\ notices \in Nat /\ drops \in Nat
  BY DEF Init
<1>5. missed \in SUBSET Nat /\ due \in SUBSET Nat /\ acked \in SUBSET Nat
  BY DEF Init
<1>. QED  BY <1>1, <1>2, <1>3, <1>4, <1>5 DEF TypeOK

\* The queue of the kiosk holds frames, whatever a send does to it.
LEMMA SendTypes ==
  ASSUME TypeOK, NEW f \in Frame, SendOk(f) \/ SendFails
  PROVE  sockfd' \in {"open", "closed"} /\ peer' \in BOOLEAN
         /\ to_kiosk' \in Seq(Frame) /\ to_client' \in Seq(Fragment)
<1>1. Append(to_kiosk, f) \in Seq(Frame)
  BY DEF TypeOK
<1>. QED  BY <1>1 DEF TypeOK, SendOk, SendFails

\* the application keeps them,
LEMMA AppTypes ==
  ASSUME TypeOK, AppStep
  PROVE  TypeOK'
<1>. USE DEF vars, appVars, handVars, socketVars, eventVars
<1>1. CASE ClearReady
  BY <1>1 DEF ClearReady, TypeOK, AppPc
<1>2. CASE SendCommand
  <2>1. [kind |-> "command", id |-> Api[method].sent, num |-> calls] \in Frame
    BY ApiTypes, ConstantsAssumption DEF TypeOK, Frame
  <2>2. sockfd' \in {"open", "closed"} /\ peer' \in BOOLEAN
        /\ to_kiosk' \in Seq(Frame) /\ to_client' \in Seq(Fragment)
    BY <1>2, <2>1, SendTypes DEF SendCommand
  <2>3. apc' \in AppPc /\ ret' \in Outcome \cup {"none"}
    BY <1>2 DEF SendCommand, ReturnError, TypeOK, AppPc, Outcome, KIOSK_RET
  <2>. QED  BY <1>2, <2>2, <2>3 DEF SendCommand, ReturnError, TypeOK
<1>3. CASE TakeReady
  BY <1>3 DEF TakeReady, TypeOK, AppPc
<1>4. CASE WaitTimeout
  BY <1>4 DEF WaitTimeout, ReturnError, TypeOK, AppPc, Outcome, KIOSK_RET
<1>5. CASE CheckLength
  BY <1>5 DEF CheckLength, ReturnError, TypeOK, AppPc, Outcome, KIOSK_RET
<1>6. CASE TakeLength
  BY <1>6 DEF TakeLength, TypeOK, AppPc
<1>7. CASE CopyStart
  <2>1. Buffered(resp_len) \in Seq(Fragment)
    BY PieceType, LenProperties DEF TypeOK, Buffered, Smaller
  <2>. QED  BY <1>7, <2>1 DEF CopyStart, TypeOK, AppPc
<1>8. CASE CopyEnd
  BY <1>8 DEF CopyEnd, TypeOK, AppPc
<1>9. CASE PostDone
  BY <1>9 DEF PostDone, TypeOK, AppPc
<1>10. CASE ResetAndParse
  <2>1. Parsed(resp) \in Message
    BY ParsedType DEF TypeOK
  <2>2. ret' \in Outcome
    BY <1>10, ParserTypes, ConstantsAssumption DEF ResetAndParse, TypeOK
  <2>3. missed' \in SUBSET Nat
    BY <1>10 DEF ResetAndParse, TypeOK
  <2>. QED  BY <1>10, <2>1, <2>2, <2>3 DEF ResetAndParse, TypeOK, AppPc
<1>. QED
  BY <1>1, <1>2, <1>3, <1>4, <1>5, <1>6, <1>7, <1>8, <1>9, <1>10 DEF AppStep

\* the commands thread does,
LEMMA ThreadTypes ==
  ASSUME TypeOK, CommandsThreadStep
  PROVE  TypeOK'
<1>. USE DEF vars, appVars, handVars, socketVars, eventVars
<1>1. CASE Receive
  <2>1. PICK k \in 1..Len(to_client) :
          /\ work_buffer' = SubSeq(to_client, 1, k)
          /\ to_client' = SubSeq(to_client, k + 1, Len(to_client))
    BY <1>1 DEF Receive
  <2>2. work_buffer' \in Seq(Fragment) /\ to_client' \in Seq(Fragment)
    BY <2>1, PieceType, LenProperties DEF TypeOK
  <2>. QED  BY <1>1, <2>2 DEF Receive, TypeOK, CommandsThreadPc
<1>2. CASE Dispatch
  <2>1. Len(work_buffer) \in Nat
    BY LenProperties DEF TypeOK
  <2>. QED  BY <1>2, <2>1 DEF Dispatch, TypeOK, CommandsThreadPc
<1>3. CASE ClearDone
  BY <1>3 DEF ClearDone, TypeOK, CommandsThreadPc
<1>4. CASE PostReady
  BY <1>4 DEF PostReady, TypeOK, CommandsThreadPc
<1>5. CASE TakeDone
  BY <1>5 DEF TakeDone, TypeOK, CommandsThreadPc
<1>6. CASE AwaitTimeout
  BY <1>6 DEF AwaitTimeout, TypeOK, CommandsThreadPc
<1>7. CASE SendAck
  <2>. DEFINE m == Parsed(work_buffer)
  <2>1. m \in Message
    BY ParsedType DEF TypeOK
  <2>2. [kind |-> "ack", id |-> m.id, num |-> m.num] \in Frame
    BY <2>1 DEF Message, Frame
  <2>3. SendOk([kind |-> "ack", id |-> m.id, num |-> m.num]) \/ SendFails
    BY <1>7 DEF SendAck
  <2>4. sockfd' \in {"open", "closed"} /\ peer' \in BOOLEAN
        /\ to_kiosk' \in Seq(Frame) /\ to_client' \in Seq(Fragment)
    BY <2>2, <2>3, SendTypes
  <2>. QED  BY <1>7, <2>4 DEF SendAck, TypeOK, CommandsThreadPc
<1>8. CASE Callback
  <2>1. Parsed(work_buffer).num \in Nat
    BY ParsedType DEF TypeOK, Message
  <2>2. delivered' \in Seq(Nat)
    BY <1>8, <2>1 DEF Callback, TypeOK
  <2>. QED  BY <1>8, <2>2 DEF Callback, TypeOK, CommandsThreadPc
<1>9. CASE Disconnect
  BY <1>9 DEF Disconnect, TypeOK
<1>10. CASE Connect
  <2>1. to_kiosk' \in Seq(Frame) /\ to_client' \in Seq(Fragment)
    BY <1>10, EmptySeq DEF Connect
  <2>. QED  BY <1>10, <2>1 DEF Connect, TypeOK
<1>. QED
  BY <1>1, <1>2, <1>3, <1>4, <1>5, <1>6, <1>7, <1>8, <1>9, <1>10
  DEF CommandsThreadStep

\* the kiosk does,
LEMMA KioskTypes ==
  ASSUME TypeOK, KioskStep
  PROVE  TypeOK'
<1>. USE DEF vars, appVars, handVars, socketVars, eventVars
<1>1. CASE KioskAnswers
  <2>1. PICK a \in Answers :
          to_client' = to_client \o Fragments(Answer(a, Head(to_kiosk)))
    BY <1>1 DEF KioskAnswers
  <2>2. Head(to_kiosk) \in Frame /\ Tail(to_kiosk) \in Seq(Frame)
    BY <1>1, HeadTailProperties DEF KioskAnswers, TypeOK
  <2>3. Answer(a, Head(to_kiosk)) \in Message
    BY <2>2, ConstantsAssumption, GarbageType DEF Answer, AnswerForm, Frame, Message
  <2>4. to_client' \in Seq(Fragment)
    BY <2>1, <2>3, FragmentsType, ConcatProperties DEF TypeOK
  <2>. QED  BY <1>1, <2>2, <2>4 DEF KioskAnswers, TypeOK
<1>2. CASE KioskTakesAck
  <2>1. Head(to_kiosk) \in Frame /\ Tail(to_kiosk) \in Seq(Frame)
    BY <1>2, HeadTailProperties DEF KioskTakesAck, TypeOK
  <2>2. acked' \in SUBSET Nat
    BY <1>2, <2>1 DEF KioskTakesAck, TypeOK, Frame
  <2>. QED  BY <1>2, <2>1, <2>2 DEF KioskTakesAck, TypeOK
<1>3. CASE KioskNotifies
  <2>1. PICK e \in Notices : to_client' = to_client \o Fragments(Notice(e))
    BY <1>3 DEF KioskNotifies
  <2>2. Notice(e) \in Message
    BY ConstantsAssumption DEF Notice, NoticeForm, Message, Result, TypeOK
  <2>3. to_client' \in Seq(Fragment)
    BY <2>1, <2>2, FragmentsType, ConcatProperties DEF TypeOK
  <2>4. due' \in SUBSET Nat
    BY <1>3 DEF KioskNotifies, TypeOK
  <2>. QED  BY <1>3, <2>3, <2>4 DEF KioskNotifies, TypeOK
<1>4. CASE KioskDrops
  <2>1. to_kiosk' \in Seq(Frame) /\ to_client' \in Seq(Fragment)
    BY <1>4, EmptySeq DEF KioskDrops, TypeOK
  <2>2. peer' = FALSE
    BY <1>4 DEF KioskDrops
  <2>3. peer' \in BOOLEAN
    BY <2>2
  <2>. QED  BY <1>4, <2>1, <2>3 DEF KioskDrops, TypeOK
<1>. QED  BY <1>1, <1>2, <1>3, <1>4 DEF KioskStep

\* and so does every step.
LEMMA NextTypes ==
  ASSUME TypeOK, [Next]_vars
  PROVE  TypeOK'
<1>. USE DEF vars, appVars, handVars, socketVars, eventVars
<1>1. CASE Register
  <2>1. trans_complete_cb' = TRUE
    BY <1>1 DEF Register
  <2>2. trans_complete_cb' \in BOOLEAN
    BY <2>1
  <2>. QED  BY <1>1, <2>2 DEF Register, TypeOK
<1>2. ASSUME NEW m \in Methods, Call(m) PROVE TypeOK'
  <2>1. resp' \in Seq(Fragment) /\ answer' \in Message
    BY <1>2, EmptySeq, GarbageType DEF Call
  <2>2. expected_id' \in Nat /\ resp_len' \in Nat
    BY <1>2, ApiTypes, ConstantsAssumption DEF Call
  <2>3. torn' \in BOOLEAN
    BY <1>2 DEF Call
  <2>. QED  BY <1>2, <2>1, <2>2, <2>3 DEF Call, TypeOK, AppPc
<1>3. ASSUME NEW m \in Methods, CallNoMemory(m) PROVE TypeOK'
  BY <1>3, GarbageType DEF CallNoMemory, TypeOK, Outcome, KIOSK_RET
<1>4. CASE PollTimeout \/ UNCHANGED vars
  BY <1>4 DEF PollTimeout, TypeOK
<1>. QED
  BY <1>1, <1>2, <1>3, <1>4, AppTypes, ThreadTypes, KioskTypes DEF Next

\* The variables of the exchange keep their types: the semaphores never go below
\* zero, the shared length is a length, every API function ends with a KIOSK_RET
\* or a crash.
THEOREM TypeCorrect == Spec => []TypeOK
BY InitTypes, NextTypes, PTL DEF Spec
-----------------------------------------------------------------------------
(***************************************************************************)
(* The handover, when every posted response is handled within its 100ms.   *)
(***************************************************************************)

\* No token is given at first.
LEMMA InitHandoff == Init => HandoffInv
BY DEF Init, HandoffInv, TokensTakeTurns, LengthIsOfBuffer, Holding

\* Only the application's own steps and PostReady move the tokens a call takes.
LEMMA AppKeepsTurns ==
  ASSUME TypeOK, HandoffInv, AppStep
  PROVE  TokensTakeTurns'
<1>. USE DEF HandoffInv, TokensTakeTurns, Holding, TypeOK,
             appVars, handVars, socketVars, eventVars
<1>1. CASE ClearReady
  BY <1>1 DEF ClearReady
<1>2. CASE SendCommand
  BY <1>2 DEF SendCommand, ReturnError
<1>3. CASE TakeReady
  BY <1>3 DEF TakeReady
<1>4. CASE WaitTimeout
  BY <1>4 DEF WaitTimeout, ReturnError
<1>5. CASE CheckLength
  BY <1>5 DEF CheckLength, ReturnError
<1>6. CASE TakeLength
  BY <1>6 DEF TakeLength
<1>7. CASE CopyStart
  BY <1>7 DEF CopyStart
<1>8. CASE CopyEnd
  BY <1>8 DEF CopyEnd
<1>9. CASE PostDone
  BY <1>9 DEF PostDone
<1>10. CASE ResetAndParse
  <2>1. apc = "reset" /\ apc' \in {"idle", "crashed"}
        /\ UNCHANGED <<rpc, sema_resp_ready, sema_resp_done>>
    BY <1>10 DEF ResetAndParse
  <2>. QED  BY <2>1
<1>. QED
  BY <1>1, <1>2, <1>3, <1>4, <1>5, <1>6, <1>7, <1>8, <1>9, <1>10 DEF AppStep

\* The application leaves the length that of the buffer.
LEMMA AppKeepsLength ==
  ASSUME TypeOK, HandoffInv, AppStep
  PROVE  LengthIsOfBuffer'
<1>. USE DEF HandoffInv, LengthIsOfBuffer, appVars, handVars, socketVars, eventVars
<1>1. CASE ClearReady
  BY <1>1 DEF ClearReady
<1>2. CASE SendCommand
  BY <1>2 DEF SendCommand, ReturnError
<1>3. CASE TakeReady
  BY <1>3 DEF TakeReady
<1>4. CASE WaitTimeout
  BY <1>4 DEF WaitTimeout, ReturnError
<1>5. CASE CheckLength
  BY <1>5 DEF CheckLength, ReturnError
<1>6. CASE TakeLength
  BY <1>6 DEF TakeLength
<1>7. CASE CopyStart
  BY <1>7 DEF CopyStart, Buffered
<1>8. CASE CopyEnd
  BY <1>8 DEF CopyEnd
<1>9. CASE PostDone
  BY <1>9 DEF PostDone
<1>10. CASE ResetAndParse
  <2>1. apc' \in {"idle", "crashed"}
        /\ UNCHANGED <<rpc, current_resp_len, work_buffer, torn>>
    BY <1>10 DEF ResetAndParse
  <2>. QED  BY <2>1
<1>. QED
  BY <1>1, <1>2, <1>3, <1>4, <1>5, <1>6, <1>7, <1>8, <1>9, <1>10 DEF AppStep

\* The commands thread leaves its wait, and with it the buffer, only when the
\* application owes it nothing: this is where Prompt is needed.
LEMMA ThreadKeepsHandoff ==
  ASSUME Prompt, TypeOK, HandoffInv, CommandsThreadStep
  PROVE  HandoffInv'
<1>. USE DEF HandoffInv, TokensTakeTurns, LengthIsOfBuffer, Holding, Buffered, TypeOK,
             appVars, handVars, socketVars, eventVars
<1>1. CASE Receive
  <2>1. rpc = "poll" /\ rpc' = "dispatch"
        /\ UNCHANGED <<apc, resp_len, resp, torn, sema_resp_ready, sema_resp_done,
                       current_resp_len>>
    BY <1>1 DEF Receive
  <2>. QED  BY <2>1
<1>2. CASE Dispatch
  BY <1>2 DEF Dispatch
<1>3. CASE ClearDone
  BY <1>3 DEF ClearDone
<1>4. CASE PostReady
  BY <1>4 DEF PostReady
<1>5. CASE TakeDone
  BY <1>5 DEF TakeDone
<1>6. CASE AwaitTimeout
  BY <1>6 DEF AwaitTimeout, Owes
<1>7. CASE SendAck \/ Callback \/ Disconnect \/ Connect
  <2>1. rpc \in {"poll", "ack", "callback"} /\ rpc' \in {"poll", "callback"}
        /\ UNCHANGED <<appVars, handVars>>
    BY <1>7 DEF SendAck, Callback, Disconnect, Connect
  <2>. QED  BY <2>1
<1>. QED
  BY <1>1, <1>2, <1>3, <1>4, <1>5, <1>6, <1>7 DEF CommandsThreadStep

\* In time, every step keeps the tokens and whose turn it is together.
LEMMA NextKeepsHandoff ==
  ASSUME Prompt, TypeOK, HandoffInv, [Next]_vars
  PROVE  HandoffInv'
<1>1. CASE AppStep
  BY <1>1, AppKeepsTurns, AppKeepsLength DEF HandoffInv
<1>2. CASE CommandsThreadStep
  BY <1>2, ThreadKeepsHandoff
<1>3. ASSUME NEW m \in Methods, Call(m) PROVE HandoffInv'
  BY <1>3
  DEF Call, HandoffInv, TokensTakeTurns, LengthIsOfBuffer, Holding, eventVars, socketVars
<1>4. CASE KioskStep \/ Register \/ PollTimeout \/ UNCHANGED vars
           \/ \E m \in Methods : CallNoMemory(m)
  <2>1. UNCHANGED <<apc, resp_len, resp, torn, handVars, rpc>>
    BY <1>4 DEF KioskStep, KioskAnswers, KioskTakesAck, KioskNotifies, KioskDrops,
                Register, PollTimeout, CallNoMemory, vars, appVars
  <2>. QED
    BY <2>1
    DEF HandoffInv, TokensTakeTurns, LengthIsOfBuffer, Holding, Buffered, handVars
<1>. QED  BY <1>1, <1>2, <1>3, <1>4 DEF Next

\* Where responses are handled in time, the tokens of the two semaphores keep the
\* threads in turn and the shared length is that of the shared buffer.
THEOREM HandoffInductive ==
  ASSUME Prompt
  PROVE  Spec => []HandoffInv
BY InitHandoff, NextKeepsHandoff, TypeCorrect, PTL DEF Spec

\* ... so send_receive copies one response, whole, whatever the kiosk sends and
\* whenever calls time out or the connection is lost.
THEOREM HandoffCorrect ==
  ASSUME Prompt
  PROVE  Spec => []HandoffIntact
<1>1. HandoffInv => HandoffIntact
  BY DEF HandoffInv, HandoffIntact, TokensTakeTurns, LengthIsOfBuffer, Holding
<1>. QED  BY <1>1, HandoffInductive, PTL

\* ... and never past the end of the API function's buffer.
THEOREM CopyStaysInside ==
  ASSUME Prompt
  PROVE  Spec => []CopyFits
<1>1. HandoffInv => CopyFits
  BY DEF HandoffInv, CopyFits, LengthIsOfBuffer
<1>. QED  BY <1>1, HandoffInductive, PTL
-----------------------------------------------------------------------------
(* What travels between the kiosk and the library, and what becomes of the *)
(* kiosk's notices.                                                        *)
\* After c calls and n notices, of which those in d are a TransactionComplete:
\* answers answer commands that were sent; notices carry no result, and those
\* that parse as a TransactionComplete are the ones in d.
Genuine(m, c, n, d) ==
  \/ m.method = "none" /\ m.num \in 1..c
  \/ /\ m.method # "none" /\ m.result = "absent" /\ m.num \in 1..n
     /\ IsNotice(m) <=> m.num \in d

AllGenuine ==
  /\ due \subseteq 1..notices
  /\ \A i \in DOMAIN to_client : Genuine(to_client[i].msg, calls, notices, due)
  /\ Parsed(work_buffer) # Garbage => Genuine(Parsed(work_buffer), calls, notices, due)
  /\ \A i \in DOMAIN to_kiosk :
       to_kiosk[i].kind = "command" => to_kiosk[i].num \in 1..calls

WireInv == AllGenuine /\ (apc # "idle" => calls # 0)
-----------------------------------------------------------------------------
(* Lemmas about the sequences of the exchange. *)

\* The fragments of a message are numbered from 1.
LEMMA FragmentsAre ==
  ASSUME NEW m \in Message
  PROVE  /\ Fragments(m) \in Seq(Fragment) /\ Len(Fragments(m)) = m.len
         /\ \A i \in 1..m.len : Fragments(m)[i].msg = m /\ Fragments(m)[i].part = i
<1>1. m.len \in Nat
  BY DEF Message
<1>. QED  BY <1>1, FragmentsType DEF Fragments

\* What the kiosk sends comes after what is already on its way.
LEMMA Sent ==
  ASSUME NEW b \in Seq(Fragment), NEW m \in Message
  PROVE  /\ Len(b \o Fragments(m)) = Len(b) + m.len
         /\ DOMAIN (b \o Fragments(m)) = 1..(Len(b) + m.len)
         /\ \A i \in 1..Len(b) : (b \o Fragments(m))[i] = b[i]
         /\ \A i \in (Len(b) + 1)..(Len(b) + m.len) :
              (b \o Fragments(m))[i].msg = m /\ (b \o Fragments(m))[i].part = i - Len(b)
<1>. DEFINE f == Fragments(m)
<1>1. m.len \in Nat /\ Len(b) \in Nat
  BY LenProperties DEF Message
<1>2. /\ f \in Seq(Fragment) /\ Len(f) = m.len
      /\ \A i \in 1..m.len : f[i].msg = m /\ f[i].part = i
  BY FragmentsAre
<1>. HIDE DEF f
<1>3. /\ b \o f \in Seq(Fragment) /\ Len(b \o f) = Len(b) + Len(f)
      /\ \A i \in 1 .. Len(b) + Len(f) :
           (b \o f)[i] = IF i <= Len(b) THEN b[i] ELSE f[i - Len(b)]
  BY <1>2, ConcatProperties
<1>4. DOMAIN (b \o f) = 1..(Len(b) + m.len)
  BY <1>2, <1>3, LenProperties
<1>5. ASSUME NEW i \in (Len(b) + 1)..(Len(b) + m.len)
      PROVE  (b \o f)[i].msg = m /\ (b \o f)[i].part = i - Len(b)
  <2>1. i - Len(b) \in 1..m.len /\ ~(i <= Len(b)) /\ i \in 1 .. Len(b) + Len(f)
    BY <1>1, <1>2
  <2>. QED  BY <2>1, <1>2, <1>3
<1>. QED  BY <1>1, <1>2, <1>3, <1>4, <1>5 DEF f

\* A fragment of what is on its way was there before or is of the message just sent.
LEMMA SentOrThere ==
  ASSUME NEW b \in Seq(Fragment), NEW m \in Message,
         NEW i \in DOMAIN (b \o Fragments(m))
  PROVE  \/ i \in DOMAIN b /\ (b \o Fragments(m))[i] = b[i]
         \/ i > Len(b) /\ (b \o Fragments(m))[i].msg = m
            /\ (b \o Fragments(m))[i].part = i - Len(b)
<1>1. m.len \in Nat /\ Len(b) \in Nat /\ DOMAIN b = 1..Len(b)
  BY LenProperties DEF Message
<1>2. i \in 1..(Len(b) + m.len)
  BY Sent
<1>3. i \in 1..Len(b) \/ i \in (Len(b) + 1)..(Len(b) + m.len)
  BY <1>1, <1>2
<1>. QED  BY <1>1, <1>3, Sent

\* A read takes the first k fragments and leaves the others.
LEMMA Taken ==
  ASSUME NEW b \in Seq(Fragment), NEW k \in 1..Len(b)
  PROVE  /\ Len(SubSeq(b, 1, k)) = k
         /\ \A i \in 1..k : SubSeq(b, 1, k)[i] = b[i]
         /\ DOMAIN SubSeq(b, k + 1, Len(b)) = 1..(Len(b) - k)
         /\ \A i \in 1..(Len(b) - k) : SubSeq(b, k + 1, Len(b))[i] = b[i + k]
<1>1. /\ Len(b) \in Nat /\ k \in Nat
      /\ \A i \in 1..k : b[i] \in Fragment
      /\ \A i \in (k + 1)..Len(b) : b[i] \in Fragment
  BY ElementOfSeq, LenProperties
<1>2. Len(SubSeq(b, 1, k)) = k /\ \A i \in 1..k : SubSeq(b, 1, k)[i] = b[i]
  BY <1>1, SubSeqProperties
<1>3. /\ SubSeq(b, k + 1, Len(b)) \in Seq(Fragment)
      /\ Len(SubSeq(b, k + 1, Len(b))) = Len(b) - k
      /\ \A i \in 1..(Len(b) - k) : SubSeq(b, k + 1, Len(b))[i] = b[i + k]
  <2>1. \A i \in 1..(Len(b) - k) : i \in 1 .. Len(b) - (k + 1) + 1
                                   /\ (k + 1) + i - 1 = i + k
    BY <1>1
  <2>. QED  BY <1>1, <2>1, SubSeqProperties
<1>. QED  BY <1>2, <1>3, LenProperties

\* What a read makes of the bytes: the first message on its way, or nothing.
LEMMA FirstParsed ==
  ASSUME NEW b \in Seq(Fragment), NEW k \in 1..Len(b),
         Parsed(SubSeq(b, 1, k)) # Garbage
  PROVE  b[1].part = 1 /\ Parsed(SubSeq(b, 1, k)) = b[1].msg
BY Taken, LenProperties DEF Parsed

\* A frame goes to the end of the kiosk's queue, or nowhere.
LEMMA SendIs ==
  ASSUME TypeOK, NEW f \in Frame, SendOk(f) \/ SendFails
  PROVE  /\ to_client' = to_client
         /\ Len(to_kiosk) <= Len(to_kiosk')
         /\ \A i \in DOMAIN to_kiosk' : IF i \in DOMAIN to_kiosk
                                          THEN to_kiosk'[i] = to_kiosk[i]
                                          ELSE to_kiosk'[i] = f /\ i = Len(to_kiosk) + 1
<1>1. /\ Append(to_kiosk, f) \in Seq(Frame)
      /\ Len(Append(to_kiosk, f)) = Len(to_kiosk) + 1
      /\ \A i \in 1..Len(to_kiosk) : Append(to_kiosk, f)[i] = to_kiosk[i]
      /\ Append(to_kiosk, f)[Len(to_kiosk) + 1] = f
  BY AppendProperties DEF TypeOK
<1>2. /\ Len(to_kiosk) \in Nat /\ DOMAIN to_kiosk = 1..Len(to_kiosk)
      /\ DOMAIN Append(to_kiosk, f) = 1..(Len(to_kiosk) + 1)
  BY <1>1, LenProperties DEF TypeOK
<1>. QED  BY <1>1, <1>2 DEF SendOk, SendFails

\* The kiosk takes the first frame of its queue.
LEMMA FrameTaken ==
  ASSUME TypeOK, to_kiosk # <<>>
  PROVE  /\ Head(to_kiosk) = to_kiosk[1] /\ Head(to_kiosk) \in Frame
         /\ DOMAIN Tail(to_kiosk) = 1..(Len(to_kiosk) - 1) /\ 1 \in DOMAIN to_kiosk
         /\ \A i \in DOMAIN Tail(to_kiosk) : /\ i + 1 \in DOMAIN to_kiosk
                                             /\ Tail(to_kiosk)[i] = to_kiosk[i + 1]
<1>1. Len(to_kiosk) \in Nat \ {0} /\ DOMAIN to_kiosk = 1..Len(to_kiosk)
  BY EmptySeq, LenProperties DEF TypeOK
<1>2. /\ Head(to_kiosk) \in Frame /\ Tail(to_kiosk) \in Seq(Frame)
      /\ Len(Tail(to_kiosk)) = Len(to_kiosk) - 1
      /\ \A i \in 1..Len(Tail(to_kiosk)) : Tail(to_kiosk)[i] = to_kiosk[i + 1]
  BY HeadTailProperties DEF TypeOK
<1>3. DOMAIN Tail(to_kiosk) = 1..(Len(to_kiosk) - 1)
  BY <1>2, LenProperties
<1>. QED  BY <1>1, <1>2, <1>3
-----------------------------------------------------------------------------
(* What is on the wire is genuine. *)

\* A message stays genuine: calls and notices are only counted up, and a number
\* becomes due only when its notice is sent.
LEMMA GenuineStays ==
  ASSUME NEW c \in Nat, NEW n \in Nat, NEW d \in SUBSET (1..n), NEW c2 \in Nat, c <= c2,
         NEW d2, d2 = d \/ d2 = d \cup {n + 1}, NEW m, Genuine(m, c, n, d)
  PROVE  Genuine(m, c2, n + 1, d2) /\ Genuine(m, c2, n, d)
BY DEF Genuine

\* A step that adds nothing to the wire.
LEMMA NothingAdded ==
  ASSUME TypeOK, AllGenuine, calls' \in Nat, calls <= calls',
         UNCHANGED <<notices, due, work_buffer>>,
         to_client' \in {to_client, <<>>}, to_kiosk' \in {to_kiosk, <<>>}
  PROVE  AllGenuine'
<1>1. \A m : Genuine(m, calls, notices, due) => Genuine(m, calls', notices', due')
  BY GenuineStays DEF AllGenuine, TypeOK
<1>2. DOMAIN <<>> = {}
  OBVIOUS
<1>3. \A i \in DOMAIN to_kiosk' : i \in DOMAIN to_kiosk /\ to_kiosk'[i] = to_kiosk[i]
  BY <1>2
<1>4. \A i \in DOMAIN to_client' : i \in DOMAIN to_client /\ to_client'[i] = to_client[i]
  BY <1>2
<1>5. \A i \in DOMAIN to_client' : Genuine(to_client'[i].msg, calls', notices', due')
  BY <1>1, <1>4 DEF AllGenuine
<1>6. \A i \in DOMAIN to_kiosk' :
        to_kiosk'[i].kind = "command" => to_kiosk'[i].num \in 1..calls'
  BY <1>3 DEF AllGenuine, TypeOK
<1>7. Parsed(work_buffer') = Parsed(work_buffer)
  OBVIOUS
<1>. QED  BY <1>1, <1>5, <1>6, <1>7 DEF AllGenuine

\* A frame is sent: only a command of a call that was made needs looking at.
LEMMA FrameAdded ==
  ASSUME TypeOK, AllGenuine, NEW f \in Frame, SendOk(f) \/ SendFails,
         f.kind = "command" => f.num \in 1..calls,
         UNCHANGED <<work_buffer, calls, notices, due>>
  PROVE  AllGenuine'
<1>1. to_client' = to_client
      /\ \A i \in DOMAIN to_kiosk' : \/ to_kiosk'[i] = f
                                     \/ i \in DOMAIN to_kiosk /\ to_kiosk'[i] = to_kiosk[i]
  BY SendIs
<1>2. \A i \in DOMAIN to_kiosk' :
        to_kiosk'[i].kind = "command" => to_kiosk'[i].num \in 1..calls'
  BY <1>1 DEF AllGenuine
<1>. QED  BY <1>1, <1>2 DEF AllGenuine

\* The application sends commands that it counts;
LEMMA AppKeepsGenuine ==
  ASSUME TypeOK, WireInv, AppStep
  PROVE  AllGenuine'
<1>. USE DEF WireInv, appVars, handVars, socketVars, eventVars
<1>1. CASE SendCommand
  <2>. DEFINE f == [kind |-> "command", id |-> Api[method].sent, num |-> calls]
  <2>1. f \in Frame /\ f.kind = "command" /\ f.num \in 1..calls
    BY <1>1, ApiTypes, ConstantsAssumption DEF TypeOK, Frame, SendCommand
  <2>2. SendOk(f) \/ SendFails
    BY <1>1 DEF SendCommand
  <2>3. UNCHANGED <<work_buffer, calls, notices, due>>
    BY <1>1 DEF SendCommand, ReturnError
  <2>. HIDE DEF f
  <2>. QED  BY <2>1, <2>2, <2>3, FrameAdded
<1>2. CASE ~SendCommand
  <2>1. UNCHANGED <<work_buffer, to_client, to_kiosk, calls, notices, due>>
    BY <1>2 DEF AppStep, ClearReady, TakeReady, WaitTimeout, CheckLength, TakeLength,
                CopyStart, CopyEnd, PostDone, ResetAndParse, ReturnError
  <2>. QED  BY <2>1 DEF AllGenuine
<1>. QED  BY <1>1, <1>2

\* the commands thread invents nothing;
LEMMA ThreadKeepsGenuine ==
  ASSUME TypeOK, AllGenuine, CommandsThreadStep
  PROVE  AllGenuine'
<1>. USE DEF appVars, handVars, socketVars, eventVars
<1>1. CASE Receive
  <2>1. PICK k \in 1..Len(to_client) :
          /\ work_buffer' = SubSeq(to_client, 1, k)
          /\ to_client' = SubSeq(to_client, k + 1, Len(to_client))
    BY <1>1 DEF Receive
  <2>2. UNCHANGED <<to_kiosk, calls, notices, due>>
    BY <1>1 DEF Receive
  <2>3. Len(to_client) \in Nat /\ DOMAIN to_client = 1..Len(to_client)
    BY LenProperties DEF TypeOK
  <2>4. DOMAIN to_client' = 1..(Len(to_client) - k)
        /\ \A i \in 1..(Len(to_client) - k) : to_client'[i] = to_client[i + k]
    BY <2>1, Taken DEF TypeOK
  <2>5. \A i \in DOMAIN to_client' : i + k \in DOMAIN to_client
                                     /\ to_client'[i] = to_client[i + k]
    BY <2>3, <2>4
  <2>6. Parsed(work_buffer') # Garbage => Parsed(work_buffer') = to_client[1].msg
    BY <2>1, FirstParsed DEF TypeOK
  <2>7. 1 \in DOMAIN to_client
    BY <2>3
  <2>. QED  BY <2>2, <2>5, <2>6, <2>7 DEF AllGenuine
<1>2. CASE SendAck
  <2>. DEFINE m == Parsed(work_buffer)
              f == [kind |-> "ack", id |-> m.id, num |-> m.num]
  <2>1. m \in Message
    BY ParsedType DEF TypeOK
  <2>2. f \in Frame /\ f.kind = "ack"
    BY <2>1 DEF Message, Frame
  <2>3. SendOk(f) \/ SendFails
    BY <1>2 DEF SendAck
  <2>4. UNCHANGED <<work_buffer, calls, notices, due>>
    BY <1>2 DEF SendAck
  <2>5. to_client' = to_client
        /\ \A i \in DOMAIN to_kiosk' : \/ to_kiosk'[i].kind = "ack"
                                       \/ i \in DOMAIN to_kiosk /\ to_kiosk'[i] = to_kiosk[i]
    <3>. HIDE DEF f
    <3>. QED  BY <2>2, <2>3, SendIs
  <2>. QED  BY <2>4, <2>5 DEF AllGenuine
<1>3. CASE Dispatch \/ ClearDone \/ PostReady \/ TakeDone \/ AwaitTimeout \/ Callback
           \/ Disconnect \/ Connect
  <2>1. /\ UNCHANGED <<work_buffer, calls, notices, due>>
        /\ to_client' \in {to_client, <<>>} /\ to_kiosk' \in {to_kiosk, <<>>}
    BY <1>3 DEF Dispatch, ClearDone, PostReady, TakeDone, AwaitTimeout, Callback,
                Disconnect, Connect
  <2>. QED  BY <2>1, NothingAdded DEF TypeOK
<1>. QED  BY <1>1, <1>2, <1>3 DEF CommandsThreadStep

\* the kiosk answers what it was sent, and counts its notices;
LEMMA KioskKeepsGenuine ==
  ASSUME TypeOK, AllGenuine, KioskStep
  PROVE  AllGenuine'
<1>. USE DEF appVars, handVars, socketVars, eventVars
<1>1. CASE KioskAnswers
  <2>. DEFINE h == Head(to_kiosk)
  <2>1. PICK a \in Answers : to_client' = to_client \o Fragments(Answer(a, h))
    BY <1>1 DEF KioskAnswers
  <2>2. /\ to_kiosk # <<>> /\ h.kind = "command" /\ to_kiosk' = Tail(to_kiosk)
        /\ UNCHANGED <<work_buffer, calls, notices, due>>
    BY <1>1 DEF KioskAnswers
  <2>3. h \in Frame /\ h.num \in 1..calls
    BY <2>2, FrameTaken DEF AllGenuine
  <2>4. Answer(a, h) \in Message /\ Answer(a, h).len \in Nat
        /\ Genuine(Answer(a, h), calls, notices, due)
    BY <2>3, ConstantsAssumption, GarbageType
    DEF Answer, AnswerForm, Frame, Message, Genuine
  <2>5. \A i \in DOMAIN to_client' : \/ to_client'[i].msg = Answer(a, h)
                                     \/ i \in DOMAIN to_client /\ to_client'[i] = to_client[i]
    <3>. DEFINE m == Answer(a, h)
    <3>1. m \in Message /\ to_client' = to_client \o Fragments(m)
      BY <2>1, <2>4
    <3>. HIDE DEF m
    <3>2. \A i \in DOMAIN to_client' : \/ to_client'[i].msg = m
                                       \/ i \in DOMAIN to_client /\ to_client'[i] = to_client[i]
      BY <3>1, SentOrThere DEF TypeOK
    <3>. QED  BY <3>2 DEF m
  <2>6. \A i \in DOMAIN to_client' : Genuine(to_client'[i].msg, calls', notices', due')
    BY <2>2, <2>4, <2>5 DEF AllGenuine
  <2>7. \A i \in DOMAIN to_kiosk' : i + 1 \in DOMAIN to_kiosk /\ to_kiosk'[i] = to_kiosk[i + 1]
    BY <2>2, FrameTaken
  <2>. QED  BY <2>2, <2>6, <2>7 DEF AllGenuine
<1>2. CASE KioskNotifies
  <2>1. PICK e \in Notices :
          /\ to_client' = to_client \o Fragments(Notice(e))
          /\ due' = IF IsNotice(Notice(e)) THEN due \cup {notices + 1} ELSE due
    BY <1>2 DEF KioskNotifies
  <2>2. notices' = notices + 1 /\ notices \in Nat /\ calls \in Nat /\ due \subseteq 1..notices
        /\ UNCHANGED <<work_buffer, to_kiosk, calls>>
    BY <1>2 DEF KioskNotifies, TypeOK, AllGenuine
  <2>3. Notice(e) \in Message /\ Notice(e).len \in Nat
        /\ Notice(e).method # "none" /\ Notice(e).result = "absent"
        /\ Notice(e).num = notices + 1
    BY <2>2, ConstantsAssumption DEF Notice, NoticeForm, Message, Result
  <2>4. Genuine(Notice(e), calls', notices', due')
    BY <2>1, <2>2, <2>3 DEF Genuine
  <2>5. \A m : Genuine(m, calls, notices, due) => Genuine(m, calls', notices', due')
    <3>1. calls <= calls /\ (due' = due \/ due' = due \cup {notices + 1})
      BY <2>1, <2>2
    <3>. QED  BY <2>2, <3>1, GenuineStays
  <2>6. \A i \in DOMAIN to_client' : \/ to_client'[i].msg = Notice(e)
                                     \/ i \in DOMAIN to_client /\ to_client'[i] = to_client[i]
    <3>. DEFINE m == Notice(e)
    <3>1. m \in Message /\ to_client' = to_client \o Fragments(m)
      BY <2>1, <2>3
    <3>. HIDE DEF m
    <3>2. \A i \in DOMAIN to_client' : \/ to_client'[i].msg = m
                                       \/ i \in DOMAIN to_client /\ to_client'[i] = to_client[i]
      BY <3>1, SentOrThere DEF TypeOK
    <3>. QED  BY <3>2 DEF m
  <2>7. due' \subseteq 1..notices'
    BY <2>1, <2>2
  <2>8. \A i \in DOMAIN to_client' : Genuine(to_client'[i].msg, calls', notices', due')
    BY <2>4, <2>5, <2>6 DEF AllGenuine
  <2>. QED  BY <2>2, <2>5, <2>7, <2>8 DEF AllGenuine
<1>3. CASE KioskTakesAck
  <2>1. /\ to_kiosk # <<>> /\ to_kiosk' = Tail(to_kiosk)
        /\ UNCHANGED <<work_buffer, to_client, calls, notices, due>>
    BY <1>3 DEF KioskTakesAck
  <2>2. \A i \in DOMAIN to_kiosk' : i + 1 \in DOMAIN to_kiosk /\ to_kiosk'[i] = to_kiosk[i + 1]
    BY <2>1, FrameTaken
  <2>. QED  BY <2>1, <2>2 DEF AllGenuine
<1>4. CASE KioskDrops
  <2>1. /\ UNCHANGED <<work_buffer, calls, notices, due>>
        /\ to_client' \in {to_client, <<>>} /\ to_kiosk' = <<>>
    BY <1>4 DEF KioskDrops
  <2>. QED  BY <2>1, NothingAdded DEF TypeOK
<1>. QED  BY <1>1, <1>2, <1>3, <1>4 DEF KioskStep

\* and so every step keeps what travels genuine.
LEMMA NextKeepsWire ==
  ASSUME TypeOK, WireInv, [Next]_vars
  PROVE  WireInv'
<1>. USE DEF vars, appVars, handVars, socketVars, eventVars
<1>1. AllGenuine'
  <2>1. ASSUME NEW m \in Methods, Call(m) \/ CallNoMemory(m) PROVE AllGenuine'
    <3>1. /\ calls' \in Nat /\ calls <= calls'
          /\ UNCHANGED <<notices, due, work_buffer, to_client, to_kiosk>>
      BY <2>1 DEF Call, CallNoMemory, TypeOK
    <3>. QED  BY <3>1, NothingAdded DEF WireInv
  <2>2. CASE Register \/ PollTimeout \/ UNCHANGED vars
    BY <2>2, NothingAdded DEF Register, PollTimeout, TypeOK, WireInv
  <2>. QED
    BY <2>1, <2>2, AppKeepsGenuine, ThreadKeepsGenuine, KioskKeepsGenuine DEF WireInv, Next
<1>2. (apc # "idle" => calls # 0)'
  <2>1. CASE AppStep
    BY <2>1 DEF WireInv, AppStep, ClearReady, SendCommand, TakeReady, WaitTimeout,
       CheckLength, TakeLength, CopyStart, CopyEnd, PostDone, ResetAndParse, ReturnError
  <2>2. ASSUME NEW m \in Methods, Call(m) \/ CallNoMemory(m) PROVE calls' # 0
    BY <2>2 DEF Call, CallNoMemory, TypeOK
  <2>3. CASE CommandsThreadStep \/ KioskStep \/ Register \/ PollTimeout \/ UNCHANGED vars
    <3>1. UNCHANGED <<apc, calls>>
      BY <2>3 DEF CommandsThreadStep, Receive, Dispatch, ClearDone, PostReady, TakeDone,
         AwaitTimeout, SendAck, Callback, Disconnect, Connect, KioskStep, KioskAnswers,
         KioskTakesAck, KioskNotifies, KioskDrops, Register, PollTimeout
    <3>. QED  BY <3>1 DEF WireInv
  <2>. QED  BY <2>1, <2>2, <2>3 DEF Next
<1>. QED  BY <1>1, <1>2 DEF WireInv

\* Nothing travels at first.
LEMMA InitWire == Init => WireInv
<1>1. Parsed(<<>>) = Garbage
  BY DEF Parsed
<1>2. DOMAIN <<>> = {}
  OBVIOUS
<1>. QED  BY <1>1, <1>2 DEF Init, WireInv, AllGenuine

\* All that travels is genuine, whatever is split, late or lost.
THEOREM WireInductive == Spec => []WireInv
BY InitWire, NextKeepsWire, TypeCorrect, PTL DEF Spec
-----------------------------------------------------------------------------
(***************************************************************************)
(* The notices that are acknowledged.                                      *)
(***************************************************************************)

\* The callback was given notice n, or is the next thing to be called.
Told(n) == n \in Reported \/ (rpc = "callback" /\ n = Parsed(work_buffer).num)

AckInv ==
  /\ trans_complete_cb = TRUE
  /\ rpc \in {"ack", "callback"} => IsNotice(Parsed(work_buffer))
  /\ \A i \in DOMAIN to_kiosk : to_kiosk[i].kind = "ack" => Told(to_kiosk[i].num)
  /\ \A n \in acked : Told(n)

\* The callback appends to what was reported.
LEMMA CallbackReports ==
  ASSUME TypeOK, Callback
  PROVE  /\ Reported \subseteq Reported'
         /\ trans_complete_cb => Parsed(work_buffer).num \in Reported'
<1>. DEFINE n == Parsed(work_buffer).num
<1>1. n \in Nat
  BY ParsedType DEF TypeOK, Message
<1>2. delivered' = IF trans_complete_cb THEN Append(delivered, n) ELSE delivered
  BY DEF Callback
<1>. HIDE DEF n
<1>3. /\ DOMAIN delivered = 1..Len(delivered) /\ Len(delivered) \in Nat
      /\ DOMAIN Append(delivered, n) = 1..(Len(delivered) + 1)
      /\ \A i \in 1..Len(delivered) : Append(delivered, n)[i] = delivered[i]
      /\ Append(delivered, n)[Len(delivered) + 1] = n
  BY <1>1, AppendProperties, LenProperties DEF TypeOK
<1>4. CASE trans_complete_cb
  <2>1. \A i \in DOMAIN delivered : i \in DOMAIN delivered' /\ delivered'[i] = delivered[i]
    BY <1>2, <1>3, <1>4
  <2>2. Len(delivered) + 1 \in DOMAIN delivered' /\ delivered'[Len(delivered) + 1] = n
    BY <1>2, <1>3, <1>4
  <2>. QED  BY <2>1, <2>2 DEF Reported, n
<1>5. CASE ~trans_complete_cb
  BY <1>2, <1>5 DEF Reported
<1>. QED  BY <1>4, <1>5

\* What no step takes back: a notice stays told.
LEMMA ToldStays ==
  ASSUME TypeOK, AckInv, [Next]_vars
  PROVE  trans_complete_cb' = TRUE /\ \A n : Told(n) => Told(n)'
<1>. USE DEF vars, appVars, handVars, socketVars, eventVars
<1>1. CASE Callback
  <2>1. trans_complete_cb' = TRUE
    BY <1>1 DEF Callback, AckInv
  <2>. QED  BY <1>1, <2>1, CallbackReports DEF Told, AckInv
<1>2. CASE CommandsThreadStep /\ ~Callback
  <2>1. /\ delivered' = delivered /\ trans_complete_cb' = trans_complete_cb
        /\ rpc = "callback" => rpc' = "callback" /\ work_buffer' = work_buffer
    BY <1>2 DEF CommandsThreadStep, Receive, Dispatch, ClearDone, PostReady, TakeDone,
       AwaitTimeout, SendAck, Disconnect, Connect
  <2>. QED  BY <2>1 DEF Told, Reported, AckInv
<1>3. CASE AppStep \/ KioskStep \/ Register \/ PollTimeout \/ UNCHANGED vars
           \/ \E m \in Methods : Call(m) \/ CallNoMemory(m)
  <2>1. /\ UNCHANGED <<delivered, rpc, work_buffer>>
        /\ trans_complete_cb' = trans_complete_cb \/ trans_complete_cb' = TRUE
    BY <1>3 DEF AppStep, ClearReady, SendCommand, TakeReady, WaitTimeout, CheckLength,
       TakeLength, CopyStart, CopyEnd, PostDone, ResetAndParse, ReturnError, KioskStep,
       KioskAnswers, KioskTakesAck, KioskNotifies, KioskDrops, Register, PollTimeout,
       Call, CallNoMemory
  <2>. QED  BY <2>1 DEF Told, Reported, AckInv
<1>. QED  BY <1>1, <1>2, <1>3 DEF Next

\* Who adds an ACK: only the thread that goes on to the callback.
LEMMA AcksQueued ==
  ASSUME TypeOK, AckInv, [Next]_vars, NEW i \in DOMAIN to_kiosk', to_kiosk'[i].kind = "ack",
         NEW n, n = to_kiosk'[i].num
  PROVE  Told(n)'
<1>. USE DEF vars, appVars, handVars, socketVars, eventVars
<1>1. CASE SendAck
  <2>. DEFINE m == Parsed(work_buffer)
              f == [kind |-> "ack", id |-> m.id, num |-> m.num]
  <2>1. f \in Frame
    BY ParsedType DEF TypeOK, Message, Frame
  <2>2. SendOk(f) \/ SendFails
    BY <1>1 DEF SendAck
  <2>3. \/ to_kiosk'[i] = f
        \/ i \in DOMAIN to_kiosk /\ to_kiosk'[i] = to_kiosk[i]
    <3>. HIDE DEF f
    <3>. QED  BY <2>1, <2>2, SendIs
  <2>4. rpc' = "callback" /\ work_buffer' = work_buffer /\ delivered' = delivered
        /\ rpc = "ack"
    BY <1>1 DEF SendAck
  <2>5. CASE to_kiosk'[i] = f
    BY <2>4, <2>5 DEF Told
  <2>6. CASE i \in DOMAIN to_kiosk /\ to_kiosk'[i] = to_kiosk[i]
    BY <2>4, <2>6 DEF Told, AckInv, Reported
  <2>. QED  BY <2>3, <2>5, <2>6
<1>2. CASE SendCommand
  <2>. DEFINE f == [kind |-> "command", id |-> Api[method].sent, num |-> calls]
  <2>1. f \in Frame /\ f.kind # "ack"
    BY ApiTypes, ConstantsAssumption DEF TypeOK, Frame
  <2>2. SendOk(f) \/ SendFails
    BY <1>2 DEF SendCommand
  <2>3. i \in DOMAIN to_kiosk /\ to_kiosk'[i] = to_kiosk[i]
    <3>. HIDE DEF f
    <3>. QED  BY <2>1, <2>2, SendIs
  <2>. QED  BY <2>3, ToldStays DEF AckInv
<1>3. CASE KioskAnswers \/ KioskTakesAck
  <2>1. to_kiosk # <<>> /\ to_kiosk' = Tail(to_kiosk)
    BY <1>3 DEF KioskAnswers, KioskTakesAck
  <2>2. i + 1 \in DOMAIN to_kiosk /\ to_kiosk'[i] = to_kiosk[i + 1]
    BY <2>1, FrameTaken
  <2>. QED  BY <2>2, ToldStays DEF AckInv
<1>4. CASE ~SendAck /\ ~SendCommand /\ ~KioskAnswers /\ ~KioskTakesAck
  <2>1. to_kiosk' \in {to_kiosk, <<>>}
    BY <1>4 DEF Next, AppStep, ClearReady, TakeReady, WaitTimeout, CheckLength,
       TakeLength, CopyStart, CopyEnd, PostDone, ResetAndParse, ReturnError, KioskStep,
       KioskNotifies, KioskDrops, Register, PollTimeout, Call, CallNoMemory,
       CommandsThreadStep, Receive, Dispatch, ClearDone, PostReady, TakeDone,
       AwaitTimeout, Callback, Disconnect, Connect
  <2>2. i \in DOMAIN to_kiosk /\ to_kiosk'[i] = to_kiosk[i]
    BY <2>1
  <2>. QED  BY <2>2, ToldStays DEF AckInv
<1>. QED  BY <1>1, <1>2, <1>3, <1>4

\* What is acknowledged is a notice that has been reported, or is about to be.
LEMMA NextKeepsAcks ==
  ASSUME TypeOK, AckInv, [Next]_vars
  PROVE  AckInv'
<1>. USE DEF vars, appVars, handVars, socketVars, eventVars
<1>1. (rpc \in {"ack", "callback"} => IsNotice(Parsed(work_buffer)))'
  <2>1. CASE Dispatch
    BY <2>1 DEF Dispatch, AckInv
  <2>2. CASE ~Dispatch
    <3>1. rpc' \in {"ack", "callback"} =>
            rpc \in {"ack", "callback"} /\ work_buffer' = work_buffer
      BY <2>2 DEF Next, AppStep, ClearReady, SendCommand, TakeReady, WaitTimeout,
         CheckLength, TakeLength, CopyStart, CopyEnd, PostDone, ResetAndParse,
         ReturnError, KioskStep, KioskAnswers, KioskTakesAck, KioskNotifies, KioskDrops,
         Register, PollTimeout, Call, CallNoMemory, CommandsThreadStep, Receive,
         ClearDone, PostReady, TakeDone, AwaitTimeout, SendAck, Callback, Disconnect,
         Connect
    <3>. QED  BY <3>1 DEF AckInv
  <2>. QED  BY <2>1, <2>2
<1>2. \A n \in acked' : Told(n)'
  <2>1. CASE KioskTakesAck
    <3>1. /\ to_kiosk # <<>> /\ Head(to_kiosk).kind = "ack"
          /\ acked' = acked \cup {Head(to_kiosk).num}
      BY <2>1 DEF KioskTakesAck
    <3>2. \A n \in acked' : Told(n)
      BY <3>1, FrameTaken DEF AckInv
    <3>. QED  BY <3>2, ToldStays
  <2>2. CASE ~KioskTakesAck
    <3>1. acked' = acked
      BY <2>2 DEF Next, AppStep, ClearReady, SendCommand, TakeReady, WaitTimeout,
         CheckLength, TakeLength, CopyStart, CopyEnd, PostDone, ResetAndParse,
         ReturnError, KioskStep, KioskAnswers, KioskNotifies, KioskDrops,
         Register, PollTimeout, Call, CallNoMemory, CommandsThreadStep, Receive,
         Dispatch, ClearDone, PostReady, TakeDone, AwaitTimeout, SendAck, Callback,
         Disconnect, Connect
    <3>. QED  BY <3>1, ToldStays DEF AckInv
  <2>. QED  BY <2>1, <2>2
<1>3. (\A i \in DOMAIN to_kiosk : to_kiosk[i].kind = "ack" => Told(to_kiosk[i].num))'
  <2>1. \A i \in DOMAIN to_kiosk' : to_kiosk'[i].kind = "ack" =>
          \A n : n = to_kiosk'[i].num => Told(n)'
    BY AcksQueued
  <2>. QED  BY <2>1 DEF Told, Reported
<1>4. trans_complete_cb' = TRUE
  BY ToldStays
<1>. QED  BY <1>1, <1>2, <1>3, <1>4 DEF AckInv

\* Where the application registers its callback before Init: whatever the kiosk was
\* given an ACK for, the application's callback has been called for, or is called
\* next; no loss of the connection or full socket comes in between.
THEOREM AcksAreReported ==
  ASSUME CallbackFirst
  PROVE  Spec => []AckedIsReported
<1>1. Init => AckInv
  <2>1. DOMAIN <<>> = {}
    OBVIOUS
  <2>. QED  BY <2>1 DEF Init, AckInv
<1>2. AckInv => AckedIsReported
  BY DEF AckInv, AckedIsReported, Told, InHand
<1>. QED  BY <1>1, <1>2, NextKeepsAcks, TypeCorrect, PTL DEF Spec
-----------------------------------------------------------------------------
(***************************************************************************)
(* The ways in which a notice is lost.                                     *)
(***************************************************************************)

Kept == Pending \cup InHand \cup Reported

\* A step that touches neither the wire nor what the commands thread has in hand,
\* and takes nothing back from the callback, loses no notice.
LEMMA NothingLost ==
  ASSUME Pending' = Pending, InHand \subseteq InHand', Reported \subseteq Reported'
  PROVE  Kept \subseteq Kept'
BY DEF Kept

\* A read that is one whole message hands its notice to the commands thread.
LEMMA WholeReadKeeps ==
  ASSUME TypeOK, WireInv, Receive, work_buffer' = Fragments(Parsed(work_buffer')),
         NEW n \in due, n \in Kept
  PROVE  n \in Kept'
<1>1. /\ rpc = "poll" /\ rpc' = "dispatch" /\ UNCHANGED delivered
      /\ to_client \in Seq(Fragment)
  BY DEF Receive, TypeOK, eventVars
<1>2. PICK k \in 1..Len(to_client) :
        /\ work_buffer' = SubSeq(to_client, 1, k)
        /\ to_client' = SubSeq(to_client, k + 1, Len(to_client))
  BY DEF Receive
<1>3. CASE n \in Reported
  BY <1>1, <1>3 DEF Kept, Reported
<1>4. CASE n \in Pending
  <2>1. PICK i \in DOMAIN to_client :
          to_client[i].msg.method # "none" /\ to_client[i].msg.num = n
    BY <1>4 DEF Pending
  <2>2. /\ Len(work_buffer') = k /\ \A j \in 1..k : work_buffer'[j] = to_client[j]
        /\ DOMAIN to_client' = 1..(Len(to_client) - k)
        /\ \A j \in 1..(Len(to_client) - k) : to_client'[j] = to_client[j + k]
    BY <1>1, <1>2, Taken
  <2>3. i \in 1..k \/ (i - k \in 1..(Len(to_client) - k) /\ (i - k) + k = i)
    BY <1>1, <2>1, LenProperties
  <2>4. CASE i \in 1..k
    <3>. DEFINE m == Parsed(work_buffer')
    <3>1. m \in Message
      <4>1. to_client[1] \in Fragment
        BY <1>1, <1>2, ElementOfSeq, LenProperties
      <4>2. work_buffer'[1] = to_client[1]
        BY <2>2, <2>4, LenProperties
      <4>. QED  BY <4>1, <4>2, GarbageType DEF Parsed, Fragment
    <3>. HIDE DEF m
    <3>2. work_buffer' = Fragments(m)
      BY DEF m
    <3>3. to_client[i].msg = m
      <4>1. Len(Fragments(m)) = m.len /\ \A j \in 1..m.len : Fragments(m)[j].msg = m
        BY <3>1, FragmentsAre
      <4>. QED  BY <2>2, <2>4, <3>2, <4>1
    <3>4. IsNotice(m) /\ m.num = n
      BY <2>1, <3>3 DEF WireInv, AllGenuine, Genuine
    <3>. QED  BY <1>1, <3>4 DEF Kept, InHand, m
  <2>5. CASE i - k \in 1..(Len(to_client) - k) /\ (i - k) + k = i
    <3>1. i - k \in DOMAIN to_client' /\ to_client'[i - k] = to_client[i]
      BY <2>2, <2>5
    <3>. QED  BY <2>1, <3>1 DEF Kept, Pending
  <2>. QED  BY <2>3, <2>4, <2>5
<1>. QED  BY <1>1, <1>3, <1>4 DEF Kept, InHand

\* The commands thread loses a notice in the ways listed.
LEMMA ThreadLosesOnly ==
  ASSUME TypeOK, WireInv, CommandsThreadStep, NEW n \in due, n \in Kept
  PROVE  n \in Kept' \/ LostBy(n)
<1>. USE DEF appVars, handVars, socketVars, eventVars
<1>1. CASE Receive
  BY <1>1, WholeReadKeeps DEF LostBy
<1>2. CASE Dispatch
  <2>1. UNCHANGED <<work_buffer, to_client, delivered>> /\ rpc = "dispatch"
    BY <1>2 DEF Dispatch
  <2>2. Pending' = Pending /\ Reported' = Reported
    BY <2>1 DEF Pending, Reported
  <2>3. CASE n \notin InHand
    BY <2>2, <2>3 DEF Kept
  <2>4. CASE n \in InHand
    <3>1. IsNotice(Parsed(work_buffer)) /\ Parsed(work_buffer).num = n
      BY <2>4 DEF InHand
    <3>2. IsExpected(Parsed(work_buffer)) \/ rpc' = "ack"
      BY <1>2, <3>1 DEF Dispatch
    <3>3. rpc' = "ack" => n \in InHand'
      BY <2>1, <3>1 DEF InHand
    <3>. QED  BY <1>2, <3>1, <3>2, <3>3 DEF Kept, LostBy
  <2>. QED  BY <2>3, <2>4
<1>3. CASE SendAck
  <2>1. UNCHANGED <<work_buffer, to_client, delivered>> /\ rpc' = "callback"
    BY <1>3 DEF SendAck, SendOk, SendFails
  <2>2. Pending' = Pending /\ Reported' = Reported /\ InHand \subseteq InHand'
    BY <2>1 DEF Pending, Reported, InHand
  <2>. QED  BY <2>2, NothingLost
<1>4. CASE Callback
  <2>1. UNCHANGED to_client
    BY <1>4 DEF Callback
  <2>2. Pending' = Pending /\ Reported \subseteq Reported'
    BY <1>4, <2>1, CallbackReports DEF Pending
  <2>3. n \in InHand => n = Parsed(work_buffer).num
    BY DEF InHand
  <2>. QED  BY <1>4, <2>2, <2>3, CallbackReports DEF Kept, LostBy
<1>5. CASE ClearDone \/ PostReady \/ TakeDone \/ AwaitTimeout \/ Disconnect
  <2>1. /\ rpc \notin {"dispatch", "ack", "callback"}
        /\ UNCHANGED <<to_client, delivered>>
    BY <1>5 DEF ClearDone, PostReady, TakeDone, AwaitTimeout, Disconnect
  <2>2. Pending' = Pending /\ Reported' = Reported /\ InHand = {}
    BY <2>1 DEF Pending, Reported, InHand
  <2>. QED  BY <2>2, NothingLost
<1>6. CASE Connect
  BY <1>6 DEF LostBy
<1>. QED  BY <1>1, <1>2, <1>3, <1>4, <1>5, <1>6 DEF CommandsThreadStep

\* What the kiosk sends comes after what is on its way; it loses a notice only with
\* the connection.
LEMMA KioskLosesOnly ==
  ASSUME TypeOK, KioskStep, NEW n \in due, n \in Kept
  PROVE  n \in Kept' \/ LostBy(n)
<1>. USE DEF appVars, handVars, socketVars, eventVars
<1>1. CASE KioskDrops
  BY <1>1 DEF LostBy
<1>2. CASE ~KioskDrops
  <2>1. UNCHANGED <<rpc, work_buffer, delivered>>
    BY <1>2 DEF KioskStep, KioskAnswers, KioskTakesAck, KioskNotifies
  <2>2. InHand' = InHand /\ Reported' = Reported
    BY <2>1 DEF InHand, Reported
  <2>3. to_client' = to_client \/ \E m \in Message : to_client' = to_client \o Fragments(m)
    <3>1. CASE KioskAnswers
      <4>1. PICK a \in Answers : to_client' = to_client \o Fragments(Answer(a, Head(to_kiosk)))
        BY <3>1 DEF KioskAnswers
      <4>2. Answer(a, Head(to_kiosk)) \in Message
        BY <3>1, FrameTaken, ConstantsAssumption, GarbageType
        DEF KioskAnswers, Answer, AnswerForm, Frame, Message
      <4>. QED  BY <4>1, <4>2
    <3>2. CASE KioskNotifies
      <4>1. PICK e \in Notices : to_client' = to_client \o Fragments(Notice(e))
        BY <3>2 DEF KioskNotifies
      <4>2. Notice(e) \in Message
        BY ConstantsAssumption DEF Notice, NoticeForm, Message, Result, TypeOK
      <4>. QED  BY <4>1, <4>2
    <3>3. CASE KioskTakesAck
      BY <3>3 DEF KioskTakesAck
    <3>. QED  BY <1>2, <3>1, <3>2, <3>3 DEF KioskStep
  <2>4. Pending \subseteq Pending'
    <3>1. CASE to_client' = to_client
      BY <3>1 DEF Pending
    <3>2. ASSUME NEW m \in Message, to_client' = to_client \o Fragments(m)
          PROVE  Pending \subseteq Pending'
      <4>1. /\ DOMAIN to_client = 1..Len(to_client) /\ Len(to_client) \in Nat /\ m.len \in Nat
            /\ DOMAIN to_client' = 1..(Len(to_client) + m.len)
            /\ \A i \in 1..Len(to_client) : to_client'[i] = to_client[i]
        BY <3>2, Sent, LenProperties DEF TypeOK, Message
      <4>2. \A i \in DOMAIN to_client : i \in DOMAIN to_client' /\ to_client'[i] = to_client[i]
        BY <4>1
      <4>. QED  BY <4>2 DEF Pending
    <3>. QED  BY <2>3, <3>1, <3>2
  <2>. QED  BY <2>2, <2>4 DEF Kept
<1>. QED  BY <1>1, <1>2

\* Whatever the kiosk sends, however the stream is cut and whoever loses its
\* connection, a TransactionComplete is lost only with its connection, in a read that
\* is not one whole message, to a call that waits for its id, or for want of a
\* callback: not to a call under way, a timeout, or an ACK that cannot be sent.
THEOREM NoticesAreLostOnly == Spec => NoticeLostOnly
<1>. DEFINE Step == \A n \in due \cap Kept : n \notin Kept' => LostBy(n)
<1>1. TypeOK /\ WireInv /\ [Next]_vars => Step
  <2>1. SUFFICES ASSUME TypeOK, WireInv, [Next]_vars, NEW n \in due, n \in Kept
                 PROVE  n \in Kept' \/ LostBy(n)
    OBVIOUS
  <2>2. CASE AppStep \/ Register \/ PollTimeout \/ UNCHANGED vars
             \/ \E m \in Methods : Call(m) \/ CallNoMemory(m)
    <3>1. UNCHANGED <<to_client, rpc, work_buffer, delivered>>
      BY <2>2 DEF vars, appVars, handVars, socketVars, eventVars, AppStep, ClearReady,
         SendCommand, SendOk, SendFails, TakeReady, WaitTimeout, CheckLength, TakeLength,
         CopyStart, CopyEnd, PostDone, ResetAndParse, ReturnError, Register, PollTimeout,
         Call, CallNoMemory
    <3>2. Pending' = Pending /\ InHand' = InHand /\ Reported' = Reported
      BY <3>1 DEF Pending, InHand, Reported
    <3>. QED  BY <2>1, <3>2, NothingLost
  <2>. QED  BY <2>1, <2>2, ThreadLosesOnly, KioskLosesOnly DEF Next
<1>2. [](TypeOK /\ WireInv) /\ [][Next]_vars => [][Step]_vars
  BY <1>1, PTL
<1>. QED  BY <1>2, TypeCorrect, WireInductive, PTL DEF Spec, NoticeLostOnly, Kept
-----------------------------------------------------------------------------
(***************************************************************************)
(* The order of the notices.                                               *)
(***************************************************************************)

\* What the application is told of was announced, each event once and in order.
ReportedInOrder ==
  /\ Reported \subseteq due
  /\ \A i, j \in DOMAIN delivered : i < j => delivered[i] < delivered[j]

StartsNotice(x) == x.part = 1 /\ x.msg.method # "none"

\* All notices on their way were sent after notice n.
BeforeAll(n) ==
  \A i \in DOMAIN to_client : StartsNotice(to_client[i]) => n < to_client[i].msg.num

\* The commands thread has something in hand that is no answer.
Carrying == rpc \in {"dispatch", "ack", "callback"} /\ Parsed(work_buffer).method # "none"

NewsInv ==
  /\ ReportedInOrder
  /\ rpc \in {"ack", "callback"} => IsNotice(Parsed(work_buffer))
  /\ \A i, j \in DOMAIN to_client :
       i < j /\ StartsNotice(to_client[i]) /\ StartsNotice(to_client[j])
         => to_client[i].msg.num < to_client[j].msg.num
  /\ \A n \in Reported : BeforeAll(n)
  /\ Carrying => /\ BeforeAll(Parsed(work_buffer).num)
                 /\ \A n \in Reported : n < Parsed(work_buffer).num

\* The notice in hand is one that was announced.
LEMMA InHandIsDue ==
  ASSUME AllGenuine, IsNotice(Parsed(work_buffer))
  PROVE  Parsed(work_buffer).method # "none" /\ Parsed(work_buffer).num \in due
<1>1. Parsed(work_buffer).method # "none"
  BY DEF IsNotice, parse_transaction_complete
<1>2. Parsed(work_buffer) # Garbage
  BY <1>1 DEF Garbage
<1>. QED  BY <1>1, <1>2 DEF AllGenuine, Genuine

\* A step that takes nothing in and reports nothing.
LEMMA NewsStays ==
  ASSUME NewsInv, delivered' = delivered, due \subseteq due',
         to_client' \in {to_client, <<>>}, Carrying' => Carrying /\ work_buffer' = work_buffer,
         rpc' \in {"ack", "callback"} => IsNotice(Parsed(work_buffer)) /\ work_buffer' = work_buffer
  PROVE  NewsInv'
<1>1. DOMAIN <<>> = {}
  OBVIOUS
<1>2. \A i \in DOMAIN to_client' : i \in DOMAIN to_client /\ to_client'[i] = to_client[i]
  BY <1>1
<1>3. \A n : BeforeAll(n) => BeforeAll(n)'
  BY <1>2 DEF BeforeAll
<1>4. Reported' = Reported /\ ReportedInOrder'
  BY DEF Reported, ReportedInOrder, NewsInv
<1>5. Carrying' => Parsed(work_buffer)' = Parsed(work_buffer)
  OBVIOUS
<1>6. Carrying' => BeforeAll(Parsed(work_buffer).num)'
  BY <1>3, <1>5 DEF NewsInv, BeforeAll
<1>. QED  BY <1>2, <1>3, <1>4, <1>5, <1>6 DEF NewsInv

\* The read takes the first notice on its way, and the callback reports it.
LEMMA ThreadKeepsNews ==
  ASSUME TypeOK, WireInv, NewsInv, CommandsThreadStep
  PROVE  NewsInv'
<1>. USE DEF appVars, handVars, socketVars, eventVars
<1>1. CASE Receive
  <2>1. PICK k \in 1..Len(to_client) :
          /\ work_buffer' = SubSeq(to_client, 1, k)
          /\ to_client' = SubSeq(to_client, k + 1, Len(to_client))
    BY <1>1 DEF Receive
  <2>2. /\ rpc' = "dispatch" /\ UNCHANGED <<due, delivered>>
        /\ Reported' = Reported /\ ReportedInOrder'
    BY <1>1 DEF Receive, Reported, ReportedInOrder, NewsInv
  <2>3. /\ k \in Nat \ {0} /\ 1 \in DOMAIN to_client
        /\ \A i \in DOMAIN to_client' : /\ i \in Nat /\ i + k \in DOMAIN to_client /\ 1 < i + k
                                        /\ to_client'[i] = to_client[i + k]
    <3>1. /\ DOMAIN to_client' = 1..(Len(to_client) - k)
          /\ \A i \in 1..(Len(to_client) - k) : to_client'[i] = to_client[i + k]
      BY <2>1, Taken DEF TypeOK
    <3>2. Len(to_client) \in Nat /\ DOMAIN to_client = 1..Len(to_client)
      BY LenProperties DEF TypeOK
    <3>. QED  BY <3>1, <3>2
  <2>4. \A i, j \in DOMAIN to_client' : i < j => i + k < j + k
    BY <2>3
  <2>5. \A i, j \in DOMAIN to_client' :
          i < j /\ StartsNotice(to_client'[i]) /\ StartsNotice(to_client'[j])
            => to_client'[i].msg.num < to_client'[j].msg.num
    BY <2>3, <2>4 DEF NewsInv
  <2>6. \A n : BeforeAll(n) => BeforeAll(n)'
    BY <2>3 DEF BeforeAll
  <2>7. Carrying' => StartsNotice(to_client[1]) /\ Parsed(work_buffer)' = to_client[1].msg
    <3>1. Carrying' => Parsed(work_buffer') # Garbage
      BY DEF Carrying, Garbage
    <3>2. Carrying' => to_client[1].part = 1 /\ Parsed(work_buffer') = to_client[1].msg
      BY <2>1, <3>1, FirstParsed DEF TypeOK
    <3>. QED  BY <3>2 DEF Carrying, StartsNotice
  <2>8. Carrying' => /\ BeforeAll(Parsed(work_buffer).num)'
                     /\ \A n \in Reported : n < Parsed(work_buffer)'.num
    BY <2>3, <2>7 DEF NewsInv, BeforeAll
  <2>. QED  BY <2>2, <2>5, <2>6, <2>8 DEF NewsInv
<1>2. CASE Callback
  <2>. DEFINE n == Parsed(work_buffer).num
  <2>1. /\ rpc = "callback" /\ rpc' = "poll" /\ UNCHANGED <<due, to_client>>
        /\ delivered' = delivered \/ delivered' = Append(delivered, n)
    BY <1>2 DEF Callback
  <2>2. n \in due /\ n \in Nat /\ BeforeAll(n) /\ \A r \in Reported : r < n
    BY <2>1, InHandIsDue DEF NewsInv, WireInv, TypeOK, Carrying
  <2>. HIDE DEF n
  <2>3. /\ \A i \in DOMAIN delivered' :
             \/ i \in DOMAIN delivered /\ delivered'[i] = delivered[i]
             \/ i = Len(delivered) + 1 /\ delivered'[i] = n
        /\ Len(delivered) \in Nat /\ DOMAIN delivered = 1..Len(delivered)
    <3>1. Len(delivered) \in Nat /\ DOMAIN delivered = 1..Len(delivered)
      BY LenProperties DEF TypeOK
    <3>2. CASE delivered' = Append(delivered, n)
      <4>1. /\ Len(delivered') = Len(delivered) + 1 /\ delivered' \in Seq(Nat)
            /\ \A i \in 1..Len(delivered) : delivered'[i] = delivered[i]
            /\ delivered'[Len(delivered) + 1] = n
        BY <2>2, <3>2, AppendProperties DEF TypeOK
      <4>2. DOMAIN delivered' = 1..(Len(delivered) + 1)
        BY <4>1, LenProperties
      <4>. QED  BY <3>1, <4>1, <4>2
    <3>. QED  BY <2>1, <3>1, <3>2
  <2>4. \A r \in Reported' : r \in Reported \/ r = n
    BY <2>3 DEF Reported
  <2>5. \A i \in DOMAIN delivered : delivered[i] \in Reported
    BY DEF Reported
  <2>6. \A i, j \in DOMAIN delivered' : i < j => delivered'[i] < delivered'[j]
    <3>1. SUFFICES ASSUME NEW i \in DOMAIN delivered', NEW j \in DOMAIN delivered', i < j
                   PROVE  delivered'[i] < delivered'[j]
      OBVIOUS
    <3>2. CASE j \in DOMAIN delivered /\ delivered'[j] = delivered[j]
      <4>1. i \in DOMAIN delivered /\ delivered'[i] = delivered[i]
        BY <2>3, <3>1, <3>2
      <4>. QED  BY <3>1, <3>2, <4>1 DEF NewsInv, ReportedInOrder
    <3>3. CASE j = Len(delivered) + 1 /\ delivered'[j] = n
      <4>1. i \in DOMAIN delivered /\ delivered'[i] = delivered[i]
        BY <2>3, <3>1, <3>3
      <4>. QED  BY <2>2, <2>5, <3>3, <4>1
    <3>. QED  BY <2>3, <3>2, <3>3
  <2>7. ReportedInOrder'
    BY <2>1, <2>2, <2>4, <2>6 DEF NewsInv, ReportedInOrder
  <2>8. \A r \in Reported' : BeforeAll(r)'
    BY <2>1, <2>2, <2>4 DEF NewsInv, BeforeAll
  <2>9. ~Carrying'
    BY <2>1 DEF Carrying
  <2>. QED  BY <2>1, <2>7, <2>8, <2>9 DEF NewsInv
<1>3. CASE ~Receive /\ ~Callback
  <2>1. /\ UNCHANGED <<delivered, due, work_buffer>> /\ to_client' \in {to_client, <<>>}
        /\ rpc' \in {"dispatch", "ack", "callback"} => rpc \in {"dispatch", "ack", "callback"}
        /\ rpc' \in {"ack", "callback"} => IsNotice(Parsed(work_buffer)) \/ rpc \in {"ack", "callback"}
    BY <1>3 DEF CommandsThreadStep, Dispatch, ClearDone, PostReady, TakeDone, AwaitTimeout,
       SendAck, SendOk, SendFails, Disconnect, Connect
  <2>2. (Carrying' => Carrying) /\ (rpc' \in {"ack", "callback"} => IsNotice(Parsed(work_buffer)))
    BY <2>1 DEF Carrying, NewsInv
  <2>. QED  BY <2>1, <2>2, NewsStays
<1>. QED  BY <1>1, <1>2, <1>3

\* A new notice comes last; an answer is no notice.
LEMMA KioskKeepsNews ==
  ASSUME TypeOK, WireInv, NewsInv, KioskStep
  PROVE  NewsInv'
<1>. USE DEF appVars, handVars, socketVars, eventVars
<1>1. /\ UNCHANGED <<rpc, work_buffer, delivered>> /\ Reported' = Reported /\ due \subseteq due'
      /\ (Carrying' => Carrying)
  BY DEF KioskStep, KioskAnswers, KioskTakesAck, KioskNotifies, KioskDrops, Reported, Carrying
<1>2. ASSUME NEW m \in Message, to_client' = to_client \o Fragments(m),
             m.method # "none" => m.num = notices + 1
      PROVE  NewsInv'
  <2>1. /\ Len(to_client) \in Nat /\ DOMAIN to_client = 1..Len(to_client) /\ notices \in Nat
        /\ DOMAIN to_client' = 1..(Len(to_client) + m.len) /\ m.len \in Nat
    <3>1. m.len \in Nat
      BY DEF Message
    <3>. QED  BY <1>2, <3>1, Sent, LenProperties DEF TypeOK
  <2>2. \A i \in DOMAIN to_client' :
          \/ i \in DOMAIN to_client /\ to_client'[i] = to_client[i]
          \/ /\ i > Len(to_client) /\ to_client'[i].msg = m
             /\ to_client'[i].part = i - Len(to_client)
    BY <1>2, SentOrThere DEF TypeOK
  <2>3. \A i \in DOMAIN to_client' : StartsNotice(to_client'[i]) =>
          \/ i \in DOMAIN to_client /\ to_client'[i] = to_client[i]
          \/ i = Len(to_client) + 1 /\ to_client'[i].msg.num = notices + 1
    BY <1>2, <2>1, <2>2 DEF StartsNotice
  <2>4. \A i \in DOMAIN to_client : StartsNotice(to_client[i]) =>
          to_client[i].msg.num \in 1..notices
    BY DEF WireInv, AllGenuine, Genuine, StartsNotice
  <2>5. \A i, j \in DOMAIN to_client' :
          i < j /\ StartsNotice(to_client'[i]) /\ StartsNotice(to_client'[j])
            => to_client'[i].msg.num < to_client'[j].msg.num
    BY <2>1, <2>3, <2>4 DEF NewsInv
  <2>6. \A n \in 1..notices : BeforeAll(n) => BeforeAll(n)'
    BY <2>1, <2>3 DEF BeforeAll
  <2>7. Reported \subseteq 1..notices
    BY DEF NewsInv, ReportedInOrder, WireInv, AllGenuine
  <2>8. Carrying => Parsed(work_buffer).num \in 1..notices
    <3>1. Carrying => Parsed(work_buffer).method # "none" /\ Parsed(work_buffer) # Garbage
      BY DEF Carrying, Garbage
    <3>. QED  BY <3>1 DEF WireInv, AllGenuine, Genuine
  <2>9. Carrying' => BeforeAll(Parsed(work_buffer).num)'
    BY <1>1, <2>6, <2>8 DEF NewsInv, BeforeAll
  <2>10. ReportedInOrder'
    BY <1>1 DEF ReportedInOrder, NewsInv
  <2>11. Carrying' => \A n \in Reported' : n < Parsed(work_buffer)'.num
    BY <1>1 DEF NewsInv
  <2>. QED  BY <1>1, <2>5, <2>6, <2>7, <2>9, <2>10, <2>11 DEF NewsInv
<1>3. CASE KioskAnswers
  <2>1. /\ to_kiosk # <<>>
        /\ \E a \in Answers : to_client' = to_client \o Fragments(Answer(a, Head(to_kiosk)))
    BY <1>3 DEF KioskAnswers
  <2>2. PICK a \in Answers : to_client' = to_client \o Fragments(Answer(a, Head(to_kiosk)))
    BY <2>1
  <2>. DEFINE m == Answer(a, Head(to_kiosk))
  <2>3. m \in Message /\ m.method = "none"
    BY <2>1, FrameTaken, ConstantsAssumption, GarbageType
    DEF Answer, AnswerForm, Frame, Message
  <2>. HIDE DEF m
  <2>. QED  BY <1>2, <2>2, <2>3 DEF m
<1>4. CASE KioskNotifies
  <2>1. PICK e \in Notices : to_client' = to_client \o Fragments(Notice(e))
    BY <1>4 DEF KioskNotifies
  <2>. DEFINE m == Notice(e)
  <2>2. m \in Message /\ m.num = notices + 1
    BY ConstantsAssumption DEF Notice, NoticeForm, Message, Result, TypeOK
  <2>. HIDE DEF m
  <2>. QED  BY <1>2, <2>1, <2>2 DEF m
<1>5. CASE KioskTakesAck \/ KioskDrops
  <2>1. to_client' \in {to_client, <<>>}
    BY <1>5 DEF KioskTakesAck, KioskDrops
  <2>. QED  BY <1>1, <2>1, NewsStays DEF NewsInv
<1>. QED  BY <1>3, <1>4, <1>5 DEF KioskStep

\* Whatever is split, late, dropped or lost: the application is told of events that
\* the kiosk announced, of each once, in the order they were announced.
THEOREM NoticesInOrder == Spec => [](NewsInv /\ ReportedInOrder)
<1>. USE DEF vars, appVars, handVars, socketVars, eventVars
<1>1. Init => NewsInv
  <2>1. DOMAIN <<>> = {}
    OBVIOUS
  <2>. QED  BY <2>1 DEF Init, NewsInv, ReportedInOrder, Reported, Carrying, BeforeAll
<1>2. TypeOK /\ WireInv /\ NewsInv /\ [Next]_vars => NewsInv'
  <2>. SUFFICES ASSUME TypeOK, WireInv, NewsInv, [Next]_vars PROVE NewsInv'
    OBVIOUS
  <2>1. CASE AppStep \/ Register \/ PollTimeout \/ UNCHANGED vars
             \/ \E m \in Methods : Call(m) \/ CallNoMemory(m)
    <3>1. UNCHANGED <<to_client, rpc, work_buffer, delivered, due>>
      BY <2>1 DEF AppStep, ClearReady, SendCommand, SendOk, SendFails, TakeReady, WaitTimeout,
         CheckLength, TakeLength, CopyStart, CopyEnd, PostDone, ResetAndParse, ReturnError,
         Register, PollTimeout, Call, CallNoMemory
    <3>2. Carrying' => Carrying
      BY <3>1 DEF Carrying
    <3>. QED  BY <3>1, <3>2, NewsStays DEF NewsInv
  <2>. QED  BY <2>1, ThreadKeepsNews, KioskKeepsNews DEF Next
<1>3. NewsInv => ReportedInOrder
  BY DEF NewsInv
<1>. QED  BY <1>1, <1>2, <1>3, WireInductive, TypeCorrect, PTL DEF Spec
-----------------------------------------------------------------------------
(***************************************************************************)
(* Which answer a call of the API returns: the one to its own command, or  *)
(* to an earlier command whose call gave up.                               *)
(***************************************************************************)

IsAnswer(m) == m.method = "none" /\ m # Garbage

\* send_receive's copy is the whole work buffer, not a part of it.
CopyIsBuffer ==
  /\ apc \in {"copy", "copying"} => resp_len = Len(work_buffer)
  /\ apc \in {"copying", "post"} => resp = work_buffer

CopyGenuine ==
  apc = "reset" /\ Parsed(resp) # Garbage => Genuine(Parsed(resp), calls, notices, due)

CopyInv == CopyIsBuffer /\ CopyGenuine
-----------------------------------------------------------------------------
(* The copy is the buffer. *)

\* Under the hand-over, nothing changes the buffer or its length between the two
\* statements of the copy.
LEMMA NextKeepsCopy ==
  ASSUME TypeOK, HandoffInv, CopyIsBuffer, [Next]_vars
  PROVE  CopyIsBuffer'
<1>. USE DEF CopyIsBuffer, vars, appVars, handVars, socketVars, eventVars
<1>1. CASE AppStep
  <2>1. CASE TakeLength
    BY <2>1 DEF TakeLength, HandoffInv, TokensTakeTurns, LengthIsOfBuffer, Holding
  <2>2. CASE CopyStart
    <3>1. Buffered(resp_len) = work_buffer
      BY <2>2, SubSeqFull, LenProperties
      DEF CopyStart, Buffered, Smaller, TypeOK
    <3>. QED  BY <2>2, <3>1 DEF CopyStart
  <2>3. CASE CopyEnd \/ PostDone
    BY <2>3 DEF CopyEnd, PostDone
  <2>4. CASE ResetAndParse
    <3>1. apc' \in {"idle", "crashed"}
      BY <2>4 DEF ResetAndParse
    <3>. QED  BY <3>1
  <2>5. CASE ClearReady \/ SendCommand \/ TakeReady \/ WaitTimeout \/ CheckLength
    <3>1. apc' \in {"idle", "send", "wait", "check", "length"}
      BY <2>5 DEF ClearReady, SendCommand, TakeReady, WaitTimeout, CheckLength, ReturnError
    <3>. QED  BY <3>1
  <2>. QED  BY <1>1, <2>1, <2>2, <2>3, <2>4, <2>5 DEF AppStep
<1>2. CASE CommandsThreadStep
  <2>1. CASE Receive
    <3>1. rpc = "poll" /\ apc' = apc
      BY <2>1 DEF Receive
    <3>. QED  BY <3>1 DEF HandoffInv, TokensTakeTurns, Holding
  <2>2. CASE ~Receive
    <3>1. UNCHANGED <<apc, resp_len, resp, work_buffer>>
      BY <1>2, <2>2 DEF CommandsThreadStep, Dispatch, ClearDone, PostReady, TakeDone,
        AwaitTimeout, SendAck, Callback, Disconnect, Connect
    <3>. QED  BY <3>1
  <2>. QED  BY <2>1, <2>2
<1>3. ASSUME NEW m \in Methods, Call(m) PROVE CopyIsBuffer'
  BY <1>3 DEF Call
<1>4. CASE KioskStep \/ Register \/ PollTimeout \/ UNCHANGED vars
           \/ \E m \in Methods : CallNoMemory(m)
  <2>1. UNCHANGED <<apc, resp_len, resp, work_buffer>>
    BY <1>4 DEF KioskStep, KioskAnswers, KioskTakesAck, KioskNotifies, KioskDrops,
                Register, PollTimeout, CallNoMemory
  <2>. QED  BY <2>1
<1>. QED  BY <1>1, <1>2, <1>3, <1>4 DEF Next

\* What was copied answers a command that was sent, or is a notice.
LEMMA NextKeepsCopyGenuine ==
  ASSUME TypeOK, WireInv, CopyInv, [Next]_vars
  PROVE  CopyGenuine'
<1>. USE DEF CopyInv, vars, appVars, handVars, socketVars, eventVars
<1>1. CASE PostDone
  <2>1. resp' = work_buffer /\ UNCHANGED <<calls, notices, due>>
    BY <1>1 DEF PostDone, CopyIsBuffer
  <2>. QED  BY <2>1 DEF CopyGenuine, WireInv, AllGenuine
<1>2. CASE KioskNotifies
  <2>1. PICK e \in Notices :
          due' = IF IsNotice(Notice(e)) THEN due \cup {notices + 1} ELSE due
    BY <1>2 DEF KioskNotifies
  <2>2. /\ UNCHANGED <<apc, resp, calls>> /\ notices' = notices + 1
        /\ calls <= calls /\ (due' = due \/ due' = due \cup {notices + 1})
    BY <1>2, <2>1 DEF KioskNotifies, TypeOK
  <2>3. calls \in Nat /\ notices \in Nat /\ due \in SUBSET (1..notices)
    BY DEF TypeOK, WireInv, AllGenuine
  <2>4. \A m : Genuine(m, calls, notices, due) => Genuine(m, calls', notices', due')
    BY <2>2, <2>3, GenuineStays
  <2>. QED  BY <2>2, <2>4 DEF CopyGenuine
<1>3. CASE ~PostDone /\ ~KioskNotifies
  <2>1. /\ apc' = "reset" => apc = "reset" /\ UNCHANGED <<resp, calls>>
        /\ UNCHANGED <<notices, due>>
    <3>1. CASE AppStep
      BY <1>3, <3>1 DEF AppStep, ClearReady, SendCommand, TakeReady, WaitTimeout,
         CheckLength, TakeLength, CopyStart, CopyEnd, ResetAndParse, ReturnError
    <3>2. CASE CommandsThreadStep \/ KioskStep \/ Register \/ PollTimeout \/ UNCHANGED vars
      BY <1>3, <3>2 DEF CommandsThreadStep, Receive, Dispatch, ClearDone, PostReady,
         TakeDone, AwaitTimeout, SendAck, Callback, Disconnect, Connect, KioskStep,
         KioskAnswers, KioskTakesAck, KioskDrops, Register, PollTimeout
    <3>3. ASSUME NEW m \in Methods, Call(m) \/ CallNoMemory(m)
          PROVE  apc' # "reset" /\ UNCHANGED <<notices, due>>
      BY <3>3 DEF Call, CallNoMemory
    <3>. QED  BY <3>1, <3>2, <3>3 DEF Next
  <2>. QED  BY <2>1 DEF CopyGenuine
<1>. QED  BY <1>1, <1>2, <1>3

\* Where responses are handled in time, send_receive copies the whole of what the
\* commands thread received, and that was sent by the kiosk.
THEOREM CopyInductive ==
  ASSUME Prompt
  PROVE  Spec => []CopyInv
<1>1. Init => CopyInv
  BY DEF Init, CopyInv, CopyIsBuffer, CopyGenuine
<1>2. TypeOK /\ HandoffInv /\ WireInv /\ CopyInv /\ [Next]_vars => CopyInv'
  BY NextKeepsCopy, NextKeepsCopyGenuine DEF CopyInv
<1>. QED  BY <1>1, <1>2, TypeCorrect, HandoffInductive, WireInductive, PTL DEF Spec
-----------------------------------------------------------------------------
(***************************************************************************)
(* The order of what is outstanding.  The kiosk answers in order, so what  *)
(* the client holds was asked before what is on its way back, and that     *)
(* before what the kiosk has not read yet: each command is outstanding in  *)
(* one place at most.                                                      *)
(***************************************************************************)

StartsAnswer(x) == x.part = 1 /\ x.msg.method = "none"
IsCommand(f)    == f.kind = "command"

\* The commands thread holds a message it has not looked at yet, or that the
\* application will take.
Handing == rpc \in {"dispatch", "clear", "post"} \/ Owes

HandsAnswer   == Handing /\ IsAnswer(Parsed(work_buffer))
CopiedAnswer  == apc = "reset" /\ IsAnswer(Parsed(resp))

\* All that is on its way back, or not read by the kiosk, was asked after call n.
Behind(n) ==
  /\ \A i \in DOMAIN to_client : StartsAnswer(to_client[i]) => n < to_client[i].msg.num
  /\ \A i \in DOMAIN to_kiosk : IsCommand(to_kiosk[i]) => n < to_kiosk[i].num

WireInOrder ==
  /\ \A i, j \in DOMAIN to_kiosk :
       i < j /\ IsCommand(to_kiosk[i]) /\ IsCommand(to_kiosk[j])
         => to_kiosk[i].num < to_kiosk[j].num
  /\ \A i, j \in DOMAIN to_client :
       i < j /\ StartsAnswer(to_client[i]) /\ StartsAnswer(to_client[j])
         => to_client[i].msg.num < to_client[j].msg.num
  /\ \A i \in DOMAIN to_client, j \in DOMAIN to_kiosk :
       StartsAnswer(to_client[i]) /\ IsCommand(to_kiosk[j])
         => to_client[i].msg.num < to_kiosk[j].num

HandsInOrder ==
  /\ HandsAnswer => Behind(Parsed(work_buffer).num)
  /\ CopiedAnswer => Behind(Parsed(resp).num)
  /\ CopiedAnswer /\ HandsAnswer => Parsed(resp).num < Parsed(work_buffer).num

\* Call n was sent, and its answer has not been parsed, dropped or lost.
Outstanding(n) ==
  \/ \E i \in DOMAIN to_kiosk : IsCommand(to_kiosk[i]) /\ to_kiosk[i].num = n
  \/ \E i \in DOMAIN to_client : StartsAnswer(to_client[i]) /\ to_client[i].msg.num = n
  \/ HandsAnswer /\ Parsed(work_buffer).num = n
  \/ CopiedAnswer /\ Parsed(resp).num = n

UnderWay == apc \in {"wait", "check", "length", "copy", "copying", "post", "reset"}

\* What is outstanding belongs to the call under way, or to one that missed it.
NoneStray ==
  /\ missed \subseteq 1..calls
  /\ apc \notin {"idle", "crashed"} => calls \notin missed
  /\ \A n : Outstanding(n) => n \in missed \/ (UnderWay /\ n = calls)

OrderInv == WireInOrder /\ HandsInOrder /\ NoneStray

\* What travels is numbered.
LEMMA WireTypes ==
  ASSUME TypeOK
  PROVE  /\ Len(to_client) \in Nat /\ DOMAIN to_client = 1..Len(to_client)
         /\ Len(to_kiosk) \in Nat /\ DOMAIN to_kiosk = 1..Len(to_kiosk)
         /\ \A i \in DOMAIN to_client : /\ to_client[i].msg.num \in Nat
                                        /\ to_client[i].part \in Nat
         /\ \A i \in DOMAIN to_kiosk : to_kiosk[i].num \in Nat
         /\ Parsed(work_buffer).num \in Nat /\ Parsed(resp).num \in Nat
<1>1. /\ Len(to_client) \in Nat /\ DOMAIN to_client = 1..Len(to_client)
      /\ Len(to_kiosk) \in Nat /\ DOMAIN to_kiosk = 1..Len(to_kiosk)
  BY LenProperties DEF TypeOK
<1>2. \A i \in DOMAIN to_client : to_client[i] \in Fragment
  BY <1>1, ElementOfSeq DEF TypeOK
<1>3. \A i \in DOMAIN to_kiosk : to_kiosk[i] \in Frame
  BY <1>1, ElementOfSeq DEF TypeOK
<1>4. Parsed(work_buffer) \in Message /\ Parsed(resp) \in Message
  BY ParsedType DEF TypeOK
<1>. QED  BY <1>1, <1>2, <1>3, <1>4 DEF Fragment, Message, Frame

\* The application takes no response while the commands thread is at its poll.
LEMMA PollHandsNothing ==
  ASSUME HandoffInv, rpc = "poll"
  PROVE  ~Handing
BY DEF HandoffInv, TokensTakeTurns, Handing, Owes, Holding

\* A step that adds nothing to the wire or to the client's hands.
LEMMA OrderStays ==
  ASSUME WireInOrder, HandsInOrder,
         to_client' \in {to_client, <<>>}, to_kiosk' \in {to_kiosk, <<>>},
         Handing' => Handing /\ work_buffer' = work_buffer,
         apc' = "reset" => apc = "reset" /\ resp' = resp
  PROVE  /\ WireInOrder' /\ HandsInOrder'
         /\ \A n : Outstanding(n)' => Outstanding(n)
<1>1. DOMAIN <<>> = {}
  OBVIOUS
<1>2. \A i \in DOMAIN to_client' : i \in DOMAIN to_client /\ to_client'[i] = to_client[i]
  BY <1>1
<1>3. \A i \in DOMAIN to_kiosk' : i \in DOMAIN to_kiosk /\ to_kiosk'[i] = to_kiosk[i]
  BY <1>1
<1>4. WireInOrder'
  BY <1>2, <1>3 DEF WireInOrder
<1>5. HandsAnswer' => HandsAnswer /\ Parsed(work_buffer)' = Parsed(work_buffer)
  BY DEF HandsAnswer
<1>6. CopiedAnswer' => CopiedAnswer /\ Parsed(resp)' = Parsed(resp)
  BY DEF CopiedAnswer
<1>7. \A n : Behind(n) => Behind(n)'
  BY <1>2, <1>3 DEF Behind
<1>8. HandsInOrder'
  BY <1>5, <1>6, <1>7 DEF HandsInOrder, Behind
<1>9. \A n : Outstanding(n)' => Outstanding(n)
  BY <1>2, <1>3, <1>5, <1>6 DEF Outstanding
<1>. QED  BY <1>4, <1>8, <1>9

\* A read moves the first answer on its way into the client's hands.
LEMMA ReceiveKeepsOrder ==
  ASSUME TypeOK, HandoffInv, WireInOrder, HandsInOrder, Receive
  PROVE  /\ WireInOrder' /\ HandsInOrder'
         /\ \A n : Outstanding(n)' => Outstanding(n)
<1>. USE DEF appVars, handVars, socketVars, eventVars
<1>1. PICK k \in 1..Len(to_client) :
        /\ work_buffer' = SubSeq(to_client, 1, k)
        /\ to_client' = SubSeq(to_client, k + 1, Len(to_client))
  BY DEF Receive
<1>2. rpc = "poll" /\ UNCHANGED <<apc, resp, to_kiosk>>
  BY DEF Receive
<1>3. ~HandsAnswer
  BY <1>2, PollHandsNothing DEF HandsAnswer
<1>4. /\ k \in Nat \ {0} /\ 1 \in DOMAIN to_client
      /\ \A i \in DOMAIN to_client' : /\ i + k \in DOMAIN to_client
                                      /\ 1 < i + k /\ i \in Nat
                                      /\ to_client'[i] = to_client[i + k]
  <2>1. DOMAIN to_client' = 1..(Len(to_client) - k)
        /\ \A i \in 1..(Len(to_client) - k) : to_client'[i] = to_client[i + k]
    BY <1>1, Taken DEF TypeOK
  <2>. QED  BY <2>1, WireTypes
<1>5. HandsAnswer' => StartsAnswer(to_client[1]) /\ Parsed(work_buffer)' = to_client[1].msg
  BY <1>1, FirstParsed DEF TypeOK, HandsAnswer, StartsAnswer, IsAnswer
<1>6. CopiedAnswer' => CopiedAnswer /\ Parsed(resp)' = Parsed(resp)
  BY <1>2 DEF CopiedAnswer
<1>7. WireInOrder'
  <2>1. \A i, j \in DOMAIN to_client' : i < j => i + k < j + k
    BY <1>4
  <2>. QED  BY <1>2, <1>4, <2>1 DEF WireInOrder
<1>8. HandsAnswer' => Behind(Parsed(work_buffer).num)'
  BY <1>2, <1>4, <1>5 DEF WireInOrder, Behind
<1>9. CopiedAnswer' => /\ Behind(Parsed(resp).num)'
                       /\ HandsAnswer' => Parsed(resp)'.num < Parsed(work_buffer)'.num
  BY <1>2, <1>4, <1>5, <1>6 DEF HandsInOrder, Behind
<1>10. \A n : Outstanding(n)' => Outstanding(n)
  BY <1>2, <1>4, <1>5, <1>6 DEF Outstanding
<1>. QED  BY <1>7, <1>8, <1>9, <1>10 DEF HandsInOrder

\* An ACK is no command.
LEMMA AckKeepsOrder ==
  ASSUME TypeOK, WireInOrder, HandsInOrder, SendAck
  PROVE  /\ WireInOrder' /\ HandsInOrder'
         /\ \A n : Outstanding(n)' => Outstanding(n)
<1>. USE DEF appVars, handVars, socketVars, eventVars
<1>. DEFINE m == Parsed(work_buffer)
            f == [kind |-> "ack", id |-> m.id, num |-> m.num]
<1>1. m \in Message
  BY ParsedType DEF TypeOK
<1>2. f \in Frame /\ ~IsCommand(f)
  BY <1>1 DEF Message, Frame, IsCommand
<1>3. SendOk(f) \/ SendFails
  BY DEF SendAck
<1>4. /\ UNCHANGED <<apc, resp, work_buffer, sema_resp_ready>>
      /\ rpc = "ack" /\ rpc' = "callback"
  BY DEF SendAck
<1>5. to_client' = to_client
      /\ \A i \in DOMAIN to_kiosk' : IsCommand(to_kiosk'[i]) =>
           i \in DOMAIN to_kiosk /\ to_kiosk'[i] = to_kiosk[i]
  <2>. HIDE DEF f
  <2>. QED  BY <1>2, <1>3, SendIs
<1>6. HandsAnswer' => HandsAnswer /\ Parsed(work_buffer)' = Parsed(work_buffer)
  BY <1>4 DEF HandsAnswer, Handing, Owes, Holding
<1>7. CopiedAnswer' => CopiedAnswer /\ Parsed(resp)' = Parsed(resp)
  BY <1>4 DEF CopiedAnswer
<1>8. WireInOrder'
  BY <1>5 DEF WireInOrder
<1>9. \A n : Behind(n) => Behind(n)'
  BY <1>5 DEF Behind
<1>10. HandsInOrder'
  BY <1>6, <1>7, <1>9 DEF HandsInOrder, Behind
<1>11. \A n : Outstanding(n)' => Outstanding(n)
  BY <1>5, <1>6, <1>7 DEF Outstanding
<1>. QED  BY <1>8, <1>10, <1>11

\* The commands thread takes messages in the order in which they came;
LEMMA ThreadKeepsOrder ==
  ASSUME TypeOK, HandoffInv, WireInOrder, HandsInOrder, CommandsThreadStep
  PROVE  /\ WireInOrder' /\ HandsInOrder'
         /\ \A n : Outstanding(n)' => Outstanding(n)
<1>. USE DEF appVars, handVars, socketVars, eventVars
<1>1. CASE Dispatch \/ ClearDone \/ PostReady \/ TakeDone \/ AwaitTimeout \/ Callback
           \/ Disconnect \/ Connect
  <2>1. /\ UNCHANGED <<apc, resp, work_buffer>>
        /\ to_client' \in {to_client, <<>>} /\ to_kiosk' \in {to_kiosk, <<>>}
    BY <1>1 DEF Dispatch, ClearDone, PostReady, TakeDone, AwaitTimeout, Callback,
                Disconnect, Connect
  <2>2. \/ rpc \in {"dispatch", "clear", "post"}
        \/ sema_resp_ready' = sema_resp_ready /\ rpc' \in {"poll", rpc}
    BY <1>1 DEF Dispatch, ClearDone, PostReady, TakeDone, AwaitTimeout, Callback,
                Disconnect, Connect
  <2>3. Handing' => Handing
    BY <2>1, <2>2 DEF Handing, Owes, Holding
  <2>. QED  BY <2>1, <2>3, OrderStays
<1>. QED  BY <1>1, ReceiveKeepsOrder, AckKeepsOrder DEF CommandsThreadStep

\* An answer takes the place of the command it answers, the first in the queue.
LEMMA AnswerKeepsOrder ==
  ASSUME TypeOK, WireInOrder, HandsInOrder, KioskAnswers
  PROVE  /\ WireInOrder' /\ HandsInOrder'
         /\ \A n : Outstanding(n)' => Outstanding(n)
<1>. USE DEF appVars, handVars, socketVars, eventVars
<1>1. PICK a \in Answers : to_client' = to_client \o Fragments(Answer(a, Head(to_kiosk)))
  BY DEF KioskAnswers
<1>2. /\ to_kiosk # <<>> /\ Head(to_kiosk) = to_kiosk[1] /\ to_kiosk' = Tail(to_kiosk)
      /\ Head(to_kiosk) \in Frame /\ IsCommand(to_kiosk[1]) /\ 1 \in DOMAIN to_kiosk
      /\ UNCHANGED <<apc, resp, work_buffer, rpc, sema_resp_ready>>
  BY FrameTaken DEF KioskAnswers, IsCommand
<1>. DEFINE m == Answer(a, Head(to_kiosk))
<1>3. m \in Message /\ m.num = to_kiosk[1].num /\ m.method = "none"
  BY <1>2, ConstantsAssumption, GarbageType DEF Answer, AnswerForm, Frame, Message
<1>4. to_client' = to_client \o Fragments(m)
  BY <1>1
<1>. HIDE DEF m
<1>5. /\ Len(to_client) \in Nat /\ DOMAIN to_client = 1..Len(to_client)
      /\ DOMAIN to_client' \subseteq Nat
  BY <1>3, <1>4, WireTypes, Sent DEF TypeOK, Message
<1>6. \A i \in DOMAIN to_client' : StartsAnswer(to_client'[i]) =>
        \/ i \in DOMAIN to_client /\ to_client'[i] = to_client[i]
        \/ i = Len(to_client) + 1 /\ to_client'[i].msg = m
  BY <1>3, <1>4, <1>5, SentOrThere DEF TypeOK, StartsAnswer
<1>7. \A i \in DOMAIN to_kiosk' : /\ i + 1 \in DOMAIN to_kiosk /\ 1 < i + 1
                                  /\ i \in Nat /\ to_kiosk'[i] = to_kiosk[i + 1]
  BY <1>2, FrameTaken, WireTypes
<1>8. WireInOrder'
  <2>1. \A i, j \in DOMAIN to_kiosk' : i < j => i + 1 < j + 1
    BY <1>7
  <2>2. \A i, j \in DOMAIN to_kiosk' :
          i < j /\ IsCommand(to_kiosk'[i]) /\ IsCommand(to_kiosk'[j])
            => to_kiosk'[i].num < to_kiosk'[j].num
    BY <1>7, <2>1 DEF WireInOrder
  <2>3. \A i \in DOMAIN to_client : StartsAnswer(to_client[i]) => to_client[i].msg.num < m.num
    BY <1>2, <1>3 DEF WireInOrder
  <2>4. \A j \in DOMAIN to_kiosk' : IsCommand(to_kiosk'[j]) => m.num < to_kiosk'[j].num
    BY <1>2, <1>3, <1>7 DEF WireInOrder
  <2>5. ASSUME NEW i \in DOMAIN to_client', NEW j \in DOMAIN to_client', i < j,
               StartsAnswer(to_client'[i]), StartsAnswer(to_client'[j])
        PROVE  to_client'[i].msg.num < to_client'[j].msg.num
    <3>1. i \in DOMAIN to_client /\ to_client'[i] = to_client[i]
      BY <1>5, <1>6, <2>5
    <3>. QED  BY <1>6, <2>3, <2>5, <3>1 DEF WireInOrder
  <2>6. ASSUME NEW i \in DOMAIN to_client', NEW j \in DOMAIN to_kiosk',
               StartsAnswer(to_client'[i]), IsCommand(to_kiosk'[j])
        PROVE  to_client'[i].msg.num < to_kiosk'[j].num
    BY <1>6, <1>7, <2>4, <2>6 DEF WireInOrder
  <2>. QED  BY <2>2, <2>5, <2>6 DEF WireInOrder
<1>9. HandsAnswer' => HandsAnswer /\ Parsed(work_buffer)' = Parsed(work_buffer)
  BY <1>2 DEF HandsAnswer, Handing, Owes, Holding
<1>10. CopiedAnswer' => CopiedAnswer /\ Parsed(resp)' = Parsed(resp)
  BY <1>2 DEF CopiedAnswer
<1>11. \A n : Behind(n) => Behind(n)'
  BY <1>2, <1>3, <1>6, <1>7 DEF Behind
<1>12. HandsInOrder'
  BY <1>9, <1>10, <1>11 DEF HandsInOrder, Behind
<1>13. \A n : Outstanding(n)' => Outstanding(n)
  BY <1>2, <1>3, <1>6, <1>7, <1>9, <1>10 DEF Outstanding
<1>. QED  BY <1>8, <1>12, <1>13

\* A notice is no answer.
LEMMA NoticeKeepsOrder ==
  ASSUME TypeOK, WireInOrder, HandsInOrder, KioskNotifies
  PROVE  /\ WireInOrder' /\ HandsInOrder'
         /\ \A n : Outstanding(n)' => Outstanding(n)
<1>. USE DEF appVars, handVars, socketVars, eventVars
<1>1. PICK e \in Notices : to_client' = to_client \o Fragments(Notice(e))
  BY DEF KioskNotifies
<1>2. UNCHANGED <<apc, resp, work_buffer, rpc, sema_resp_ready, to_kiosk>>
  BY DEF KioskNotifies
<1>. DEFINE m == Notice(e)
<1>3. m \in Message /\ m.method # "none" /\ to_client' = to_client \o Fragments(m)
  BY <1>1, ConstantsAssumption DEF Notice, NoticeForm, Message, Result, TypeOK
<1>. HIDE DEF m
<1>4. \A i \in DOMAIN to_client' : StartsAnswer(to_client'[i]) =>
        i \in DOMAIN to_client /\ to_client'[i] = to_client[i]
  BY <1>3, SentOrThere DEF TypeOK, StartsAnswer
<1>5. HandsAnswer' => HandsAnswer /\ Parsed(work_buffer)' = Parsed(work_buffer)
  BY <1>2 DEF HandsAnswer, Handing, Owes, Holding
<1>6. CopiedAnswer' => CopiedAnswer /\ Parsed(resp)' = Parsed(resp)
  BY <1>2 DEF CopiedAnswer
<1>7. WireInOrder'
  BY <1>2, <1>4 DEF WireInOrder
<1>8. \A n : Behind(n) => Behind(n)'
  BY <1>2, <1>4 DEF Behind
<1>9. HandsInOrder'
  BY <1>5, <1>6, <1>8 DEF HandsInOrder, Behind
<1>10. \A n : Outstanding(n)' => Outstanding(n)
  BY <1>2, <1>4, <1>5, <1>6 DEF Outstanding
<1>. QED  BY <1>7, <1>9, <1>10

\* the kiosk answers commands in the order in which they came;
LEMMA KioskKeepsOrder ==
  ASSUME TypeOK, WireInOrder, HandsInOrder, KioskStep
  PROVE  /\ WireInOrder' /\ HandsInOrder'
         /\ \A n : Outstanding(n)' => Outstanding(n)
<1>. USE DEF appVars, handVars, socketVars, eventVars
<1>1. CASE KioskTakesAck
  <2>1. /\ to_kiosk # <<>> /\ to_kiosk' = Tail(to_kiosk)
        /\ UNCHANGED <<apc, resp, work_buffer, rpc, sema_resp_ready, to_client>>
    BY <1>1 DEF KioskTakesAck
  <2>2. \A i \in DOMAIN to_kiosk' : /\ i + 1 \in DOMAIN to_kiosk
                                    /\ i \in Nat /\ to_kiosk'[i] = to_kiosk[i + 1]
    BY <2>1, FrameTaken, WireTypes
  <2>3. HandsAnswer' => HandsAnswer /\ Parsed(work_buffer)' = Parsed(work_buffer)
    BY <2>1 DEF HandsAnswer, Handing, Owes, Holding
  <2>4. CopiedAnswer' => CopiedAnswer /\ Parsed(resp)' = Parsed(resp)
    BY <2>1 DEF CopiedAnswer
  <2>5. WireInOrder'
    <3>1. \A i, j \in DOMAIN to_kiosk' : i < j => i + 1 < j + 1
      BY <2>2
    <3>. QED  BY <2>1, <2>2, <3>1 DEF WireInOrder
  <2>6. \A n : Behind(n) => Behind(n)'
    BY <2>1, <2>2 DEF Behind
  <2>7. HandsInOrder'
    BY <2>3, <2>4, <2>6 DEF HandsInOrder, Behind
  <2>8. \A n : Outstanding(n)' => Outstanding(n)
    BY <2>1, <2>2, <2>3, <2>4 DEF Outstanding
  <2>. QED  BY <2>5, <2>7, <2>8
<1>2. CASE KioskDrops
  <2>1. /\ UNCHANGED <<apc, resp, work_buffer, rpc, sema_resp_ready>>
        /\ to_client' \in {to_client, <<>>} /\ to_kiosk' = <<>>
    BY <1>2 DEF KioskDrops
  <2>. QED  BY <2>1, OrderStays DEF Handing, Owes, Holding
<1>. QED  BY <1>1, <1>2, AnswerKeepsOrder, NoticeKeepsOrder DEF KioskStep

\* The command of the call under way goes behind all that is outstanding: that
\* belongs to earlier calls.
LEMMA CommandKeepsOrder ==
  ASSUME TypeOK, OrderInv, SendCommand
  PROVE  /\ WireInOrder' /\ HandsInOrder'
         /\ \A n : Outstanding(n)' => Outstanding(n) \/ (n = calls /\ apc' = "wait")
<1>. USE DEF OrderInv, appVars, handVars, socketVars, eventVars
<1>. DEFINE f == [kind |-> "command", id |-> Api[method].sent, num |-> calls]
<1>1. /\ apc = "send" /\ apc' \in {"wait", "idle"}
      /\ UNCHANGED <<resp, work_buffer, rpc, sema_resp_ready, calls>>
  BY DEF SendCommand, ReturnError
<1>2. CASE SendOk(f) /\ apc' = "wait"
  <2>1. f \in Frame /\ f.num = calls
    BY ApiTypes, ConstantsAssumption DEF TypeOK, Frame
  <2>2. /\ to_client' = to_client
        /\ \A i \in DOMAIN to_kiosk' : \/ i \in DOMAIN to_kiosk /\ to_kiosk'[i] = to_kiosk[i]
                                       \/ to_kiosk'[i] = f /\ i = Len(to_kiosk) + 1
    <3>. HIDE DEF f
    <3>. QED  BY <1>2, <2>1, SendIs
  <2>3. /\ Len(to_kiosk) \in Nat /\ DOMAIN to_kiosk = 1..Len(to_kiosk) /\ calls \in Nat
    BY WireTypes DEF TypeOK
  <2>. HIDE DEF f
  <2>4. HandsAnswer' => HandsAnswer /\ Parsed(work_buffer)' = Parsed(work_buffer)
    BY <1>1, <1>2 DEF HandsAnswer, Handing, Owes, Holding
  <2>5. ~CopiedAnswer /\ ~CopiedAnswer'
    BY <1>1, <1>2 DEF CopiedAnswer
  <2>6. \A n : Outstanding(n) => n \in Nat /\ n < calls
    <3>1. missed \subseteq 1..calls /\ calls \notin missed /\ ~UnderWay
      BY <1>1 DEF NoneStray, UnderWay
    <3>2. \A n \in missed : n \in Nat /\ n < calls
      BY <2>3, <3>1
    <3>3. \A n : Outstanding(n) => n \in missed
      BY <3>1 DEF NoneStray
    <3>. QED  BY <3>2, <3>3
  <2>7. WireInOrder'
    <3>1. \A i \in DOMAIN to_kiosk : IsCommand(to_kiosk[i]) => to_kiosk[i].num < calls
      BY <2>6 DEF Outstanding
    <3>2. \A i \in DOMAIN to_client : StartsAnswer(to_client[i]) => to_client[i].msg.num < calls
      BY <2>6 DEF Outstanding
    <3>3. ASSUME NEW i \in DOMAIN to_kiosk', NEW j \in DOMAIN to_kiosk', i < j,
                 IsCommand(to_kiosk'[i]), IsCommand(to_kiosk'[j])
          PROVE  to_kiosk'[i].num < to_kiosk'[j].num
      <4>1. i \in DOMAIN to_kiosk /\ to_kiosk'[i] = to_kiosk[i]
        BY <2>2, <2>3, <3>3
      <4>. QED  BY <2>1, <2>2, <3>1, <3>3, <4>1 DEF WireInOrder
    <3>4. ASSUME NEW i \in DOMAIN to_client', NEW j \in DOMAIN to_kiosk',
                 StartsAnswer(to_client'[i]), IsCommand(to_kiosk'[j])
          PROVE  to_client'[i].msg.num < to_kiosk'[j].num
      BY <2>1, <2>2, <3>2, <3>4 DEF WireInOrder
    <3>. QED  BY <2>2, <3>3, <3>4 DEF WireInOrder
  <2>8. HandsAnswer' => Behind(Parsed(work_buffer).num)'
    <3>1. HandsAnswer => Parsed(work_buffer).num < calls
      BY <2>6 DEF Outstanding
    <3>. QED  BY <2>1, <2>2, <2>4, <3>1 DEF HandsInOrder, Behind
  <2>9. \A n : Outstanding(n)' => Outstanding(n) \/ n = calls
    BY <2>1, <2>2, <2>4, <2>5 DEF Outstanding
  <2>. QED  BY <1>2, <2>5, <2>7, <2>8, <2>9 DEF HandsInOrder
<1>3. CASE SendFails /\ apc' = "idle"
  <2>1. UNCHANGED <<to_client, to_kiosk>> /\ (Handing' => Handing)
    BY <1>1, <1>3 DEF SendFails, Handing, Owes, Holding
  <2>. QED  BY <1>1, <1>3, <2>1, OrderStays
<1>. QED  BY <1>2, <1>3 DEF SendCommand, ReturnError

\* The copy is finished: the answer passes from the work buffer to the copy.
LEMMA CopyKeepsOrder ==
  ASSUME HandoffInv, CopyIsBuffer, WireInOrder, HandsInOrder, PostDone
  PROVE  /\ WireInOrder' /\ HandsInOrder'
         /\ \A n : Outstanding(n)' => Outstanding(n)
<1>. USE DEF appVars, handVars, socketVars, eventVars
<1>1. /\ apc = "post" /\ apc' = "reset" /\ rpc = "await" /\ resp = work_buffer
      /\ UNCHANGED <<rpc, resp, work_buffer, to_client, to_kiosk>>
  BY DEF PostDone, CopyIsBuffer, HandoffInv, TokensTakeTurns, Holding
<1>2. Handing /\ ~Handing'
  BY <1>1 DEF Handing, Owes, Holding
<1>3. ~HandsAnswer' /\ (CopiedAnswer' => HandsAnswer)
      /\ Parsed(resp)' = Parsed(work_buffer)
  BY <1>1, <1>2 DEF HandsAnswer, CopiedAnswer
<1>4. WireInOrder'
  BY <1>1 DEF WireInOrder
<1>5. \A n : Behind(n) => Behind(n)'
  BY <1>1 DEF Behind
<1>6. HandsInOrder'
  BY <1>3, <1>5 DEF HandsInOrder, Behind
<1>7. \A n : Outstanding(n)' => Outstanding(n)
  BY <1>1, <1>3 DEF Outstanding
<1>. QED  BY <1>4, <1>6, <1>7

\* An answer that was parsed is outstanding no more.
LEMMA ParseKeepsOrder ==
  ASSUME TypeOK, WireInOrder, HandsInOrder, ResetAndParse
  PROVE  /\ WireInOrder' /\ HandsInOrder'
         /\ \A n : Outstanding(n)' => /\ Outstanding(n)
                                      /\ CopiedAnswer => Parsed(resp).num < n
<1>. USE DEF appVars, handVars, socketVars, eventVars
<1>1. /\ apc = "reset" /\ apc' \in {"idle", "crashed"}
      /\ UNCHANGED <<resp, rpc, sema_resp_ready, work_buffer, to_client, to_kiosk>>
  BY DEF ResetAndParse
<1>2. Handing' => Handing
  BY <1>1 DEF Handing, Owes, Holding
<1>3. WireInOrder' /\ HandsInOrder' /\ \A n : Outstanding(n)' => Outstanding(n)
  BY <1>1, <1>2, OrderStays
<1>4. ASSUME NEW n, Outstanding(n)', CopiedAnswer PROVE Parsed(resp).num < n
  <2>1. ~CopiedAnswer'
    BY <1>1 DEF CopiedAnswer
  <2>2. HandsAnswer' => HandsAnswer
    BY <1>1, <1>2 DEF HandsAnswer
  <2>. QED  BY <1>1, <1>4, <2>1, <2>2 DEF Outstanding, HandsInOrder, Behind
<1>. QED  BY <1>3, <1>4

\* and the application sends a command only after the one before, so that what it
\* copies answers a call before any that is still outstanding.
LEMMA AppKeepsOrder ==
  ASSUME TypeOK, HandoffInv, WireInv, CopyInv, OrderInv, AppStep
  PROVE  /\ WireInOrder' /\ HandsInOrder'
         /\ \A n : Outstanding(n)' =>
              /\ Outstanding(n) \/ (n = calls /\ SendCommand /\ apc' = "wait")
              /\ ResetAndParse /\ CopiedAnswer => Parsed(resp).num < n
<1>. USE DEF appVars, handVars, socketVars, eventVars
<1>1. CASE SendCommand
  <2>1. ~ResetAndParse
    BY <1>1 DEF SendCommand, ResetAndParse
  <2>. QED  BY <1>1, <2>1, CommandKeepsOrder
<1>2. CASE PostDone
  <2>1. ~ResetAndParse
    BY <1>2 DEF PostDone, ResetAndParse
  <2>. QED  BY <1>2, <2>1, CopyKeepsOrder DEF CopyInv, OrderInv
<1>3. CASE ResetAndParse
  BY <1>3, ParseKeepsOrder DEF OrderInv
<1>4. CASE \/ ClearReady \/ TakeReady \/ WaitTimeout \/ CheckLength \/ TakeLength
           \/ CopyStart \/ CopyEnd
  <2>1. /\ apc # "reset" /\ apc' # "reset" /\ UNCHANGED <<rpc, work_buffer, to_client, to_kiosk>>
        /\ Holding' => Holding \/ (apc = "wait" /\ sema_resp_ready > 0)
        /\ sema_resp_ready' > 0 /\ apc' \in {"send", "wait"} =>
             sema_resp_ready > 0 /\ apc \in {"send", "wait"}
    BY <1>4 DEF ClearReady, TakeReady, WaitTimeout, CheckLength, TakeLength,
                CopyStart, CopyEnd, ReturnError, Holding
  <2>2. Handing' => Handing
    BY <2>1 DEF Handing, Owes
  <2>3. ~ResetAndParse
    BY <2>1 DEF ResetAndParse
  <2>. QED  BY <2>1, <2>2, <2>3, OrderStays DEF OrderInv
<1>. QED  BY <1>1, <1>2, <1>3, <1>4 DEF AppStep

\* What any step does to what is outstanding: only sending a command adds to it.
LEMMA NextOutstanding ==
  ASSUME TypeOK, HandoffInv, WireInv, CopyInv, OrderInv, [Next]_vars
  PROVE  /\ WireInOrder' /\ HandsInOrder'
         /\ \A n : Outstanding(n)' =>
              Outstanding(n) \/ (n = calls /\ SendCommand /\ apc' = "wait")
<1>. USE DEF vars, appVars, handVars, socketVars, eventVars
<1>1. CASE AppStep
  BY <1>1, AppKeepsOrder
<1>2. CASE CommandsThreadStep
  BY <1>2, ThreadKeepsOrder DEF OrderInv
<1>3. CASE KioskStep
  BY <1>3, KioskKeepsOrder DEF OrderInv
<1>4. CASE Register \/ PollTimeout \/ UNCHANGED vars
           \/ \E m \in Methods : Call(m) \/ CallNoMemory(m)
  <2>1. UNCHANGED <<rpc, work_buffer, to_client, to_kiosk, sema_resp_ready>>
    BY <1>4 DEF Register, PollTimeout, Call, CallNoMemory
  <2>2. \/ UNCHANGED <<apc, resp>>
        \/ apc = "idle" /\ apc' = "clear"
    BY <1>4 DEF Register, PollTimeout, Call, CallNoMemory
  <2>3. Handing' => Handing
    BY <2>1, <2>2 DEF Handing, Owes, Holding
  <2>. QED  BY <2>1, <2>2, <2>3, OrderStays DEF OrderInv
<1>. QED  BY <1>1, <1>2, <1>3, <1>4 DEF Next

\* A call that ends without its answer is put down as missed, and an answer that
\* is parsed leaves nothing of its number behind.
LEMMA AppLeavesNoneStray ==
  ASSUME TypeOK, HandoffInv, WireInv, CopyInv, OrderInv, AppStep
  PROVE  NoneStray'
<1>. USE DEF NoneStray, OrderInv, appVars, handVars, socketVars, eventVars
<1>0. calls \in Nat \ {0} /\ calls' = calls
  BY DEF WireInv, TypeOK, AppStep, ClearReady, SendCommand, TakeReady, WaitTimeout,
     CheckLength, TakeLength, CopyStart, CopyEnd, PostDone, ResetAndParse, ReturnError
<1>1. CASE (WaitTimeout \/ CheckLength) /\ apc' = "idle"
  <2>1. missed' = missed \cup {calls} /\ ~SendCommand
    BY <1>1 DEF WaitTimeout, CheckLength, ReturnError, SendCommand
  <2>2. \A n : Outstanding(n)' => Outstanding(n)
    BY <2>1, AppKeepsOrder
  <2>. QED  BY <1>0, <1>1, <2>1, <2>2
<1>2. CASE ResetAndParse
  <2>1. /\ missed' = IF Parsed(resp).method = "none" /\ Parsed(resp).num = calls
                     THEN missed ELSE missed \cup {calls}
        /\ apc = "reset" /\ apc' \in {"idle", "crashed"} /\ ~SendCommand
    BY <1>2 DEF ResetAndParse, SendCommand
  <2>2. \A n : Outstanding(n)' => /\ Outstanding(n)
                                  /\ CopiedAnswer => Parsed(resp).num < n
    BY <1>2, <2>1, AppKeepsOrder
  <2>3. missed' \subseteq 1..calls'
    BY <1>0, <2>1
  <2>4. ASSUME NEW n, Outstanding(n)' PROVE n \in missed'
    <3>1. n \in missed \/ n = calls
      BY <2>2, <2>4
    <3>2. CASE n = calls /\ Parsed(resp).method = "none" /\ Parsed(resp).num = calls
      <4>1. Parsed(resp) # Garbage
        BY <1>0, <3>2 DEF Garbage
      <4>2. CopiedAnswer
        BY <2>1, <3>2, <4>1 DEF CopiedAnswer, IsAnswer
      <4>. QED  BY <1>0, <2>2, <2>4, <3>2, <4>2
    <3>. QED  BY <2>1, <3>1, <3>2
  <2>. QED  BY <1>0, <2>1, <2>3, <2>4
<1>3. CASE ~((WaitTimeout \/ CheckLength) /\ apc' = "idle") /\ ~ResetAndParse
  <2>1. /\ missed' = missed /\ apc \notin {"idle", "crashed"}
        /\ \/ UnderWay /\ UnderWay'
           \/ apc = "clear" /\ apc' = "send"
           \/ SendCommand /\ apc = "send" /\ apc' \in {"wait", "idle"}
    BY <1>3 DEF AppStep, ClearReady, SendCommand, TakeReady, WaitTimeout, CheckLength,
                TakeLength, CopyStart, CopyEnd, PostDone, ReturnError, UnderWay
  <2>2. \A n : Outstanding(n)' => Outstanding(n) \/ (n = calls /\ apc' = "wait")
    BY AppKeepsOrder
  <2>3. \A n : Outstanding(n)' => n \in missed' \/ (UnderWay' /\ n = calls')
    BY <1>0, <2>1, <2>2 DEF UnderWay
  <2>. QED  BY <1>0, <2>1, <2>3
<1>. QED  BY <1>1, <1>2, <1>3

\* An outstanding answer is to the call under way or to one that gave up.
LEMMA NextLeavesNoneStray ==
  ASSUME TypeOK, HandoffInv, WireInv, CopyInv, OrderInv, [Next]_vars
  PROVE  NoneStray'
<1>. USE DEF NoneStray, OrderInv, vars, appVars, handVars, socketVars, eventVars
<1>1. ASSUME NEW m \in Methods, Call(m) \/ CallNoMemory(m) PROVE NoneStray'
  <2>1. /\ apc = "idle" /\ calls' = calls + 1 /\ calls \in Nat /\ missed' = missed
        /\ ~UnderWay
    BY <1>1 DEF Call, CallNoMemory, TypeOK, UnderWay
  <2>2. ~SendCommand
    BY <2>1 DEF SendCommand
  <2>3. \A n : Outstanding(n)' => n \in missed'
    <3>1. [Next]_vars
      OBVIOUS
    <3>. QED  BY <2>1, <2>2, <3>1, NextOutstanding
  <2>. QED  BY <2>1, <2>3
<1>2. CASE CommandsThreadStep \/ KioskStep \/ Register \/ PollTimeout \/ UNCHANGED vars
  <2>1. UNCHANGED <<apc, calls, missed>>
    BY <1>2 DEF CommandsThreadStep, Receive, Dispatch, ClearDone, PostReady, TakeDone,
       AwaitTimeout, SendAck, Callback, Disconnect, Connect, KioskStep, KioskAnswers,
       KioskTakesAck, KioskNotifies, KioskDrops, Register, PollTimeout
  <2>2. ~(SendCommand /\ apc' = "wait")
    BY <2>1 DEF SendCommand
  <2>3. \A n : Outstanding(n)' => Outstanding(n)
    BY <2>2, NextOutstanding
  <2>. QED  BY <2>1, <2>3 DEF UnderWay
<1>. QED  BY <1>1, <1>2, AppLeavesNoneStray DEF Next

\* Nothing has been sent at first.
LEMMA InitOrder == Init => OrderInv
<1>. SUFFICES ASSUME Init PROVE OrderInv
  OBVIOUS
<1>1. DOMAIN <<>> = {}
  OBVIOUS
<1>2. /\ to_client = <<>> /\ to_kiosk = <<>> /\ apc = "idle" /\ rpc = "poll" /\ missed = {}
  BY DEF Init
<1>3. ~HandsAnswer /\ ~CopiedAnswer
  BY <1>2 DEF HandsAnswer, CopiedAnswer, Handing, Owes, Holding
<1>. QED
  BY <1>1, <1>2, <1>3 DEF OrderInv, WireInOrder, HandsInOrder, NoneStray, Outstanding

\* Where responses are handled in time, the answers come back in the order of the
\* commands, each once, and none is left over of a call that was not missed.
THEOREM OrderInductive ==
  ASSUME Prompt
  PROVE  Spec => []OrderInv
<1>1. TypeOK /\ HandoffInv /\ WireInv /\ CopyInv /\ OrderInv /\ [Next]_vars => OrderInv'
  BY NextOutstanding, NextLeavesNoneStray DEF OrderInv
<1>. QED
  BY <1>1, InitOrder, TypeCorrect, HandoffInductive, WireInductive, CopyInductive, PTL DEF Spec
-----------------------------------------------------------------------------
(* What a call returns. *)

\* Until its answer is parsed a call has neither an answer nor a result.
NotYet == apc \notin {"idle", "crashed"} => ret = "none" /\ answer = Garbage

\* Every API function but PayTransaction checks the id that it sent.
LEMMA ChecksItsId ==
  ASSUME NEW m \in Method, m # "PayTransaction"
  PROVE  Api[m].checked = Api[m].sent
BY DEF Method, Api, Entry

\* A parser returns OK only for a result, under the id it checks.
LEMMA OkHasResult ==
  ASSUME NEW m \in Method, NEW a, ApiReturn(m, a) = "OK"
  PROVE  a.id = Api[m].checked /\ a.result # "absent"
<1>1. "absent" \notin ReadableText
  BY DEF ReadableText, KioskStatus, CancelText
<1>2. \A e : /\ parse_resp_result(a, e) = "OK" => a.id = e /\ a.result # "absent"
             /\ check_response_ok(a, e) = "OK" => a.id = e /\ a.result # "absent"
             /\ parse_get_status(a, e) = "OK" => a.id = e /\ a.result # "absent"
             /\ parse_cancel_resp(a, e) = "OK" => a.id = e /\ a.result # "absent"
  BY <1>1 DEF parse_resp_result, check_response_ok, parse_get_status, parse_cancel_resp
<1>. QED  BY <1>2, ApiTypes DEF ApiReturn

\* ... and, for all but two of the functions, whenever the answer is a yes.
LEMMA YesGivesOk ==
  ASSUME NEW m \in Method \ {"PayTransaction", "CancelTransaction"}, NEW a, SaysYes(m, a)
  PROVE  ApiReturn(m, a) = "OK"
<1>1. /\ a.id = Api[m].checked /\ a.id # NoId /\ ~a.error
      /\ Api[m].parser \in {"status", "text", "bool"}
  BY ChecksItsId, ApiTypes DEF SaysYes, NoId, Method, Api, Entry
<1>2. DOMAIN KioskStatus \subseteq ReadableText
  BY DEF ReadableText
<1>3. CASE Api[m].parser = "status"
  <2>1. a.result \in DOMAIN KioskStatus
    BY <1>3 DEF SaysYes
  <2>. QED  BY <1>1, <1>2, <1>3, <2>1 DEF ApiReturn, parse_get_status, parse_resp_result
<1>4. CASE Api[m].parser = "text"
  <2>1. a.result \in ReadableText
    BY <1>4 DEF SaysYes
  <2>. QED  BY <1>1, <1>4, <2>1 DEF ApiReturn, parse_resp_result
<1>5. CASE Api[m].parser = "bool"
  <2>1. a.result = "true"
    BY <1>5 DEF SaysYes
  <2>. QED  BY <1>1, <1>5, <2>1 DEF ApiReturn, check_response_ok
<1>. QED  BY <1>1, <1>3, <1>4, <1>5

\* Nothing is no yes.
LEMMA GarbageIsNoYes ==
  ASSUME NEW m \in Method
  PROVE  ~SaysYes(m, Garbage)
<1>1. Garbage.id # Api[m].sent
  <2>1. Garbage.id = -1 /\ Api[m].sent \in Nat
    BY ApiTypes DEF Garbage, NoId
  <2>. QED  BY <2>1
<1>2. SaysYes(m, Garbage) => Garbage.id = Api[m].sent
  BY Zenon DEF SaysYes
<1>. QED  BY <1>1, <1>2

\* What a step does to the result of a call: it is there once the answer has been
\* parsed, and stays until the next call.
LEMMA NextResult ==
  ASSUME TypeOK, NotYet, [Next]_vars, ~ResetAndParse
  PROVE  /\ NotYet'
         /\ \/ UNCHANGED <<ret, answer, method, calls>> /\ missed \subseteq missed'
               /\ (ret # "none" => torn' = torn)
            \/ answer' = Garbage /\ ret' \notin {"OK", "CRASH"}
<1>. USE DEF NotYet, vars, appVars, handVars, socketVars, eventVars
<1>1. CASE ClearReady \/ TakeReady \/ TakeLength \/ CopyStart \/ CopyEnd \/ PostDone
  BY <1>1 DEF ClearReady, TakeReady, TakeLength, CopyStart, CopyEnd, PostDone
<1>2. CASE SendCommand \/ WaitTimeout \/ CheckLength
  BY <1>2 DEF SendCommand, WaitTimeout, CheckLength, ReturnError
<1>3. ASSUME NEW m \in Methods, Call(m) \/ CallNoMemory(m)
      PROVE  NotYet' /\ answer' = Garbage /\ ret' \notin {"OK", "CRASH"}
  BY <1>3 DEF Call, CallNoMemory
<1>4. CASE CommandsThreadStep \/ KioskStep \/ Register \/ PollTimeout \/ UNCHANGED vars
  <2>1. UNCHANGED <<apc, torn, ret, answer, method, calls, missed>>
    BY <1>4 DEF CommandsThreadStep, Receive, Dispatch, ClearDone, PostReady, TakeDone,
       AwaitTimeout, SendAck, Callback, Disconnect, Connect, KioskStep, KioskAnswers,
       KioskTakesAck, KioskNotifies, KioskDrops, Register, PollTimeout
  <2>. QED  BY <2>1
<1>. QED  BY <1>1, <1>2, <1>3, <1>4 DEF Next, AppStep

\* The call under way parses an answer: it is to its own command or a missed one.
LEMMA ParsedIsOurs ==
  ASSUME TypeOK, HandoffInv, WireInv, CopyInv, OrderInv, ResetAndParse, method # "PayTransaction"
  PROVE  AnswerIsOurs'
<1>1. /\ apc = "reset" /\ ~torn /\ method \in Method
      /\ UNCHANGED <<torn, method, calls>> /\ answer' = Parsed(resp)
      /\ ret' = ApiReturn(method, Parsed(resp)) /\ missed \subseteq missed'
  BY ConstantsAssumption
  DEF ResetAndParse, HandoffInv, LengthIsOfBuffer, TypeOK
<1>. SUFFICES ASSUME ret' = "OK"
              PROVE  /\ answer'.method = "none" /\ answer'.id = Api[method].sent
                     /\ answer'.num = calls \/ answer'.num \in missed
  BY <1>1 DEF AnswerIsOurs
<1>2. answer'.id = Api[method].sent /\ answer'.result # "absent"
  BY <1>1, OkHasResult, ChecksItsId
<1>3. Parsed(resp) # Garbage
  BY <1>1, <1>2 DEF Garbage
<1>4. answer'.method = "none"
  BY <1>1, <1>2, <1>3 DEF CopyInv, CopyGenuine, Genuine
<1>5. Outstanding(answer'.num)
  BY <1>1, <1>3, <1>4 DEF Outstanding, CopiedAnswer, IsAnswer
<1>. QED  BY <1>2, <1>4, <1>5 DEF OrderInv, NoneStray

\* A call under way has returned nothing yet.
LEMMA NotYetInductive == Spec => []NotYet
<1>1. Init => NotYet
  BY DEF Init, NotYet
<1>2. TypeOK /\ NotYet /\ [Next]_vars => NotYet'
  <2>1. ResetAndParse => NotYet'
    BY DEF ResetAndParse, NotYet
  <2>. QED  BY <2>1, NextResult
<1>. QED  BY <1>1, <1>2, TypeCorrect, PTL DEF Spec

\* Whatever is called, whenever calls time out, messages are split or the
\* connection is lost: an API function returns KIOSK_RET_OK only for an answer to
\* a command of its own, of this call or of one that ended without its answer, and
\* never for a notice.  PayTransaction, which checks the id of PreAuthorize, is the
\* one function this is not true of: a late answer to PreAuthorize makes it return OK.
THEOREM AnswersAreOurs ==
  ASSUME Prompt
  PROVE  Spec => [](method # "PayTransaction" => AnswerIsOurs)
<1>. DEFINE Ours == method # "PayTransaction" => AnswerIsOurs
<1>1. Init => Ours
  BY DEF Init, AnswerIsOurs
<1>2. TypeOK /\ HandoffInv /\ WireInv /\ CopyInv /\ OrderInv /\ NotYet /\ Ours /\ [Next]_vars => Ours'
  <2>. SUFFICES ASSUME TypeOK, HandoffInv, WireInv, CopyInv, OrderInv, NotYet, Ours, [Next]_vars
                PROVE  Ours'
    OBVIOUS
  <2>1. CASE ResetAndParse
    <3>1. method' = method
      BY <2>1 DEF ResetAndParse
    <3>. QED  BY <2>1, <3>1, ParsedIsOurs
  <2>2. CASE ~ResetAndParse
    BY <2>2, NextResult DEF AnswerIsOurs
  <2>. QED  BY <2>1, <2>2
<1>. QED
  BY <1>1, <1>2, TypeCorrect, HandoffInductive, WireInductive, CopyInductive, OrderInductive,
     NotYetInductive, PTL DEF Spec

\* When the answer that was copied says that the kiosk did what was asked, the API
\* function says so too: true of all but PayTransaction and CancelTransaction.
THEOREM YesIsReturned ==
  ASSUME Prompt
  PROVE  Spec => [](method \notin {"PayTransaction", "CancelTransaction"} => YesIsOk)
<1>. DEFINE Said == method \notin {"PayTransaction", "CancelTransaction"} => YesIsOk
<1>1. Init => Said
  BY GarbageIsNoYes, ConstantsAssumption DEF Init, YesIsOk
<1>2. TypeOK /\ TypeOK' /\ HandoffInv /\ NotYet /\ Said /\ [Next]_vars => Said'
  <2>. SUFFICES ASSUME TypeOK, TypeOK', HandoffInv, NotYet, Said, [Next]_vars,
                       method' \notin {"PayTransaction", "CancelTransaction"}
                PROVE  YesIsOk'
    OBVIOUS
  <2>0. method \in Method /\ method' \in Method
    BY ConstantsAssumption DEF TypeOK
  <2>1. CASE ResetAndParse
    <3>1. method' = method /\ answer' = Parsed(resp) /\ ret' = ApiReturn(method, answer')
      BY <2>1 DEF ResetAndParse, HandoffInv, LengthIsOfBuffer
    <3>. QED  BY <2>0, <3>1, YesGivesOk DEF YesIsOk
  <2>2. CASE ~ResetAndParse
    <3>1. ~SaysYes(method, Garbage) /\ ~SaysYes(method', Garbage)
      BY <2>0, GarbageIsNoYes
    <3>2. CASE answer' = Garbage
      BY <3>1, <3>2 DEF YesIsOk
    <3>3. CASE UNCHANGED <<ret, answer, method>>
      BY <3>1, <3>3 DEF YesIsOk, NotYet
    <3>. QED  BY <2>2, <3>2, <3>3, NextResult
  <2>. QED  BY <2>1, <2>2
<1>. QED
  BY <1>1, <1>2, TypeCorrect, HandoffInductive, NotYetInductive, PTL DEF Spec
=============================================================================
