---------------------------- MODULE KioskExchange ----------------------------
(***************************************************************************)
(* The request/response exchange of libotikiosk.c on the commands socket.  *)
(* The application thread runs send_receive; the commands thread runs the  *)
(* inner loop of _kiosk_comm_loop and kiosk_msg_received.  They share the  *)
(* work buffer, its length, the expected id and two semaphores.            *)
(*                                                                         *)
(* The socket is a byte stream: a message is `len' fragments and a read    *)
(* returns any number of the fragments that have arrived.  The kiosk, at   *)
(* the other end, answers commands in order, late or never, and sends      *)
(* notices (TransactionComplete or anything else) when it likes.           *)
(***************************************************************************)
EXTENDS KioskCommands, Sequences

CONSTANTS
  Methods,       \* the API functions the application calls
  Answers,       \* what the kiosk may answer: error, result and length
  Notices,       \* what the kiosk may send unasked: id, method, params, length
  RespCap,       \* size of resp_buff, in fragments
  BufCap,        \* size of work_buffer, in fragments
  Prompt,        \* TRUE: a posted response is handled within its 100ms
  Framed,        \* TRUE: each read returns one whole message
  CallbackFirst, \* TRUE: the application registers its callback before Init
  MaxCalls, MaxNotices, MaxDrops   \* bounds on calls, notices, lost connections

AnswerForm == [error : BOOLEAN, result : Result, len : Nat \ {0}]
NoticeForm == [id : Nat \cup {NoId}, method : {"TransactionComplete", "other"},
               params : Params, len : Nat \ {0}]

ASSUME ConstantsAssumption ==
  /\ Methods \subseteq Method
  /\ Answers \subseteq AnswerForm
  /\ Notices \subseteq NoticeForm
  /\ RespCap \in Nat /\ BufCap \in Nat \ {0}
  /\ Prompt \in BOOLEAN /\ Framed \in BOOLEAN /\ CallbackFirst \in BOOLEAN
  /\ MaxCalls \in Nat /\ MaxNotices \in Nat /\ MaxDrops \in Nat

VARIABLES
  \* the application thread, inside send_receive
  apc, method, resp_len, resp, torn, ret, answer,
  \* shared by the two threads
  expected_id, sema_resp_ready, sema_resp_done, current_resp_len, work_buffer,
  trans_complete_cb,
  \* the commands thread
  rpc,
  \* the socket: our end, the kiosk's end, and what travels each way
  sockfd, peer, to_kiosk, to_client,
  \* history: calls made, calls whose answer send_receive did not take, notices
  \* sent, those of them that are a TransactionComplete, those the kiosk got an
  \* ACK for, those given to the application, connections lost
  calls, missed, notices, due, acked, delivered, drops

appVars    == <<apc, method, resp_len, resp, torn, ret, answer, calls, missed>>
handVars   == <<expected_id, sema_resp_ready, sema_resp_done, current_resp_len,
                work_buffer>>
socketVars == <<sockfd, peer, to_kiosk, to_client>>
eventVars  == <<trans_complete_cb, notices, due, acked, delivered, drops>>
vars == <<appVars, handVars, rpc, socketVars, eventVars>>
-----------------------------------------------------------------------------
(* Messages *)

Message == [id : Nat \cup {NoId}, method : {"none", "TransactionComplete", "other"},
            error : BOOLEAN, result : Result, params : Params,
            len : Nat, num : Nat]     \* num: the call answered, or the notice

\* What the parsers make of bytes that do not start with a whole message.
Garbage == [id |-> NoId, method |-> "none", error |-> FALSE, result |-> "absent",
            params |-> NoParams, len |-> 0, num |-> 0]

Fragment == [msg : Message, part : Nat]

Fragments(m) == [i \in 1..m.len |-> [msg |-> m, part |-> i]]

\* mjson stops at the end of the first JSON value: the rest is never looked at.
Parsed(bytes) ==
  IF Len(bytes) > 0 /\ bytes[1].part = 1 /\ Len(bytes) >= bytes[1].msg.len
  THEN bytes[1].msg ELSE Garbage

Smaller(a, b) == IF a <= b THEN a ELSE b

\* The first n positions of the work buffer; beyond what was read it is zeroes.
Buffered(n) == SubSeq(work_buffer, 1, Smaller(n, Len(work_buffer)))

Frame == [kind : {"command", "ack"}, id : Nat \cup {NoId}, num : Nat]

IsNotice(m) == parse_transaction_complete(m) = "OK"
-----------------------------------------------------------------------------
Init ==
  /\ apc = "idle" /\ method \in Methods /\ resp_len = 0 /\ resp = <<>>
  /\ torn = FALSE /\ ret = "none" /\ answer = Garbage
  /\ expected_id = -1 /\ sema_resp_ready = 0 /\ sema_resp_done = 0
  /\ current_resp_len = 0 /\ work_buffer = <<>>
  /\ trans_complete_cb = CallbackFirst
  /\ rpc = "poll"
  /\ sockfd = "closed" /\ peer = FALSE /\ to_kiosk = <<>> /\ to_client = <<>>
  /\ calls = 0 /\ missed = {} /\ notices = 0 /\ due = {} /\ acked = {} /\ delivered = <<>>
  /\ drops = 0

\* The process is alive: nothing runs after the crash of parse_cancel_resp.
Alive == apc # "crashed"

(***************************************************************************)
(* send_to_kiosk.  A write to a peer that is gone fails, and then the      *)
(* socket is closed, or is swallowed by the kernel.                        *)
(***************************************************************************)
SendOk(frame) ==
  /\ sockfd = "open"
  /\ to_kiosk' = IF peer THEN Append(to_kiosk, frame) ELSE to_kiosk
  /\ UNCHANGED <<sockfd, peer, to_client>>

SendFails ==
  /\ ~(sockfd = "open" /\ peer)
  /\ sockfd' = "closed"
  /\ UNCHANGED <<peer, to_kiosk, to_client>>
-----------------------------------------------------------------------------
(* The application thread *)

\* LibOtiKiosk_Register_TransactionComplete_Callback
Register ==
  /\ apc = "idle" /\ ~trans_complete_cb
  /\ trans_complete_cb' = TRUE
  /\ UNCHANGED <<appVars, handVars, rpc, socketVars, notices, due, acked,
                 delivered, drops>>

\* An API function is called and send_receive stores the id it expects.
Call(m) ==
  /\ apc = "idle" /\ calls < MaxCalls
  /\ apc' = "clear" /\ method' = m /\ calls' = calls + 1
  /\ ret' = "none" /\ answer' = Garbage /\ torn' = FALSE /\ resp' = <<>>
  /\ resp_len' = RespCap
  /\ expected_id' = Api[m].sent
  /\ UNCHANGED <<missed, sema_resp_ready, sema_resp_done, current_resp_len,
                 work_buffer, rpc, socketVars, eventVars>>

\* build_command finds no memory: the API function returns before send_receive.
CallNoMemory(m) ==
  /\ apc = "idle" /\ calls < MaxCalls /\ Api[m].built
  /\ method' = m /\ calls' = calls + 1
  /\ ret' = "MEMORY_ERROR" /\ answer' = Garbage
  /\ UNCHANGED <<apc, resp_len, resp, torn, missed, handVars, rpc, socketVars,
                 eventVars>>

\* Mutant: _sema_clear(&sema_resp_ready) is left out.
ClearReady_skipped ==
  /\ apc = "clear" /\ apc' = "send"
  /\ UNCHANGED <<method, resp_len, resp, torn, ret, answer, calls, missed,
                 handVars, rpc, socketVars, eventVars>>

ClearReady ==
  /\ apc = "clear" /\ apc' = "send"
  /\ sema_resp_ready' = 0
  /\ UNCHANGED <<method, resp_len, resp, torn, ret, answer, calls, missed,
                 expected_id, sema_resp_done, current_resp_len, work_buffer,
                 rpc, socketVars, eventVars>>

\* An early return of send_receive: expected_id keeps the id of this call.
ReturnError(r) ==
  /\ apc' = "idle" /\ ret' = r
  /\ UNCHANGED <<method, resp_len, resp, torn, answer, calls>>

SendCommand ==
  /\ apc = "send"
  /\ \/ /\ SendOk([kind |-> "command", id |-> Api[method].sent, num |-> calls])
        /\ apc' = "wait"
        /\ UNCHANGED <<method, resp_len, resp, torn, ret, answer, calls>>
     \/ SendFails /\ ReturnError("COMM_ERROR")
  /\ UNCHANGED <<missed, handVars, rpc, eventVars>>

TakeReady ==
  /\ apc = "wait" /\ sema_resp_ready > 0
  /\ apc' = "check" /\ sema_resp_ready' = sema_resp_ready - 1
  /\ UNCHANGED <<method, resp_len, resp, torn, ret, answer, calls, missed,
                 expected_id, sema_resp_done, current_resp_len, work_buffer,
                 rpc, socketVars, eventVars>>

\* Mutant: sem_wait, with no timeout.
WaitTimeout_never == FALSE /\ UNCHANGED vars

\* 500ms pass and the semaphore is still at zero.
WaitTimeout ==
  /\ apc = "wait" /\ sema_resp_ready = 0
  /\ ReturnError("COMM_ERROR") /\ missed' = missed \cup {calls}
  /\ UNCHANGED <<handVars, rpc, socketVars, eventVars>>

\* Mutant: the size check is left out.
CheckLength_skipped ==
  /\ apc = "check" /\ apc' = "length"
  /\ UNCHANGED <<method, resp_len, resp, torn, ret, answer, calls, missed,
                 handVars, rpc, socketVars, eventVars>>

CheckLength ==
  /\ apc = "check"
  /\ \/ /\ current_resp_len > resp_len
        /\ ReturnError("GENERAL_ERROR") /\ missed' = missed \cup {calls}
     \/ /\ current_resp_len <= resp_len
        /\ apc' = "length"
        /\ UNCHANGED <<method, resp_len, resp, torn, ret, answer, calls, missed>>
  /\ UNCHANGED <<handVars, rpc, socketVars, eventVars>>

\* current_resp_len is read a second time.
TakeLength ==
  /\ apc = "length" /\ apc' = "copy"
  /\ resp_len' = current_resp_len
  /\ UNCHANGED <<method, resp, torn, ret, answer, calls, missed, handVars, rpc,
                 socketVars, eventVars>>

\* memcpy takes time: the buffer as it starts, and as it ends.
CopyStart ==
  /\ apc = "copy" /\ apc' = "copying"
  /\ resp' = Buffered(resp_len)
  /\ UNCHANGED <<method, resp_len, torn, ret, answer, calls, missed, handVars,
                 rpc, socketVars, eventVars>>

CopyEnd ==
  /\ apc = "copying" /\ apc' = "post"
  /\ torn' = (resp # Buffered(resp_len))
  /\ UNCHANGED <<method, resp_len, resp, ret, answer, calls, missed, handVars,
                 rpc, socketVars, eventVars>>

PostDone ==
  /\ apc = "post" /\ apc' = "reset"
  /\ sema_resp_done' = sema_resp_done + 1
  /\ UNCHANGED <<method, resp_len, resp, torn, ret, answer, calls, missed,
                 expected_id, sema_resp_ready, current_resp_len, work_buffer,
                 rpc, socketVars, eventVars>>

\* send_receive returns and the API function parses its copy.  A copy torn by
\* a later read can parse as anything.
ResetAndParse ==
  /\ apc = "reset"
  /\ expected_id' = -1
  /\ answer' = Parsed(resp)
  /\ missed' = IF answer'.method = "none" /\ answer'.num = calls
               THEN missed ELSE missed \cup {calls}
  /\ ret' \in IF torn THEN ParserOutcomes(method)
              ELSE {ApiReturn(method, Parsed(resp))}
  /\ apc' = IF ret' = "CRASH" THEN "crashed" ELSE "idle"
  /\ UNCHANGED <<method, resp_len, resp, torn, calls, sema_resp_ready,
                 sema_resp_done, current_resp_len, work_buffer, rpc, socketVars,
                 eventVars>>

\* The steps of a call, once it is made: each is the application's own to take.
AppStep ==
  \/ ClearReady \/ SendCommand \/ TakeReady \/ WaitTimeout
  \/ CheckLength \/ TakeLength \/ CopyStart \/ CopyEnd \/ PostDone \/ ResetAndParse
-----------------------------------------------------------------------------
(* The commands thread *)

\* poll times out after a second: nothing to read, the loop goes on.
PollTimeout ==
  /\ rpc = "poll" /\ sockfd = "open" /\ peer /\ to_client = <<>>
  /\ UNCHANGED vars

\* The read that poll promised.
ReadLen(k) ==
  /\ k \in 1..Smaller(Len(to_client), BufCap)
  /\ Framed => k = Smaller(to_client[1].msg.len, BufCap)

Receive ==
  /\ rpc = "poll" /\ sockfd = "open" /\ to_client # <<>>
  /\ \E k \in 1..Len(to_client) :
       /\ ReadLen(k)
       /\ work_buffer' = SubSeq(to_client, 1, k)
       /\ to_client' = SubSeq(to_client, k + 1, Len(to_client))
  /\ rpc' = "dispatch"
  /\ UNCHANGED <<appVars, expected_id, sema_resp_ready, sema_resp_done,
                 current_resp_len, sockfd, peer, to_kiosk, eventVars>>

\* Mutant: any message with an id is taken for the response.
IsExpected_any_id(m) == expected_id >= 0 /\ m.id # NoId

\* kiosk_msg_received: is it the response expected now, a TransactionComplete,
\* or something to drop?
IsExpected(m) == expected_id >= 0 /\ m.id # NoId /\ m.id = expected_id

Dispatch ==
  LET m == Parsed(work_buffer)
  IN  /\ rpc = "dispatch"
      /\ \/ /\ IsExpected(m)
            /\ current_resp_len' = Len(work_buffer)
            /\ rpc' = "clear"
         \/ /\ ~IsExpected(m)
            /\ rpc' = IF IsNotice(m) THEN "ack" ELSE "poll"
            /\ UNCHANGED current_resp_len
      /\ UNCHANGED <<appVars, expected_id, sema_resp_ready, sema_resp_done,
                     work_buffer, socketVars, eventVars>>

ClearDone ==
  /\ rpc = "clear" /\ rpc' = "post"
  /\ sema_resp_done' = 0
  /\ UNCHANGED <<appVars, expected_id, sema_resp_ready, current_resp_len,
                 work_buffer, socketVars, eventVars>>

PostReady ==
  /\ rpc = "post" /\ rpc' = "await"
  /\ sema_resp_ready' = sema_resp_ready + 1
  /\ UNCHANGED <<appVars, expected_id, sema_resp_done, current_resp_len,
                 work_buffer, socketVars, eventVars>>

\* Mutant: the semaphore is decremented without having been waited for.
TakeDone_untested ==
  /\ rpc = "await"
  /\ rpc' = "poll" /\ sema_resp_done' = sema_resp_done - 1
  /\ current_resp_len' = 0
  /\ UNCHANGED <<appVars, expected_id, sema_resp_ready, work_buffer, socketVars,
                 eventVars>>

TakeDone ==
  /\ rpc = "await" /\ sema_resp_done > 0
  /\ rpc' = "poll" /\ sema_resp_done' = sema_resp_done - 1
  /\ current_resp_len' = 0
  /\ UNCHANGED <<appVars, expected_id, sema_resp_ready, work_buffer, socketVars,
                 eventVars>>

\* The application has the response in hand, or will take it without waiting.
Holding == apc \in {"check", "length", "copy", "copying", "post"}
Owes    == Holding \/ (apc \in {"send", "wait"} /\ sema_resp_ready > 0)

\* Mutant: sem_wait, with no timeout.
AwaitTimeout_never == FALSE /\ UNCHANGED vars

\* 100ms pass and the response has not been handled.
AwaitTimeout ==
  /\ rpc = "await" /\ sema_resp_done = 0
  /\ Prompt => ~Owes
  /\ rpc' = "poll" /\ current_resp_len' = 0
  /\ UNCHANGED <<appVars, expected_id, sema_resp_ready, sema_resp_done,
                 work_buffer, socketVars, eventVars>>

\* The ACK of a TransactionComplete; the outcome of the send is ignored.
SendAck ==
  LET m == Parsed(work_buffer)
  IN  /\ rpc = "ack" /\ rpc' = "callback"
      /\ \/ SendOk([kind |-> "ack", id |-> m.id, num |-> m.num])
         \/ SendFails
      /\ UNCHANGED <<appVars, handVars, eventVars>>

\* Mutant: the callback is skipped while a call is under way.
Callback_between_calls ==
  /\ rpc = "callback" /\ rpc' = "poll"
  /\ delivered' = IF trans_complete_cb /\ expected_id = -1
                  THEN Append(delivered, Parsed(work_buffer).num) ELSE delivered
  /\ UNCHANGED <<appVars, handVars, socketVars, trans_complete_cb, notices, due,
                 acked, drops>>

Callback ==
  /\ rpc = "callback" /\ rpc' = "poll"
  /\ delivered' = IF trans_complete_cb
                  THEN Append(delivered, Parsed(work_buffer).num) ELSE delivered
  /\ UNCHANGED <<appVars, handVars, socketVars, trans_complete_cb, notices, due,
                 acked, drops>>

\* End of stream: the outer loop closes the socket.
Disconnect ==
  /\ rpc = "poll" /\ sockfd = "open" /\ ~peer /\ to_client = <<>>
  /\ sockfd' = "closed"
  /\ UNCHANGED <<appVars, handVars, rpc, peer, to_kiosk, to_client, eventVars>>

\* ... and connects it again, with nothing left of the old connection.
Connect ==
  /\ rpc = "poll" /\ sockfd = "closed"
  /\ sockfd' = "open" /\ peer' = TRUE /\ to_kiosk' = <<>> /\ to_client' = <<>>
  /\ UNCHANGED <<appVars, handVars, rpc, eventVars>>

CommandsThreadStep ==
  \/ Receive \/ Dispatch \/ ClearDone \/ PostReady \/ TakeDone \/ AwaitTimeout
  \/ SendAck \/ Callback \/ Disconnect \/ Connect
-----------------------------------------------------------------------------
(* The kiosk *)

Answer(a, frame) ==
  [id |-> frame.id, method |-> "none", error |-> a.error, result |-> a.result,
   params |-> NoParams, len |-> a.len, num |-> frame.num]

KioskAnswers ==
  /\ peer /\ to_kiosk # <<>> /\ Head(to_kiosk).kind = "command"
  /\ \E a \in Answers :
       to_client' = to_client \o Fragments(Answer(a, Head(to_kiosk)))
  /\ to_kiosk' = Tail(to_kiosk)
  /\ UNCHANGED <<appVars, handVars, rpc, sockfd, peer, eventVars>>

KioskTakesAck ==
  /\ peer /\ to_kiosk # <<>> /\ Head(to_kiosk).kind = "ack"
  /\ acked' = acked \cup {Head(to_kiosk).num}
  /\ to_kiosk' = Tail(to_kiosk)
  /\ UNCHANGED <<appVars, handVars, rpc, sockfd, peer, to_client,
                 trans_complete_cb, notices, due, delivered, drops>>

Notice(e) ==
  [id |-> e.id, method |-> e.method, error |-> FALSE, result |-> "absent",
   params |-> e.params, len |-> e.len, num |-> notices + 1]

KioskNotifies ==
  /\ peer /\ notices < MaxNotices
  /\ \E e \in Notices :
       /\ to_client' = to_client \o Fragments(Notice(e))
       /\ due' = IF IsNotice(Notice(e)) THEN due \cup {notices + 1} ELSE due
  /\ notices' = notices + 1
  /\ UNCHANGED <<appVars, handVars, rpc, sockfd, peer, to_kiosk,
                 trans_complete_cb, acked, delivered, drops>>

\* The connection breaks: commands not yet read are lost, and so may be what
\* was on its way to the client.
KioskDrops ==
  /\ peer /\ drops < MaxDrops
  /\ peer' = FALSE /\ to_kiosk' = <<>> /\ to_client' \in {to_client, <<>>}
  /\ drops' = drops + 1
  /\ UNCHANGED <<appVars, handVars, rpc, sockfd, trans_complete_cb, notices,
                 due, acked, delivered>>

KioskStep == KioskAnswers \/ KioskTakesAck \/ KioskNotifies \/ KioskDrops
-----------------------------------------------------------------------------
Next ==
  /\ Alive
  /\ \/ Register
     \/ \E m \in Methods : Call(m) \/ CallNoMemory(m)
     \/ AppStep
     \/ PollTimeout
     \/ CommandsThreadStep
     \/ KioskStep

Spec == Init /\ [][Next]_vars

\* The two threads are scheduled, and their waits are timed: each that can take
\* a step takes one in the end.  Nothing is assumed of the application's calls.
\* The sends are taken to come to an end: write and connect have no timeout, and
\* KioskConnection says when they do (ServersRead, ConnectsEnd).
FairSpec == Spec /\ WF_vars(Alive /\ AppStep) /\ WF_vars(Alive /\ CommandsThreadStep)
-----------------------------------------------------------------------------
(* Properties *)

AppPc == {"idle", "clear", "send", "wait", "check", "length", "copy", "copying",
          "post", "reset", "crashed"}
CommandsThreadPc == {"poll", "dispatch", "clear", "post", "await", "ack", "callback"}

\* Types of the variables of libotikiosk.c and of the history.
TypeOK ==
  /\ apc \in AppPc /\ method \in Methods
  /\ resp_len \in Nat /\ resp \in Seq(Fragment) /\ torn \in BOOLEAN
  /\ ret \in Outcome \cup {"none"} /\ answer \in Message
  /\ expected_id \in Nat \cup {-1}
  /\ sema_resp_ready \in Nat /\ sema_resp_done \in Nat
  /\ current_resp_len \in Nat /\ work_buffer \in Seq(Fragment)
  /\ trans_complete_cb \in BOOLEAN
  /\ rpc \in CommandsThreadPc
  /\ sockfd \in {"open", "closed"} /\ peer \in BOOLEAN
  /\ to_kiosk \in Seq(Frame) /\ to_client \in Seq(Fragment)
  /\ calls \in Nat /\ missed \in SUBSET Nat /\ notices \in Nat
  /\ due \in SUBSET Nat /\ acked \in SUBSET Nat /\ delivered \in Seq(Nat)
  /\ drops \in Nat

\* While send_receive reads the response out of the shared buffer, the commands
\* thread waits for it, and what it reads is one response, whole: the length it
\* reads twice is that of the data in the buffer, no token of an earlier response
\* lets the commands thread go before this one is copied, and no copy is torn
\* (libotikiosk.c:243-252 against 332-342).
HandoffIntact ==
  /\ Holding => /\ rpc = "await" /\ sema_resp_done = 0
                /\ current_resp_len = Len(work_buffer)
  /\ ~torn

\* memcpy in send_receive stays inside resp_buff: the length that was checked
\* is the length that is copied, although it is read again in between.
CopyFits == apc \in {"copy", "copying"} => resp_len <= RespCap

\* Why the handover is intact when responses are handled in time: the tokens of
\* the two semaphores say whose turn it is, and the buffer and its length are
\* the commands thread's to change only while the application holds no token.
TokensTakeTurns ==
  /\ Holding => rpc = "await" /\ sema_resp_ready = 0 /\ sema_resp_done = 0
  /\ apc \in {"send", "wait"} /\ sema_resp_ready > 0 =>
       sema_resp_ready = 1 /\ rpc = "await" /\ sema_resp_done = 0
  /\ rpc = "post" => sema_resp_done = 0

LengthIsOfBuffer ==
  /\ rpc \in {"clear", "post", "await"} => current_resp_len = Len(work_buffer)
  /\ apc \in {"clear", "send", "wait", "check"} => resp_len = RespCap
  /\ apc = "length" => current_resp_len <= RespCap
  /\ apc \in {"copy", "copying"} => resp_len <= RespCap
  /\ apc = "copying" => resp = Buffered(resp_len)
  /\ ~torn

\* The inductive invariant of the exchange, when Prompt holds.
HandoffInv == TokensTakeTurns /\ LengthIsOfBuffer

\* A call that returns OK returns the kiosk's answer to a command of its own
\* method, never a notice: it answers this call or an earlier one that ended
\* without it (send_receive keeps expecting the id after it gives up, and takes the
\* late answer when the next call has that id).  That an answer makes one call
\* succeed, and not a second, is KeepsPromise of KioskCalls.
AnswerIsOurs ==
  ret = "OK" /\ ~torn =>
    /\ answer.method = "none" /\ answer.id = Api[method].sent
    /\ answer.num = calls \/ answer.num \in missed

\* When the answer that an API function copied says that the kiosk did what was
\* asked, the function returns KIOSK_RET_OK.
YesIsOk == apc \in {"idle", "crashed"} /\ SaysYes(method, answer) => ret = "OK"

Pending  == {to_client[i].msg.num : i \in {j \in DOMAIN to_client :
                                            to_client[j].msg.method # "none"}}
InHand   == IF rpc \in {"dispatch", "ack", "callback"} /\ IsNotice(Parsed(work_buffer))
            THEN {Parsed(work_buffer).num} ELSE {}
Reported == {delivered[i] : i \in DOMAIN delivered}

\* A TransactionComplete that the kiosk sent is on its way, in the hands of the
\* commands thread, or has been given to the application's callback.
NoticeKept == due \subseteq Pending \cup InHand \cup Reported

\* The ways in which notice n is lost: with its connection; in a read that is not
\* one whole message; taken for the answer whose id it has; for want of a callback.
LostBy(n) ==
  \/ KioskDrops \/ Connect
  \/ Receive /\ work_buffer' # Fragments(Parsed(work_buffer'))
  \/ Dispatch /\ IsExpected(Parsed(work_buffer)) /\ Parsed(work_buffer).num = n
  \/ Callback /\ ~trans_complete_cb /\ Parsed(work_buffer).num = n

\* A TransactionComplete is lost in these four ways only, however the stream is
\* cut and whoever loses its connection: no call under way, no timeout of either
\* thread, no ACK that cannot be sent and no later read takes it away.
NoticeLostOnly ==
  [][\A n \in due \cap (Pending \cup InHand \cup Reported) :
       n \notin (Pending \cup InHand \cup Reported)' => LostBy(n)]_vars

\* A TransactionComplete that the kiosk got an ACK for has been, or is about to
\* be, given to the application's callback.
AckedIsReported == acked \subseteq InHand \cup Reported

\* Every API call returns: no interleaving leaves send_receive waiting for the
\* commands thread, or for an answer, where its send comes to an end.
CallReturns == (apc # "idle") ~> (apc \in {"idle", "crashed"})

\* The commands thread always gets back to its poll, whatever the application
\* does or fails to do with the response it was handed.
ReceptionResumes == (rpc # "poll" /\ Alive) ~> (rpc = "poll" \/ ~Alive)

\* Every TransactionComplete sent reaches the application's callback.
NoticeReported == \A n \in 1..MaxNotices : (n \in due) ~> (n \in Reported)
=============================================================================
