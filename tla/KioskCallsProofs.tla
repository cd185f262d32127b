--------------------------- MODULE KioskCallsProofs ---------------------------
(***************************************************************************)
(* KioskCalls implements KioskApi, for every value of the constants under  *)
(* which it can: responses are handled in time, the kiosk answers with a   *)
(* result or an error and not both, as JSON-RPC has it, and PayTransaction *)
(* is not called, for it takes the answers to PreAuthorize for its own.    *)
(***************************************************************************)
EXTENDS KioskCalls, KioskExchangeProofs

callsVars == <<vars, callVars>>

\* Message m answers the command of the call it is numbered by, of those in a; if it
\* carries a result, the kiosk did that command.
Truthful(m, a, p) ==
  m.id = Api[a[m.num]].sent /\ (m.result # "absent" => m.num \in p)

AskedInv ==
  /\ asked \in Seq(Methods) /\ Len(asked) = calls
  /\ apc # "idle" => method = asked[calls]
  /\ \A i \in DOMAIN to_kiosk :
       IsCommand(to_kiosk[i]) => to_kiosk[i].id = Api[asked[to_kiosk[i].num]].sent

TruthInv ==
  /\ \A i \in DOMAIN to_client :
       to_client[i].msg.method = "none" => Truthful(to_client[i].msg, asked, performed)
  /\ IsAnswer(Parsed(work_buffer)) => Truthful(Parsed(work_buffer), asked, performed)
  /\ CopiedAnswer => Truthful(Parsed(resp), asked, performed)

\* A command is done once, in its turn, and what it made succeed is settled.
PerformedInv ==
  /\ used \subseteq performed /\ performed \subseteq 1..calls
  /\ \A p \in performed : \A i \in DOMAIN to_kiosk :
       IsCommand(to_kiosk[i]) => p < to_kiosk[i].num
  /\ apc \in {"clear", "send"} => calls \notin performed
  /\ \A n : Outstanding(n) => n \notin used

CallsInv == AskedInv /\ TruthInv /\ PerformedInv
-----------------------------------------------------------------------------
(* What a step of KioskExchange adds to the wire and to the history. *)

\* A step of KioskCalls is one of KioskExchange, watched.
LEMMA Watched ==
  ASSUME [CNext]_callsVars
  PROVE  /\ [Next]_vars
         /\ \/ asked' = asked /\ ~(calls' > calls)
            \/ asked' = Append(asked, method') /\ calls' > calls
            \/ UNCHANGED callsVars
         /\ performed' = performed \/ KioskAnswers
         /\ used' = used \/ (apc = "reset" /\ ret' = "OK")
BY DEF CNext, callsVars, callVars

\* Only SendCommand adds a command to the kiosk's queue.
LEMMA CommandsAreOld ==
  ASSUME TypeOK, [Next]_vars, ~SendCommand, NEW i \in DOMAIN to_kiosk', IsCommand(to_kiosk'[i])
  PROVE  \E j \in DOMAIN to_kiosk : to_kiosk[j] = to_kiosk'[i]
<1>. USE DEF vars, appVars, handVars, socketVars, eventVars
<1>1. CASE SendAck
  <2>. DEFINE m == Parsed(work_buffer)
              f == [kind |-> "ack", id |-> m.id, num |-> m.num]
  <2>1. m \in Message
    BY ParsedType DEF TypeOK
  <2>2. f \in Frame /\ ~IsCommand(f)
    BY <2>1 DEF Message, Frame, IsCommand
  <2>3. SendOk(f) \/ SendFails
    BY <1>1 DEF SendAck
  <2>. HIDE DEF f
  <2>. QED  BY <2>2, <2>3, SendIs
<1>2. CASE KioskAnswers \/ KioskTakesAck
  <2>1. to_kiosk # <<>> /\ to_kiosk' = Tail(to_kiosk)
    BY <1>2 DEF KioskAnswers, KioskTakesAck
  <2>. QED  BY <2>1, FrameTaken
<1>3. CASE ~SendAck /\ ~KioskAnswers /\ ~KioskTakesAck
  <2>1. to_kiosk' \in {to_kiosk, <<>>}
    BY <1>3 DEF Next, AppStep, ClearReady, TakeReady, WaitTimeout, CheckLength,
       TakeLength, CopyStart, CopyEnd, PostDone, ResetAndParse, ReturnError, KioskStep,
       KioskNotifies, KioskDrops, Register, PollTimeout, Call, CallNoMemory,
       CommandsThreadStep, Receive, Dispatch, ClearDone, PostReady, TakeDone,
       AwaitTimeout, Callback, Disconnect, Connect
  <2>2. DOMAIN <<>> = {}
    OBVIOUS
  <2>. QED  BY <2>1, <2>2
<1>. QED  BY <1>1, <1>2, <1>3

\* What SendCommand adds: the command of the call under way.
LEMMA CommandIsNew ==
  ASSUME TypeOK, SendCommand, NEW i \in DOMAIN to_kiosk'
  PROVE  \/ i \in DOMAIN to_kiosk /\ to_kiosk'[i] = to_kiosk[i]
         \/ to_kiosk'[i] = [kind |-> "command", id |-> Api[method].sent, num |-> calls]
<1>. DEFINE f == [kind |-> "command", id |-> Api[method].sent, num |-> calls]
<1>1. f \in Frame
  BY ApiTypes, ConstantsAssumption DEF TypeOK, Frame
<1>2. SendOk(f) \/ SendFails
  BY DEF SendCommand
<1>3. \/ i \in DOMAIN to_kiosk /\ to_kiosk'[i] = to_kiosk[i]
      \/ to_kiosk'[i] = f
  <2>. HIDE DEF f
  <2>. QED  BY <1>1, <1>2, SendIs
<1>. QED  BY <1>3

\* Only KioskAnswers adds an answer to what is on its way back.
LEMMA AnswersAreOld ==
  ASSUME TypeOK, [Next]_vars, ~KioskAnswers, NEW i \in DOMAIN to_client',
         to_client'[i].msg.method = "none"
  PROVE  \E j \in DOMAIN to_client : to_client[j] = to_client'[i]
<1>. USE DEF vars, appVars, handVars, socketVars, eventVars
<1>1. CASE Receive
  <2>1. PICK k \in 1..Len(to_client) : to_client' = SubSeq(to_client, k + 1, Len(to_client))
    BY <1>1 DEF Receive
  <2>2. DOMAIN to_client' = 1..(Len(to_client) - k)
        /\ \A n \in 1..(Len(to_client) - k) : to_client'[n] = to_client[n + k]
    BY <2>1, Taken DEF TypeOK
  <2>3. i + k \in DOMAIN to_client
    BY <2>2, WireTypes
  <2>. QED  BY <2>2, <2>3
<1>2. CASE KioskNotifies
  <2>1. PICK e \in Notices : to_client' = to_client \o Fragments(Notice(e))
    BY <1>2 DEF KioskNotifies
  <2>. DEFINE m == Notice(e)
  <2>2. m \in Message /\ m.method # "none"
    BY ConstantsAssumption DEF Notice, NoticeForm, Message, Result, TypeOK
  <2>3. \/ to_client'[i].msg = m
        \/ i \in DOMAIN to_client /\ to_client'[i] = to_client[i]
    <3>1. to_client' = to_client \o Fragments(m)
      BY <2>1
    <3>. HIDE DEF m
    <3>. QED  BY <2>2, <3>1, SentOrThere DEF TypeOK
  <2>. HIDE DEF m
  <2>. QED  BY <2>2, <2>3
<1>3. CASE ~Receive /\ ~KioskNotifies
  <2>1. to_client' \in {to_client, <<>>}
    BY <1>3 DEF Next, AppStep, ClearReady, SendCommand, SendOk, SendFails, TakeReady,
       WaitTimeout, CheckLength, TakeLength, CopyStart, CopyEnd, PostDone, ResetAndParse,
       ReturnError, KioskStep, KioskTakesAck, KioskDrops, Register, PollTimeout, Call,
       CallNoMemory, CommandsThreadStep, Dispatch, ClearDone, PostReady, TakeDone,
       AwaitTimeout, SendAck, Callback, Disconnect, Connect
  <2>2. DOMAIN <<>> = {}
    OBVIOUS
  <2>. QED  BY <2>1, <2>2
<1>. QED  BY <1>1, <1>2, <1>3

\* What the client holds came off the wire, and what it copied was in the buffer.
LEMMA HeldIsOld ==
  ASSUME TypeOK, CopyInv, [Next]_vars
  PROVE  /\ \/ Parsed(work_buffer)' = Parsed(work_buffer)
            \/ Parsed(work_buffer)' = Garbage
            \/ \E j \in DOMAIN to_client : Parsed(work_buffer)' = to_client[j].msg
         /\ CopiedAnswer' => \/ CopiedAnswer /\ Parsed(resp)' = Parsed(resp)
                             \/ Parsed(resp)' = Parsed(work_buffer)
<1>. USE DEF vars, appVars, handVars, socketVars, eventVars
<1>1. CASE Receive
  <2>1. PICK k \in 1..Len(to_client) : work_buffer' = SubSeq(to_client, 1, k)
    BY <1>1 DEF Receive
  <2>2. Parsed(work_buffer)' # Garbage => Parsed(work_buffer)' = to_client[1].msg
    BY <2>1, FirstParsed DEF TypeOK
  <2>3. 1 \in DOMAIN to_client
    BY <2>1, WireTypes
  <2>4. UNCHANGED <<apc, resp>>
    BY <1>1 DEF Receive
  <2>. QED  BY <2>2, <2>3, <2>4 DEF CopiedAnswer
<1>2. CASE PostDone
  <2>1. resp' = work_buffer /\ work_buffer' = work_buffer
    BY <1>2 DEF PostDone, CopyInv, CopyIsBuffer
  <2>. QED  BY <2>1
<1>3. CASE ~Receive /\ ~PostDone
  <2>1. work_buffer' = work_buffer /\ (apc' = "reset" => apc = "reset" /\ resp' = resp)
    <3>1. CASE AppStep
      BY <1>3, <3>1 DEF AppStep, ClearReady, SendCommand, TakeReady, WaitTimeout,
         CheckLength, TakeLength, CopyStart, CopyEnd, ResetAndParse, ReturnError
    <3>2. ASSUME NEW m \in Methods, Call(m) \/ CallNoMemory(m)
          PROVE  work_buffer' = work_buffer /\ apc' # "reset"
      BY <3>2 DEF Call, CallNoMemory
    <3>3. CASE CommandsThreadStep \/ KioskStep \/ Register \/ PollTimeout \/ UNCHANGED vars
      BY <1>3, <3>3 DEF CommandsThreadStep, Dispatch, ClearDone, PostReady, TakeDone,
         AwaitTimeout, SendAck, Callback, Disconnect, Connect, KioskStep, KioskAnswers,
         KioskTakesAck, KioskNotifies, KioskDrops, Register, PollTimeout
    <3>. QED  BY <3>1, <3>2, <3>3 DEF Next
  <2>. QED  BY <2>1 DEF CopiedAnswer
<1>. QED  BY <1>1, <1>2, <1>3
-----------------------------------------------------------------------------
(* The history of the calls. *)

\* A call is put down as it is made, and no earlier one changes.
LEMMA AskedGrows ==
  ASSUME TypeOK, AskedInv, [CNext]_callsVars
  PROVE  /\ asked' \in Seq(Methods) /\ Len(asked') = calls' /\ calls <= calls'
         /\ \A n \in 1..calls : asked'[n] = asked[n]
         /\ apc' # "idle" => method' = asked'[calls']
<1>. USE DEF vars, appVars, handVars, socketVars, eventVars
<1>1. calls \in Nat /\ Len(asked) = calls /\ asked \in Seq(Methods) /\ [Next]_vars
  BY Watched DEF TypeOK, AskedInv
<1>2. ASSUME NEW m \in Methods, Call(m) \/ CallNoMemory(m)
      PROVE  /\ asked' \in Seq(Methods) /\ Len(asked') = calls' /\ calls <= calls'
             /\ \A n \in 1..calls : asked'[n] = asked[n]
             /\ method' = asked'[calls']
  <2>1. calls' = calls + 1 /\ method' = m
    BY <1>2 DEF Call, CallNoMemory
  <2>2. asked' = Append(asked, m)
    BY <1>1, <2>1, Watched DEF callsVars
  <2>. QED  BY <1>1, <2>1, <2>2, AppendProperties
<1>3. CASE AppStep \/ CommandsThreadStep \/ KioskStep \/ Register \/ PollTimeout \/ UNCHANGED vars
  <2>1. UNCHANGED <<calls, method>> /\ (apc' # "idle" => apc # "idle")
    <3>1. CASE AppStep
      BY <3>1 DEF AppStep, ClearReady, SendCommand, TakeReady, WaitTimeout, CheckLength,
         TakeLength, CopyStart, CopyEnd, PostDone, ResetAndParse, ReturnError
    <3>2. CASE CommandsThreadStep \/ KioskStep \/ Register \/ PollTimeout \/ UNCHANGED vars
      BY <3>2 DEF CommandsThreadStep, Receive, Dispatch, ClearDone, PostReady, TakeDone,
         AwaitTimeout, SendAck, Callback, Disconnect, Connect, KioskStep, KioskAnswers,
         KioskTakesAck, KioskNotifies, KioskDrops, Register, PollTimeout
    <3>. QED  BY <1>3, <3>1, <3>2
  <2>2. asked' = asked
    BY <1>1, <2>1, Watched DEF callsVars, callVars
  <2>. QED  BY <1>1, <2>1, <2>2 DEF AskedInv
<1>. QED  BY <1>1, <1>2, <1>3 DEF Next

\* Each command on its way asks for what its call asked for.
LEMMA NextKeepsAsked ==
  ASSUME TypeOK, WireInv, AskedInv, [CNext]_callsVars
  PROVE  AskedInv'
<1>. USE DEF vars, appVars, handVars, socketVars, eventVars
<1>1. /\ [Next]_vars /\ calls \in Nat
      /\ asked' \in Seq(Methods) /\ Len(asked') = calls' /\ calls <= calls'
      /\ \A n \in 1..calls : asked'[n] = asked[n]
      /\ apc' # "idle" => method' = asked'[calls']
  BY Watched, AskedGrows DEF TypeOK
<1>2. \A i \in DOMAIN to_kiosk : IsCommand(to_kiosk[i]) =>
        /\ to_kiosk[i].num \in 1..calls
        /\ to_kiosk[i].id = Api[asked'[to_kiosk[i].num]].sent
  BY <1>1 DEF AskedInv, WireInv, AllGenuine, IsCommand
<1>3. ASSUME NEW i \in DOMAIN to_kiosk', IsCommand(to_kiosk'[i])
      PROVE  to_kiosk'[i].id = Api[asked'[to_kiosk'[i].num]].sent
  <2>1. CASE ~SendCommand
    BY <1>1, <1>2, <1>3, <2>1, CommandsAreOld
  <2>2. CASE SendCommand
    <3>1. apc # "idle" /\ calls # 0 /\ UNCHANGED <<calls, method>>
      BY <2>2 DEF SendCommand, ReturnError, WireInv
    <3>2. method = asked'[calls]
      BY <1>1, <3>1 DEF AskedInv
    <3>. QED  BY <1>2, <1>3, <2>2, <3>2, CommandIsNew
  <2>. QED  BY <2>1, <2>2
<1>. QED  BY <1>1, <1>3 DEF AskedInv

\* Where an answer carries a result or an error and not both, the kiosk did what it
\* answered with a result.
OneOrTheOther == \A a \in Answers : a.error => a.result = "absent"

\* What the kiosk says it did.
LEMMA Performing ==
  ASSUME TypeOK, WireInv, [CNext]_callsVars, KioskAnswers
  PROVE  \E a \in Answers :
           /\ to_client' = to_client \o Fragments(Answer(a, to_kiosk[1]))
           /\ Answer(a, to_kiosk[1]) \in Message
           /\ OneOrTheOther /\ a.result # "absent" => to_kiosk[1].num \in performed'
           /\ performed' \in {performed, performed \cup {to_kiosk[1].num}}
<1>. USE DEF vars, appVars, handVars, socketVars, eventVars
<1>1. /\ to_kiosk # <<>> /\ Head(to_kiosk) = to_kiosk[1] /\ to_kiosk[1] \in Frame
      /\ 1 \in DOMAIN to_kiosk
  BY FrameTaken DEF KioskAnswers
<1>2. PICK a \in Answers : to_client' = to_client \o Fragments(Answer(a, to_kiosk[1]))
  BY <1>1 DEF KioskAnswers
<1>. DEFINE m == Answer(a, to_kiosk[1])
<1>3. /\ m \in Message /\ m.len \in Nat \ {0} /\ m.num = to_kiosk[1].num
      /\ m.method = "none" /\ m.error = a.error /\ m.result = a.result
  BY <1>1, ConstantsAssumption, GarbageType DEF Answer, AnswerForm, Frame, Message
<1>4. ~UNCHANGED callsVars
  <2>1. Len(to_kiosk') = Len(to_kiosk) - 1 /\ Len(to_kiosk) \in Nat
    BY <1>1, HeadTailProperties, LenProperties DEF KioskAnswers, TypeOK
  <2>. QED  BY <2>1 DEF callsVars
<1>5. performed' = IF Performs(to_kiosk[1].num)
                   THEN performed \cup {to_kiosk[1].num} ELSE performed
  BY <1>1, <1>4 DEF CNext
<1>6. ~a.error => Performs(to_kiosk[1].num)
  <2>0. to_client' = to_client \o Fragments(m)
    BY <1>2
  <2>. HIDE DEF m
  <2>1. /\ Len(to_client') = Len(to_client) + m.len /\ Len(to_client) \in Nat
        /\ to_client'[Len(to_client) + 1].msg = m
    <3>1. /\ Len(to_client) \in Nat /\ m \in Message /\ m.len \in Nat \ {0}
          /\ to_client \in Seq(Fragment)
      BY <1>3, LenProperties DEF TypeOK
    <3>2. Len(to_client) + 1 \in (Len(to_client) + 1)..(Len(to_client) + m.len)
      BY <3>1
    <3>. QED  BY <2>0, <3>1, <3>2, Sent
  <2>2. Len(to_client) + 1 \in 1..Len(to_client')
    BY <1>3, <2>1
  <2>. QED  BY <1>3, <2>1, <2>2 DEF Performs
<1>7. OneOrTheOther /\ a.result # "absent" => ~a.error
  BY DEF OneOrTheOther
<1>. QED  BY <1>2, <1>3, <1>5, <1>6, <1>7

\* What is said of a command stays true.
LEMMA TruthStays ==
  ASSUME TypeOK, AskedInv, [CNext]_callsVars, NEW m, m.num \in 1..calls,
         Truthful(m, asked, performed)
  PROVE  Truthful(m, asked', performed')
<1>1. performed \subseteq performed'
  BY DEF CNext, callsVars, callVars
<1>. QED  BY <1>1, AskedGrows DEF Truthful

\* The answers are true: on the wire, in the buffer and in the copy.
LEMMA NextKeepsTruth ==
  ASSUME OneOrTheOther, TypeOK, WireInv, CopyInv, AskedInv, TruthInv, [CNext]_callsVars
  PROVE  TruthInv'
<1>. USE DEF vars, appVars, handVars, socketVars, eventVars
<1>1. [Next]_vars
  BY Watched
<1>2. \A i \in DOMAIN to_client : to_client[i].msg.method = "none" =>
        /\ to_client[i].msg.num \in 1..calls
        /\ Truthful(to_client[i].msg, asked', performed')
  BY TruthStays DEF TruthInv, WireInv, AllGenuine, Genuine
<1>3. IsAnswer(Parsed(work_buffer)) => Truthful(Parsed(work_buffer), asked', performed')
  BY TruthStays DEF TruthInv, WireInv, AllGenuine, Genuine, IsAnswer
<1>4. CopiedAnswer => Truthful(Parsed(resp), asked', performed')
  BY TruthStays DEF TruthInv, CopyInv, CopyGenuine, Genuine, CopiedAnswer, IsAnswer
<1>5. ASSUME NEW i \in DOMAIN to_client', to_client'[i].msg.method = "none"
      PROVE  Truthful(to_client'[i].msg, asked', performed')
  <2>1. CASE ~KioskAnswers
    BY <1>1, <1>2, <1>5, <2>1, AnswersAreOld
  <2>2. CASE KioskAnswers
    <3>1. PICK a \in Answers :
            /\ to_client' = to_client \o Fragments(Answer(a, to_kiosk[1]))
            /\ Answer(a, to_kiosk[1]) \in Message
            /\ OneOrTheOther /\ a.result # "absent" => to_kiosk[1].num \in performed'
      BY <2>2, Performing
    <3>. DEFINE m == Answer(a, to_kiosk[1])
    <3>2. m.num = to_kiosk[1].num /\ m.result = a.result /\ m.id = to_kiosk[1].id
      BY DEF Answer
    <3>3. 1 \in DOMAIN to_kiosk /\ IsCommand(to_kiosk[1])
      BY <2>2, FrameTaken DEF KioskAnswers, IsCommand
    <3>4. to_kiosk[1].id = Api[asked[to_kiosk[1].num]].sent /\ to_kiosk[1].num \in 1..calls
      BY <3>3 DEF AskedInv, WireInv, AllGenuine, IsCommand
    <3>5. Truthful(m, asked', performed')
      BY <3>1, <3>2, <3>4, AskedGrows DEF Truthful
    <3>6. \/ to_client'[i].msg = m
          \/ i \in DOMAIN to_client /\ to_client'[i] = to_client[i]
      <4>1. to_client' = to_client \o Fragments(m) /\ m \in Message
        BY <3>1
      <4>. HIDE DEF m
      <4>. QED  BY <4>1, SentOrThere DEF TypeOK
    <3>. QED  BY <1>2, <1>5, <3>5, <3>6
  <2>. QED  BY <2>1, <2>2
<1>6. IsAnswer(Parsed(work_buffer))' => Truthful(Parsed(work_buffer)', asked', performed')
  BY <1>1, <1>2, <1>3, HeldIsOld DEF IsAnswer
<1>7. CopiedAnswer' => Truthful(Parsed(resp)', asked', performed')
  BY <1>1, <1>3, <1>4, HeldIsOld DEF CopiedAnswer
<1>. QED  BY <1>5, <1>6, <1>7 DEF TruthInv
-----------------------------------------------------------------------------
(* Each command is done once, and makes one call succeed at most. *)

\* A call that returns OK took a true answer to a command of its own method that
\* was outstanding until then.
LEMMA OkIsUsed ==
  ASSUME TypeOK, HandoffInv, CopyInv, AskedInv, TruthInv, PerformedInv,
         ResetAndParse, ret' = "OK", method # "PayTransaction"
  PROVE  /\ CopiedAnswer /\ answer' = Parsed(resp) /\ answer'.num \in performed \ used
         /\ answer'.num \in DOMAIN asked /\ asked[answer'.num] = asked[Len(asked)]
<1>1. /\ apc = "reset" /\ method \in Method /\ answer' = Parsed(resp)
      /\ ret' = ApiReturn(method, Parsed(resp))
  BY ConstantsAssumption DEF ResetAndParse, HandoffInv, LengthIsOfBuffer, TypeOK
<1>2. Parsed(resp).id = Api[method].sent /\ Parsed(resp).result # "absent"
  BY <1>1, OkHasResult, ChecksItsId
<1>3. CopiedAnswer /\ Parsed(resp).num \in 1..calls
  BY <1>1, <1>2 DEF CopiedAnswer, IsAnswer, CopyInv, CopyGenuine, Genuine, Garbage
<1>4. Outstanding(Parsed(resp).num)
  BY <1>3 DEF Outstanding
<1>5. /\ Parsed(resp).id = Api[asked[Parsed(resp).num]].sent
      /\ Parsed(resp).num \in performed
  BY <1>2, <1>3 DEF TruthInv, Truthful
<1>6. /\ DOMAIN asked = 1..calls /\ asked[Parsed(resp).num] \in Method
      /\ method = asked[Len(asked)]
  <2>1. DOMAIN asked = 1..calls
    BY LenProperties DEF AskedInv
  <2>2. asked[Parsed(resp).num] \in Methods
    BY <1>3, ElementOfSeq DEF AskedInv
  <2>. QED  BY <1>1, <2>1, <2>2, ConstantsAssumption DEF AskedInv
<1>7. \A x, y \in Method : Api[x].sent = Api[y].sent => x = y
  BY DEF Method, Api, Entry
<1>. QED  BY <1>1, <1>2, <1>3, <1>4, <1>5, <1>6, <1>7 DEF PerformedInv

\* What was done stays behind what the kiosk has not read yet.
LEMMA NextKeepsPerformed ==
  ASSUME "PayTransaction" \notin Methods, TypeOK, HandoffInv, WireInv, CopyInv, OrderInv,
         NotYet, AskedInv, TruthInv, PerformedInv, [CNext]_callsVars
  PROVE  PerformedInv'
<1>. USE DEF vars, appVars, handVars, socketVars, eventVars
<1>1. /\ [Next]_vars /\ calls \in Nat /\ calls <= calls'
  BY Watched, AskedGrows DEF TypeOK
<1>2. CASE KioskAnswers
  <2>1. PICK a \in Answers : performed' \in {performed, performed \cup {to_kiosk[1].num}}
    BY <1>2, Performing
  <2>2. /\ IsCommand(to_kiosk[1]) /\ 1 \in DOMAIN to_kiosk
        /\ UNCHANGED <<apc, calls, ret>>
        /\ \A i \in DOMAIN to_kiosk' : /\ i + 1 \in DOMAIN to_kiosk /\ 1 < i + 1
                                       /\ to_kiosk'[i] = to_kiosk[i + 1]
    <3>1. /\ to_kiosk # <<>> /\ to_kiosk' = Tail(to_kiosk)
          /\ Head(to_kiosk).kind = "command" /\ UNCHANGED <<apc, calls, ret>>
      BY <1>2 DEF KioskAnswers
    <3>2. /\ Head(to_kiosk) = to_kiosk[1] /\ 1 \in DOMAIN to_kiosk
          /\ DOMAIN to_kiosk' = 1..(Len(to_kiosk) - 1)
          /\ \A i \in DOMAIN to_kiosk' : /\ i + 1 \in DOMAIN to_kiosk
                                         /\ to_kiosk'[i] = to_kiosk[i + 1]
      BY <3>1, FrameTaken
    <3>3. \A i \in DOMAIN to_kiosk' : 1 < i + 1
      BY <3>2, WireTypes
    <3>. QED  BY <3>1, <3>2, <3>3 DEF IsCommand
  <2>3. used' = used
    <3>1. ~(apc = "reset" /\ ret' = "OK")
      BY <2>2 DEF NotYet
    <3>. QED  BY <3>1, Watched
  <2>4. to_kiosk[1].num \in 1..calls
    BY <2>2 DEF WireInv, AllGenuine, IsCommand
  <2>5. \A p \in performed' : \A i \in DOMAIN to_kiosk' :
          IsCommand(to_kiosk'[i]) => p < to_kiosk'[i].num
    BY <2>1, <2>2 DEF PerformedInv, OrderInv, WireInOrder
  <2>6. apc' \in {"clear", "send"} => calls' \notin performed'
    <3>1. ASSUME apc \in {"clear", "send"} PROVE to_kiosk[1].num # calls
      <4>1. Outstanding(to_kiosk[1].num)
        BY <2>2 DEF Outstanding
      <4>. QED  BY <3>1, <4>1 DEF OrderInv, NoneStray, UnderWay
    <3>. QED  BY <2>1, <2>2, <3>1 DEF PerformedInv
  <2>7. \A n : Outstanding(n)' => Outstanding(n)
    BY <1>2, AnswerKeepsOrder DEF OrderInv
  <2>. QED  BY <2>1, <2>2, <2>3, <2>4, <2>5, <2>6, <2>7 DEF PerformedInv
<1>3. CASE SendCommand
  <2>1. /\ apc = "send" /\ apc' \in {"wait", "idle"} /\ UNCHANGED calls
        /\ ~KioskAnswers /\ calls \in 1..calls
    BY <1>3 DEF SendCommand, ReturnError, KioskAnswers, WireInv, TypeOK
  <2>2. performed' = performed /\ used' = used
    BY <2>1, Watched
  <2>3. \A p \in performed : p \in 1..calls /\ p # calls
    BY <2>1 DEF PerformedInv
  <2>4. \A p \in performed : p < calls
    BY <1>1, <2>3
  <2>5. \A i \in DOMAIN to_kiosk' : \/ i \in DOMAIN to_kiosk /\ to_kiosk'[i] = to_kiosk[i]
                                    \/ to_kiosk'[i].num = calls
    BY <1>3, CommandIsNew
  <2>6. \A p \in performed' : \A i \in DOMAIN to_kiosk' :
          IsCommand(to_kiosk'[i]) => p < to_kiosk'[i].num
    BY <2>2, <2>4, <2>5 DEF PerformedInv
  <2>7. \A n : Outstanding(n)' => Outstanding(n) \/ n = calls
    BY <1>3, CommandKeepsOrder
  <2>. QED  BY <2>1, <2>2, <2>3, <2>6, <2>7 DEF PerformedInv
<1>4. CASE ~KioskAnswers /\ ~SendCommand
  <2>1. performed' = performed
    BY <1>4, Watched
  <2>2. \A p \in performed' : \A i \in DOMAIN to_kiosk' :
          IsCommand(to_kiosk'[i]) => p < to_kiosk'[i].num
    BY <1>1, <1>4, <2>1, CommandsAreOld DEF PerformedInv
  <2>3. apc' \in {"clear", "send"} => calls' \notin performed'
    <3>1. CASE UNCHANGED <<apc, calls>>
      BY <2>1, <3>1 DEF PerformedInv
    <3>2. ASSUME NEW m \in Methods, Call(m) \/ CallNoMemory(m)
          PROVE  calls' \notin performed'
      <4>1. calls' = calls + 1
        BY <3>2 DEF Call, CallNoMemory
      <4>. QED  BY <1>1, <2>1, <4>1 DEF PerformedInv
    <3>3. CASE AppStep
      <4>1. calls' = calls /\ (apc' \in {"clear", "send"} => apc \in {"clear", "send"})
        BY <1>4, <3>3 DEF AppStep, ClearReady, TakeReady, WaitTimeout, CheckLength,
           TakeLength, CopyStart, CopyEnd, PostDone, ResetAndParse, ReturnError
      <4>. QED  BY <2>1, <4>1 DEF PerformedInv
    <3>4. CASE CommandsThreadStep \/ KioskStep \/ Register \/ PollTimeout \/ UNCHANGED vars
      <4>1. UNCHANGED <<apc, calls>>
        BY <3>4 DEF CommandsThreadStep, Receive, Dispatch, ClearDone, PostReady, TakeDone,
           AwaitTimeout, SendAck, Callback, Disconnect, Connect, KioskStep, KioskAnswers,
           KioskTakesAck, KioskNotifies, KioskDrops, Register, PollTimeout
      <4>. QED  BY <3>1, <4>1
    <3>. QED  BY <1>1, <3>2, <3>3, <3>4 DEF Next
  <2>4. \A n : Outstanding(n)' => Outstanding(n)
    BY <1>1, <1>4, NextOutstanding
  <2>5. used' \subseteq performed' /\ \A n : Outstanding(n)' => n \notin used'
    <3>1. CASE used' = used
      BY <2>1, <2>4, <3>1 DEF PerformedInv
    <3>2. CASE used' # used
      <4>1. apc = "reset" /\ ret' = "OK" /\ used' = used \cup {answer'.num}
        BY <3>2 DEF CNext, callsVars, callVars
      <4>2. ResetAndParse
        BY <1>1, <4>1, NextResult DEF NotYet
      <4>3. method # "PayTransaction"
        BY DEF TypeOK
      <4>4. CopiedAnswer /\ answer' = Parsed(resp) /\ answer'.num \in performed
        BY <4>1, <4>2, <4>3, OkIsUsed
      <4>5. \A n : Outstanding(n)' => Parsed(resp).num < n
        BY <4>2, <4>4, ParseKeepsOrder DEF OrderInv
      <4>6. Parsed(resp).num \in Nat
        BY WireTypes
      <4>7. \A n : Outstanding(n)' => n # answer'.num
        BY <4>4, <4>5, <4>6
      <4>. QED  BY <2>1, <2>4, <4>1, <4>4, <4>7 DEF PerformedInv
    <3>. QED  BY <3>1, <3>2
  <2>6. performed' \subseteq 1..calls'
    <3>1. calls' \in Nat
      BY <1>1, AskedGrows, LenProperties
    <3>2. 1..calls \subseteq 1..calls'
      BY <1>1, <3>1
    <3>. QED  BY <2>1, <3>2 DEF PerformedInv
  <2>. QED  BY <2>2, <2>3, <2>5, <2>6 DEF PerformedInv
<1>. QED  BY <1>2, <1>3, <1>4
-----------------------------------------------------------------------------
(* Each step is one of KioskApi, or none. *)

\* What the abstract state depends on.
LEMMA Unseen ==
  ASSUME UNCHANGED <<asked, performed, used, due, delivered>>, apc' = "idle" <=> apc = "idle"
  PROVE  UNCHANGED Abstract!vars
<1>1. (apc # "idle")' = (apc # "idle")
  OBVIOUS
<1>. QED  BY <1>1 DEF Abstract!vars

\* The history changes when a call is made, when the kiosk answers and when a call
\* succeeds, and never else.
LEMMA HistoryStays ==
  ASSUME TypeOK, [CNext]_callsVars, UNCHANGED calls, ~KioskAnswers, ~(apc = "reset" /\ ret' = "OK")
  PROVE  UNCHANGED <<asked, performed, used>>
<1>1. ~(calls' > calls)
  BY DEF TypeOK
<1>. QED  BY <1>1 DEF CNext, callsVars, callVars

\* A call is made, or fails before it is.
LEMMA CallAsks ==
  ASSUME TypeOK, [CNext]_callsVars, NEW m \in Methods, Call(m) \/ CallNoMemory(m)
  PROVE  Abstract!Ask(m) \/ Abstract!NotAsked(m)
<1>. USE DEF vars, appVars, handVars, socketVars, eventVars
<1>1. /\ apc = "idle" /\ calls' = calls + 1 /\ method' = m /\ UNCHANGED <<due, delivered>>
      /\ apc' = "clear" \/ (apc' = "idle" /\ ret' \notin {"OK", "CRASH"})
  BY DEF Call, CallNoMemory
<1>2. calls' > calls /\ calls' # calls
  BY <1>1 DEF TypeOK
<1>3. asked' = Append(asked, m) /\ UNCHANGED <<performed, used>>
  <2>1. CNext
    BY <1>2 DEF callsVars
  <2>2. ~KioskAnswers /\ apc # "reset"
    BY <1>1, <1>2 DEF KioskAnswers
  <2>. QED  BY <1>1, <1>2, <2>1, <2>2 DEF CNext
<1>4. ~(apc # "idle")
  BY <1>1
<1>5. CASE apc' = "clear"
  <2>1. (apc # "idle")' = TRUE
    BY <1>5
  <2>. QED  BY <1>1, <1>3, <1>4, <2>1 DEF Abstract!Ask
<1>6. CASE apc' = "idle"
  <2>1. (apc # "idle")' = (apc # "idle")
    BY <1>1, <1>6
  <2>. QED  BY <1>1, <1>3, <1>4, <2>1 DEF Abstract!NotAsked
<1>. QED  BY <1>1, <1>5, <1>6

\* A call ends: with success for an answer of its own, or without.
LEMMA AppEnds ==
  ASSUME "PayTransaction" \notin Methods, TypeOK, HandoffInv, CopyInv, NotYet, CallsInv,
         [CNext]_callsVars, AppStep
  PROVE  \/ UNCHANGED Abstract!vars \/ Abstract!Fail
         \/ \E n \in DOMAIN asked : Abstract!Succeed(n)
<1>. USE DEF CallsInv, vars, appVars, handVars, socketVars, eventVars
<1>1. /\ apc # "idle" /\ UNCHANGED <<calls, due, delivered>>
      /\ apc' = "idle" => ResetAndParse \/ ret' = "COMM_ERROR" \/ ret' = "GENERAL_ERROR"
      /\ ret' = "OK" => ResetAndParse \/ ret = "OK"
      /\ ResetAndParse => apc' = (IF ret' = "CRASH" THEN "crashed" ELSE "idle")
  BY DEF AppStep, ClearReady, SendCommand, TakeReady, WaitTimeout, CheckLength, TakeLength,
     CopyStart, CopyEnd, PostDone, ResetAndParse, ReturnError
<1>2. ~KioskAnswers
  <2>1. KioskAnswers => UNCHANGED appVars
    BY DEF KioskAnswers
  <2>2. apc' # apc
    BY DEF AppStep, ClearReady, SendCommand, TakeReady, WaitTimeout, CheckLength, TakeLength,
       CopyStart, CopyEnd, PostDone, ResetAndParse, ReturnError
  <2>. QED  BY <2>1, <2>2
<1>3. CASE ResetAndParse /\ ret' = "OK"
  <2>1. /\ answer'.num \in performed \ used
        /\ answer'.num \in DOMAIN asked /\ asked[answer'.num] = asked[Len(asked)]
    <3>1. method # "PayTransaction"
      BY DEF TypeOK
    <3>. QED  BY <1>3, <3>1, OkIsUsed
  <2>2. CNext /\ apc = "reset" /\ apc' = "idle"
    BY <1>1, <1>3 DEF ResetAndParse, callsVars
  <2>3. used' = used \cup {answer'.num} /\ UNCHANGED <<asked, performed>>
    <3>1. ~(calls' > calls)
      BY <1>1 DEF TypeOK
    <3>. QED  BY <1>2, <1>3, <2>2, <3>1 DEF CNext
  <2>4. (apc # "idle") /\ (apc # "idle")' = FALSE
    BY <2>2
  <2>. QED  BY <1>1, <2>1, <2>3, <2>4 DEF Abstract!Succeed
<1>4. CASE ~(ResetAndParse /\ ret' = "OK")
  <2>1. ~(apc = "reset" /\ ret' = "OK")
    <3>1. apc = "reset" => ret # "OK"
      BY DEF NotYet
    <3>. QED  BY <1>1, <1>4, <3>1
  <2>2. UNCHANGED <<asked, performed, used>>
    BY <1>1, <1>2, <2>1, HistoryStays
  <2>3. CASE apc' = "idle"
    <3>1. (apc # "idle") /\ (apc # "idle")' = FALSE
      BY <1>1, <2>3
    <3>. QED  BY <1>1, <2>2, <3>1 DEF Abstract!Fail
  <2>4. CASE apc' # "idle"
    BY <1>1, <2>2, <2>4, Unseen
  <2>. QED  BY <2>3, <2>4
<1>. QED  BY <1>3, <1>4

\* The commands thread reports an event, or does nothing that can be seen.
LEMMA ThreadReports ==
  ASSUME TypeOK, WireInv, NewsInv, NotYet, [CNext]_callsVars, CommandsThreadStep
  PROVE  UNCHANGED Abstract!vars \/ \E n \in due : Abstract!Report(n)
<1>. USE DEF vars, appVars, handVars, socketVars, eventVars
<1>1. UNCHANGED <<apc, ret, calls, due>>
  BY DEF CommandsThreadStep, Receive, Dispatch, ClearDone, PostReady, TakeDone,
     AwaitTimeout, SendAck, Callback, Disconnect, Connect
<1>2. UNCHANGED <<asked, performed, used>>
  <2>1. ~KioskAnswers \/ UNCHANGED <<rpc, sockfd>>
    BY DEF KioskAnswers
  <2>2. rpc' # rpc \/ sockfd' # sockfd
    BY DEF CommandsThreadStep, Receive, Dispatch, ClearDone, PostReady, TakeDone,
       AwaitTimeout, SendAck, Callback, Disconnect, Connect
  <2>3. ~(apc = "reset" /\ ret' = "OK")
    BY <1>1 DEF NotYet
  <2>. QED  BY <1>1, <2>1, <2>2, <2>3, HistoryStays
<1>3. CASE delivered' = delivered
  BY <1>1, <1>2, <1>3, Unseen
<1>4. CASE delivered' # delivered
  <2>. DEFINE n == Parsed(work_buffer).num
  <2>1. rpc = "callback" /\ delivered' = Append(delivered, n)
    BY <1>4 DEF CommandsThreadStep, Receive, Dispatch, ClearDone, PostReady, TakeDone,
       AwaitTimeout, SendAck, Callback, Disconnect, Connect
  <2>2. n \in due /\ \A r \in Reported : r < n
    BY <2>1, InHandIsDue DEF NewsInv, WireInv, Carrying
  <2>3. \A i \in DOMAIN delivered : delivered[i] < n
    BY <2>2 DEF Reported
  <2>4. (apc # "idle")' = (apc # "idle")
    BY <1>1
  <2>. QED  BY <1>1, <1>2, <2>1, <2>2, <2>3, <2>4 DEF Abstract!Report
<1>. QED  BY <1>3, <1>4

\* The kiosk does the command it reads, announces an event, or neither.
LEMMA KioskPerforms ==
  ASSUME TypeOK, WireInv, NotYet, CallsInv, [CNext]_callsVars, KioskStep
  PROVE  \/ UNCHANGED Abstract!vars
         \/ \E n \in DOMAIN asked : Abstract!Perform(n)
         \/ \E n \in 1..MaxNotices : Abstract!Announce(n)
<1>. USE DEF CallsInv, vars, appVars, handVars, socketVars, eventVars
<1>1. UNCHANGED <<apc, ret, calls, delivered>> /\ ~(apc = "reset" /\ ret' = "OK")
  BY DEF KioskStep, KioskAnswers, KioskTakesAck, KioskNotifies, KioskDrops, NotYet
<1>2. (apc # "idle")' = (apc # "idle")
  BY <1>1
<1>3. CASE KioskAnswers
  <2>. DEFINE n == to_kiosk[1].num
  <2>1. performed' \in {performed, performed \cup {n}} /\ due' = due
    BY <1>3, Performing DEF KioskAnswers
  <2>2. asked' = asked /\ used' = used
    <3>1. ~(calls' > calls)
      BY <1>1 DEF TypeOK
    <3>. QED  BY <1>1, <3>1 DEF CNext, callsVars, callVars
  <2>3. 1 \in DOMAIN to_kiosk /\ IsCommand(to_kiosk[1])
    BY <1>3, FrameTaken DEF KioskAnswers, IsCommand
  <2>4. n \in DOMAIN asked /\ \A p \in performed : p < n
    <3>1. n \in 1..calls
      BY <2>3 DEF WireInv, AllGenuine, IsCommand
    <3>. QED  BY <2>3, <3>1, LenProperties DEF AskedInv, PerformedInv
  <2>5. CASE performed' = performed
    BY <1>1, <2>1, <2>2, <2>5, Unseen
  <2>6. CASE performed' = performed \cup {n}
    BY <1>1, <1>2, <2>1, <2>2, <2>4, <2>6 DEF Abstract!Perform
  <2>. QED  BY <2>1, <2>5, <2>6
<1>4. CASE ~KioskAnswers
  <2>1. UNCHANGED <<asked, performed, used>>
    BY <1>1, <1>4, HistoryStays
  <2>2. CASE due' = due
    BY <1>1, <2>1, <2>2, Unseen
  <2>3. CASE due' # due
    <3>1. notices < MaxNotices /\ due' = due \cup {notices + 1}
      BY <1>4, <2>3 DEF KioskStep, KioskTakesAck, KioskNotifies, KioskDrops
    <3>2. notices \in Nat /\ MaxNotices \in Nat /\ due \subseteq 1..notices
      BY ConstantsAssumption DEF TypeOK, WireInv, AllGenuine
    <3>3. notices + 1 \in 1..MaxNotices /\ \A e \in due : e < notices + 1
      BY <3>1, <3>2
    <3>. QED  BY <1>1, <1>2, <2>1, <3>1, <3>3 DEF Abstract!Announce
  <2>. QED  BY <2>2, <2>3
<1>. QED  BY <1>3, <1>4

\* Every step of KioskCalls is a step of KioskApi, or changes nothing of it.
LEMMA StepRefines ==
  ASSUME "PayTransaction" \notin Methods, TypeOK, HandoffInv, WireInv, CopyInv, NewsInv,
         NotYet, CallsInv, [CNext]_callsVars
  PROVE  [Abstract!Next]_(Abstract!vars)
<1>. USE DEF vars, appVars, handVars, socketVars, eventVars
<1>1. ASSUME NEW m \in Methods, Call(m) \/ CallNoMemory(m) PROVE Abstract!Next
  BY <1>1, CallAsks DEF Abstract!Next
<1>2. CASE AppStep
  BY <1>2, AppEnds DEF Abstract!Next
<1>3. CASE CommandsThreadStep
  BY <1>3, ThreadReports DEF Abstract!Next
<1>4. CASE KioskStep
  BY <1>4, KioskPerforms DEF Abstract!Next
<1>5. CASE Register \/ PollTimeout \/ UNCHANGED vars
  <2>1. UNCHANGED <<apc, ret, calls, due, delivered, rpc, to_kiosk>>
    BY <1>5 DEF Register, PollTimeout
  <2>2. ~KioskAnswers
    <3>1. KioskAnswers => to_kiosk # <<>> /\ to_kiosk' = Tail(to_kiosk)
      BY DEF KioskAnswers
    <3>2. to_kiosk # <<>> => Len(Tail(to_kiosk)) = Len(to_kiosk) - 1 /\ Len(to_kiosk) \in Nat
      BY HeadTailProperties, LenProperties DEF TypeOK
    <3>. QED  BY <2>1, <3>1, <3>2
  <2>3. UNCHANGED <<asked, performed, used>>
    BY <2>1, <2>2, HistoryStays DEF NotYet
  <2>. QED  BY <2>1, <2>3, Unseen
<1>6. [Next]_vars
  BY Watched
<1>. QED  BY <1>1, <1>2, <1>3, <1>4, <1>5, <1>6 DEF Next

\* The invariant that ties the history to what travels.
LEMMA CallsInductive ==
  ASSUME "PayTransaction" \notin Methods, OneOrTheOther, TypeOK, HandoffInv, WireInv,
         CopyInv, OrderInv, NotYet, CallsInv, [CNext]_callsVars
  PROVE  CallsInv'
BY NextKeepsAsked, NextKeepsTruth, NextKeepsPerformed DEF CallsInv

\* At first nothing was asked.
LEMMA InitCalls ==
  ASSUME CInit
  PROVE  CallsInv /\ Abstract!Init
<1>1. DOMAIN <<>> = {} /\ Parsed(<<>>) = Garbage /\ Len(<<>>) = 0 /\ <<>> \in Seq(Methods)
  BY EmptySeq DEF Parsed
<1>2. /\ apc = "idle" /\ to_kiosk = <<>> /\ to_client = <<>> /\ work_buffer = <<>> /\ calls = 0
      /\ asked = <<>> /\ performed = {} /\ used = {} /\ due = {} /\ delivered = <<>>
  BY DEF CInit, Init
<1>3. ~IsAnswer(Parsed(work_buffer)) /\ ~CopiedAnswer
  BY <1>1, <1>2 DEF IsAnswer, CopiedAnswer
<1>4. CallsInv
  BY <1>1, <1>2, <1>3 DEF CallsInv, AskedInv, TruthInv, PerformedInv
<1>5. (apc # "idle") = FALSE
  BY <1>2
<1>6. Abstract!Init
  BY <1>2, <1>5 DEF Abstract!Init
<1>. QED  BY <1>4, <1>6

\* Where responses are handled in time, PayTransaction is not called and the kiosk
\* answers with a result or an error and not both, the exchange keeps the promise of
\* the API, whatever else is late, split, dropped or lost.
THEOREM PromiseKept ==
  ASSUME Prompt, "PayTransaction" \notin Methods, OneOrTheOther
  PROVE  CSpec => KeepsPromise
<1>1. CInit => Init
  BY DEF CInit
<1>2. [CNext]_callsVars => [Next]_vars
  BY Watched
<1>3. CSpec => Spec
  BY <1>1, <1>2, PTL DEF CSpec, Spec, callsVars
<1>4. /\ CInit => CallsInv
      /\ TypeOK /\ HandoffInv /\ WireInv /\ CopyInv /\ OrderInv /\ NotYet /\ CallsInv
           /\ [CNext]_callsVars => CallsInv'
  BY InitCalls, CallsInductive
<1>5. /\ CInit => Abstract!Init
      /\ TypeOK /\ HandoffInv /\ WireInv /\ CopyInv /\ NewsInv /\ NotYet /\ CallsInv
           /\ [CNext]_callsVars => [Abstract!Next]_(Abstract!vars)
  BY InitCalls, StepRefines
<1>. QED
  BY <1>3, <1>4, <1>5, TypeCorrect, HandoffInductive, WireInductive, CopyInductive,
     OrderInductive, NoticesInOrder, NotYetInductive, PTL
  DEF CSpec, callsVars, KeepsPromise, Abstract!Spec
=============================================================================
