--------------------------- MODULE KioskConnection ---------------------------
(***************************************************************************)
(* How libotikiosk.c keeps its two connections: _kiosk_comm_loop, run by a *)
(* thread for each socket, and send_to_kiosk, run by the application and   *)
(* by the commands thread (the ACK of an event).  sockfd is read with no   *)
(* lock and written under the mutex; a file descriptor that is closed is a *)
(* number the kernel gives out again.                                      *)
(***************************************************************************)
EXTENDS Integers

CONSTANTS
  Fd,             \* the file descriptors left to these sockets
  Senders,        \* which callers of send_to_kiosk there are
  NumbersReused,  \* TRUE: the kernel may give out again a number just closed
  MaxSends, MaxEvents, MaxDrops  \* sends of the application, messages of the
                                 \* servers, connections they drop

Sockets == {"commands", "reader"}
Closed  == -1

ASSUME ConstantsAssumption ==
  /\ Fd \subseteq Nat
  /\ Senders \subseteq {"app", "ack"}
  /\ NumbersReused \in BOOLEAN
  /\ MaxSends \in Nat /\ MaxEvents \in Nat /\ MaxDrops \in Nat

VARIABLES
  sockfd,   \* the sockfd of each socket's options
  mutex,    \* the mutex of each: "free", or who holds it
  file,     \* the kernel's table: what each descriptor is
  pc,       \* where each loop is
  sfd,      \* the descriptor _receive_raw was called with
  wpc,      \* where each sender is, in send_to_kiosk
  sends, events, drops,   \* counters for the bounds
  strays    \* history: <<"read", s, t>> when s's thread has read from t's
            \* connection, <<"write", s, t>> when what s sends went to it

vars == <<sockfd, mutex, file, pc, sfd, wpc, sends, events, drops, strays>>
loopVars   == <<pc, sfd>>
serverVars == <<sends, events, drops>>
-----------------------------------------------------------------------------
Owner == Sockets \cup {"none"}
File  == [of : Owner, link : {"none", "new", "up", "down"}, data : Nat]

NoFile == [of |-> "none", link |-> "none", data |-> 0]
IsOpen(fd) == file[fd].link # "none"

\* The descriptors some thread may still use, although they may be closed.
InUse == {sockfd[s] : s \in Sockets}
           \cup {sfd[s] : s \in {t \in Sockets : pc[t] \in {"poll", "read"}}}

CloseFd(fd) == file' = IF fd \in Fd THEN [file EXCEPT ![fd] = NoFile] ELSE file

Stray(how, s, fd) ==
  strays' = IF IsOpen(fd) /\ file[fd].of # s
            THEN strays \cup {<<how, s, file[fd].of>>} ELSE strays

Goto(s, l)  == pc' = [pc EXCEPT ![s] = l]
WGoto(w, l) == wpc' = [wpc EXCEPT ![w] = l]

Init ==
  /\ sockfd = [s \in Sockets |-> Closed]
  /\ mutex = [s \in Sockets |-> "free"]
  /\ file = [fd \in Fd |-> NoFile]
  /\ pc = [s \in Sockets |-> "lock"]
  /\ sfd = [s \in Sockets |-> Closed]
  /\ wpc = [w \in Senders |-> "idle"]
  /\ sends = 0 /\ events = 0 /\ drops = 0 /\ strays = {}
-----------------------------------------------------------------------------
(* The outer loop: (re)connect, with the mutex held. *)

Lock(s) ==
  /\ pc[s] = "lock" /\ mutex[s] = "free"
  /\ mutex' = [mutex EXCEPT ![s] = s]
  /\ Goto(s, IF sockfd[s] = Closed THEN "create" ELSE "close")
  /\ UNCHANGED <<sockfd, file, sfd, wpc, serverVars, strays>>

CloseOld(s) ==
  /\ pc[s] = "close" /\ Goto(s, "clear")
  /\ CloseFd(sockfd[s])
  /\ UNCHANGED <<sockfd, mutex, sfd, wpc, serverVars, strays>>

\* Mutant: 0, the value memset leaves, is taken for no descriptor.
ClearOld_zero(s) ==
  /\ pc[s] = "clear" /\ Goto(s, "create")
  /\ sockfd' = [sockfd EXCEPT ![s] = 0]
  /\ UNCHANGED <<mutex, file, sfd, wpc, serverVars, strays>>

ClearOld(s) ==
  /\ pc[s] = "clear" /\ Goto(s, "create")
  /\ sockfd' = [sockfd EXCEPT ![s] = Closed]
  /\ UNCHANGED <<mutex, file, sfd, wpc, serverVars, strays>>

Create(s) ==
  /\ pc[s] = "create" /\ Goto(s, "connect")
  /\ \E fd \in Fd :
       /\ ~IsOpen(fd) /\ (NumbersReused \/ fd \notin InUse)
       /\ file' = [file EXCEPT ![fd] = [of |-> s, link |-> "new", data |-> 0]]
       /\ sockfd' = [sockfd EXCEPT ![s] = fd]
  /\ UNCHANGED <<mutex, sfd, wpc, serverVars, strays>>

\* The address does not resolve, the path is too long, or there is no socket.
CreateFails(s) ==
  /\ pc[s] = "create" /\ Goto(s, "unlock")
  /\ UNCHANGED <<sockfd, mutex, file, sfd, wpc, serverVars, strays>>

\* connect is called on a blocking socket with the mutex held.  It may also not
\* come back: no fairness makes either of its ends happen.
ConnectOk(s) ==
  /\ pc[s] = "connect" /\ Goto(s, "connected")
  /\ file' = [file EXCEPT ![sockfd[s]].link = "up"]
  /\ UNCHANGED <<sockfd, mutex, sfd, wpc, serverVars, strays>>

\* Mutant: the socket that did not connect is forgotten, not closed.
ConnectFails_leaks(s) ==
  /\ pc[s] = "connect" /\ Goto(s, "abandon")
  /\ UNCHANGED <<sockfd, mutex, file, sfd, wpc, serverVars, strays>>

ConnectFails(s) ==
  /\ pc[s] = "connect" /\ Goto(s, "abandon")
  /\ CloseFd(sockfd[s])
  /\ UNCHANGED <<sockfd, mutex, sfd, wpc, serverVars, strays>>

Abandon(s) ==
  /\ pc[s] = "abandon" /\ Goto(s, "unlock")
  /\ sockfd' = [sockfd EXCEPT ![s] = Closed]
  /\ UNCHANGED <<mutex, file, sfd, wpc, serverVars, strays>>

\* Mutant: the `continue' of a failed attempt, without the unlock before it.
GiveUp_locked(s) ==
  /\ pc[s] = "unlock" /\ Goto(s, "lock")
  /\ UNCHANGED <<sockfd, mutex, file, sfd, wpc, serverVars, strays>>

\* An attempt has failed: unlock, sleep, try again.
GiveUp(s) ==
  /\ pc[s] = "unlock" /\ Goto(s, "lock")
  /\ mutex' = [mutex EXCEPT ![s] = "free"]
  /\ UNCHANGED <<sockfd, file, sfd, wpc, serverVars, strays>>

Unlock(s) ==
  /\ pc[s] = "connected" /\ Goto(s, "test")
  /\ mutex' = [mutex EXCEPT ![s] = "free"]
  /\ UNCHANGED <<sockfd, file, sfd, wpc, serverVars, strays>>
-----------------------------------------------------------------------------
(* The inner loop: receive, with no lock. *)

Test(s) ==
  /\ pc[s] = "test"
  /\ Goto(s, IF sockfd[s] = Closed THEN "lock" ELSE "call")
  /\ UNCHANGED <<sockfd, mutex, file, sfd, wpc, serverVars, strays>>

\* sockfd is read a second time, for the call of _receive_raw.
CallReceive(s) ==
  /\ pc[s] = "call" /\ Goto(s, "poll")
  /\ sfd' = [sfd EXCEPT ![s] = sockfd[s]]
  /\ UNCHANGED <<sockfd, mutex, file, wpc, serverVars, strays>>

Receivable(fd) == file[fd].link # "up" \/ file[fd].data > 0

\* poll ignores a negative descriptor, and goes on waiting for a socket that is
\* closed under it: on both it times out.
PollTimeout(s) ==
  /\ pc[s] = "poll" /\ (sfd[s] \in Fd /\ sfd[s] = sockfd[s] => ~Receivable(sfd[s]))
  /\ Goto(s, "test")
  /\ UNCHANGED <<sockfd, mutex, file, sfd, wpc, serverVars, strays>>

PollReady(s) ==
  /\ pc[s] = "poll" /\ sfd[s] \in Fd /\ Receivable(sfd[s])
  /\ Goto(s, "read")
  /\ UNCHANGED <<sockfd, mutex, file, sfd, wpc, serverVars, strays>>

\* Mutant: an error on the read leaves the inner loop running.
Read_error_ignored(s) ==
  /\ pc[s] = "read" /\ Receivable(sfd[s])
  /\ IF file[sfd[s]].link \in {"up", "down"} /\ file[sfd[s]].data > 0
     THEN /\ file' = [file EXCEPT ![sfd[s]].data = @ - 1]
          /\ Stray("read", s, sfd[s])
          /\ Goto(s, "handle")
     ELSE /\ Goto(s, "test")
          /\ UNCHANGED <<file, strays>>
  /\ UNCHANGED <<sockfd, mutex, sfd, wpc, serverVars>>

\* A connected socket with no data blocks the read.
Read(s) ==
  /\ pc[s] = "read" /\ Receivable(sfd[s])
  /\ IF file[sfd[s]].link \in {"up", "down"} /\ file[sfd[s]].data > 0
     THEN /\ file' = [file EXCEPT ![sfd[s]].data = @ - 1]
          /\ Stray("read", s, sfd[s])
          /\ Goto(s, "handle")
     ELSE /\ Goto(s, "lock")
          /\ UNCHANGED <<file, strays>>
  /\ UNCHANGED <<sockfd, mutex, sfd, wpc, serverVars>>

\* recv_cb: nothing to send, or the ACK of an event.
Handle(s) ==
  /\ pc[s] = "handle"
  /\ \/ Goto(s, "test") /\ UNCHANGED wpc
     \/ s = "commands" /\ "ack" \in Senders /\ Goto(s, "acking") /\ WGoto("ack", "test")
  /\ UNCHANGED <<sockfd, mutex, file, sfd, serverVars, strays>>

AckSent(s) ==
  /\ pc[s] = "acking" /\ wpc["ack"] = "idle" /\ Goto(s, "test")
  /\ UNCHANGED <<sockfd, mutex, file, sfd, wpc, serverVars, strays>>

ConnectEnds(s) == ConnectOk(s) \/ ConnectFails(s)

\* The steps that wait for nobody outside.
OwnStep(s) ==
  \/ Lock(s) \/ CloseOld(s) \/ ClearOld(s) \/ Create(s) \/ CreateFails(s)
  \/ Abandon(s) \/ GiveUp(s) \/ Unlock(s)
  \/ Test(s) \/ CallReceive(s) \/ PollTimeout(s) \/ PollReady(s) \/ Read(s)
  \/ Handle(s) \/ AckSent(s)

LoopStep(s) == ConnectEnds(s) \/ OwnStep(s)
-----------------------------------------------------------------------------
(* send_to_kiosk *)

\* The application calls it, from send_receive.
Send ==
  /\ "app" \in Senders /\ wpc["app"] = "idle" /\ sends < MaxSends
  /\ WGoto("app", "test") /\ sends' = sends + 1
  /\ UNCHANGED <<sockfd, mutex, file, loopVars, events, drops, strays>>

TestConnected(w) ==
  /\ wpc[w] = "test"
  /\ WGoto(w, IF sockfd["commands"] = Closed THEN "idle" ELSE "write")
  /\ UNCHANGED <<sockfd, mutex, file, loopVars, serverVars, strays>>

\* A write to a peer that is gone fails or is swallowed by the kernel.  To one
\* that is there it succeeds, or blocks for as long as the peer reads nothing and
\* the buffer is full: no fairness makes it happen then.
Write(w) ==
  LET fd == sockfd["commands"]
      link == IF fd \in Fd THEN file[fd].link ELSE "none"
  IN  /\ wpc[w] = "write"
      /\ \/ link \in {"up", "down"} /\ WGoto(w, "idle") /\ Stray("write", "commands", fd)
         \/ link # "up" /\ WGoto(w, "lock") /\ UNCHANGED strays
      /\ UNCHANGED <<sockfd, mutex, file, loopVars, serverVars>>

\* Mutant: the failed socket is closed without its mutex.
WLock_skipped(w) ==
  /\ wpc[w] = "lock" /\ WGoto(w, "close")
  /\ UNCHANGED <<sockfd, mutex, file, loopVars, serverVars, strays>>

WLock(w) ==
  /\ wpc[w] = "lock" /\ mutex["commands"] = "free" /\ WGoto(w, "close")
  /\ mutex' = [mutex EXCEPT !["commands"] = w]
  /\ UNCHANGED <<sockfd, file, loopVars, serverVars, strays>>

WClose(w) ==
  /\ wpc[w] = "close" /\ WGoto(w, "clear")
  /\ CloseFd(sockfd["commands"])
  /\ UNCHANGED <<sockfd, mutex, loopVars, serverVars, strays>>

\* Mutant: the descriptor is closed and sockfd keeps its number.
WClear_skipped(w) ==
  /\ wpc[w] = "clear" /\ WGoto(w, "unlock")
  /\ UNCHANGED <<sockfd, mutex, file, loopVars, serverVars, strays>>

WClear(w) ==
  /\ wpc[w] = "clear" /\ WGoto(w, "unlock")
  /\ sockfd' = [sockfd EXCEPT !["commands"] = Closed]
  /\ UNCHANGED <<mutex, file, loopVars, serverVars, strays>>

WUnlock(w) ==
  /\ wpc[w] = "unlock" /\ WGoto(w, "idle")
  /\ mutex' = [mutex EXCEPT !["commands"] = "free"]
  /\ UNCHANGED <<sockfd, file, loopVars, serverVars, strays>>

SenderStep(w) ==
  TestConnected(w) \/ Write(w) \/ WLock(w) \/ WClose(w) \/ WClear(w) \/ WUnlock(w)

Connected(s) == sockfd[s] \in Fd /\ file[sockfd[s]].link = "up"
MayBlock(w)  == wpc[w] = "write" /\ Connected("commands")
-----------------------------------------------------------------------------
(* The servers *)

ServerSends(fd) ==
  /\ file[fd].link = "up" /\ events < MaxEvents
  /\ file' = [file EXCEPT ![fd].data = @ + 1] /\ events' = events + 1
  /\ UNCHANGED <<sockfd, mutex, loopVars, wpc, sends, drops, strays>>

ServerDrops(fd) ==
  /\ file[fd].link = "up" /\ drops < MaxDrops
  /\ file' = [file EXCEPT ![fd].link = "down"] /\ drops' = drops + 1
  /\ UNCHANGED <<sockfd, mutex, loopVars, wpc, sends, events, strays>>
-----------------------------------------------------------------------------
Next ==
  \/ \E s \in Sockets : LoopStep(s)
  \/ Send
  \/ \E w \in Senders : SenderStep(w)
  \/ \E fd \in Fd : ServerSends(fd) \/ ServerDrops(fd)

Spec == Init /\ [][Next]_vars

\* Each thread is scheduled, save where it waits in a connect or in a write on a
\* connected socket: those may last for ever.  A sender that waits for the mutex
\* gets it if it is given up again and again: a loop that has failed to connect
\* sleeps a second between giving the mutex up and taking it again.
FairSpec ==
  /\ Spec
  /\ \A s \in Sockets : WF_vars(OwnStep(s))
  /\ \A w \in Senders : WF_vars(~MayBlock(w) /\ SenderStep(w)) /\ SF_vars(WLock(w))

\* Assumed of the servers, not of the code.  They read what they are sent; each
\* connect is answered, or the kernel gives it up; asked again and again, they
\* accept.
ServersRead   == \A w \in Senders : WF_vars(Write(w))
ConnectsEnd   == \A s \in Sockets : WF_vars(ConnectEnds(s))
ServersAccept == \A s \in Sockets : SF_vars(Create(s)) /\ SF_vars(ConnectOk(s))
-----------------------------------------------------------------------------
(* Properties *)

LoopPc == {"lock", "close", "clear", "create", "connect", "abandon", "unlock",
           "connected", "test", "call", "poll", "read", "handle", "acking"}
SenderPc == {"idle", "test", "write", "lock", "close", "clear", "unlock"}

\* Types of the two sockets' options, of the threads and of the kernel's table.  A
\* read is of a descriptor, and the ACK is sent by the commands thread itself.
TypeOK ==
  /\ sockfd \in [Sockets -> Fd \cup {Closed}]
  /\ mutex \in [Sockets -> Sockets \cup Senders \cup {"free"}]
  /\ file \in [Fd -> File]
  /\ pc \in [Sockets -> LoopPc] /\ sfd \in [Sockets -> Fd \cup {Closed}]
  /\ \A s \in Sockets : pc[s] = "read" => sfd[s] \in Fd
  /\ wpc \in [Senders -> SenderPc]
  /\ "ack" \in Senders /\ pc["commands"] # "acking" => wpc["ack"] = "idle"
  /\ sends \in Nat /\ events \in Nat /\ drops \in Nat
  /\ strays \in SUBSET ({"read", "write"} \X Sockets \X Owner)

\* Some thread has closed s's descriptor and has yet to say so in sockfd.
Closing(s) == \/ pc[s] \in {"clear", "abandon"}
              \/ s = "commands" /\ \E w \in Senders : wpc[w] = "clear"

\* Every descriptor that is open is the sockfd of its socket: reconnecting leaks
\* none, and no thread forgets one.
NoLeak == \A fd \in Fd : IsOpen(fd) => sockfd[file[fd].of] = fd

\* A sockfd that is set is an open socket of its own, unless the thread that has
\* the mutex is about to clear it.
SockfdIsOpen ==
  \A s \in Sockets :
    sockfd[s] # Closed /\ ~Closing(s) =>
      IsOpen(sockfd[s]) /\ file[sockfd[s]].of = s

\* No descriptor is closed twice: whoever is about to close one holds its mutex,
\* and it is open and of this socket (or there is none, for a sender).
ClosesOwn ==
  \A s \in Sockets :
    /\ pc[s] \in {"close", "connect"} =>
         sockfd[s] # Closed /\ IsOpen(sockfd[s]) /\ file[sockfd[s]].of = s
    /\ \A w \in Senders : wpc[w] = "close" /\ s = "commands" /\ sockfd[s] # Closed =>
         IsOpen(sockfd[s]) /\ file[sockfd[s]].of = s

\* Who may touch sockfd, and when there is nothing it could name: the mutex is
\* held from the lock to the unlock, a descriptor is created only where there is
\* none, and one that is closed is no longer this socket's, whoever gets its
\* number next.
HoldsMutex ==
  /\ \A s \in Sockets :
       pc[s] \in {"close", "clear", "create", "connect", "abandon", "unlock",
                 "connected"} => mutex[s] = s
  /\ \A w \in Senders : wpc[w] \in {"close", "clear", "unlock"} => mutex["commands"] = w

NothingOpen ==
  /\ \A s \in Sockets : pc[s] \in {"create", "unlock"} => sockfd[s] = Closed
  /\ \A s \in Sockets : Closing(s) => \A fd \in Fd : file[fd].of # s
  /\ \A fd \in Fd : IsOpen(fd) <=> file[fd].of # "none"

\* The inductive invariant of the descriptors.
FdInv == NoLeak /\ SockfdIsOpen /\ ClosesOwn /\ HoldsMutex /\ NothingOpen

\* What the reader's server sends is received by the reader's loop, which gives
\* it to the application.
ReaderEventKept == <<"read", "commands", "reader">> \notin strays

\* send_to_kiosk returns, whatever the servers refuse and drop, as long as a
\* connected one reads what it is sent and each connect comes to an end: the
\* write is on a blocking socket without a timeout, and a sender whose write has
\* failed waits for the mutex that the loop holds during its connect.
SendReturns ==
  ServersRead /\ ConnectsEnd => \A w \in Senders : (wpc[w] # "idle") ~> (wpc[w] = "idle")

\* When the servers accept, both sockets are connected again after any number of
\* failed attempts, drops and failed writes, even if a write blocks for ever.
Reconnects == ServersAccept => \A s \in Sockets : []<>Connected(s)
=============================================================================
