------------------------ MODULE KioskConnectionProofs ------------------------
(***************************************************************************)
(* What holds of KioskConnection for every set of descriptors and senders. *)
(***************************************************************************)
EXTENDS KioskConnection, TLAPS

\* The connections start with their types;
LEMMA InitTypes == Init => TypeOK
BY ConstantsAssumption
DEF Init, TypeOK, LoopPc, SenderPc, File, NoFile, Owner, Closed, Sockets

\* Outside the table a descriptor is Closed, and NoFile is an entry of it.
LEMMA TableFacts == Closed \notin Fd /\ NoFile \in File
BY ConstantsAssumption DEF Closed, NoFile, File, Owner

\* the loop of a socket keeps them,
LEMMA LoopTypes ==
  ASSUME TypeOK, NEW s \in Sockets, LoopStep(s)
  PROVE  TypeOK'
<1>. USE ConstantsAssumption, TableFacts
     DEF TypeOK, LoopPc, SenderPc, Goto, WGoto, CloseFd, loopVars, serverVars, Sockets
<1>1. CASE Lock(s)
  BY <1>1 DEF Lock
<1>2. CASE CloseOld(s)
  BY <1>2 DEF CloseOld
<1>3. CASE ClearOld(s)
  BY <1>3 DEF ClearOld
<1>4. CASE Create(s)
  <2>1. PICK fd \in Fd : /\ file' = [file EXCEPT ![fd] = [of |-> s, link |-> "new", data |-> 0]]
                         /\ sockfd' = [sockfd EXCEPT ![s] = fd]
    BY <1>4 DEF Create
  <2>2. [of |-> s, link |-> "new", data |-> 0] \in File
    BY DEF File, Owner
  <2>3. file' \in [Fd -> File] /\ sockfd' \in [Sockets -> Fd \cup {Closed}]
    BY <2>1, <2>2
  <2>. QED  BY <1>4, <2>3 DEF Create
<1>5. CASE CreateFails(s)
  BY <1>5 DEF CreateFails
<1>6. CASE ConnectOk(s)
  <2>1. sockfd[s] \in Fd => [file[sockfd[s]] EXCEPT !.link = "up"] \in File
    BY DEF File
  <2>2. file' \in [Fd -> File]
    BY <1>6, <2>1 DEF ConnectOk
  <2>. QED  BY <1>6, <2>2 DEF ConnectOk
<1>7. CASE ConnectFails(s)
  BY <1>7 DEF ConnectFails
<1>8. CASE Abandon(s)
  BY <1>8 DEF Abandon
<1>9. CASE GiveUp(s)
  BY <1>9 DEF GiveUp
<1>10. CASE Unlock(s)
  BY <1>10 DEF Unlock
<1>11. CASE Test(s)
  BY <1>11 DEF Test
<1>12. CASE CallReceive(s)
  BY <1>12 DEF CallReceive
<1>13. CASE PollTimeout(s)
  BY <1>13 DEF PollTimeout
<1>14. CASE PollReady(s)
  BY <1>14 DEF PollReady
<1>15. CASE Read(s)
  <2>1. sfd[s] \in Fd /\ file[sfd[s]] \in File
    BY <1>15 DEF Read
  <2>2. CASE file' = [file EXCEPT ![sfd[s]].data = @ - 1] /\ Goto(s, "handle")
             /\ file[sfd[s]].data > 0 /\ Stray("read", s, sfd[s])
    <3>1. file' \in [Fd -> File]
      BY <2>1, <2>2 DEF File
    <3>2. <<"read", s, file[sfd[s]].of>> \in {"read", "write"} \X Sockets \X Owner
      BY <2>1 DEF File
    <3>. QED  BY <1>15, <2>2, <3>1, <3>2 DEF Read, Stray
  <2>3. CASE Goto(s, "lock") /\ UNCHANGED <<file, strays>>
    BY <1>15, <2>3 DEF Read
  <2>. QED  BY <1>15, <2>2, <2>3 DEF Read
<1>16. CASE Handle(s)
  BY <1>16 DEF Handle
<1>17. CASE AckSent(s)
  BY <1>17 DEF AckSent
<1>. QED
  BY <1>1, <1>2, <1>3, <1>4, <1>5, <1>6, <1>7, <1>8, <1>9, <1>10, <1>11, <1>12, <1>13, <1>14, <1>15, <1>16, <1>17
  DEF LoopStep, ConnectEnds, OwnStep

\* a sender does,
LEMMA SenderTypes ==
  ASSUME TypeOK, NEW w \in Senders, SenderStep(w)
  PROVE  TypeOK'
<1>. USE ConstantsAssumption, TableFacts
     DEF TypeOK, LoopPc, SenderPc, WGoto, CloseFd, loopVars, serverVars, Sockets
<1>1. CASE TestConnected(w)
  BY <1>1 DEF TestConnected
<1>2. CASE Write(w)
  <2>. DEFINE fd == sockfd["commands"]
  <2>1. CASE fd \in Fd /\ WGoto(w, "idle") /\ Stray("write", "commands", fd)
    <3>1. <<"write", "commands", file[fd].of>> \in {"read", "write"} \X Sockets \X Owner
      BY <2>1 DEF File
    <3>. QED  BY <1>2, <2>1, <3>1 DEF Write, Stray
  <2>2. CASE WGoto(w, "lock") /\ UNCHANGED strays
    BY <1>2, <2>2 DEF Write
  <2>. QED  BY <1>2, <2>1, <2>2 DEF Write
<1>3. CASE WLock(w)
  BY <1>3 DEF WLock
<1>4. CASE WClose(w)
  BY <1>4 DEF WClose
<1>5. CASE WClear(w)
  BY <1>5 DEF WClear
<1>6. CASE WUnlock(w)
  BY <1>6 DEF WUnlock
<1>. QED  BY <1>1, <1>2, <1>3, <1>4, <1>5, <1>6 DEF SenderStep

\* and so does every step.
LEMMA NextTypes ==
  ASSUME TypeOK, [Next]_vars
  PROVE  TypeOK'
<1>1. CASE Send
  BY <1>1 DEF Send, TypeOK, WGoto, SenderPc, loopVars
<1>2. ASSUME NEW fd \in Fd, ServerSends(fd) \/ ServerDrops(fd) PROVE TypeOK'
  <2>1. file' \in [Fd -> File]
    BY <1>2 DEF ServerSends, ServerDrops, TypeOK, File
  <2>. QED  BY <1>2, <2>1 DEF ServerSends, ServerDrops, TypeOK, loopVars
<1>3. CASE UNCHANGED vars
  BY <1>3 DEF TypeOK, vars
<1>. QED  BY <1>1, <1>2, <1>3, LoopTypes, SenderTypes DEF Next

\* sockfd is a descriptor or -1 whatever the two loops, the senders and the
\* servers do, and a read is only ever of a descriptor.
THEOREM TypeCorrect == Spec => []TypeOK
BY InitTypes, NextTypes, PTL DEF Spec
-----------------------------------------------------------------------------
(* The descriptors. *)

\* No descriptor is open at first.
LEMMA InitFds == Init => FdInv
BY DEF Init, FdInv, NoLeak, SockfdIsOpen, ClosesOwn, HoldsMutex, NothingOpen,
       Closing, IsOpen, NoFile, Sockets, Closed

LoopOutside   == {"lock", "test", "call", "poll", "read", "handle", "acking"}
SenderOutside == {"idle", "test", "write", "lock"}

\* A step that moves threads only outside their critical sections, and leaves
\* every descriptor open or closed as it was, cannot disturb the invariant.
LEMMA OutsideKeepsFds ==
  ASSUME TypeOK, FdInv, UNCHANGED <<sockfd, mutex>>,
         \A fd \in Fd : file'[fd].of = file[fd].of /\ (IsOpen(fd)' <=> IsOpen(fd)),
         \A s \in Sockets : pc'[s] = pc[s] \/ {pc[s], pc'[s]} \subseteq LoopOutside,
         \A w \in Senders : wpc'[w] = wpc[w] \/ {wpc[w], wpc'[w]} \subseteq SenderOutside
  PROVE  FdInv'
<1>. USE DEF FdInv, TypeOK, LoopOutside, SenderOutside
<1>0. \A s \in Sockets : Closing(s)' <=> Closing(s)
  BY DEF Closing
<1>1. NoLeak'
  BY DEF NoLeak
<1>2. SockfdIsOpen'
  BY <1>0, TableFacts DEF SockfdIsOpen
<1>3. ClosesOwn'
  BY TableFacts DEF ClosesOwn
<1>4. HoldsMutex'
  BY DEF HoldsMutex
<1>5. NothingOpen'
  BY <1>0 DEF NothingOpen
<1>. QED  BY <1>1, <1>2, <1>3, <1>4, <1>5

\* The inner loop touches no mutex and no sockfd.
LEMMA InnerLoopKeepsFds ==
  ASSUME TypeOK, FdInv, NEW s \in Sockets,
         Test(s) \/ CallReceive(s) \/ PollTimeout(s) \/ PollReady(s) \/ Read(s)
           \/ Handle(s) \/ AckSent(s)
  PROVE  FdInv'
<1>1. /\ {pc[s], pc'[s]} \subseteq LoopOutside /\ UNCHANGED <<sockfd, mutex>>
      /\ \A t \in Sockets \ {s} : pc'[t] = pc[t]
  BY DEF Test, CallReceive, PollTimeout, PollReady, Read, Handle, AckSent,
         LoopOutside, Goto, TypeOK
<1>2. \A fd \in Fd : file'[fd].of = file[fd].of /\ file'[fd].link = file[fd].link
  BY DEF Test, CallReceive, PollTimeout, PollReady, Read, Handle, AckSent, TypeOK, File
<1>3. \A w \in Senders : wpc'[w] = wpc[w] \/ {wpc[w], wpc'[w]} \subseteq SenderOutside
  BY DEF Test, CallReceive, PollTimeout, PollReady, Read, Handle, AckSent,
         SenderOutside, WGoto, TypeOK
<1>. QED  BY <1>1, <1>2, <1>3, OutsideKeepsFds DEF IsOpen

\* The loop of a socket opens and closes only its own descriptor.
LEMMA LoopKeepsFds ==
  ASSUME TypeOK, FdInv, NEW s \in Sockets, LoopStep(s)
  PROVE  FdInv'
<1>. USE ConstantsAssumption, TableFacts
     DEF FdInv, NoLeak, SockfdIsOpen, ClosesOwn, HoldsMutex, NothingOpen, Closing,
         IsOpen, TypeOK, Goto, CloseFd, NoFile, File, Sockets, serverVars
<1>1. CASE Lock(s)
  BY <1>1 DEF Lock
<1>2. CASE CloseOld(s)
  BY <1>2 DEF CloseOld
<1>3. CASE ClearOld(s)
  BY <1>3 DEF ClearOld
<1>4. CASE Create(s)
  BY <1>4 DEF Create
<1>5. CASE CreateFails(s)
  BY <1>5 DEF CreateFails
<1>6. CASE ConnectOk(s)
  BY <1>6 DEF ConnectOk
<1>7. CASE ConnectFails(s)
  BY <1>7 DEF ConnectFails
<1>8. CASE Abandon(s)
  BY <1>8 DEF Abandon
<1>9. CASE GiveUp(s)
  BY <1>9 DEF GiveUp
<1>10. CASE Unlock(s)
  BY <1>10 DEF Unlock
<1>. QED
  BY <1>1, <1>2, <1>3, <1>4, <1>5, <1>6, <1>7, <1>8, <1>9, <1>10, InnerLoopKeepsFds
  DEF LoopStep, ConnectEnds, OwnStep

\* A sender closes what is sockfd when it gets the mutex, not what it wrote to:
\* it is this socket's own all the same.
LEMMA SenderKeepsFds ==
  ASSUME TypeOK, FdInv, NEW w \in Senders, SenderStep(w)
  PROVE  FdInv'
<1>. USE ConstantsAssumption, TableFacts
     DEF FdInv, NoLeak, SockfdIsOpen, ClosesOwn, HoldsMutex, NothingOpen, Closing,
         IsOpen, TypeOK, WGoto, CloseFd, NoFile, File, Sockets, loopVars, serverVars
<1>1. CASE TestConnected(w)
  BY <1>1 DEF TestConnected
<1>2. CASE Write(w)
  <2>1. /\ {wpc[w], wpc'[w]} \subseteq SenderOutside /\ UNCHANGED <<sockfd, mutex, file, pc>>
        /\ \A v \in Senders \ {w} : wpc'[v] = wpc[v]
    BY <1>2 DEF Write, SenderOutside
  <2>. QED  BY <2>1, OutsideKeepsFds
<1>3. CASE WLock(w)
  BY <1>3 DEF WLock
<1>4. CASE WClose(w)
  BY <1>4 DEF WClose
<1>5. CASE WClear(w)
  BY <1>5 DEF WClear
<1>6. CASE WUnlock(w)
  BY <1>6 DEF WUnlock
<1>. QED  BY <1>1, <1>2, <1>3, <1>4, <1>5, <1>6 DEF SenderStep

\* Every step keeps descriptors and their owners together.
LEMMA NextKeepsFds ==
  ASSUME TypeOK, FdInv, [Next]_vars
  PROVE  FdInv'
<1>. USE DEF FdInv, NoLeak, SockfdIsOpen, ClosesOwn, HoldsMutex, NothingOpen,
             Closing, IsOpen, TypeOK, File
<1>1. CASE Send
  BY <1>1 DEF Send, WGoto, loopVars
<1>2. ASSUME NEW fd \in Fd, ServerSends(fd) \/ ServerDrops(fd) PROVE FdInv'
  <2>1. /\ UNCHANGED <<sockfd, mutex, pc, wpc>>
        /\ \A f \in Fd : file'[f].of = file[f].of /\ (IsOpen(f)' <=> IsOpen(f))
    BY <1>2 DEF ServerSends, ServerDrops, loopVars
  <2>. QED  BY <2>1, OutsideKeepsFds
<1>3. CASE UNCHANGED vars
  BY <1>3 DEF vars
<1>. QED  BY <1>1, <1>2, <1>3, LoopKeepsFds, SenderKeepsFds DEF Next

\* Each connection has one descriptor, and only the holder of its mutex closes or
\* replaces it.
THEOREM FdsInductive == Spec => []FdInv
BY InitFds, NextKeepsFds, TypeCorrect, PTL DEF Spec

\* However often the connections are lost, refused and closed by failed writes,
\* no descriptor leaks.
THEOREM DescriptorsKept == Spec => []NoLeak
<1>1. FdInv => NoLeak
  BY DEF FdInv
<1>. QED  BY <1>1, FdsInductive, PTL

\* While nobody replaces it, a thread that looks at a sockfd without the mutex, as the
\* code does, finds Closed there or a descriptor that is open and of that connection.
THEOREM SockfdsAreOpen == Spec => []SockfdIsOpen
<1>1. FdInv => SockfdIsOpen
  BY DEF FdInv
<1>. QED  BY <1>1, FdsInductive, PTL

\* No descriptor is closed twice or on behalf of the other connection, although numbers
\* are given out again.
THEOREM EachClosesItsOwn == Spec => []ClosesOwn
<1>1. FdInv => ClosesOwn
  BY DEF FdInv
<1>. QED  BY <1>1, FdsInductive, PTL
=============================================================================
