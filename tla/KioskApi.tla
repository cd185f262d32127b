------------------------------ MODULE KioskApi ------------------------------
(***************************************************************************)
(* What libotikiosk promises an application that calls it from one thread  *)
(* (libotikiosk.h): a call ends, and ends with success only for a command  *)
(* of its own kind that the kiosk did, each of which makes one call        *)
(* succeed; what the kiosk announces is reported once, in order.           *)
(* No message, buffer, semaphore or thread appears here.                   *)
(***************************************************************************)
EXTENDS Integers, Sequences

CONSTANTS
  Command,   \* the commands there are
  Event      \* the numbers of the events there are

VARIABLES
  calling,    \* whether a call is under way
  asked,      \* the command of each call so far
  performed,  \* the calls whose command the kiosk did
  used,       \* those of them that made a call succeed
  announced,  \* the events the kiosk announced
  reported    \* the events the application was told of

vars == <<calling, asked, performed, used, announced, reported>>

Init ==
  /\ calling = FALSE /\ asked = <<>> /\ performed = {} /\ used = {}
  /\ announced = {} /\ reported = <<>>

Ask(c) ==
  /\ ~calling /\ calling' = TRUE /\ asked' = Append(asked, c)
  /\ UNCHANGED <<performed, used, announced, reported>>

\* The kiosk does commands in the order they were given.
Perform(n) ==
  /\ n \in DOMAIN asked /\ \A p \in performed : p < n
  /\ performed' = performed \cup {n}
  /\ UNCHANGED <<calling, asked, used, announced, reported>>

\* The command that was done may be that of an earlier call, which gave up.
Succeed(n) ==
  /\ calling /\ calling' = FALSE
  /\ n \in performed \ used /\ asked[n] = asked[Len(asked)]
  /\ used' = used \cup {n}
  /\ UNCHANGED <<asked, performed, announced, reported>>

Fail ==
  /\ calling /\ calling' = FALSE
  /\ UNCHANGED <<asked, performed, used, announced, reported>>

\* A call that fails before it asks.
NotAsked(c) ==
  /\ ~calling /\ asked' = Append(asked, c)
  /\ UNCHANGED <<calling, performed, used, announced, reported>>

Announce(n) ==
  /\ \A e \in announced : e < n
  /\ announced' = announced \cup {n}
  /\ UNCHANGED <<calling, asked, performed, used, reported>>

Report(n) ==
  /\ n \in announced /\ \A i \in DOMAIN reported : reported[i] < n
  /\ reported' = Append(reported, n)
  /\ UNCHANGED <<calling, asked, performed, used, announced>>

Next ==
  \/ \E c \in Command : Ask(c) \/ NotAsked(c)
  \/ \E n \in DOMAIN asked : Perform(n) \/ Succeed(n)
  \/ Fail
  \/ \E n \in Event : Announce(n)
  \/ \E n \in announced : Report(n)

Spec == Init /\ [][Next]_vars
=============================================================================
