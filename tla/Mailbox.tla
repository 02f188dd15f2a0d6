------------------------------- MODULE Mailbox -------------------------------
(***************************************************************************)
(* What a caller of Transport::WaitForData may rely on, without threads,   *)
(* lock or thread life cycle: bytes arrive in chunks, an arrival is        *)
(* announced a moment AFTER its bytes can be taken, and a call first       *)
(* learns whether it was announced or timed out and only then takes        *)
(* whatever is there.  Transport is shown to implement this module, and    *)
(* HdlcExchange is built on it.                                            *)
(***************************************************************************)
EXTENDS Integers, Sequences

CONSTANT Chunks      \* what one serial_read may return: non-empty sequences

VARIABLES
  mData,     \* bytes received and not yet taken
  mSem,      \* announcements nobody has waited for yet
  ringing,   \* TRUE between the arrival of a chunk and its announcement
  call,      \* "none", or how far the running WaitForData has come
  data       \* the bytes the last call returned

mailboxVars == <<mData, mSem, ringing, call, data>>

CallStates == {"none", "waiting", "notified", "expired"}

Init ==
  /\ mData = <<>>
  /\ mSem = 0
  /\ ringing = FALSE
  /\ call = "none"
  /\ data = <<>>

\* A chunk arrives.
Put(chunk) ==
  /\ ~ringing
  /\ mData' = mData \o chunk
  /\ ringing' = TRUE
  /\ UNCHANGED <<mSem, call, data>>

\* ... and is announced.
Ring ==
  /\ ringing
  /\ ringing' = FALSE
  /\ mSem' = mSem + 1
  /\ UNCHANGED <<mData, call, data>>

\* WaitForData is called.
Call ==
  /\ call = "none"
  /\ call' = "waiting"
  /\ data' = <<>>
  /\ UNCHANGED <<mData, mSem, ringing>>

\* An announcement ends the wait ...
Take ==
  /\ call = "waiting"
  /\ mSem > 0
  /\ mSem' = mSem - 1
  /\ call' = "notified"
  /\ UNCHANGED <<mData, ringing, data>>

\* ... or there is none until the timeout.
Expire ==
  /\ call = "waiting"
  /\ mSem = 0
  /\ call' = "expired"
  /\ UNCHANGED <<mData, mSem, ringing, data>>

\* In both cases the call returns everything received so far.
Drain ==
  /\ call \in {"notified", "expired"}
  /\ data' = mData
  /\ mData' = <<>>
  /\ call' = "none"
  /\ UNCHANGED <<mSem, ringing>>

Next ==
  \/ \E chunk \in Chunks : Put(chunk)
  \/ Ring
  \/ Call
  \/ Take
  \/ Expire
  \/ Drain

Spec == Init /\ [][Next]_mailboxVars
==============================================================================
