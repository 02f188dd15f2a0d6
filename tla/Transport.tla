------------------------------ MODULE Transport ------------------------------
(***************************************************************************)
(* lib/Transport.cpp: the serial reader thread (Transport::Reader) and the *)
(* main thread inside Transport's methods.  They share mData under mMutex, *)
(* the counting semaphore mSem, and two plain bools, mStarted (written by  *)
(* the reader, read by the main thread) and mTerminate.  One action is one *)
(* access to shared state.  Transport::Send touches none of it and is      *)
(* modelled where its result is used, in HdlcExchange.                     *)
(***************************************************************************)
EXTENDS Integers, Sequences

CONSTANTS
  Byte,         \* the bytes of the line
  Chunks,       \* what one successful serial_read may return
  MaxReceived   \* bound: the line carries at most this many bytes

ASSUME ChunksAssumption == Chunks \subseteq Seq(Byte) \ {<<>>}
ASSUME MaxReceivedAssumption == MaxReceived \in Nat

VARIABLES
  mStarted, mTerminate, mData, mSem, mMutex,  \* members of Transport
  client,      \* where the main thread is in Transport's methods
  notified,    \* WaitForData: did the semaphore end the wait?
  data,        \* WaitForData: what this call appends to the caller's string
  reader,      \* where the reader thread is
  chunk,       \* Reader: the bytes of the last serial_read
  received,    \* history: all the bytes serial_read returned
  returned     \* history: all the bytes WaitForData handed out

members == <<mStarted, mTerminate, mData, mSem, mMutex>>
vars == <<members, client, notified, data, reader, chunk, received, returned>>

\* "copy" and "clear" are the critical section of WaitForData.
ClientPC == {"closed", "noport", "idle", "wait", "lock", "copy", "clear",
             "stop", "join", "left"}
\* "none": no thread; "created": std::thread made, Reader not yet running;
\* "append" is the critical section; "exit": exit(1) ended the process.
ReaderPC == {"none", "created", "test", "read", "lock", "append", "signal",
             "ended", "exit"}

Init ==
  /\ mStarted = FALSE /\ mTerminate = FALSE
  /\ mData = <<>> /\ mSem = 0 /\ mMutex = "free"
  /\ client = "closed" /\ notified = FALSE /\ data = <<>>
  /\ reader = "none" /\ chunk = <<>>
  /\ received = <<>> /\ returned = <<>>

\* exit(1) in the reader, or the return of main, ends both threads.
Running == reader # "exit" /\ client # "left"

-----------------------------------------------------------------------------
(* The main thread                                                         *)

\* Transport::Open succeeds and CosemClient::Initialize calls Start.
OpenAndStart ==
  /\ Running /\ client = "closed"
  /\ client' = "idle" /\ reader' = "created"
  /\ UNCHANGED <<members, notified, data, chunk, received, returned>>

\* Open fails, or a configuration file did: no thread is created.
OpenFails ==
  /\ Running /\ client = "closed"
  /\ client' = "noport"
  /\ UNCHANGED <<members, notified, data, reader, chunk, received, returned>>

CallWaitForData ==
  /\ Running /\ client = "idle"
  /\ client' = "wait" /\ data' = <<>>
  /\ UNCHANGED <<members, notified, reader, chunk, received, returned>>

\* Variant: the wait lets a caller through on a count of zero.
SemaphoreTakenUnguarded ==
  /\ Running /\ client = "wait"
  /\ mSem' = mSem - 1 /\ notified' = TRUE /\ client' = "lock"
  /\ UNCHANGED <<mStarted, mTerminate, mData, mMutex, data, reader, chunk,
                 received, returned>>

\* mSem.wait(timeout) returns true ...
SemaphoreTaken ==
  /\ Running /\ client = "wait" /\ mSem > 0
  /\ mSem' = mSem - 1 /\ notified' = TRUE /\ client' = "lock"
  /\ UNCHANGED <<mStarted, mTerminate, mData, mMutex, data, reader, chunk,
                 received, returned>>

\* ... or false, which it may only do while the count is zero.
SemaphoreTimeout ==
  /\ Running /\ client = "wait" /\ mSem = 0
  /\ notified' = FALSE /\ client' = "lock"
  /\ UNCHANGED <<members, data, reader, chunk, received, returned>>

\* Variant: WaitForData reads mData without the mutex.
ClientLocksNothing ==
  /\ Running /\ client = "lock"
  /\ client' = "copy"
  /\ UNCHANGED <<members, notified, data, reader, chunk, received, returned>>

\* Variant: mMutex.try_lock(), WaitForData returns when the reader holds it.
ClientTriesLock ==
  /\ Running /\ client = "lock"
  /\ IF mMutex = "free"
       THEN mMutex' = "client" /\ client' = "copy"
       ELSE UNCHANGED mMutex /\ client' = "idle"
  /\ UNCHANGED <<mStarted, mTerminate, mData, mSem, notified, data, reader,
                 chunk, received, returned>>

ClientLocks ==
  /\ Running /\ client = "lock" /\ mMutex = "free"
  /\ mMutex' = "client" /\ client' = "copy"
  /\ UNCHANGED <<mStarted, mTerminate, mData, mSem, notified, data, reader,
                 chunk, received, returned>>

\* data += mData
ClientCopies ==
  /\ Running /\ client = "copy"
  /\ data' = data \o mData /\ returned' = returned \o mData
  /\ client' = "clear"
  /\ UNCHANGED <<members, notified, reader, chunk, received>>

\* mData.clear(); mMutex.unlock()
ClientClears ==
  /\ Running /\ client = "clear"
  /\ mData' = <<>> /\ mMutex' = "free" /\ client' = "idle"
  /\ UNCHANGED <<mStarted, mTerminate, mSem, notified, data, reader, chunk,
                 received, returned>>

\* Variant: WaitForStop forgets to ask the reader to end.
CallWaitForStopSilently ==
  /\ Running /\ client \in {"idle", "noport"}
  /\ client' = "stop"
  /\ UNCHANGED <<members, notified, data, reader, chunk, received, returned>>

CallWaitForStop ==
  /\ Running /\ client \in {"idle", "noport"}
  /\ mTerminate' = TRUE /\ client' = "stop"
  /\ UNCHANGED <<mStarted, mData, mSem, mMutex, notified, data, reader, chunk,
                 received, returned>>

\* if (mStarted): the flag the READER sets decides whether to join.  It is a
\* plain bool, so the main thread may also still see the old FALSE as long as
\* it never took a byte from the reader: only the mutex and the semaphore
\* order the two threads.  (A stale mTerminate in ReaderTests is one more turn
\* of its loop, which CallWaitForStop arriving later gives as well.)
TestStarted ==
  /\ Running /\ client = "stop"
  /\ \/ mStarted /\ client' = "join"
     \/ (~mStarted \/ returned = <<>>) /\ client' = "left"
  /\ UNCHANGED <<members, notified, data, reader, chunk, received, returned>>

Join ==
  /\ Running /\ client = "join" /\ reader = "ended"
  /\ client' = "left"
  /\ UNCHANGED <<members, notified, data, reader, chunk, received, returned>>

-----------------------------------------------------------------------------
(* The reader thread                                                       *)

ReaderStarts ==
  /\ Running /\ reader = "created"
  /\ mStarted' = TRUE /\ reader' = "test"
  /\ UNCHANGED <<mTerminate, mData, mSem, mMutex, client, notified, data,
                 chunk, received, returned>>

\* while (!mTerminate)
ReaderTests ==
  /\ Running /\ reader = "test"
  /\ reader' = IF mTerminate THEN "ended" ELSE "read"
  /\ UNCHANGED <<members, client, notified, data, chunk, received, returned>>

\* serial_read returns bytes ...
ReaderReads(c) ==
  /\ Running /\ reader = "read"
  /\ Len(received) + Len(c) <= MaxReceived
  /\ chunk' = c /\ received' = received \o c /\ reader' = "lock"
  /\ UNCHANGED <<members, client, notified, data, returned>>

\* ... nothing until its own timeout ...
ReaderReadsNothing ==
  /\ Running /\ reader = "read"
  /\ reader' = "test"
  /\ UNCHANGED <<members, client, notified, data, chunk, received, returned>>

\* ... or an error.
ReaderFails ==
  /\ Running /\ reader = "read"
  /\ mTerminate' = TRUE /\ reader' = "exit"
  /\ UNCHANGED <<mStarted, mData, mSem, mMutex, client, notified, data, chunk,
                 received, returned>>

ReaderLocks ==
  /\ Running /\ reader = "lock" /\ mMutex = "free"
  /\ mMutex' = "reader" /\ reader' = "append"
  /\ UNCHANGED <<mStarted, mTerminate, mData, mSem, client, notified, data,
                 chunk, received, returned>>

\* Variant: mData = data, a chunk replaces what was not taken yet.
ReaderAssigns ==
  /\ Running /\ reader = "append"
  /\ mData' = chunk /\ chunk' = <<>>
  /\ mMutex' = "free" /\ reader' = "signal"
  /\ UNCHANGED <<mStarted, mTerminate, mSem, client, notified, data, received,
                 returned>>

\* mData += data; mMutex.unlock()
ReaderAppends ==
  /\ Running /\ reader = "append"
  /\ mData' = mData \o chunk /\ chunk' = <<>>
  /\ mMutex' = "free" /\ reader' = "signal"
  /\ UNCHANGED <<mStarted, mTerminate, mSem, client, notified, data, received,
                 returned>>

ReaderSignals ==
  /\ Running /\ reader = "signal"
  /\ mSem' = mSem + 1 /\ reader' = "test"
  /\ UNCHANGED <<mStarted, mTerminate, mData, mMutex, client, notified, data,
                 chunk, received, returned>>

-----------------------------------------------------------------------------

\* The steps that end a call the main thread has made.
ClientInCall ==
  \/ SemaphoreTaken \/ SemaphoreTimeout
  \/ ClientLocks \/ ClientCopies \/ ClientClears
  \/ TestStarted \/ Join

Client ==
  \/ OpenAndStart \/ OpenFails
  \/ CallWaitForData \/ CallWaitForStop
  \/ ClientInCall

Reader ==
  \/ ReaderStarts \/ ReaderTests
  \/ \E c \in Chunks : ReaderReads(c)
  \/ ReaderReadsNothing \/ ReaderFails
  \/ ReaderLocks \/ ReaderAppends \/ ReaderSignals

\* The process is over; nothing else is a reason to stop.
Terminated == ~Running /\ UNCHANGED vars

Next == Client \/ Reader \/ Terminated

\* A call the main thread has made goes on, and so does the reader thread:
\* serial_read is given a timeout, so it always returns.
Fairness == WF_vars(ClientInCall) /\ WF_vars(Reader)

Spec == Init /\ [][Next]_vars
FairSpec == Spec /\ Fairness

-----------------------------------------------------------------------------
(* Properties                                                              *)

\* The type of every variable, and which thread holds mMutex where.
TypeOK ==
  /\ mStarted \in BOOLEAN /\ mTerminate \in BOOLEAN
  /\ mData \in Seq(Byte) /\ mSem \in Nat
  /\ mMutex \in {"free", "client", "reader"}
  /\ client \in ClientPC /\ notified \in BOOLEAN /\ data \in Seq(Byte)
  /\ reader \in ReaderPC /\ chunk \in Seq(Byte)
  /\ received \in Seq(Byte) /\ returned \in Seq(Byte)

\* What WaitForData has copied but not yet cleared is no longer pending.
Pending == IF client = "clear" THEN <<>> ELSE mData

\* No byte of the line is lost, doubled or reordered on its way through
\* mData, wherever the two threads are: the bytes handed out, the bytes
\* waiting in mData and the reader's last chunk are the bytes received.
FifoDelivery == returned \o Pending \o chunk = received

\* A main thread about to wait never sleeps on bytes that are already
\* there: if bytes are pending and no WaitForData is about to take them, the
\* semaphore is up or the reader is about to raise it (WaitForData drains
\* mData without looking at the count, Reader appends before it signals).
NoLostWakeup ==
  Pending # <<>> /\ client \notin {"lock", "copy"}
    => mSem > 0 \/ reader = "signal"

\* WaitForStop returns whatever the reader thread is doing when it is called:
\* it is never left in join by a reader blocked on the mutex or looping in
\* serial_read.
StopReturns == client = "stop" ~> (client = "left" \/ reader = "exit")

\* How far WaitForData has come, seen from outside the lock.
CallState ==
  CASE client = "wait" -> "waiting"
    [] client \in {"lock", "copy"} /\ notified -> "notified"
    [] client \in {"lock", "copy"} /\ ~notified -> "expired"
    [] OTHER -> "none"

\* Both threads together keep the promise of the abstract mailbox.
Abstract == INSTANCE Mailbox WITH
  mData   <- Pending,
  ringing <- reader = "signal",
  call    <- CallState
ImplementsMailbox == Abstract!Spec

\* "waiting for reading thread..." (src/main.cpp:64): when WaitForStop has
\* returned, no reader thread is left running behind it.
ReaderJoined == client = "left" => reader \in {"none", "ended"}
==============================================================================
