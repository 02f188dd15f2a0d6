--------------------------- MODULE TransportProofs ---------------------------
(***************************************************************************)
(* Proofs about Transport, for every set of bytes, every chunking of the   *)
(* line and every bound on its length.                                     *)
(***************************************************************************)
EXTENDS Transport, SequenceTheorems, TLAPS

(* TypeOK holds when main starts ... *)
LEMMA TypeInit == Init => TypeOK
<1> USE DEF TypeOK, ClientPC, ReaderPC, members
<1> SUFFICES ASSUME Init
             PROVE  TypeOK
  OBVIOUS
<1>1. mStarted \in BOOLEAN /\ mTerminate \in BOOLEAN /\ notified \in BOOLEAN
  BY Zenon DEF Init
<1>2. /\ <<>> \in Seq(Byte)
      /\ 0 \in Nat
  BY EmptySeq
<1> QED
  BY <1>1, <1>2 DEF Init

(* ... and no step of either thread breaks it. *)
LEMMA TypeStep == TypeOK /\ [Next]_vars => TypeOK'
<1> USE DEF TypeOK, ClientPC, ReaderPC, members
<1> SUFFICES ASSUME TypeOK, [Next]_vars
             PROVE  TypeOK'
  OBVIOUS
<1>1. CASE OpenAndStart \/ OpenFails \/ CallWaitForData \/ CallWaitForStop
  BY <1>1, EmptySeq DEF OpenAndStart, OpenFails, CallWaitForData, CallWaitForStop
<1>2. CASE SemaphoreTaken
  <2>1. mSem - 1 \in Nat
    BY <1>2 DEF SemaphoreTaken
  <2> QED
    BY <1>2, <2>1, Zenon DEF SemaphoreTaken
<1>10. CASE SemaphoreTimeout \/ ClientLocks
  BY <1>10, Zenon DEF SemaphoreTimeout, ClientLocks
<1>3. CASE ClientCopies
  BY <1>3, ConcatProperties DEF ClientCopies
<1>4. CASE ClientClears \/ TestStarted \/ Join
  BY <1>4, EmptySeq DEF ClientClears, TestStarted, Join
<1>5. CASE ReaderStarts \/ ReaderTests \/ ReaderReadsNothing \/ ReaderFails
  BY <1>5 DEF ReaderStarts, ReaderTests, ReaderReadsNothing, ReaderFails
<1>6. ASSUME NEW c \in Chunks, ReaderReads(c)
      PROVE  TypeOK'
  <2>1. c \in Seq(Byte)
    BY ChunksAssumption
  <2> QED
    BY <1>6, <2>1, ConcatProperties DEF ReaderReads
<1>7. CASE ReaderLocks \/ ReaderSignals
  BY <1>7 DEF ReaderLocks, ReaderSignals
<1>8. CASE ReaderAppends
  BY <1>8, ConcatProperties, EmptySeq DEF ReaderAppends
<1>9. CASE Terminated \/ UNCHANGED vars
  BY <1>9 DEF Terminated, vars
<1> QED
  BY <1>1, <1>2, <1>3, <1>4, <1>5, <1>6, <1>7, <1>8, <1>9,
     <1>10
  DEF Next, Client, ClientInCall, Reader

(* The type invariant: mSem never goes negative, the program counters and  *)
(* the strings keep their types (lib/Transport.cpp:91-157).                *)
THEOREM TypeCorrect == Spec => []TypeOK
  BY TypeInit, TypeStep, PTL DEF Spec

-----------------------------------------------------------------------------

\* There is no thread before Start.
NoThreadYet == client \in {"closed", "noport"} => reader = "none"

\* mMutex is held exactly inside the two critical sections.
Locking ==
  /\ mMutex = "client" <=> client \in {"copy", "clear"}
  /\ mMutex = "reader" <=> reader = "append"

\* The reader holds a chunk exactly from serial_read to its append.
ChunkInHand ==
  IF reader \in {"lock", "append"} THEN chunk \in Chunks ELSE chunk = <<>>

\* This call of WaitForData has not copied anything yet.
NothingCopied == client \in {"wait", "lock", "copy"} => data = <<>>

Control == NoThreadYet /\ Locking /\ ChunkInHand /\ NothingCopied

IInv == TypeOK /\ Control /\ FifoDelivery /\ NoLostWakeup

LEMMA InvInit == Init => IInv
<1> SUFFICES ASSUME Init
             PROVE  IInv
  OBVIOUS
<1>1. TypeOK
  BY TypeInit
<1>2. Control /\ NoLostWakeup
  BY DEF Init, Control, NoThreadYet, Locking, ChunkInHand, NothingCopied, NoLostWakeup, Pending
<1>3. FifoDelivery
  BY EmptySeq, ConcatEmptySeq DEF Init, FifoDelivery, Pending
<1> QED
  BY <1>1, <1>2, <1>3 DEF IInv

(* Who holds the mutex and the chunk does not depend on the bytes. *)
LEMMA ControlStep == TypeOK /\ Control /\ [Next]_vars => Control'
<1> SUFFICES ASSUME TypeOK, Control, [Next]_vars
             PROVE  Control'
  OBVIOUS
<1> USE DEF Control, NoThreadYet, Locking, ChunkInHand, NothingCopied, members
<1>1. CASE Client
  <2>1. CASE OpenAndStart \/ OpenFails \/ CallWaitForData \/ CallWaitForStop
    BY <2>1 DEF OpenAndStart, OpenFails, CallWaitForData, CallWaitForStop
  <2>2. CASE SemaphoreTaken \/ SemaphoreTimeout \/ ClientLocks
    BY <2>2 DEF SemaphoreTaken, SemaphoreTimeout, ClientLocks
  <2>3. CASE ClientCopies \/ ClientClears \/ TestStarted \/ Join
    BY <2>3 DEF ClientCopies, ClientClears, TestStarted, Join
  <2> QED
    BY <1>1, <2>1, <2>2, <2>3 DEF Client, ClientInCall
<1>2. CASE Reader
  <2>1. CASE ReaderStarts \/ ReaderTests \/ ReaderReadsNothing \/ ReaderFails
    BY <2>1 DEF ReaderStarts, ReaderTests, ReaderReadsNothing, ReaderFails
  <2>2. CASE \E c \in Chunks : ReaderReads(c)
    BY <2>2 DEF ReaderReads
  <2>3. CASE ReaderLocks \/ ReaderAppends \/ ReaderSignals
    BY <2>3 DEF ReaderLocks, ReaderAppends, ReaderSignals
  <2> QED
    BY <1>2, <2>1, <2>2, <2>3 DEF Reader
<1>3. CASE Terminated \/ UNCHANGED vars
  BY <1>3 DEF Terminated, vars
<1> QED
  BY <1>1, <1>2, <1>3 DEF Next

(* The copy and the clear of WaitForData and the append of Reader are the   *)
(* only steps that move bytes; the lock keeps each on one side of FIFO.     *)
LEMMA FifoStep ==
  TypeOK /\ Control /\ FifoDelivery /\ [Next]_vars => FifoDelivery'
<1> SUFFICES ASSUME TypeOK, Control, FifoDelivery, [Next]_vars
             PROVE  FifoDelivery'
  OBVIOUS
<1> USE DEF FifoDelivery, Pending, members
<1>t. /\ mData \in Seq(Byte) /\ chunk \in Seq(Byte)
      /\ received \in Seq(Byte) /\ returned \in Seq(Byte)
      /\ Pending \in Seq(Byte) /\ <<>> \in Seq(Byte)
  BY EmptySeq DEF TypeOK
<1>1. CASE ClientCopies
  <2>1. Pending = mData /\ Pending' = <<>> /\ chunk' = chunk
    BY <1>1 DEF ClientCopies
  <2>2. returned' = returned \o mData /\ received' = received
    BY <1>1 DEF ClientCopies
  <2>3. returned \o mData \in Seq(Byte)
    BY <1>t, ConcatProperties
  <2>4. (returned \o mData) \o <<>> = returned \o mData
    BY <2>3, ConcatEmptySeq
  <2> QED
    BY <2>1, <2>2, <2>4
<1>2. CASE ClientClears
  BY <1>2 DEF ClientClears
<1>3. ASSUME NEW c \in Chunks, ReaderReads(c)
      PROVE  FifoDelivery'
  <2>1. chunk = <<>> /\ c \in Seq(Byte)
    BY <1>3, ChunksAssumption DEF ReaderReads, Control, ChunkInHand
  <2>2. returned' = returned /\ Pending' = Pending
    BY <1>3 DEF ReaderReads
  <2>3. chunk' = c /\ received' = received \o c
    BY <1>3 DEF ReaderReads
  <2>4. received = returned \o Pending
    BY <2>1, <1>t, ConcatProperties, ConcatEmptySeq
  <2> QED
    BY <2>2, <2>3, <2>4
<1>4. CASE ReaderAppends
  <2>1. Pending = mData /\ Pending' = mData \o chunk
    BY <1>4 DEF ReaderAppends, Control, Locking
  <2>2. chunk' = <<>> /\ received' = received /\ returned' = returned
    BY <1>4 DEF ReaderAppends
  <2>3. (returned \o mData) \o chunk = returned \o (mData \o chunk)
    BY <1>t, ConcatAssociative
  <2>4. mData \o chunk \in Seq(Byte)
    BY <1>t, ConcatProperties
  <2>5. returned \o (mData \o chunk) \in Seq(Byte)
    BY <1>t, <2>4, ConcatProperties
  <2>6. (returned \o (mData \o chunk)) \o <<>> = returned \o (mData \o chunk)
    BY <2>5, ConcatEmptySeq
  <2> QED
    BY <2>1, <2>2, <2>3, <2>6
<1>5. CASE OpenAndStart \/ OpenFails \/ CallWaitForData \/ CallWaitForStop
  BY <1>5 DEF OpenAndStart, OpenFails, CallWaitForData, CallWaitForStop
<1>6. CASE SemaphoreTaken \/ SemaphoreTimeout \/ ClientLocks \/ TestStarted \/ Join
  BY <1>6 DEF SemaphoreTaken, SemaphoreTimeout, ClientLocks, TestStarted, Join
<1>7. CASE ReaderStarts \/ ReaderTests \/ ReaderReadsNothing \/ ReaderFails
  BY <1>7 DEF ReaderStarts, ReaderTests, ReaderReadsNothing, ReaderFails
<1>8. CASE ReaderLocks \/ ReaderSignals \/ Terminated \/ UNCHANGED vars
  BY <1>8 DEF ReaderLocks, ReaderSignals, Terminated, vars
<1> QED
  BY <1>1, <1>2, <1>3, <1>4, <1>5, <1>6, <1>7, <1>8
  DEF Next, Client, ClientInCall, Reader

(* Only a taken token can put the reader's announcement out, and the call   *)
(* that takes it drains mData before the main thread can wait again.        *)
LEMMA WakeupStep ==
  TypeOK /\ Control /\ NoLostWakeup /\ [Next]_vars => NoLostWakeup'
<1> SUFFICES ASSUME TypeOK, Control, NoLostWakeup, [Next]_vars
             PROVE  NoLostWakeup'
  OBVIOUS
<1> USE DEF NoLostWakeup, Pending, members
<1>1. CASE Client
  <2>1. CASE OpenAndStart \/ OpenFails \/ CallWaitForData \/ CallWaitForStop
    BY <2>1 DEF OpenAndStart, OpenFails, CallWaitForData, CallWaitForStop,
                Control, NoThreadYet
  <2>2. CASE SemaphoreTaken \/ SemaphoreTimeout \/ ClientLocks
    BY <2>2 DEF SemaphoreTaken, SemaphoreTimeout, ClientLocks
  <2>3. CASE ClientCopies \/ ClientClears \/ TestStarted \/ Join
    BY <2>3 DEF ClientCopies, ClientClears, TestStarted, Join
  <2> QED
    BY <1>1, <2>1, <2>2, <2>3 DEF Client, ClientInCall
<1>2. CASE Reader
  <2>1. CASE ReaderStarts \/ ReaderTests \/ ReaderReadsNothing \/ ReaderFails
    BY <2>1 DEF ReaderStarts, ReaderTests, ReaderReadsNothing, ReaderFails
  <2>2. CASE \E c \in Chunks : ReaderReads(c)
    BY <2>2 DEF ReaderReads
  <2>3. CASE ReaderLocks \/ ReaderAppends
    BY <2>3 DEF ReaderLocks, ReaderAppends
  <2>4. CASE ReaderSignals
    BY <2>4 DEF ReaderSignals, TypeOK
  <2> QED
    BY <1>2, <2>1, <2>2, <2>3, <2>4 DEF Reader
<1>3. CASE Terminated \/ UNCHANGED vars
  BY <1>3 DEF Terminated, vars
<1> QED
  BY <1>1, <1>2, <1>3 DEF Next

LEMMA Inductive == Spec => []IInv
<1>1. IInv /\ [Next]_vars => IInv'
  BY TypeStep, ControlStep, FifoStep, WakeupStep DEF IInv
<1> QED
  BY <1>1, InvInit, PTL DEF Spec

(* No byte is lost, doubled or reordered between serial_read and the caller *)
(* of WaitForData (lib/Transport.cpp:91-105, 120-157).                      *)
THEOREM Fifo == Spec => []FifoDelivery
<1>1. IInv => FifoDelivery
  BY DEF IInv
<1> QED
  BY <1>1, Inductive, PTL

(* The main thread never sleeps on bytes that are already in mData          *)
(* (lib/Transport.cpp:93, 135-140).                                         *)
THEOREM Wakeup == Spec => []NoLostWakeup
<1>1. IInv => NoLostWakeup
  BY DEF IInv
<1> QED
  BY <1>1, Inductive, PTL

-----------------------------------------------------------------------------

LEMMA RefineInit == Init => Abstract!Init
  BY DEF Init, Abstract!Init, Pending, CallState

(* Every step of the two threads is a step of the mailbox or leaves it as   *)
(* it is: the copy is where a call takes its bytes, the append where a      *)
(* chunk arrives.                                                           *)
LEMMA RefineStep == IInv /\ [Next]_vars => [Abstract!Next]_(Abstract!mailboxVars)
<1> SUFFICES ASSUME IInv, [Next]_vars
             PROVE  Abstract!Next \/ UNCHANGED Abstract!mailboxVars
  OBVIOUS
<1> USE DEF Abstract!mailboxVars, Pending, CallState, members
<1>1. CASE CallWaitForData
  <2>1. Abstract!Call
    BY <1>1 DEF CallWaitForData, Abstract!Call
  <2> QED
    BY <2>1 DEF Abstract!Next
<1>2. CASE SemaphoreTaken
  <2>1. Abstract!Take
    BY <1>2 DEF SemaphoreTaken, Abstract!Take
  <2> QED
    BY <2>1 DEF Abstract!Next
<1>3. CASE SemaphoreTimeout
  <2>1. Abstract!Expire
    BY <1>3 DEF SemaphoreTimeout, Abstract!Expire
  <2> QED
    BY <2>1 DEF Abstract!Next
<1>4. CASE ClientCopies
  <2>1. data' = mData
    BY <1>4, ConcatEmptySeq DEF ClientCopies, IInv, TypeOK, Control, NothingCopied
  <2>2. Abstract!Drain
    BY <1>4, <2>1 DEF ClientCopies, Abstract!Drain, IInv, TypeOK
  <2> QED
    BY <2>2 DEF Abstract!Next
<1>5. CASE ReaderAppends
  <2>1. chunk \in Chunks /\ client \notin {"copy", "clear"}
    BY <1>5 DEF ReaderAppends, IInv, Control, ChunkInHand, Locking
  <2>2. Abstract!Put(chunk)
    BY <1>5, <2>1 DEF ReaderAppends, Abstract!Put
  <2> QED
    BY <2>1, <2>2 DEF Abstract!Next
<1>6. CASE ReaderSignals
  <2>1. Abstract!Ring
    BY <1>6 DEF ReaderSignals, Abstract!Ring
  <2> QED
    BY <2>1 DEF Abstract!Next
<1>7. CASE OpenAndStart \/ OpenFails \/ CallWaitForStop
  BY <1>7 DEF OpenAndStart, OpenFails, CallWaitForStop, IInv, Control, NoThreadYet
<1>8. CASE ClientLocks \/ ClientClears \/ TestStarted \/ Join
  BY <1>8 DEF ClientLocks, ClientClears, TestStarted, Join
<1>9. CASE ReaderStarts \/ ReaderTests \/ ReaderReadsNothing \/ ReaderFails
  BY <1>9 DEF ReaderStarts, ReaderTests, ReaderReadsNothing, ReaderFails
<1>10. CASE (\E c \in Chunks : ReaderReads(c)) \/ ReaderLocks
  BY <1>10 DEF ReaderReads, ReaderLocks
<1>11. CASE Terminated \/ UNCHANGED vars
  BY <1>11 DEF Terminated, vars
<1> QED
  BY <1>1, <1>2, <1>3, <1>4, <1>5, <1>6, <1>7, <1>8, <1>9, <1>10, <1>11
  DEF Next, Client, ClientInCall, Reader

(* Transport implements Mailbox: HdlcExchange may be built on the mailbox   *)
(* (lib/Transport.cpp:91-157).                                              *)
THEOREM Refinement == Spec => ImplementsMailbox
  BY RefineInit, RefineStep, Inductive, PTL DEF Spec, ImplementsMailbox, Abstract!Spec

=============================================================================
