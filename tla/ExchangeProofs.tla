--------------------------- MODULE ExchangeProofs ---------------------------
(***************************************************************************)
(* Proofs about HdlcExchange, for every window, number of segments, retries *)
(* and exchanges, and however the bytes are cut into chunks.                *)
(***************************************************************************)
EXTENDS HdlcExchange, SequenceTheorems, TLAPS

InProcess == pc \in {"send", "wait", "decode"}

\* The bytes and the frames are sequences, and while HdlcProcess runs there is
\* a request and the caller is within its exchanges.
Streams ==
  /\ mData \in Seq(Half) /\ data \in Seq(Half) /\ unread \in Seq(Half)
  /\ toClient \in Seq(Half)
  /\ send \in Seq(Frame) /\ dataToSend \in Seq(Frame) /\ dataSent \in Seq(Frame)
  /\ toMeter \in Seq(Frame) /\ rcv \in Seq(UserData)
Called == InProcess \/ pc = "end" => exchange <= Exchanges /\ Len(send) = 1

\* The remaining variables, as TypeOK has them.
Counters ==
  /\ mSem \in Nat /\ ringing \in BOOLEAN /\ call \in Mail!CallStates
  /\ pc \in {"idle", "send", "wait", "decode", "end", "failed"}
  /\ exchange \in 0..Exchanges + 1 /\ attempts \in 0..LastCount
  /\ retries \in 0..LastCount /\ loop \in BOOLEAN /\ retCode \in BOOLEAN
  /\ Len(unread) <= written /\ written <= BufferSize /\ written \in Nat
  /\ hdlc \in [type : {"SNRM", "I", "RR"}, sss : 0..LastSeq, rrr : 0..LastSeq]
  /\ meter \in [vr : 0..LastSeq, base : 0..LastSeq, answering : 0..Exchanges,
                acked : 0..Segments]
  /\ losses \in 0..MaxLosses

TypeInv == Streams /\ Called /\ Counters

-----------------------------------------------------------------------------
(* What the frames and their halves are made of                            *)

\* A function over 1..n is a sequence of length n.
LEMMA IsSequence ==
  ASSUME NEW S, NEW n \in Nat, NEW s \in [1..n -> S]
  PROVE  s \in Seq(S) /\ Len(s) = n
<1>1. s \in Seq(S)
  BY SeqDef, Zenon
<1> QED
  BY <1>1, LenProperties, SMT

\* A sequence of one.
LEMMA Singleton ==
  \A S : \A x \in S : <<x>> \in Seq(S) /\ Len(<<x>>) = 1 /\ <<x>>[1] = x
<1> SUFFICES ASSUME NEW S, NEW x \in S
             PROVE  <<x>> \in Seq(S) /\ Len(<<x>>) = 1 /\ <<x>>[1] = x
  OBVIOUS
<1> QED
  BY SMT

\* Sequence numbers wrap within their range.
LEMMA SequenceNumbers ==
  /\ \A n \in 0..LastSeq : NextSeq(n) \in 0..LastSeq
  /\ \A n, k \in Int : SeqAfter(n, k) \in 0..LastSeq
BY SizeAssumption, SMT DEF NextSeq, SeqAfter

\* The retry counter saturates within its range.
LEMMA CountType == \A n \in Nat : Count(n) \in 0..LastCount
BY CounterAssumption, SMT DEF Count

\* The bytes of frames of F are halves of H, in the order of the frames.
LEMMA BytesIn ==
  ASSUME NEW F, NEW H, \A x \in F : \A k \in {1, 2} : [frame |-> x, half |-> k] \in H,
         NEW f \in Seq(F)
  PROVE  /\ Bytes(f) \in Seq(H) /\ Len(Bytes(f)) = 2 * Len(f)
         /\ Len(f) \in Nat
         /\ \A i \in 1..2 * Len(f) : (i + 1) \div 2 \in 1..Len(f)
<1>1. Len(f) \in Nat /\ \A k \in 1..Len(f) : f[k] \in F
  BY LenProperties
<1>2. \A i \in 1..2 * Len(f) : (i + 1) \div 2 \in 1..Len(f)
  BY <1>1, SMT
<1>3. \A i \in 1..2 * Len(f) :
        [frame |-> f[(i + 1) \div 2], half |-> IF i % 2 = 1 THEN 1 ELSE 2] \in H
  BY <1>1, <1>2, Zenon
<1>4. 2 * Len(f) \in Nat
  BY <1>1, SMT
<1>5. Bytes(f) \in [1..2 * Len(f) -> H]
  BY <1>3, Zenon DEF Bytes
<1>6. Bytes(f) \in Seq(H) /\ Len(Bytes(f)) = 2 * Len(f)
  BY <1>4, <1>5, IsSequence, Zenon
<1> QED
  BY <1>1, <1>2, <1>6, Zenon

\* The bytes of frames are halves, two of each frame.
LEMMA BytesType ==
  \A f \in Seq(Frame) : Bytes(f) \in Seq(Half) /\ Len(Bytes(f)) = 2 * Len(f)
<1>1. \A x \in Frame : \A k \in {1, 2} : [frame |-> x, half |-> k] \in Half
  BY DEF Half
<1> QED
  BY <1>1, BytesIn, Zenon

\* What the callers and HdlcProcess encode are frames.
LEMMA CommandType ==
  ASSUME TypeInv, NEW ex \in 0..Exchanges, NEW type \in {"SNRM", "I"}
  PROVE  Command(type, ex) \in Frame
BY SizeAssumption, SMT DEF TypeInv, Counters, Command, Frame, UserData

\* An RR is a frame.
LEMMA ReceiveReadyType ==
  ASSUME TypeInv, exchange <= Exchanges, NEW n \in 0..LastSeq
  PROVE  ReceiveReady(n) \in Frame
BY SizeAssumption, SMT DEF TypeInv, Counters, ReceiveReady, Frame, UserData

MeterType ==
  [vr : 0..LastSeq, base : 0..LastSeq, answering : 0..Exchanges,
   acked : 0..Segments]

\* What the meter encodes are frames.
LEMMA ReplyType ==
  ASSUME NEW m \in MeterType, NEW type \in {"UA", "I", "RR"},
         NEW k \in 0..Segments, NEW final \in BOOLEAN
  PROVE  Reply(m, type, k, final) \in Frame
<1>1. SeqAfter(m.base, k - 1) \in 0..LastSeq
  <2>1. m.base \in Int /\ k - 1 \in Int
    BY SizeAssumption, SMT DEF MeterType
  <2> QED
    BY <2>1, SequenceNumbers, Zenon
<1>2. <<m.answering, k>> \in UserData
  BY SMT DEF MeterType, UserData
<1>3. m.vr \in 0..LastSeq /\ 0 \in 0..LastSeq
  BY SizeAssumption, SMT DEF MeterType
<1>4. (IF type = "I" THEN SeqAfter(m.base, k - 1) ELSE 0) \in 0..LastSeq
  BY <1>1, <1>3
<1>5. (IF type = "I" /\ k < Segments THEN 1 ELSE 0) \in {0, 1}
      /\ (IF final THEN 1 ELSE 0) \in {0, 1}
  OBVIOUS
<1> QED
  BY <1>2, <1>3, <1>4, <1>5 DEF Reply, Frame

\* A burst goes on from the last frame that is acknowledged.
LEMMA BurstType ==
  ASSUME NEW m \in MeterType
  PROVE  /\ Burst(m) \in Seq(Frame)
         /\ Len(Burst(m)) = IF Segments - m.acked < Window
                              THEN Segments - m.acked ELSE Window
         /\ \A k \in 1..Len(Burst(m)) :
              Burst(m)[k] = Reply(m, "I", m.acked + k, k = Len(Burst(m)))
<1> DEFINE size == IF Segments - m.acked < Window THEN Segments - m.acked
                     ELSE Window
<1>1. size \in 0..Segments - m.acked /\ size \in Nat
  BY SizeAssumption, SMT DEF MeterType
<1>2. Burst(m) = [k \in 1..size |-> Reply(m, "I", m.acked + k, k = size)]
  BY DEF Burst
<1> HIDE DEF size
<1>3. \A k \in 1..size : m.acked + k \in 0..Segments
  BY <1>1, SizeAssumption, SMT DEF MeterType
<1>4. \A k \in 1..size : Reply(m, "I", m.acked + k, k = size) \in Frame
  BY <1>3, ReplyType
<1>5. Burst(m) \in Seq(Frame) /\ Len(Burst(m)) = size
  <2>1. Burst(m) \in [1..size -> Frame]
    BY <1>2, <1>4, Zenon
  <2> QED
    BY <1>1, <2>1, IsSequence, Zenon
<1> QED
  BY <1>2, <1>5, ZenonT(60) DEF size

-----------------------------------------------------------------------------
(* Type correctness                                                        *)

\* The types hold at the start.
LEMMA TypeInit == Init => TypeInv
<1> SUFFICES ASSUME Init PROVE TypeInv
  OBVIOUS
<1>1. <<>> \in Seq(Half) /\ <<>> \in Seq(Frame) /\ <<>> \in Seq(UserData)
      /\ Len(<<>>) = 0
  BY EmptySeq, Zenon
<1>2. Streams
  BY <1>1, Zenon DEF Init, Streams, Mail!Init
<1>3. Called
  BY DEF Init, Called, InProcess
<1>4. /\ 0 \in Nat /\ 0 \in 0..Exchanges + 1 /\ 0 \in 0..LastCount
      /\ 0 <= BufferSize /\ 0 <= 0 /\ 0 \in 0..LastSeq /\ 0 \in 0..Exchanges
      /\ 0 \in 0..Segments /\ 0 \in 0..MaxLosses
  BY SizeAssumption, CounterAssumption, SMT
<1>5. Counters
  <2>1. hdlc \in [type : {"SNRM", "I", "RR"}, sss : 0..LastSeq,
                  rrr : 0..LastSeq]
        /\ meter \in [vr : 0..LastSeq, base : 0..LastSeq,
                      answering : 0..Exchanges, acked : 0..Segments]
    BY <1>4 DEF Init
  <2>2. Len(unread) <= written
    BY <1>1, <1>4, Zenon DEF Init
  <2> QED
    BY <1>4, <2>1, <2>2, Zenon DEF Init, Counters, Mail!Init, Mail!CallStates
<1> QED
  BY <1>2, <1>3, <1>5 DEF TypeInv

\* An entry into HdlcProcess with a frame.
LEMMA EntryType ==
  ASSUME TypeInv, NEW f \in Frame, EnterHdlcProcess(f)
  PROVE  /\ unread' \in Seq(Half) /\ send' \in Seq(Frame)
         /\ dataToSend' \in Seq(Frame) /\ dataSent' \in Seq(Frame)
         /\ rcv' \in Seq(UserData) /\ Len(send') = 1
         /\ retries' \in 0..LastCount /\ loop' \in BOOLEAN
         /\ retCode' \in BOOLEAN /\ Len(unread') <= written'
         /\ written' <= BufferSize /\ written' \in Nat /\ pc' = "send"
<1>1. <<f>> \in Seq(Frame) /\ Len(<<f>>) = 1
  BY SMT
<1>2. RetriesAtEntry \in 0..LastCount
  BY CounterAssumption, SMT DEF RetriesAtEntry
<1>3. <<>> \in Seq(Half) /\ <<>> \in Seq(Frame) /\ <<>> \in Seq(UserData)
      /\ Len(<<>>) = 0 /\ 0 <= 0 /\ 0 <= BufferSize /\ 0 \in Nat
  BY EmptySeq, SizeAssumption, SMT
<1> QED
  BY <1>1, <1>2, <1>3, Zenon DEF EnterHdlcProcess

\* What a frame of the meter adds to a whole answer.
LEMMA AnswerType ==
  ASSUME TypeInv, MeterReceives
  PROVE  meter' \in MeterType /\ toClient' \in Seq(Half)
         /\ toMeter' \in Seq(Frame)
<1> USE DEF MeterType
<1>1. toMeter # <<>> /\ toMeter \in Seq(Frame) /\ meter \in MeterType
      /\ toClient \in Seq(Half)
  BY DEF TypeInv, Streams, Counters, MeterReceives
<1>2. PICK f : f = Head(toMeter)
  OBVIOUS
<1>3. f \in Frame /\ Tail(toMeter) \in Seq(Frame)
  BY <1>1, <1>2, HeadTailProperties
<1> DEFINE repeated == f.type = "I" /\ f.sss # meter.vr
           m == CASE f.type = "SNRM" -> Connected
                  [] f.type = "I" /\ ~repeated -> Answering(f)
                  [] f.type = "RR" -> AckedBy(f)
                  [] OTHER -> meter
           answer == CASE f.type = "SNRM" -> <<Reply(m, "UA", 1, TRUE)>>
                       [] repeated /\ ~AnswersRepeats -> <<>>
                       [] ~repeated /\ m.answering # 0 /\ m.acked < Segments ->
                            Burst(m)
                       [] OTHER -> <<Reply(m, "RR", 0, TRUE)>>
<1>4. Connected \in MeterType
  BY SizeAssumption, SMT DEF Connected
<1>5. Answering(f) \in MeterType
  <2>1. NextSeq(meter.vr) \in 0..LastSeq /\ meter.base \in 0..LastSeq
        /\ SeqAfter(meter.base, Segments) \in 0..LastSeq
    <3>1. meter.vr \in 0..LastSeq /\ meter.base \in 0..LastSeq
      BY <1>1
    <3>2. meter.base \in Int /\ Segments \in Int
      BY <3>1, SizeAssumption, SMT
    <3> QED
      BY <3>1, <3>2, SequenceNumbers, Zenon
  <2>2. f.info[1] \in 0..Exchanges
    BY <1>3 DEF Frame, UserData
  <2>3. 0 \in 0..Segments
    BY SizeAssumption, SMT
  <2>4. (IF meter.answering = 0 THEN meter.base
           ELSE SeqAfter(meter.base, Segments)) \in 0..LastSeq
    BY <2>1
  <2> HIDE DEF MeterType
  <2> QED
    BY <2>1, <2>2, <2>3, <2>4, Zenon DEF Answering, MeterType
<1>6. AckedBy(f) \in MeterType
  <2> DEFINE sent == IF meter.acked + Window < Segments
                       THEN meter.acked + Window ELSE Segments
             fits == {k \in meter.acked..sent : SeqAfter(meter.base, k) = f.rrr}
             acked == IF fits = {} THEN meter.acked
                        ELSE CHOOSE k \in fits : TRUE
  <2>1. AckedBy(f) = [meter EXCEPT !.acked = acked]
    BY DEF AckedBy
  <2>2. \A k \in meter.acked..sent : k \in 0..Segments
    BY <1>1, SizeAssumption, SMT
  <2>3. \A k \in fits : k \in 0..Segments
    BY <2>2
  <2>4. fits # {} => (CHOOSE k \in fits : TRUE) \in fits
    BY Zenon
  <2> HIDE DEF fits
  <2>5. acked \in 0..Segments
    BY <1>1, <2>3, <2>4
  <2> HIDE DEF acked
  <2> QED
    BY <1>1, <2>1, <2>5
<1>7. m \in MeterType
  BY <1>1, <1>4, <1>5, <1>6, Zenon
<1>8. PICK n : n = m
  OBVIOUS
<1>9. answer \in Seq(Frame)
  <2>1. 1 \in 0..Segments /\ 0 \in 0..Segments
    BY SizeAssumption, SMT
  <2>2. Reply(n, "UA", 1, TRUE) \in Frame /\ Reply(n, "RR", 0, TRUE) \in Frame
    BY <1>7, <1>8, <2>1, ReplyType, Zenon
  <2>3. <<Reply(n, "UA", 1, TRUE)>> \in Seq(Frame)
        /\ <<Reply(n, "RR", 0, TRUE)>> \in Seq(Frame)
    BY <2>2, Singleton, Zenon
  <2>4. Burst(n) \in Seq(Frame)
    BY <1>7, <1>8, BurstType, Zenon
  <2>5. <<>> \in Seq(Frame)
    BY EmptySeq
  <2>6. f.type = "SNRM" => ~repeated /\ f.type # "RR" /\ f.type # "I"
    OBVIOUS
  <2>7. f.type = "SNRM" => m.answering = 0
    <3>1. Connected.answering = 0
      BY DEF Connected
    <3>2. f.type = "SNRM" => m = Connected
      BY <2>6, Zenon
    <3> QED
      BY <3>1, <3>2, Zenon
  <2> HIDE DEF m, repeated
  <2>8. CASE f.type = "SNRM"
    BY <1>8, <2>3, <2>8, <2>6, <2>7, Zenon
  <2>9. CASE f.type # "SNRM" /\ repeated /\ ~AnswersRepeats
    BY <2>5, <2>9, Zenon
  <2>10. CASE /\ f.type # "SNRM" /\ ~(repeated /\ ~AnswersRepeats)
             /\ ~repeated /\ m.answering # 0 /\ m.acked < Segments
    BY <1>8, <2>4, <2>10, Zenon
  <2>11. CASE /\ f.type # "SNRM" /\ ~(repeated /\ ~AnswersRepeats)
             /\ ~(~repeated /\ m.answering # 0 /\ m.acked < Segments)
    BY <1>8, <2>3, <2>11, Zenon
  <2> QED
    BY <2>8, <2>9, <2>10, <2>11, Zenon
<1>10. PICK a : a = answer
  OBVIOUS
<1>11. meter' = n /\ toClient' = toClient \o Bytes(a) /\ toMeter' = Tail(toMeter)
  BY <1>2, <1>8, <1>10, Zenon DEF MeterReceives
<1>12. Bytes(a) \in Seq(Half)
  BY <1>9, <1>10, BytesType
<1>13. toClient \o Bytes(a) \in Seq(Half)
  BY <1>1, <1>12, ConcatProperties
<1> QED
  BY <1>3, <1>7, <1>8, <1>11, <1>13, Zenon

\* Bytes taken from mData and appended to mRcvArray, echo removed or not.
LEMMA ReceiptType ==
  ASSUME TypeInv, Receive
  PROVE  /\ unread' \in Seq(Half) /\ Len(unread') <= written'
         /\ written' <= BufferSize /\ written' \in Nat
<1>1. unread \in Seq(Half) /\ mData \in Seq(Half) /\ Len(unread) <= written
      /\ written \in Nat
  BY DEF TypeInv, Streams, Counters
<1>2. unread \o mData \in Seq(Half)
      /\ Len(unread \o mData) = Len(unread) + Len(mData)
  BY <1>1, ConcatProperties
<1>3. PICK s : s = unread \o mData
  OBVIOUS
<1>4. unread' = s \/ unread' = <<>>
  BY <1>3, Zenon DEF Receive, WithoutEcho
<1>5. written' = written + Len(mData) /\ written + Len(mData) <= BufferSize
  BY DEF Receive
<1>6. Len(unread) \in Nat /\ Len(mData) \in Nat
  BY <1>1, LenProperties
<1>7. <<>> \in Seq(Half) /\ Len(<<>>) = 0
  BY EmptySeq
<1>8. Len(s) <= written' /\ 0 <= written' /\ written' \in Nat
  BY <1>1, <1>2, <1>3, <1>5, <1>6, SMT
<1> QED
  BY <1>2, <1>3, <1>4, <1>5, <1>7, <1>8, Zenon

\* A frame decoded: its field is appended and its bytes are jumped over.
LEMMA DecodeType ==
  ASSUME TypeInv, DecodeFrame
  PROVE  /\ unread[1].frame \in Frame
         /\ unread' = SubSeq(unread, 3, Len(unread))
         /\ unread' \in Seq(Half) /\ Len(unread') = Len(unread) - 2
         /\ rcv' \in Seq(UserData) /\ rcv' = Append(rcv, unread[1].frame.info)
         /\ dataToSend' \in Seq(Frame)
         /\ loop' \in BOOLEAN /\ retCode' \in BOOLEAN
         /\ pc' \in {"send", "end", "decode"}
         /\ hdlc' \in [type : {"SNRM", "I", "RR"}, sss : 0..LastSeq,
                       rrr : 0..LastSeq]
<1>1. unread \in Seq(Half) /\ Len(unread) \in Nat /\ Len(unread) >= 2
  BY LenProperties DEF TypeInv, Streams, DecodeFrame, HeadDecodes
<1>2. \A i \in 1..Len(unread) : unread[i] \in Half
  BY <1>1, ElementOfSeq
<1>3. unread[1].frame \in Frame
  BY <1>1, <1>2, SMT DEF Half
<1>4. PICK f : f = unread[1].frame
  OBVIOUS
<1>5. f \in Frame /\ f.info \in UserData /\ f.sss \in 0..LastSeq
  BY <1>3, <1>4 DEF Frame
<1>6. SubSeq(unread, 3, Len(unread)) \in Seq(Half)
      /\ Len(SubSeq(unread, 3, Len(unread))) = Len(unread) - 2
  <2>1. \A i \in 3..Len(unread) : unread[i] \in Half
    BY <1>1, <1>2, SMT
  <2>2. 3 \in Int /\ Len(unread) \in Int
    BY <1>1, SMT
  <2>3. SubSeq(unread, 3, Len(unread)) \in Seq(Half)
        /\ Len(SubSeq(unread, 3, Len(unread)))
             = IF 3 <= Len(unread) THEN Len(unread) - 3 + 1 ELSE 0
    BY <2>1, <2>2, SubSeqProperties
  <2>4. \A n \in Nat : n >= 2 => (IF 3 <= n THEN n - 3 + 1 ELSE 0) = n - 2
    BY SMT
  <2>5. PICK n \in Nat : n = Len(unread)
    BY <1>1
  <2>6. n >= 2
    BY <1>1, <2>5
  <2> QED
    BY <2>3, <2>4, <2>5, <2>6
<1>7. Append(rcv, f.info) \in Seq(UserData)
  BY <1>5, AppendProperties DEF TypeInv, Streams
<1>8. PICK rrr : rrr = IF f.type = "I" THEN NextSeq(f.sss) ELSE hdlc.rrr
  OBVIOUS
<1>9. hdlc \in [type : {"SNRM", "I", "RR"}, sss : 0..LastSeq, rrr : 0..LastSeq]
  BY DEF TypeInv, Counters
<1>10. rrr \in 0..LastSeq
  <2>1. NextSeq(f.sss) \in 0..LastSeq
    BY <1>5, SequenceNumbers
  <2> QED
    BY <1>8, <1>9, <2>1
<1>11. PICK more \in BOOLEAN :
         more = (~Final(f) /\ f.segmentation = 1 /\ f.poll_final = 1)
  OBVIOUS
<1>12. /\ rcv' = Append(rcv, f.info)
       /\ unread' = SubSeq(unread, 3, Len(unread))
       /\ hdlc' = [hdlc EXCEPT !.rrr = rrr, !.type = IF more THEN "RR" ELSE @]
       /\ dataToSend' = IF more THEN <<ReceiveReady(rrr)>> ELSE dataToSend
       /\ retCode' = (retCode \/ Final(f)) /\ loop' = (loop /\ ~Final(f))
       /\ pc' = IF unread' = <<>> THEN Turn(loop') ELSE "decode"
  BY <1>4, <1>8, <1>11, Zenon DEF DecodeFrame
<1>13. dataToSend' \in Seq(Frame)
  <2>1. exchange <= Exchanges
    BY DEF TypeInv, Called, InProcess, DecodeFrame
  <2>2. <<ReceiveReady(rrr)>> \in Seq(Frame)
    BY <1>10, <2>1, ReceiveReadyType, Singleton, Zenon
  <2> QED
    BY <1>12, <2>2 DEF TypeInv, Streams
<1>14. hdlc' \in [type : {"SNRM", "I", "RR"}, sss : 0..LastSeq, rrr : 0..LastSeq]
  BY <1>9, <1>10, <1>12
<1>15. pc' \in {"send", "end", "decode"}
  BY <1>12 DEF Turn
<1> QED
  BY <1>3, <1>4, <1>6, <1>7, <1>12, <1>13, <1>14, <1>15, Zenon
     DEF TypeInv, Counters

\* Every step keeps the types; one step of the proof per action.
LEMMA TypeStep == TypeInv /\ [Next]_vars => TypeInv'
<1> SUFFICES ASSUME TypeInv, [Next]_vars PROVE TypeInv'
  OBVIOUS
<1> USE DEF TypeInv
<1>1. /\ mData \in Seq(Half) /\ data \in Seq(Half) /\ unread \in Seq(Half)
      /\ toClient \in Seq(Half)
      /\ send \in Seq(Frame) /\ dataToSend \in Seq(Frame)
      /\ dataSent \in Seq(Frame) /\ toMeter \in Seq(Frame)
      /\ rcv \in Seq(UserData)
  BY DEF Streams
<1>2. /\ <<>> \in Seq(Half) /\ <<>> \in Seq(Frame) /\ Len(<<>>) = 0
  BY EmptySeq, Zenon
<1>3. /\ 0 \in Nat /\ 0 <= 0 /\ 0 <= BufferSize /\ 0 \in 0..LastCount
      /\ 0 \in 0..Exchanges
  BY SizeAssumption, CounterAssumption, SMT
<1>4. Counters
  OBVIOUS
<1>5. Called
  OBVIOUS
<1>6. \A n \in 0..LastCount : Count(n) \in 0..LastCount
  BY CountType, CounterAssumption, SMT
<1>7. CASE StartExchange
  <2>1. exchange \in 0..Exchanges
    BY <1>4, <1>7, SizeAssumption, SMT DEF Counters, StartExchange
  <2>2. PICK type \in {"SNRM", "I"} :
          EnterHdlcProcess(Command(type, exchange))
          /\ hdlc' = [hdlc EXCEPT !.type = type]
    BY <1>7, Zenon DEF StartExchange
  <2>3. Command(type, exchange) \in Frame
    BY <2>1, <2>2, CommandType, Zenon
  <2>4. PICK f \in Frame : EnterHdlcProcess(f)
    BY <2>2, <2>3, Zenon
  <2>5. hdlc' \in [type : {"SNRM", "I", "RR"}, sss : 0..LastSeq,
                   rrr : 0..LastSeq]
    BY <1>4, <2>2 DEF Counters
  <2>6. UNCHANGED <<mailbox, caller, line>>
    BY <1>7 DEF StartExchange
  <2>7. Streams'
    BY <1>1, <2>4, <2>6, EntryType, Zenon DEF Streams, mailbox, line
  <2>8. Called'
    BY <1>7, <2>4, <2>6, EntryType, Zenon DEF Called, caller, StartExchange
  <2>9. Counters'
    BY <1>4, <2>4, <2>5, <2>6, EntryType, Zenon
       DEF Counters, mailbox, caller, line
  <2> QED
    BY <2>7, <2>8, <2>9
<1>8. CASE NextExchange
  <2>1. /\ pc' = "idle" /\ exchange' = exchange + 1 /\ attempts' = 0
        /\ pc = "end" /\ UNCHANGED <<mailbox, process, hdlc, line>>
    BY <1>8 DEF NextExchange
  <2>2. exchange + 1 \in 0..Exchanges + 1
    BY <1>4, <1>5, <2>1, SizeAssumption, SMT DEF Counters, Called
  <2>3. Streams'
    BY <1>1, <2>1, Zenon DEF Streams, mailbox, process, line
  <2>4. Called'
    BY <2>1 DEF Called, InProcess
  <2>5. Counters'
    BY <1>3, <1>4, <2>1, <2>2, Zenon DEF Counters, mailbox, process, line
  <2> QED
    BY <2>3, <2>4, <2>5
<1>9. CASE RetryExchange
  <2>1. /\ attempts' = Count(attempts) /\ UNCHANGED <<mailbox, exchange, line>>
        /\ pc = "end"
    BY <1>9 DEF RetryExchange
  <2>2. exchange \in 0..Exchanges /\ send[1] \in Frame
    <3>1. exchange \in 0..Exchanges
      BY <1>4, <1>5, <2>1, SizeAssumption, SMT DEF Counters, Called
    <3>2. Len(send) = 1
      BY <1>5, <2>1 DEF Called
    <3>3. send[1] \in Frame
      <4>1. 1 \in 1..Len(send)
        BY <3>2, SMT
      <4> QED
        BY <1>1, <4>1, ElementOfSeq, Zenon
    <3> QED
      BY <3>1, <3>3
  <2>3. /\ \E f \in Frame : EnterHdlcProcess(f)
        /\ hdlc' = hdlc \/ hdlc' = [hdlc EXCEPT !.type = "SNRM"]
    <3>1. Command("SNRM", 0) \in Frame
      BY <1>3, CommandType
    <3> QED
      BY <1>9, <2>2, <3>1, Zenon DEF RetryExchange
  <2>4. hdlc' \in [type : {"SNRM", "I", "RR"}, sss : 0..LastSeq,
                   rrr : 0..LastSeq]
    BY <1>4, <2>3 DEF Counters
  <2>5. PICK f \in Frame : EnterHdlcProcess(f)
    BY <2>3
  <2>6. Streams'
    BY <1>1, <2>1, <2>5, EntryType, Zenon DEF Streams, mailbox, line
  <2>7. Called'
    BY <1>5, <2>1, <2>5, EntryType, Zenon DEF Called
  <2>8. attempts' \in 0..LastCount
    BY <1>4, <1>6, <2>1 DEF Counters
  <2>9. Counters'
    BY <1>4, <2>1, <2>4, <2>5, <2>8, EntryType, Zenon
       DEF Counters, mailbox, line
  <2> QED
    BY <2>6, <2>7, <2>9
<1>10. CASE GiveUp
  <2>1. pc' = "failed" /\ UNCHANGED <<mailbox, caller, process, hdlc, line>>
    BY <1>10 DEF GiveUp
  <2>2. Streams'
    BY <1>1, <2>1, Zenon DEF Streams, mailbox, process, line
  <2>3. Called'
    BY <2>1 DEF Called, InProcess
  <2>4. Counters'
    BY <1>4, <2>1, Zenon DEF Counters, mailbox, caller, process, line
  <2> QED
    BY <2>2, <2>3, <2>4
<1>11. CASE Transmit
  <2>1. /\ pc = "send" /\ pc' = "wait" /\ dataSent' = dataToSend
        /\ dataToSend' = <<>> /\ Mail!Call
        /\ UNCHANGED <<caller, send, retries, loop, retCode, rcv, unread,
                       written, meter, losses>>
    BY <1>11 DEF Transmit
  <2>2. hdlc' \in [type : {"SNRM", "I", "RR"}, sss : 0..LastSeq,
                   rrr : 0..LastSeq]
    <3>1. NextSeq(hdlc.sss) \in 0..LastSeq
      BY <1>4, SequenceNumbers DEF Counters
    <3>2. hdlc' = hdlc \/ hdlc' = [hdlc EXCEPT !.sss = NextSeq(hdlc.sss)]
      BY <1>11 DEF Transmit
    <3> QED
      BY <1>4, <3>1, <3>2 DEF Counters
  <2>3. toMeter \o dataToSend \in Seq(Frame)
        /\ toClient \o Bytes(dataToSend) \in Seq(Half)
    <3>1. Bytes(dataToSend) \in Seq(Half)
      BY <1>1, BytesType
    <3> QED
      BY <1>1, <3>1, ConcatProperties
  <2>4. toMeter' \in {toMeter, toMeter \o dataToSend}
        /\ toClient' \in {toClient, toClient \o Bytes(dataToSend)}
    BY <1>11, Zenon DEF Transmit
  <2>5. Streams'
    BY <1>1, <1>2, <2>1, <2>3, <2>4, Zenon DEF Streams, Mail!Call
  <2>6. Called'
    BY <1>5, <2>1, Zenon DEF Called, InProcess, caller
  <2>7. Counters'
    BY <1>4, <2>1, <2>2, Zenon DEF Counters, Mail!Call, Mail!CallStates, caller
  <2> QED
    BY <2>5, <2>6, <2>7
<1>12. CASE TransmitNothing
  <2>1. /\ pc = "send" /\ pc' = "wait" /\ loop' = FALSE /\ retCode' = FALSE
        /\ Mail!Call
        /\ UNCHANGED <<caller, send, dataToSend, dataSent, retries, rcv,
                       unread, written, hdlc, line>>
    BY <1>12 DEF TransmitNothing
  <2>2. Streams'
    BY <1>1, <1>2, <2>1, Zenon DEF Streams, Mail!Call, line
  <2>3. Called'
    BY <1>5, <2>1, Zenon DEF Called, InProcess, caller
  <2>4. Counters'
    BY <1>4, <2>1, Zenon DEF Counters, Mail!Call, Mail!CallStates, caller, line
  <2> QED
    BY <2>2, <2>3, <2>4
<1>13. CASE NothingToTransmit
  <2>1. /\ pc = "send" /\ pc' = "wait" /\ Mail!Call
        /\ UNCHANGED <<caller, process, hdlc, line>>
    BY <1>13 DEF NothingToTransmit
  <2>2. Streams'
    BY <1>1, <1>2, <2>1, Zenon DEF Streams, Mail!Call, line, process
  <2>3. Called'
    BY <1>5, <2>1, Zenon DEF Called, InProcess, caller, process
  <2>4. Counters'
    BY <1>4, <2>1, Zenon
       DEF Counters, Mail!Call, Mail!CallStates, caller, line, process
  <2> QED
    BY <2>2, <2>3, <2>4
<1>14. CASE Notified \/ Expires \/ Announce
  <2>1. /\ UNCHANGED <<pc, caller, process, hdlc, line>>
        /\ UNCHANGED <<mData, data>>
    BY <1>14, Zenon
       DEF Notified, Expires, Announce, Mail!Take, Mail!Expire, Mail!Ring
  <2>2. mSem' \in Nat /\ ringing' \in BOOLEAN /\ call' \in Mail!CallStates
    <3>1. mSem \in Nat /\ ringing \in BOOLEAN
      BY <1>4 DEF Counters
    <3>2. CASE Notified
      BY <3>1, <3>2, SMT DEF Notified, Mail!Take, Mail!CallStates
    <3>3. CASE Expires
      BY <3>1, <3>3, SMT DEF Expires, Mail!Expire, Mail!CallStates
    <3>4. CASE Announce
      <4>1. mSem' = mSem + 1 /\ ringing' = FALSE /\ call' = call
        BY <3>4 DEF Announce, Mail!Ring
      <4>2. mSem + 1 \in Nat
        BY <3>1, SMT
      <4> QED
        BY <1>4, <4>1, <4>2 DEF Counters
    <3> QED
      BY <1>14, <3>2, <3>3, <3>4
  <2>3. Streams'
    BY <1>1, <2>1, Zenon DEF Streams, line, process
  <2>4. Called'
    BY <1>5, <2>1, Zenon DEF Called, InProcess, caller, process
  <2>5. Counters'
    BY <1>4, <2>1, <2>2, Zenon DEF Counters, caller, line, process
  <2> QED
    BY <2>3, <2>4, <2>5
<1>15. CASE Receive
  <2>1. /\ pc = "wait" /\ pc' \in {"decode", "end"} /\ Mail!Drain
        /\ UNCHANGED <<caller, send, dataToSend, dataSent, retries, loop,
                       retCode, rcv, hdlc, line>>
    BY <1>15, Zenon DEF Receive
  <2>2. Streams'
    BY <1>1, <1>2, <1>15, <2>1, ReceiptType, Zenon DEF Streams, Mail!Drain, line
  <2>3. Called'
    BY <1>5, <2>1, Zenon DEF Called, InProcess, caller
  <2>4. pc' \in {"idle", "send", "wait", "decode", "end", "failed"}
    BY <2>1
  <2>5. Counters'
    BY <1>4, <1>15, <2>1, <2>4, ReceiptType, Zenon
       DEF Counters, Mail!Drain, Mail!CallStates, caller, line
  <2> QED
    BY <2>2, <2>3, <2>5
<1>16. CASE ReceiveOverflows
  <2>1. /\ pc = "wait" /\ pc' = "end" /\ Mail!Drain /\ loop' = FALSE
        /\ retCode' = FALSE
        /\ UNCHANGED <<caller, send, dataToSend, dataSent, retries, rcv,
                       unread, written, hdlc, line>>
    BY <1>16 DEF ReceiveOverflows
  <2>2. Streams'
    BY <1>1, <1>2, <2>1, Zenon DEF Streams, Mail!Drain, line
  <2>3. Called'
    BY <1>5, <2>1, Zenon DEF Called, InProcess, caller
  <2>4. Counters'
    BY <1>4, <2>1, Zenon
       DEF Counters, Mail!Drain, Mail!CallStates, caller, line
  <2> QED
    BY <2>2, <2>3, <2>4
<1>17. CASE DecodeNothing \/ DecodeReceiveReady
  <2>1. /\ pc = "decode" /\ pc' \in {"send", "end"}
        /\ dataToSend' \in {dataToSend, send}
        /\ UNCHANGED <<mailbox, caller, send, dataSent, retries, loop, retCode,
                       rcv, unread, written, hdlc, line>>
    BY <1>17, Zenon DEF DecodeNothing, DecodeReceiveReady, Turn, process
  <2>2. Streams'
    BY <1>1, <2>1, Zenon DEF Streams, mailbox, line
  <2>3. Called'
    BY <1>5, <2>1, Zenon DEF Called, InProcess, caller
  <2>4. pc' \in {"idle", "send", "wait", "decode", "end", "failed"}
    BY <2>1
  <2>5. Counters'
    BY <1>4, <2>1, <2>4, Zenon DEF Counters, mailbox, caller, line
  <2> QED
    BY <2>2, <2>3, <2>5
<1>18. CASE DecodeFrame
  <2>1. /\ pc = "decode"
        /\ UNCHANGED <<mailbox, caller, send, dataSent, retries, written, line>>
    BY <1>18 DEF DecodeFrame
  <2>2. Streams'
    BY <1>1, <1>18, <2>1, DecodeType, Zenon DEF Streams, mailbox, line
  <2>3. Called'
    BY <1>5, <1>18, <2>1, Zenon DEF Called, InProcess, caller
  <2>4. pc' \in {"idle", "send", "wait", "decode", "end", "failed"}
    BY <1>18, DecodeType
  <2>5. Len(unread') <= written'
    <3>1. Len(unread') = Len(unread) - 2 /\ written' = written
      BY <1>18, <2>1, DecodeType
    <3>2. Len(unread) \in Nat
      BY <1>1, LenProperties
    <3> QED
      BY <1>4, <3>1, <3>2, SMT DEF Counters
  <2>6. Counters'
    BY <1>4, <1>18, <2>1, <2>4, <2>5, DecodeType, Zenon
       DEF Counters, mailbox, caller, line
  <2> QED
    BY <2>2, <2>3, <2>6
<1>19. CASE TimeoutFails
  <2>1. /\ pc = "wait" /\ pc' = "end" /\ Mail!Drain /\ loop' = FALSE
        /\ retCode' = FALSE /\ retries' = Count(retries)
        /\ UNCHANGED <<caller, send, dataToSend, dataSent, rcv, unread,
                       written, hdlc, line>>
    BY <1>19 DEF TimeoutFails
  <2>2. Streams'
    BY <1>1, <1>2, <2>1, Zenon DEF Streams, Mail!Drain, line
  <2>3. Called'
    BY <1>5, <2>1, Zenon DEF Called, InProcess, caller
  <2>4. Counters'
    BY <1>4, <1>6, <2>1, Zenon
       DEF Counters, Mail!Drain, Mail!CallStates, caller, line
  <2> QED
    BY <2>2, <2>3, <2>4
<1>20. CASE TimeoutResyncs
  <2>1. /\ pc = "wait" /\ pc' \in {"send", "end"} /\ Mail!Drain
        /\ retries' = Count(retries) /\ unread' = <<>> /\ written' = 0
        /\ dataToSend' = <<ReceiveReady(hdlc.rrr)>>
        /\ hdlc' = [hdlc EXCEPT !.type = "RR"]
        /\ UNCHANGED <<caller, send, dataSent, loop, retCode, rcv, line>>
    BY <1>20, Zenon DEF TimeoutResyncs, LeftOnTimeout, Turn
  <2>2. <<ReceiveReady(hdlc.rrr)>> \in Seq(Frame)
    <3>1. exchange <= Exchanges /\ hdlc.rrr \in 0..LastSeq
      BY <1>4, <1>5, <2>1 DEF Called, InProcess, Counters
    <3> QED
      BY <3>1, ReceiveReadyType, Singleton, Zenon
  <2>3. Streams'
    BY <1>1, <1>2, <2>1, <2>2, Zenon DEF Streams, Mail!Drain, line
  <2>4. Called'
    BY <1>5, <2>1, Zenon DEF Called, InProcess, caller
  <2>5. pc' \in {"idle", "send", "wait", "decode", "end", "failed"}
    BY <2>1
  <2>6. hdlc' \in [type : {"SNRM", "I", "RR"}, sss : 0..LastSeq,
                   rrr : 0..LastSeq]
    BY <1>4, <2>1 DEF Counters
  <2>7. Counters'
    BY <1>2, <1>3, <1>4, <1>6, <2>1, <2>5, <2>6, Zenon
       DEF Counters, Mail!Drain, Mail!CallStates, caller, line
  <2> QED
    BY <2>3, <2>4, <2>7
<1>21. CASE Arrive
  <2>1. PICK n \in 1..Len(toClient) :
          /\ Mail!Put(SubSeq(toClient, 1, n))
          /\ toClient' = SubSeq(toClient, n + 1, Len(toClient))
    BY <1>21 DEF Arrive
  <2>2. UNCHANGED <<pc, caller, process, hdlc, toMeter, meter, losses>>
    BY <1>21 DEF Arrive
  <2>3. SubSeq(toClient, 1, n) \in Seq(Half)
        /\ SubSeq(toClient, n + 1, Len(toClient)) \in Seq(Half)
    <3>1. Len(toClient) \in Nat /\ \A i \in 1..Len(toClient) : toClient[i] \in Half
      BY <1>1, LenProperties, ElementOfSeq
    <3>2. \A i \in 1..n : toClient[i] \in Half
      BY <2>1, <3>1, SMT
    <3>3. \A i \in n + 1..Len(toClient) : toClient[i] \in Half
      BY <2>1, <3>1, SMT
    <3>4. 1 \in Int /\ n \in Int /\ n + 1 \in Int /\ Len(toClient) \in Int
      BY <2>1, <3>1, SMT
    <3> QED
      BY <3>2, <3>3, <3>4, SubSeqProperties
  <2>4. mData' = mData \o SubSeq(toClient, 1, n) /\ data' = data
    BY <2>1 DEF Mail!Put
  <2>5. mData \o SubSeq(toClient, 1, n) \in Seq(Half)
    BY <1>1, <2>3, ConcatProperties
  <2>6. Streams'
    BY <1>1, <2>1, <2>2, <2>3, <2>4, <2>5, Zenon DEF Streams, process
  <2>7. Called'
    BY <1>5, <2>2, Zenon DEF Called, InProcess, caller, process
  <2>8. Counters'
    BY <1>4, <2>1, <2>2, ZenonT(60)
       DEF Counters, Mail!Put, Mail!CallStates, caller, process
  <2> QED
    BY <2>6, <2>7, <2>8
<1>22. CASE MeterReceives
  <2>1. UNCHANGED <<mailbox, pc, caller, process, hdlc, losses>>
    BY <1>22 DEF MeterReceives
  <2>2. Streams'
    BY <1>1, <1>22, <2>1, AnswerType, Zenon DEF Streams, mailbox, process
  <2>3. Called'
    BY <1>5, <2>1, Zenon DEF Called, InProcess, caller, process
  <2>4. Counters'
    BY <1>4, <1>22, <2>1, AnswerType, Zenon
       DEF Counters, MeterType, mailbox, caller, process
  <2> QED
    BY <2>2, <2>3, <2>4
<1>23. CASE LoseRequest \/ LoseAnswer
  <2>1. /\ losses < MaxLosses /\ losses' = losses + 1
        /\ UNCHANGED <<mailbox, pc, caller, process, hdlc, meter>>
        /\ \/ toMeter # <<>> /\ toMeter' = Tail(toMeter) /\ toClient' = toClient
           \/ toClient # <<>> /\ toClient' = Tail(toClient) /\ toMeter' = toMeter
    BY <1>23, Zenon DEF LoseRequest, LoseAnswer
  <2>2. toMeter' \in Seq(Frame) /\ toClient' \in Seq(Half)
    BY <1>1, <2>1, HeadTailProperties
  <2>3. losses' \in 0..MaxLosses
    BY <1>4, <2>1, SizeAssumption, SMT DEF Counters
  <2>4. Streams'
    BY <1>1, <2>1, <2>2, Zenon DEF Streams, mailbox, process
  <2>5. Called'
    BY <1>5, <2>1, Zenon DEF Called, InProcess, caller, process
  <2>6. Counters'
    BY <1>4, <2>1, <2>3, Zenon DEF Counters, mailbox, caller, process
  <2> QED
    BY <2>4, <2>5, <2>6
<1>24. CASE Finished \/ UNCHANGED vars
  <2>1. UNCHANGED <<mailbox, pc, caller, process, hdlc, line>>
    BY <1>24, Zenon DEF Finished, vars
  <2>2. Streams'
    BY <1>1, <2>1, Zenon DEF Streams, mailbox, process, line
  <2>3. Called'
    BY <1>5, <2>1, Zenon DEF Called, InProcess, caller, process
  <2>4. Counters'
    BY <1>4, <2>1, Zenon DEF Counters, mailbox, caller, process, line
  <2> QED
    BY <2>2, <2>3, <2>4
<1> QED
  BY <1>7, <1>8, <1>9, <1>10, <1>11, <1>12, <1>13, <1>14, <1>15, <1>16, <1>17,
     <1>18, <1>19, <1>20, <1>21, <1>22, <1>23, <1>24, Zenon DEF Next, Main

\* TypeInv implies what the runs check.
LEMMA TypeIsOK == TypeInv => TypeOK
<1> SUFFICES ASSUME TypeInv PROVE TypeOK
  OBVIOUS
<1>1. \A bytes \in {mData, data, unread, toClient} :
        \A i \in DOMAIN bytes : bytes[i] \in Half
  BY LenProperties DEF TypeInv, Streams
<1>2. \A frames \in {send, dataToSend, dataSent, toMeter} :
        \A i \in DOMAIN frames : frames[i] \in Frame
  BY LenProperties DEF TypeInv, Streams
<1>3. \A i \in DOMAIN rcv : rcv[i] \in UserData
  BY LenProperties DEF TypeInv, Streams
<1> QED
  BY <1>1, <1>2, <1>3, Zenon DEF TypeInv, Counters, TypeOK

\* TypeInv is an invariant.
LEMMA Typed == Spec => []TypeInv
BY TypeInit, TypeStep, PTL DEF Spec

\* The buffer of HdlcProcess is never written past its end, and every frame,
\* sequence number and counter keeps its range: whatever the line loses, the
\* optical head echoes or Send returns (lib/CosemClient.cpp:102-283).
THEOREM ExchangeTypeCorrect == Spec => []TypeOK
BY Typed, TypeIsOK, PTL

-----------------------------------------------------------------------------
(* Exchange 0                                                              *)

Snrms == {f \in Frame : f.type = "SNRM" /\ f.from = "client"}

\* A half of what exchange 0 may find in mRcvArray: of a frame of the client,
\* or of a UA.
UaHalves ==
  {h \in Half : \/ h.frame.from = "client"
               \/ /\ h.frame.type = "UA" /\ h.frame.from = "meter"
                  /\ Final(h.frame)}

\* Nothing but an SNRM goes out, and nothing but a UA can come back; the
\* counter stands at its limit.
Connects ==
  exchange = 0 =>
    /\ hdlc.type = "SNRM"
    /\ toMeter \in Seq(Snrms)
    /\ InProcess \/ pc = "end" => send \in Seq(Snrms) /\ dataToSend \in Seq(Snrms)
    /\ mData \in Seq(UaHalves) /\ toClient \in Seq(UaHalves)
    /\ unread \in Seq(UaHalves)
    /\ InProcess => retries = Retries

\* No frame is under way at the start.
LEMMA ConnectsInit == Init => Connects
<1> SUFFICES ASSUME Init PROVE Connects
  OBVIOUS
<1>1. <<>> \in Seq(Snrms) /\ <<>> \in Seq(UaHalves)
  BY EmptySeq, Zenon
<1>2. hdlc.type = "SNRM"
  BY DEF Init
<1> QED
  BY <1>1, <1>2, Zenon DEF Init, Connects, InProcess, Mail!Init

\* The command of exchange 0 is an SNRM.
LEMMA SnrmCommand ==
  ASSUME TypeInv
  PROVE  Command("SNRM", 0) \in Snrms
<1>1. Command("SNRM", 0) \in Frame
  <2>1. 0 \in 0..Exchanges
    BY SizeAssumption, SMT
  <2> QED
    BY <2>1, CommandType
<1> QED
  BY <1>1 DEF Snrms, Command

\* The bytes of an SNRM, echoed, and those of the UA that answers it.
LEMMA ConnectBytes ==
  /\ \A f \in Seq(Snrms) : Bytes(f) \in Seq(UaHalves)
  /\ Bytes(<<Reply(Connected, "UA", 1, TRUE)>>) \in Seq(UaHalves)
<1>1. \A x \in Snrms : \A k \in {1, 2} : [frame |-> x, half |-> k] \in UaHalves
  BY DEF Snrms, UaHalves, Half
<1> DEFINE ua == Reply(Connected, "UA", 1, TRUE)
<1>2. ua \in Frame
  <2>1. Connected \in MeterType /\ 1 \in 0..Segments
    BY SizeAssumption, SMT DEF Connected, MeterType
  <2> QED
    BY <2>1, ReplyType, Zenon
<1>3. ua.type = "UA" /\ ua.from = "meter" /\ Final(ua)
  BY DEF Reply, Final
<1> HIDE DEF ua
<1>4. \A k \in {1, 2} : [frame |-> ua, half |-> k] \in UaHalves
  BY <1>2, <1>3 DEF UaHalves, Half
<1>5. <<ua>> \in Seq({ua})
  BY Singleton, Zenon
<1>6. Bytes(<<ua>>) \in Seq(UaHalves)
  BY <1>4, <1>5, BytesIn, Zenon
<1> QED
  BY <1>1, <1>6, BytesIn, Zenon DEF ua

\* Every step keeps Connects: while exchange 0 runs no other frame is sent.
LEMMA ConnectsStep ==
  ASSUME Retries < LastCount, TypeInv, TypeInv', Connects, [Next]_vars
  PROVE  Connects'
<1> SUFFICES ASSUME exchange' = 0 PROVE Connects'
  BY Zenon DEF Connects
<1>1. <<>> \in Seq(Snrms) /\ <<>> \in Seq(UaHalves)
  BY EmptySeq, Zenon
<1>2. ASSUME exchange = 0
      PROVE  /\ hdlc.type = "SNRM" /\ toMeter \in Seq(Snrms)
             /\ mData \in Seq(UaHalves) /\ toClient \in Seq(UaHalves)
             /\ unread \in Seq(UaHalves)
  BY <1>2, Zenon DEF Connects
<1>3. CASE StartExchange \/ RetryExchange
  <2>1. exchange = 0 /\ UNCHANGED <<mailbox, line>>
    BY <1>3, Zenon DEF StartExchange, RetryExchange, caller
  <2>2. EnterHdlcProcess(Command("SNRM", 0)) /\ hdlc' = [hdlc EXCEPT !.type = "SNRM"]
    BY <1>3, <2>1, Zenon DEF StartExchange, RetryExchange
  <2>3. PICK f \in Snrms : EnterHdlcProcess(f)
    BY <2>2, SnrmCommand
  <2>4. <<f>> \in Seq(Snrms)
    BY Singleton, Zenon
  <2>5. hdlc'.type = "SNRM"
    BY <2>2 DEF TypeInv, Counters
  <2>6. retries' = Retries
    BY <2>1, <2>3, Zenon DEF EnterHdlcProcess, RetriesAtEntry
  <2> QED
    BY <1>1, <1>2, <2>1, <2>3, <2>4, <2>5, <2>6, Zenon
       DEF Connects, EnterHdlcProcess, mailbox, line
<1>4. CASE NextExchange
  <2>1. exchange' = exchange + 1 /\ exchange \in Nat
    BY <1>4, SizeAssumption, SMT DEF NextExchange, TypeInv, Counters
  <2> QED
    BY <2>1, SMT
<1>5. CASE GiveUp
  BY <1>2, <1>5, Zenon DEF GiveUp, Connects, InProcess, mailbox, caller, process, line
<1>6. CASE Transmit
  <2>1. exchange = 0 /\ pc = "send" /\ pc' = "wait"
        /\ UNCHANGED <<send, retries, unread>> /\ dataToSend' = <<>>
        /\ mData' = mData
    BY <1>6, Zenon DEF Transmit, caller, Mail!Call
  <2>2. dataToSend \in Seq(Snrms) /\ send \in Seq(Snrms) /\ retries = Retries
    BY <2>1, Zenon DEF Connects, InProcess
  <2>3. hdlc' = hdlc
    BY <1>2, <1>6, <2>1, Zenon DEF Transmit, Numbered
  <2>4. Bytes(dataToSend) \in Seq(UaHalves)
    BY <2>2, ConnectBytes
  <2>5. toMeter \o dataToSend \in Seq(Snrms)
        /\ toClient \o Bytes(dataToSend) \in Seq(UaHalves)
    BY <1>2, <2>1, <2>2, <2>4, ConcatProperties
  <2>6. toMeter' \in {toMeter, toMeter \o dataToSend}
        /\ toClient' \in {toClient, toClient \o Bytes(dataToSend)}
    BY <1>6, Zenon DEF Transmit
  <2> QED
    BY <1>1, <1>2, <2>1, <2>2, <2>3, <2>5, <2>6, Zenon DEF Connects
<1>7. CASE TransmitNothing \/ NothingToTransmit \/ DecodeNothing \/ DecodeReceiveReady
  <2>1. /\ exchange = 0 /\ InProcess /\ pc' \in {"send", "wait", "end"}
        /\ dataToSend' \in {dataToSend, send}
        /\ UNCHANGED <<send, retries, unread, mData, hdlc, line>>
    BY <1>7, Zenon
       DEF TransmitNothing, NothingToTransmit, DecodeNothing, DecodeReceiveReady,
           InProcess, Mail!Call, mailbox, caller, process, Turn
  <2>2. send \in Seq(Snrms) /\ dataToSend \in Seq(Snrms) /\ retries = Retries
    BY <2>1, Zenon DEF Connects
  <2> QED
    BY <1>2, <2>1, <2>2, Zenon DEF Connects, line
<1>8. CASE Notified \/ Expires \/ Announce \/ Finished \/ UNCHANGED vars
  <2>1. UNCHANGED <<pc, caller, process, hdlc, line, mData>>
    BY <1>8, Zenon
       DEF Notified, Expires, Announce, Finished, vars, Mail!Take, Mail!Expire,
           Mail!Ring, mailbox
  <2> QED
    BY <1>2, <2>1, Zenon DEF Connects, InProcess, caller, process, line
<1>9. CASE Receive
  <2>1. /\ exchange = 0 /\ pc = "wait" /\ pc' \in {"decode", "end"}
        /\ mData' = <<>> /\ unread' \in {<<>>, unread \o mData}
        /\ UNCHANGED <<send, dataToSend, retries, hdlc, line>>
    BY <1>9, Zenon DEF Receive, Mail!Drain, WithoutEcho, caller
  <2>2. send \in Seq(Snrms) /\ dataToSend \in Seq(Snrms) /\ retries = Retries
    BY <2>1, Zenon DEF Connects, InProcess
  <2>3. unread \o mData \in Seq(UaHalves)
    BY <1>2, <2>1, ConcatProperties
  <2> QED
    BY <1>1, <1>2, <2>1, <2>2, <2>3, Zenon DEF Connects, line
<1>10. CASE ReceiveOverflows \/ TimeoutFails
  <2>1. /\ exchange = 0 /\ pc = "wait" /\ pc' = "end" /\ mData' = <<>>
        /\ UNCHANGED <<send, dataToSend, unread, hdlc, line>>
    BY <1>10, Zenon DEF ReceiveOverflows, TimeoutFails, Mail!Drain, caller
  <2>2. send \in Seq(Snrms) /\ dataToSend \in Seq(Snrms)
    BY <2>1, Zenon DEF Connects, InProcess
  <2>3. ~InProcess'
    BY <2>1 DEF InProcess
  <2> QED
    BY <1>1, <1>2, <2>1, <2>2, <2>3, Zenon DEF Connects, line
<1>11. CASE DecodeFrame
  <2>1. /\ exchange = 0 /\ pc = "decode" /\ HeadDecodes
        /\ UNCHANGED <<mData, send, retries, line>>
    BY <1>11, Zenon DEF DecodeFrame, mailbox, caller
  <2>2. send \in Seq(Snrms) /\ dataToSend \in Seq(Snrms) /\ retries = Retries
    BY <2>1, Zenon DEF Connects, InProcess
  <2>3. Len(unread) \in Nat /\ Len(unread) >= 2
        /\ \A i \in 1..Len(unread) : unread[i] \in UaHalves
    BY <1>2, <2>1, LenProperties DEF HeadDecodes
  <2>4. Final(unread[1].frame)
    <3>1. unread[1] \in UaHalves
      BY <2>3, SMT
    <3> QED
      BY <2>1, <3>1 DEF UaHalves, HeadDecodes
  <2>5. dataToSend' = dataToSend /\ hdlc'.type = hdlc.type
    <3>1. PICK r : hdlc' = [hdlc EXCEPT !.rrr = r, !.type = hdlc.type]
      BY <1>11, <2>4, Zenon DEF DecodeFrame
    <3>2. hdlc'.type = hdlc.type
      BY <3>1 DEF TypeInv, Counters
    <3>3. dataToSend' = dataToSend
      BY <1>11, <2>4, Zenon DEF DecodeFrame
    <3> QED
      BY <3>2, <3>3
  <2>6. unread' \in Seq(UaHalves)
    <3>1. \A i \in 3..Len(unread) : unread[i] \in UaHalves
      BY <2>3, SMT
    <3>2. 3 \in Int /\ Len(unread) \in Int
      BY <2>3, SMT
    <3>3. SubSeq(unread, 3, Len(unread)) \in Seq(UaHalves)
      BY <3>1, <3>2, SubSeqProperties
    <3> QED
      BY <1>11, <3>3, DecodeType
  <2> QED
    BY <1>2, <2>1, <2>2, <2>5, <2>6, Zenon DEF Connects, line
<1>12. CASE TimeoutResyncs
  <2>1. exchange = 0 /\ pc = "wait" /\ Count(retries) <= Retries
    BY <1>12, Zenon DEF TimeoutResyncs, caller
  <2>2. retries = Retries
    BY <2>1, Zenon DEF Connects, InProcess
  <2>3. Retries \in Nat /\ LastCount \in Nat /\ Retries < LastCount
    BY CounterAssumption, SMT
  <2>4. Count(Retries) = Retries + 1
    BY <2>3, SMT DEF Count
  <2> QED
    BY <2>1, <2>2, <2>3, <2>4, SMT
<1>13. CASE Arrive
  <2>1. PICK n \in 1..Len(toClient) :
          /\ Mail!Put(SubSeq(toClient, 1, n))
          /\ toClient' = SubSeq(toClient, n + 1, Len(toClient))
    BY <1>13 DEF Arrive
  <2>2. exchange = 0 /\ UNCHANGED <<pc, caller, process, hdlc, toMeter>>
    BY <1>13, Zenon DEF Arrive, caller
  <2>3. Len(toClient) \in Nat /\ \A i \in 1..Len(toClient) : toClient[i] \in UaHalves
    BY <1>2, <2>2, LenProperties
  <2>4. SubSeq(toClient, 1, n) \in Seq(UaHalves)
        /\ SubSeq(toClient, n + 1, Len(toClient)) \in Seq(UaHalves)
    <3>1. \A i \in 1..n : toClient[i] \in UaHalves
      BY <2>1, <2>3, SMT
    <3>2. \A i \in n + 1..Len(toClient) : toClient[i] \in UaHalves
      BY <2>1, <2>3, SMT
    <3>3. 1 \in Int /\ n \in Int /\ n + 1 \in Int /\ Len(toClient) \in Int
      BY <2>1, <2>3, SMT
    <3> QED
      BY <3>1, <3>2, <3>3, SubSeqProperties
  <2>5. mData' = mData \o SubSeq(toClient, 1, n)
    BY <2>1 DEF Mail!Put
  <2>6. mData' \in Seq(UaHalves)
    BY <1>2, <2>2, <2>4, <2>5, ConcatProperties
  <2> QED
    BY <1>2, <2>1, <2>2, <2>4, <2>6, Zenon DEF Connects, InProcess, caller, process
<1>14. CASE MeterReceives
  <2>1. exchange = 0 /\ UNCHANGED <<mailbox, pc, process, hdlc>>
        /\ toMeter # <<>> /\ toMeter' = Tail(toMeter)
    BY <1>14, Zenon DEF MeterReceives, caller
  <2>2. Head(toMeter) \in Snrms /\ toMeter' \in Seq(Snrms)
    BY <1>2, <2>1, HeadTailProperties
  <2>3. PICK f : f = Head(toMeter)
    OBVIOUS
  <2>4. f.type = "SNRM" /\ f.type # "I" /\ f.type # "RR"
    BY <2>2, <2>3 DEF Snrms
  <2>5. Connected.answering = 0
    BY DEF Connected
  <2>6. toClient' = toClient \o Bytes(<<Reply(Connected, "UA", 1, TRUE)>>)
    BY <1>14, <2>3, <2>4, <2>5, Zenon DEF MeterReceives
  <2>7. toClient' \in Seq(UaHalves)
    BY <1>2, <2>1, <2>6, ConnectBytes, ConcatProperties
  <2> QED
    BY <1>2, <2>1, <2>2, <2>7, Zenon DEF Connects, InProcess, mailbox, process
<1>15. CASE LoseRequest \/ LoseAnswer
  <2>1. /\ UNCHANGED <<mailbox, pc, exchange, process, hdlc>>
        /\ \/ toMeter # <<>> /\ toMeter' = Tail(toMeter) /\ toClient' = toClient
           \/ toClient # <<>> /\ toClient' = Tail(toClient) /\ toMeter' = toMeter
    BY <1>15, Zenon DEF LoseRequest, LoseAnswer, caller
  <2>2. toMeter' \in Seq(Snrms) /\ toClient' \in Seq(UaHalves)
    BY <1>2, <2>1, HeadTailProperties
  <2> QED
    BY <1>2, <2>1, <2>2, Zenon DEF Connects, InProcess, mailbox, process
<1> QED
  BY <1>3, <1>4, <1>5, <1>6, <1>7, <1>8, <1>9, <1>10, <1>11, <1>12, <1>13,
     <1>14, <1>15, Zenon DEF Next, Main

\* TypeInv and Connects together are an invariant.
LEMMA Connecting ==
  Retries < LastCount => (Spec => [](TypeInv /\ Connects))
<1> SUFFICES ASSUME Retries < LastCount PROVE Spec => [](TypeInv /\ Connects)
  OBVIOUS
<1>1. TypeInv /\ TypeInv' /\ Connects /\ [Next]_vars => Connects'
  BY ConnectsStep
<1> QED
  BY <1>1, TypeInit, TypeStep, ConnectsInit, PTL DEF Spec

\* As long as the saturated counter can still be counted up, the exchange of
\* ConnectHdlc never falls back on an RR: a timeout ends it
\* (lib/CosemClient.cpp:113-122, 262-266).
THEOREM ConnectIsPlain == Retries < LastCount => (Spec => []ConnectNeverResyncs)
<1> SUFFICES ASSUME Retries < LastCount PROVE Spec => []ConnectNeverResyncs
  OBVIOUS
<1>1. TypeInv /\ Connects => ConnectNeverResyncs
  BY DEF Connects, ConnectNeverResyncs
<1> QED
  BY <1>1, Connecting, PTL

-----------------------------------------------------------------------------
(* The bytes on their way to HdlcProcess                                   *)

\* A half that is no part of an answer: the client's own, or of an RR.
Others == {h \in Half : h.frame.from = "client" \/ h.frame.type = "RR"}

\* What HdlcProcess has not decoded yet; between its calls mRcvArray is void.
Stream ==
  IF InProcess THEN unread \o (mData \o toClient) ELSE mData \o toClient
Quiet == Stream \in Seq(Others)

\* Of an answer, the halves from number low on are in s, in their order, with
\* nothing between them and nothing missing at the end.
From(s, answer, low) ==
  \E off \in Int :
    /\ off < low /\ Len(answer) <= Len(s) + off
    /\ \A p \in 1..Len(s) :
         IF low <= p + off /\ p + off <= Len(answer)
           THEN s[p] = answer[p + off] ELSE s[p] \in Others

\* Timely: a timeout finds nothing on its way.
Silent == toMeter = <<>> /\ toClient = <<>> /\ mData = <<>>
OnTime ==
  /\ mData # <<>> => ringing \/ mSem > 0 \/ call = "notified"
  /\ call = "expired" => Silent /\ ~ringing

-----------------------------------------------------------------------------
(* Exchange 0: one SNRM at a time, and never more than it, its echo and the *)
(* UA in mRcvArray                                                         *)

UaFrame == Reply(Connected, "UA", 1, TRUE)
Ua == Bytes(<<UaFrame>>)

Greeting ==
  exchange = 0 /\ pc # "failed" =>
    /\ meter = Connected /\ hdlc = [type |-> "SNRM", sss |-> 0, rrr |-> 0]
    /\ pc = "idle" \/ (pc = "end" /\ ~retCode) => Silent
    /\ pc # "idle" =>
         IF retCode THEN toMeter = <<>> /\ Quiet /\ rcv = <<<<0, 1>>>>
                    ELSE rcv = <<>>
    /\ InProcess =>
         /\ retCode => pc = "decode" /\ ~loop
         /\ pc = "send" => loop
         /\ loop \/ retCode \/ dataToSend # <<>>
         /\ loop /\ pc # "send" => dataToSend = <<>>
         /\ dataToSend \in {<<>>, send} /\ dataSent \in Seq(Snrms)
         /\ dataToSend # <<>> => Silent /\ written = 0 /\ pc # "decode"
                                 /\ unread = <<>>
         /\ written + Len(mData) + Len(toClient) + 2 * Len(toMeter) <= 4
         /\ Quiet \/ (toMeter = <<>> /\ From(Stream, Ua, 1))
         /\ Len(toMeter) <= 1

-----------------------------------------------------------------------------
(* The other exchanges                                                     *)

\* How far a meter has sent its answer.
Sent(m) ==
  IF m.acked + Window < Segments THEN m.acked + Window ELSE Segments
OnTheLine == Bytes(Burst(meter))

\* The client's RRs on their way to the meter, and the one that is to be sent.
Asks == {i \in 1..Len(toMeter) : toMeter[i].type = "RR"}
AskIsNext == InProcess /\ dataToSend # <<>> /\ dataToSend[1].type = "RR"

\* An I frame, which the meter takes for a repetition once it has answered it;
\* an RR, which asks for what HdlcProcess waits for.
Request(f) ==
  /\ f.type = "I" /\ f.from = "client"
  /\ f.info[1] \in {meter.answering, exchange}
  /\ f.info[1] = meter.answering => NextSeq(f.sss) = meter.vr
Ask(f) == f.type = "RR" /\ f.from = "client" /\ f.rrr = hdlc.rrr
Current(f) == f.type = "I" /\ f.info[1] = exchange
Clients == {f \in Frame : f.from = "client"}

Commands ==
  /\ meter.answering \in {exchange - 1, exchange}
  /\ pc = "idle" => meter.answering # exchange
  /\ pc # "idle" => Request(send[1]) /\ Current(send[1])
  /\ \A i \in 1..Len(toMeter) : Request(toMeter[i]) \/ Ask(toMeter[i])
  /\ \A i \in 1..Len(toMeter) :
       Current(toMeter[i]) => pc # "idle" /\ toMeter[i] = send[1]
  /\ \A i, j \in 1..Len(toMeter) :
       i <= j /\ Current(toMeter[i]) /\ toMeter[j].type = "I"
         => Current(toMeter[j])
  /\ \A i, j \in Asks : i = j

Outgoing ==
  InProcess =>
    /\ \/ dataToSend \in {<<>>, send}
       \/ Len(dataToSend) = 1 /\ Ask(dataToSend[1])
    /\ dataSent \in Seq(Clients)
    /\ AskIsNext => Asks = {}

\* The number HdlcProcess waits for is within what the meter has sent.
Received ==
  IF meter.answering = exchange
    THEN \E g \in meter.acked..Sent(meter) : hdlc.rrr = SeqAfter(meter.base, g)
    ELSE IF meter.answering = 0
      THEN meter.acked = 0 /\ meter.base = 0 /\ hdlc.rrr = 0
      ELSE Sent(meter) = Segments /\ hdlc.rrr = SeqAfter(meter.base, Segments)

\* One thing at a time: a request the meter has not seen, an RR, or frames of
\* an answer.
OneAtATime ==
  /\ \/ Quiet
     \/ /\ meter.answering = exchange /\ Asks = {} /\ ~AskIsNext
        /\ \E low \in Nat \ {0} : From(Stream, OnTheLine, low)
  /\ meter.answering # exchange =>
       /\ pc # "idle" => rcv = <<>>
       /\ Asks \subseteq {1} /\ (AskIsNext => toMeter = <<>>)

\* What has been received since the first segment is all of it so far.
Begun == rcv # <<>> /\ rcv[1] = <<exchange, 1>>
InOrder ==
  /\ rcv # <<>> => rcv[1][1] = exchange
  /\ retCode => ~loop /\ pc \in {"decode", "end"} /\ Asks = {} /\ rcv # <<>>
  /\ Begun =>
       /\ \A i \in 1..Len(rcv) : rcv[i] = <<exchange, i>>
       /\ Len(rcv) \in meter.acked..Sent(meter)
       /\ hdlc.rrr = SeqAfter(meter.base, Len(rcv))
       /\ InProcess =>
            Quiet \/ From(Stream, OnTheLine, 2 * (Len(rcv) - meter.acked) + 1)
       /\ retCode => Len(rcv) = Segments /\ Quiet

Asking ==
  exchange > 0 /\ pc # "failed" =>
    /\ Commands /\ Outgoing /\ Received /\ OneAtATime
    /\ pc # "idle" => InOrder

-----------------------------------------------------------------------------
(* Lemmas about streams                                                    *)

\* What follows the answer may be followed by anything else.
LEMMA FromMore ==
  ASSUME NEW a \in Seq(Half), NEW b \in Seq(Others), NEW B, Len(B) \in Nat,
         NEW low \in Int, From(a, B, low)
  PROVE  From(a \o b, B, low)
<1>1. PICK off \in Int :
        /\ off < low /\ Len(B) <= Len(a) + off
        /\ \A p \in 1..Len(a) :
             IF low <= p + off /\ p + off <= Len(B)
               THEN a[p] = B[p + off] ELSE a[p] \in Others
  BY DEF From
<1>2. b \in Seq(Half)
  BY SeqMonotonic, Zenon DEF Others
<1>3. /\ Len(a) \in Nat /\ Len(b) \in Nat /\ Len(a \o b) = Len(a) + Len(b)
      /\ \A p \in 1..Len(a) + Len(b) :
           (a \o b)[p] = IF p <= Len(a) THEN a[p] ELSE b[p - Len(a)]
      /\ \A p \in 1..Len(b) : b[p] \in Others
  BY <1>2, LenProperties, ConcatProperties, ElementOfSeq
<1>4. Len(B) <= Len(a \o b) + off
  BY <1>1, <1>3, SMT
<1>5. ASSUME NEW p \in 1..Len(a \o b)
      PROVE  IF low <= p + off /\ p + off <= Len(B)
               THEN (a \o b)[p] = B[p + off] ELSE (a \o b)[p] \in Others
  <2>1. CASE p <= Len(a)
    <3>1. p \in 1..Len(a) /\ (a \o b)[p] = a[p]
      BY <1>3, <2>1, SMT
    <3> QED
      BY <1>1, <3>1, Zenon
  <2>2. CASE ~(p <= Len(a))
    <3>1. p - Len(a) \in 1..Len(b) /\ (a \o b)[p] = b[p - Len(a)]
      BY <1>3, <2>2, SMT
    <3>2. ~(p + off <= Len(B))
      BY <1>1, <1>3, <2>2, SMT
    <3> QED
      BY <1>3, <3>1, <3>2
  <2> QED
    BY <2>1, <2>2
<1> QED
  BY <1>1, <1>4, <1>5, Zenon DEF From

\* An answer put behind what is no part of it.
LEMMA FromStart ==
  ASSUME NEW a \in Seq(Others), NEW B \in Seq(Half)
  PROVE  From(a \o B, B, 1)
<1>1. a \in Seq(Half)
  BY SeqMonotonic, Zenon DEF Others
<1>2. /\ Len(a) \in Nat /\ Len(B) \in Nat /\ Len(a \o B) = Len(a) + Len(B)
      /\ \A p \in 1..Len(a) + Len(B) :
           (a \o B)[p] = IF p <= Len(a) THEN a[p] ELSE B[p - Len(a)]
      /\ \A p \in 1..Len(a) : a[p] \in Others
  BY <1>1, LenProperties, ConcatProperties, ElementOfSeq
<1>3. PICK off \in Int : off = -Len(a)
  BY <1>2, SMT
<1>4. off < 1 /\ Len(B) <= Len(a \o B) + off
  BY <1>2, <1>3, SMT
<1>5. ASSUME NEW p \in 1..Len(a \o B)
      PROVE  IF 1 <= p + off /\ p + off <= Len(B)
               THEN (a \o B)[p] = B[p + off] ELSE (a \o B)[p] \in Others
  <2>1. CASE p <= Len(a)
    <3>1. p \in 1..Len(a) /\ (a \o B)[p] = a[p] /\ ~(1 <= p + off)
      BY <1>2, <1>3, <2>1, SMT
    <3> QED
      BY <1>2, <3>1, Zenon
  <2>2. CASE ~(p <= Len(a))
    <3>1. p + off = p - Len(a) /\ (a \o B)[p] = B[p - Len(a)]
      BY <1>2, <1>3, <2>2, SMT
    <3>2. 1 <= p + off /\ p + off <= Len(B)
      BY <1>2, <1>3, <2>2, SMT
    <3> QED
      BY <3>1, <3>2
  <2> QED
    BY <2>1, <2>2
<1> QED
  BY <1>4, <1>5, Zenon DEF From

\* What is left of it when the first bytes are dropped.
LEMMA FromDrop ==
  ASSUME NEW a \in Seq(Half), NEW b \in Seq(Half), NEW B, Len(B) \in Nat,
         NEW low \in Nat \ {0}, From(a \o b, B, low)
  PROVE  \E l \in Nat \ {0} : From(b, B, l)
<1>1. PICK off \in Int :
        /\ off < low /\ Len(B) <= Len(a \o b) + off
        /\ \A p \in 1..Len(a \o b) :
             IF low <= p + off /\ p + off <= Len(B)
               THEN (a \o b)[p] = B[p + off] ELSE (a \o b)[p] \in Others
  BY DEF From
<1>2. /\ Len(a) \in Nat /\ Len(b) \in Nat /\ Len(a \o b) = Len(a) + Len(b)
      /\ \A p \in 1..Len(a) + Len(b) :
           (a \o b)[p] = IF p <= Len(a) THEN a[p] ELSE b[p - Len(a)]
  BY LenProperties, ConcatProperties
<1>3. PICK o \in Int : o = off + Len(a)
  BY <1>2, SMT
<1>4. PICK l \in Nat \ {0} : l = IF low <= o THEN o + 1 ELSE low
  BY <1>3, SMT
<1>5. o < l /\ Len(B) <= Len(b) + o
  BY <1>1, <1>2, <1>3, <1>4, SMT
<1>6. ASSUME NEW p \in 1..Len(b)
      PROVE  IF l <= p + o /\ p + o <= Len(B)
               THEN b[p] = B[p + o] ELSE b[p] \in Others
  <2>1. PICK q \in Int : q = p + Len(a)
    BY <1>2, SMT
  <2>2. q \in 1..Len(a \o b) /\ q \in 1..Len(a) + Len(b) /\ ~(q <= Len(a)) /\ q - Len(a) = p /\ q + off = p + o
    BY <1>2, <1>3, <2>1, SMT
  <2>3. (a \o b)[q] = b[p]
    BY <1>2, <2>2, Zenon
  <2>4. (low <= q + off) <=> (l <= p + o)
    BY <1>2, <1>3, <1>4, <2>1, SMT
  <2> QED
    BY <1>1, <2>2, <2>3, <2>4, Zenon
<1> QED
  BY <1>5, <1>6, Zenon DEF From

\* Dropping what is no part of the answer drops nothing of it.
LEMMA FromDropOthers ==
  ASSUME NEW a \in Seq(Others), NEW b \in Seq(Half), NEW B, Len(B) \in Nat,
         \A i \in 1..Len(B) : B[i] \notin Others,
         NEW low \in Nat \ {0}, From(a \o b, B, low)
  PROVE  b \in Seq(Others) \/ From(b, B, low)
<1>1. PICK off \in Int :
        /\ off < low /\ Len(B) <= Len(a \o b) + off
        /\ \A p \in 1..Len(a \o b) :
             IF low <= p + off /\ p + off <= Len(B)
               THEN (a \o b)[p] = B[p + off] ELSE (a \o b)[p] \in Others
  BY DEF From
<1>2. a \in Seq(Half)
  BY SeqMonotonic, Zenon DEF Others
<1>3. /\ Len(a) \in Nat /\ Len(b) \in Nat /\ Len(a \o b) = Len(a) + Len(b)
      /\ \A p \in 1..Len(a) + Len(b) :
           (a \o b)[p] = IF p <= Len(a) THEN a[p] ELSE b[p - Len(a)]
      /\ \A p \in 1..Len(a) : a[p] \in Others
  BY <1>2, LenProperties, ConcatProperties, ElementOfSeq
<1>4. PICK o \in Int : o = off + Len(a)
  BY <1>3, SMT
<1>5. \A p \in 1..Len(b) :
        /\ p + Len(a) \in 1..Len(a \o b) /\ p + Len(a) + off = p + o
        /\ (a \o b)[p + Len(a)] = b[p]
  <2> SUFFICES ASSUME NEW p \in 1..Len(b)
               PROVE  /\ p + Len(a) \in 1..Len(a \o b) /\ p + Len(a) + off = p + o
                      /\ (a \o b)[p + Len(a)] = b[p]
    OBVIOUS
  <2>1. PICK q \in Int : q = p + Len(a)
    BY <1>3, SMT
  <2>2. q \in 1..Len(a \o b) /\ q \in 1..Len(a) + Len(b) /\ ~(q <= Len(a)) /\ q - Len(a) = p /\ q + off = p + o
    BY <1>3, <1>4, <2>1, SMT
  <2>3. (a \o b)[q] = b[p]
    BY <1>3, <2>2, Zenon
  <2> QED
    BY <2>1, <2>2, <2>3
<1>6. \A p \in 1..Len(b) :
        IF low <= p + o /\ p + o <= Len(B) THEN b[p] = B[p + o] ELSE b[p] \in Others
  BY <1>1, <1>5, Zenon
<1>7. CASE o < low
  <2>1. Len(B) <= Len(b) + o
    BY <1>1, <1>3, <1>4, SMT
  <2> QED
    BY <1>6, <1>7, <2>1, Zenon DEF From
<1>8. CASE ~(o < low)
  <2>1. ~(low <= Len(B))
    <3> SUFFICES ASSUME low <= Len(B) PROVE FALSE
      OBVIOUS
    <3>1. PICK p \in Int : p = low - off
      BY SMT
    <3>2. p \in 1..Len(a) /\ p + off = low /\ p \in 1..Len(a \o b)
          /\ p \in 1..Len(a) + Len(b) /\ p <= Len(a)
      BY <1>1, <1>3, <1>4, <1>8, <3>1, SMT
    <3>3. (a \o b)[p] = a[p] /\ a[p] \in Others
      BY <1>3, <3>2, Zenon
    <3>4. low <= p + off /\ low \in 1..Len(B)
      BY <3>2, SMT
    <3>5. (a \o b)[p] = B[low]
      BY <1>1, <3>2, <3>4, Zenon
    <3> QED
      BY <3>3, <3>4, <3>5
  <2>2. \A p \in 1..Len(b) : ~(p + o <= Len(B))
    BY <1>3, <1>8, <2>1, SMT
  <2>3. \A p \in 1..Len(b) : b[p] \in Others
    BY <1>6, <2>2, Zenon
  <2>4. b \in [1..Len(b) -> Half]
    BY LenProperties
  <2>5. b \in [1..Len(b) -> Others]
    BY <2>3, <2>4
  <2> QED
    BY <1>3, <2>5, IsSequence, Zenon
<1> QED
  BY <1>7, <1>8

\* Past the end of the answer there is nothing of it.
LEMMA FromNothing ==
  ASSUME NEW s \in Seq(Half), NEW B, Len(B) \in Nat, NEW low \in Int,
         From(s, B, low), low > Len(B)
  PROVE  s \in Seq(Others)
<1>1. PICK off \in Int :
        /\ off < low /\ Len(B) <= Len(s) + off
        /\ \A p \in 1..Len(s) :
             IF low <= p + off /\ p + off <= Len(B)
               THEN s[p] = B[p + off] ELSE s[p] \in Others
  BY DEF From
<1>2. \A p \in 1..Len(s) : ~(low <= p + off /\ p + off <= Len(B))
  <2>1. Len(s) \in Nat
    BY LenProperties
  <2> QED
    BY <2>1, SMT
<1>3. \A p \in 1..Len(s) : s[p] \in Others
  BY <1>1, <1>2, Zenon
<1>4. s \in [1..Len(s) -> Half] /\ Len(s) \in Nat
  BY LenProperties
<1>5. s \in [1..Len(s) -> Others]
  BY <1>3, <1>4
<1> QED
  BY <1>4, <1>5, IsSequence, Zenon

\* A head that is part of the answer is its first half that is left.
LEMMA FromHead ==
  ASSUME NEW a \in Seq(Half), Len(a) = 2, NEW b \in Seq(Half), NEW B,
         Len(B) \in Nat, NEW low \in Nat \ {0}, From(a \o b, B, low),
         a[1] \notin Others
  PROVE  /\ low <= Len(B) /\ a[1] = B[low]
         /\ From(b, B, low + 2)
<1>1. PICK off \in Int :
        /\ off < low /\ Len(B) <= Len(a \o b) + off
        /\ \A p \in 1..Len(a \o b) :
             IF low <= p + off /\ p + off <= Len(B)
               THEN (a \o b)[p] = B[p + off] ELSE (a \o b)[p] \in Others
  BY DEF From
<1>2. /\ Len(b) \in Nat /\ Len(a \o b) = 2 + Len(b)
      /\ \A p \in 1..2 + Len(b) :
           (a \o b)[p] = IF p <= 2 THEN a[p] ELSE b[p - 2]
  <2>1. /\ Len(b) \in Nat /\ Len(a \o b) = Len(a) + Len(b)
        /\ \A p \in 1..Len(a) + Len(b) :
             (a \o b)[p] = IF p <= Len(a) THEN a[p] ELSE b[p - Len(a)]
    BY LenProperties, ConcatProperties
  <2> QED
    BY <2>1, Zenon
<1>3. 1 \in 1..Len(a \o b) /\ 1 \in 1..2 + Len(b) /\ 1 <= 2
  BY <1>2, SMT
<1>4. (a \o b)[1] = a[1]
  BY <1>2, <1>3, Zenon
<1>5. low <= 1 + off /\ 1 + off <= Len(B) /\ a[1] = B[1 + off]
  BY <1>1, <1>3, <1>4, Zenon
<1>6. 1 + off = low /\ off = low - 1
  BY <1>1, <1>5, SMT
<1>7. PICK o \in Int : o = low + 1
  BY SMT
<1>8. o < low + 2 /\ Len(B) <= Len(b) + o
  BY <1>1, <1>2, <1>6, <1>7, SMT
<1>9. ASSUME NEW p \in 1..Len(b)
      PROVE  IF low + 2 <= p + o /\ p + o <= Len(B)
               THEN b[p] = B[p + o] ELSE b[p] \in Others
  <2>1. PICK q \in Int : q = p + 2
    BY <1>2, SMT
  <2>2. q \in 1..Len(a \o b) /\ q \in 1..2 + Len(b) /\ ~(q <= 2) /\ q - 2 = p
        /\ q + off = p + o /\ low <= q + off /\ low + 2 <= p + o
    BY <1>2, <1>6, <1>7, <2>1, SMT
  <2>3. (a \o b)[q] = b[p]
    BY <1>2, <2>2, Zenon
  <2> QED
    BY <1>1, <2>2, <2>3, Zenon
<1>10. From(b, B, low + 2)
  BY <1>8, <1>9, Zenon DEF From
<1> QED
  BY <1>5, <1>6, <1>10, Zenon

-----------------------------------------------------------------------------
(* Sequence numbers and bursts                                             *)

\* Division with remainder.
LEMMA DivMod ==
  ASSUME NEW x \in Int, NEW n \in Nat \ {0}
  PROVE  /\ x \div n \in Int /\ x % n \in 0..n - 1
         /\ x = n * (x \div n) + (x % n)
<1>1. x = n * (x \div n) + (x % n)
  BY Z3
<1>2. x \div n \in Int
  BY Z3
<1>3. x % n \in Int /\ 0 <= x % n /\ x % n < n
  BY SMT
<1> QED
  BY <1>1, <1>2, <1>3, SMT

\* A positive multiple of n is at least n.
LEMMA Multiple ==
  ASSUME NEW n \in Nat, NEW e \in Int, e >= 1
  PROVE  n * e >= n
BY Z3

\* The remainder is the only one.
LEMMA ModIs ==
  ASSUME NEW x \in Int, NEW n \in Nat \ {0}, NEW c \in Int, NEW r \in 0..n - 1,
         x = n * c + r
  PROVE  x % n = r
<1>1. PICK d \in Int, s \in 0..n - 1 : d = x \div n /\ s = x % n
  BY DivMod
<1>2. x = n * d + s
  BY <1>1, DivMod, Zenon
<1>3. n * d + s = n * c + r
  BY <1>2, Zenon
<1>4. n * (d - c) = n * d - n * c /\ n * (c - d) = n * c - n * d
  BY Z3
<1>5. n * d \in Int /\ n * c \in Int
  BY SMT
<1>6. PICK nd \in Int, nc \in Int : nd = n * d /\ nc = n * c
  BY <1>5
<1>7. nd + s = nc + r
  BY <1>3, <1>6, Zenon
<1>8. ~(d - c >= 1)
  <2> SUFFICES ASSUME d - c >= 1 PROVE FALSE
    OBVIOUS
  <2>1. n * (d - c) >= n
    BY Multiple, SMT
  <2>2. nd - nc >= n
    BY <1>4, <1>6, <2>1, Zenon
  <2> QED
    BY <1>7, <2>2, SMT
<1>9. ~(c - d >= 1)
  <2> SUFFICES ASSUME c - d >= 1 PROVE FALSE
    OBVIOUS
  <2>1. n * (c - d) >= n
    BY Multiple, SMT
  <2>2. nc - nd >= n
    BY <1>4, <1>6, <2>1, Zenon
  <2> QED
    BY <1>7, <2>2, SMT
<1>10. c = d
  BY <1>8, <1>9, SMT
<1> QED
  BY <1>1, <1>10, <1>6, <1>7, SMT

\* Within a window a sequence number names one frame.
LEMMA OneFrameOnly ==
  ASSUME NEW b \in Int, NEW i \in Int, NEW j \in Int, i <= j, j - i <= LastSeq,
         SeqAfter(b, i) = SeqAfter(b, j)
  PROVE  i = j
<1>1. PICK n \in Nat \ {0} : n = LastSeq + 1
  BY SizeAssumption, SMT
<1>2. PICK x \in Int, y \in Int : x = b + i /\ y = b + j
  OBVIOUS
<1>3. x % n = y % n
  BY <1>1, <1>2 DEF SeqAfter
<1>4. PICK c \in Int, d \in Int : c = x \div n /\ d = y \div n
  BY DivMod
<1>5. PICK r \in 0..n - 1 : r = x % n
  BY DivMod
<1>6. x = n * c + r /\ y = n * d + r
  BY <1>3, <1>4, <1>5, DivMod, ZenonT(60)
<1>7. n * (d - c) = n * d - n * c /\ n * (c - d) = n * c - n * d
  BY Z3
<1>8. PICK p \in Int, q \in Int : p = n * c /\ q = n * d
  BY SMT
<1>9. x = p + r /\ y = q + r
  BY <1>6, <1>8, Zenon
<1>10. x <= y /\ y - x < n
  BY <1>1, <1>2, SizeAssumption, SMT
<1>11. ~(d - c >= 1)
  <2> SUFFICES ASSUME d - c >= 1 PROVE FALSE
    OBVIOUS
  <2>1. n * (d - c) >= n
    BY Multiple, SMT
  <2>2. q - p >= n
    BY <1>7, <1>8, <2>1, Zenon
  <2> QED
    BY <1>9, <1>10, <2>2, SMT
<1>12. ~(c - d >= 1)
  <2> SUFFICES ASSUME c - d >= 1 PROVE FALSE
    OBVIOUS
  <2>1. n * (c - d) >= n
    BY Multiple, SMT
  <2>2. p - q >= n
    BY <1>7, <1>8, <2>1, Zenon
  <2> QED
    BY <1>9, <1>10, <2>2, SMT
<1>13. c = d
  BY <1>11, <1>12, SMT
<1>14. x = y
  BY <1>6, <1>13, Zenon
<1> QED
  BY <1>2, <1>14, SMT

\* The number after the one before.
LEMMA NextInWindow ==
  ASSUME NEW b \in Nat, NEW k \in Nat \ {0}
  PROVE  NextSeq(SeqAfter(b, k - 1)) = SeqAfter(b, k)
<1>1. PICK n \in Nat \ {0} : n = LastSeq + 1 /\ n > 1
  BY SizeAssumption, SMT
<1>2. PICK x \in Int : x = b + (k - 1) /\ x + 1 = b + k
  BY SMT
<1>3. PICK r \in 0..n - 1, c \in Int : r = x % n /\ c = x \div n
  BY DivMod
<1>4. x = n * c + r
  BY <1>3, DivMod, Zenon
<1>5. PICK p \in Int : p = n * c
  BY SMT
<1>6. SeqAfter(b, k - 1) = r /\ SeqAfter(b, k) = (x + 1) % n
  BY <1>1, <1>2, <1>3 DEF SeqAfter
<1>7. CASE r = LastSeq
  <2>1. n * (c + 1) = n * c + n
    BY Z3
  <2>2. x + 1 = n * (c + 1) + 0
    BY <1>1, <1>4, <1>5, <1>7, <2>1, SMT
  <2>3. (x + 1) % n = 0
    <3>1. x + 1 \in Int /\ c + 1 \in Int /\ 0 \in 0..n - 1
      BY <1>1, SMT
    <3> QED
      BY <2>2, <3>1, ModIs, Zenon
  <2> QED
    BY <1>6, <1>7, <2>3, Zenon DEF NextSeq
<1>8. CASE r # LastSeq
  <2>1. x + 1 = n * c + (r + 1)
    BY <1>4, <1>5, SMT
  <2>2. (x + 1) % n = r + 1
    <3>1. x + 1 \in Int /\ r + 1 \in 0..n - 1
      BY <1>1, <1>8, SizeAssumption, SMT
    <3> QED
      BY <2>1, <3>1, ModIs, Zenon
  <2> QED
    BY <1>6, <1>8, <2>2, Zenon DEF NextSeq
<1> QED
  BY <1>7, <1>8

\* Two consecutive sequence numbers differ.
LEMMA NextIsOther == \A n \in 0..LastSeq : NextSeq(n) # n
BY SizeAssumption, SMT DEF NextSeq

\* Nothing received leaves N(R) where it was.
LEMMA AfterNone == \A b \in 0..LastSeq : SeqAfter(b, 0) = b
<1> SUFFICES ASSUME NEW b \in 0..LastSeq PROVE SeqAfter(b, 0) = b
  OBVIOUS
<1>1. PICK n \in Nat \ {0} : n = LastSeq + 1
  BY SizeAssumption, SMT
<1>2. b + 0 = b /\ b \in Int /\ b \in 0..n - 1 /\ 0 \in Int
  BY <1>1, SizeAssumption, SMT
<1>3. b = n * 0 + b
  BY <1>2, SMT
<1>4. b % n = b
  BY <1>2, <1>3, ModIs, Zenon
<1> QED
  BY <1>1, <1>2, <1>4, Zenon DEF SeqAfter

\* The bytes of a burst: none of them is of the others, and a first half is
\* that of the frame it counts to.
LEMMA BurstBytes ==
  ASSUME NEW m \in MeterType
  PROVE  /\ Sent(m) \in m.acked..Segments /\ Sent(m) - m.acked <= Window
         /\ Sent(m) \in Nat /\ m.acked \in Nat
         /\ Bytes(Burst(m)) \in Seq(Half)
         /\ Len(Bytes(Burst(m))) = 2 * (Sent(m) - m.acked)
         /\ \A j \in 1..Len(Bytes(Burst(m))) : Bytes(Burst(m))[j] \notin Others
         /\ \A j \in 1..Len(Bytes(Burst(m))) :
              Bytes(Burst(m))[j].half = 1 =>
                \E k \in 1..Sent(m) - m.acked :
                  /\ j = 2 * k - 1
                  /\ Bytes(Burst(m))[j].frame
                       = Reply(m, "I", m.acked + k, k = Sent(m) - m.acked)
<1>1. PICK a \in 0..Segments : a = m.acked
  BY DEF MeterType
<1>2. PICK n \in Nat : n = Sent(m) - a
  BY <1>1, SizeAssumption, SMT DEF Sent
<1>3. Sent(m) = a + n /\ n <= Window /\ a + n <= Segments
      /\ n = IF Segments - a < Window THEN Segments - a ELSE Window
  BY <1>1, <1>2, SizeAssumption, SMT DEF Sent
<1>4. Burst(m) \in Seq(Frame) /\ Len(Burst(m)) = n
      /\ \A k \in 1..n : Burst(m)[k] = Reply(m, "I", a + k, k = n)
  <2>1. /\ Burst(m) \in Seq(Frame)
        /\ Len(Burst(m)) = IF Segments - m.acked < Window
                             THEN Segments - m.acked ELSE Window
        /\ \A k \in 1..Len(Burst(m)) :
             Burst(m)[k] = Reply(m, "I", m.acked + k, k = Len(Burst(m)))
    BY BurstType
  <2>2. Len(Burst(m)) = n
    BY <1>1, <1>3, <2>1, Zenon
  <2> QED
    BY <1>1, <2>1, <2>2, Zenon
<1>5. PICK b \in Seq(Frame) : b = Burst(m)
  BY <1>4
<1>6. Bytes(b) \in Seq(Half) /\ Len(Bytes(b)) = 2 * n
  BY <1>4, <1>5, BytesType, Zenon
<1>7. \A j \in 1..2 * n :
        Bytes(b)[j] = [frame |-> b[(j + 1) \div 2],
                       half |-> IF j % 2 = 1 THEN 1 ELSE 2]
  BY <1>4, <1>5, Zenon DEF Bytes
<1>8. \A j \in 1..2 * n : (j + 1) \div 2 \in 1..n
  BY SMT
<1>9. \A j \in 1..2 * n : j % 2 = 1 => j = 2 * ((j + 1) \div 2) - 1
  BY SMT
<1>10. \A j \in 1..2 * n :
         Bytes(b)[j].frame = Reply(m, "I", a + (j + 1) \div 2, (j + 1) \div 2 = n)
  <2> SUFFICES ASSUME NEW j \in 1..2 * n
               PROVE  Bytes(b)[j].frame
                        = Reply(m, "I", a + (j + 1) \div 2, (j + 1) \div 2 = n)
    OBVIOUS
  <2>1. PICK k \in 1..n : k = (j + 1) \div 2
    BY <1>8
  <2>2. b[k] = Reply(m, "I", a + k, k = n)
    BY <1>4, <1>5, <2>1, Zenon
  <2>3. PICK f, h : Bytes(b)[j] = [frame |-> f, half |-> h] /\ f = b[k]
    BY <1>7, <2>1, Zenon
  <2>4. Bytes(b)[j].frame = f
    BY <2>3
  <2> QED
    BY <2>1, <2>2, <2>3, <2>4, Zenon
<1>11. \A j \in 1..2 * n : Bytes(b)[j] \notin Others
  <2> SUFFICES ASSUME NEW j \in 1..2 * n PROVE Bytes(b)[j] \notin Others
    OBVIOUS
  <2>1. PICK k \in 1..n : Bytes(b)[j].frame = Reply(m, "I", a + k, k = n)
    BY <1>8, <1>10
  <2>2. Bytes(b)[j].frame.from = "meter" /\ Bytes(b)[j].frame.type = "I"
    BY <2>1 DEF Reply
  <2> QED
    BY <2>2 DEF Others
<1>12. ASSUME NEW j \in 1..2 * n, Bytes(b)[j].half = 1
       PROVE  \E k \in 1..n : /\ j = 2 * k - 1
                             /\ Bytes(b)[j].frame = Reply(m, "I", a + k, k = n)
  <2>1. j % 2 = 1
    <3>1. PICK f, h : /\ Bytes(b)[j] = [frame |-> f, half |-> h]
                      /\ h = IF j % 2 = 1 THEN 1 ELSE 2
      BY <1>7, Zenon
    <3>2. h = 1
      BY <1>12, <3>1
    <3> QED
      BY <3>1, <3>2
  <2> QED
    BY <1>8, <1>9, <1>10, <2>1, Zenon
<1>13. Sent(m) \in a..Segments /\ Sent(m) \in Nat /\ n = Sent(m) - a
  BY <1>2, <1>3, SizeAssumption, SMT
<1>14. Sent(m) - m.acked = n /\ n <= Window /\ m.acked \in Nat
  BY <1>1, <1>3, <1>13
<1> HIDE DEF Others
<1>15. /\ Bytes(Burst(m)) \in Seq(Half) /\ Len(Bytes(Burst(m))) = 2 * n
       /\ \A j \in 1..2 * n : Bytes(Burst(m))[j] \notin Others
       /\ \A j \in 1..2 * n :
            Bytes(Burst(m))[j].half = 1 =>
              \E k \in 1..n : /\ j = 2 * k - 1
                             /\ Bytes(Burst(m))[j].frame
                                  = Reply(m, "I", a + k, k = n)
  BY <1>5, <1>6, <1>11, <1>12, Zenon
<1> QED
  BY <1>1, <1>13, <1>14, <1>15, Zenon

-----------------------------------------------------------------------------
(* The mailbox, where no timeout comes too early                           *)

\* At the start there is nothing to be late.
LEMMA OnTimeInit == Init => OnTime
BY DEF Init, OnTime, Mail!Init

\* Under Timely a wait that expires has nothing under way.
LEMMA OnTimeStep ==
  ASSUME Timely, TypeInv, OnTime, [Next]_vars
  PROVE  OnTime'
<1>1. CASE StartExchange \/ RetryExchange \/ NextExchange \/ GiveUp
           \/ DecodeNothing \/ DecodeReceiveReady \/ DecodeFrame
           \/ Finished \/ UNCHANGED vars
  <2>1. UNCHANGED <<mailbox, line>>
    BY <1>1, Zenon
       DEF StartExchange, RetryExchange, NextExchange, GiveUp, DecodeNothing,
           DecodeReceiveReady, DecodeFrame, Finished, vars
  <2> QED
    BY <2>1, Zenon DEF OnTime, Silent, mailbox, line
<1>2. CASE Transmit \/ TransmitNothing \/ NothingToTransmit
  <2>1. Mail!Call
    BY <1>2, Zenon DEF Transmit, TransmitNothing, NothingToTransmit
  <2>2. /\ call = "none" /\ call' = "waiting" /\ call' # "expired"
        /\ UNCHANGED <<mData, mSem, ringing>>
    BY <2>1 DEF Mail!Call
  <2> QED
    BY <2>2 DEF OnTime
<1>3. CASE Notified
  <2>1. call' = "notified" /\ call' # "expired"
    BY <1>3 DEF Notified, Mail!Take
  <2> QED
    BY <2>1 DEF OnTime
<1>4. CASE Expires
  <2>1. /\ call = "waiting" /\ mSem = 0 /\ toMeter = <<>> /\ toClient = <<>>
        /\ ~ringing /\ UNCHANGED <<mData, mSem, ringing, line>>
    BY <1>4 DEF Expires, Mail!Expire
  <2>2. mData = <<>>
    BY <2>1 DEF OnTime
  <2> QED
    BY <2>1, <2>2, Zenon DEF OnTime, Silent, line
<1>5. CASE Receive \/ ReceiveOverflows \/ TimeoutFails \/ TimeoutResyncs
  <2>1. Mail!Drain
    BY <1>5, Zenon DEF Receive, ReceiveOverflows, TimeoutFails, TimeoutResyncs
  <2>2. mData' = <<>> /\ call' = "none" /\ call' # "expired"
    BY <2>1 DEF Mail!Drain
  <2> QED
    BY <2>2 DEF OnTime
<1>6. CASE Arrive
  <2>1. ringing' /\ call' = call
    BY <1>6, Zenon DEF Arrive, Mail!Put
  <2>2. toClient # <<>>
    <3>1. PICK n \in 1..Len(toClient) : TRUE
      BY <1>6, Zenon DEF Arrive
    <3>2. Len(toClient) \in Nat
      BY LenProperties DEF TypeInv, Streams
    <3>3. Len(toClient) # 0
      BY <3>1, <3>2, SMT
    <3> QED
      BY <3>3, EmptySeq
  <2>3. call # "expired"
    BY <2>2, Zenon DEF OnTime, Silent
  <2> QED
    BY <2>1, <2>3, Zenon DEF OnTime
<1>7. CASE Announce
  <2>1. ringing /\ mSem' = mSem + 1 /\ call' = call /\ mData' = mData
    BY <1>7 DEF Announce, Mail!Ring
  <2>2. mSem' > 0
    BY <2>1, SMT DEF TypeInv, Counters
  <2>3. call # "expired"
    BY <2>1, Zenon DEF OnTime
  <2> QED
    BY <2>1, <2>2, <2>3, Zenon DEF OnTime
<1>8. CASE MeterReceives \/ LoseRequest \/ LoseAnswer
  <2>1. UNCHANGED mailbox
    BY <1>8, Zenon DEF MeterReceives, LoseRequest, LoseAnswer
  <2>2. toMeter # <<>> \/ toClient # <<>>
    BY <1>8, Zenon DEF MeterReceives, LoseRequest, LoseAnswer
  <2>3. call # "expired"
    BY <2>2, Zenon DEF OnTime, Silent
  <2> QED
    BY <2>1, <2>3, Zenon DEF OnTime, mailbox
<1> QED
  BY <1>1, <1>2, <1>3, <1>4, <1>5, <1>6, <1>7, <1>8, Zenon DEF Next, Main

-----------------------------------------------------------------------------
(* What an action does to the stream                                       *)

\* What is not decoded yet is a sequence of halves.
LEMMA StreamType ==
  ASSUME TypeInv
  PROVE  /\ mData \o toClient \in Seq(Half) /\ Stream \in Seq(Half)
         /\ unread \in Seq(Half) /\ mData \in Seq(Half) /\ toClient \in Seq(Half)
         /\ Len(mData \o toClient) = Len(mData) + Len(toClient)
         /\ Len(mData) \in Nat /\ Len(toClient) \in Nat /\ Len(unread) \in Nat
<1>1. unread \in Seq(Half) /\ mData \in Seq(Half) /\ toClient \in Seq(Half)
  BY DEF TypeInv, Streams
<1>2. mData \o toClient \in Seq(Half)
      /\ Len(mData \o toClient) = Len(mData) + Len(toClient)
  BY <1>1, ConcatProperties
<1>3. unread \o (mData \o toClient) \in Seq(Half)
  BY <1>1, <1>2, ConcatProperties
<1>4. Len(mData) \in Nat /\ Len(toClient) \in Nat /\ Len(unread) \in Nat
  BY <1>1, LenProperties
<1> QED
  BY <1>1, <1>2, <1>3, <1>4, Zenon DEF Stream

\* The parts of the stream may be joined in either order.
LEMMA Associative ==
  \A a, b, c \in Seq(Half) : (a \o b) \o c = a \o (b \o c)
BY ConcatAssociative

\* A concatenation is of others if both its parts are.
LEMMA OthersConcat ==
  ASSUME NEW a \in Seq(Half), NEW b \in Seq(Half)
  PROVE  a \o b \in Seq(Others) <=> a \in Seq(Others) /\ b \in Seq(Others)
<1>1. a \in Seq(Others) /\ b \in Seq(Others) => a \o b \in Seq(Others)
  BY ConcatProperties
<1>2. ASSUME a \o b \in Seq(Others)
      PROVE  a \in Seq(Others) /\ b \in Seq(Others)
  <2>1. /\ Len(a) \in Nat /\ Len(b) \in Nat /\ Len(a \o b) = Len(a) + Len(b)
        /\ \A p \in 1..Len(a) + Len(b) :
             (a \o b)[p] = IF p <= Len(a) THEN a[p] ELSE b[p - Len(a)]
        /\ a \in [1..Len(a) -> Half] /\ b \in [1..Len(b) -> Half]
    BY LenProperties, ConcatProperties
  <2>2. \A p \in 1..Len(a \o b) : (a \o b)[p] \in Others
    BY <1>2, ElementOfSeq
  <2>3. ASSUME NEW p \in 1..Len(a) PROVE a[p] \in Others
    <3>1. p \in 1..Len(a) + Len(b) /\ p \in 1..Len(a \o b) /\ p <= Len(a)
      BY <2>1, SMT
    <3> QED
      BY <2>1, <2>2, <3>1, Zenon
  <2>4. ASSUME NEW p \in 1..Len(b) PROVE b[p] \in Others
    <3>1. PICK q \in Int : q = p + Len(a)
      BY <2>1, SMT
    <3>2. q \in 1..Len(a) + Len(b) /\ q \in 1..Len(a \o b) /\ ~(q <= Len(a))
          /\ q - Len(a) = p
      BY <2>1, <3>1, SMT
    <3>3. (a \o b)[q] = b[p]
      BY <2>1, <3>2, Zenon
    <3> QED
      BY <2>2, <3>2, <3>3, Zenon
  <2>5. a \in [1..Len(a) -> Others] /\ b \in [1..Len(b) -> Others]
    BY <2>1, <2>3, <2>4
  <2> QED
    BY <2>1, <2>5, IsSequence, Zenon
<1> QED
  BY <1>1, <1>2

\* The bytes of the client's own frames are no part of an answer.
LEMMA ClientBytes ==
  ASSUME NEW f \in Seq(Clients)
  PROVE  Bytes(f) \in Seq(Others) /\ Len(Bytes(f)) = 2 * Len(f)
<1>1. \A x \in Clients : \A k \in {1, 2} : [frame |-> x, half |-> k] \in Others
  BY DEF Clients, Others, Half
<1> QED
  BY <1>1, BytesIn, Zenon

\* Bytes that arrive stay in the stream.
LEMMA ArriveKeeps ==
  ASSUME TypeInv, Arrive
  PROVE  mData' \o toClient' = mData \o toClient
         /\ UNCHANGED <<pc, caller, process, hdlc, toMeter, meter, losses>>
<1>1. PICK n \in 1..Len(toClient) :
        /\ mData' = mData \o SubSeq(toClient, 1, n)
        /\ toClient' = SubSeq(toClient, n + 1, Len(toClient))
  BY Zenon DEF Arrive, Mail!Put
<1>2. PICK m \in Nat : m = Len(toClient)
  BY StreamType
<1>3. 1 \in 1..m + 1 /\ n \in 1 - 1..m /\ m \in n..m
  BY <1>1, <1>2, SMT
<1>4. SubSeq(toClient, 1, n) \o SubSeq(toClient, n + 1, m) = toClient
  <2>1. SubSeq(toClient, 1, n) \o SubSeq(toClient, n + 1, m)
          = SubSeq(toClient, 1, m)
    BY <1>2, <1>3, StreamType, ConcatAdjacentSubSeq, Zenon
  <2> QED
    BY <1>2, <2>1, StreamType, SubSeqFull, Zenon
<1>5. SubSeq(toClient, 1, n) \in Seq(Half) /\ SubSeq(toClient, n + 1, m) \in Seq(Half)
  <2>1. \A i \in 1..m : toClient[i] \in Half
    BY <1>2, StreamType, ElementOfSeq
  <2>2. \A i \in 1..n : toClient[i] \in Half
    BY <1>1, <1>2, <2>1, SMT
  <2>3. \A i \in n + 1..m : toClient[i] \in Half
    BY <1>1, <1>2, <2>1, SMT
  <2>4. 1 \in Int /\ n \in Int /\ n + 1 \in Int /\ m \in Int
    BY <1>1, <1>2, SMT
  <2> QED
    BY <2>2, <2>3, <2>4, SubSeqProperties
<1>6. (mData \o SubSeq(toClient, 1, n)) \o SubSeq(toClient, n + 1, m)
        = mData \o (SubSeq(toClient, 1, n) \o SubSeq(toClient, n + 1, m))
  BY <1>5, StreamType, Associative, ZenonT(60)
<1> QED
  BY <1>1, <1>2, <1>4, <1>6, Zenon DEF Arrive

\* A frame decoded takes two halves from the head of the stream.
LEMMA DecodeTakes ==
  ASSUME TypeInv, DecodeFrame
  PROVE  \E a \in Seq(Half) :
           /\ Len(a) = 2 /\ unread = a \o unread' /\ a[1] = unread[1]
           /\ Stream = a \o (unread' \o (mData \o toClient))
           /\ unread' \in Seq(Half) /\ a[1] \notin Others
           /\ a[1].half = 1 /\ a[1].frame \in Frame
<1>1. Len(unread) \in Nat /\ Len(unread) >= 2 /\ unread \in Seq(Half)
      /\ unread[1].half = 1 /\ unread[1].frame.from = "meter"
      /\ unread[1].frame.type # "RR" /\ pc = "decode"
  BY StreamType, Zenon DEF DecodeFrame, HeadDecodes
<1>2. PICK n \in Nat : n = Len(unread) /\ n >= 2
  BY <1>1
<1>3. PICK a : a = SubSeq(unread, 1, 2)
  OBVIOUS
<1>4. a \in Seq(Half) /\ Len(a) = 2 /\ a[1] = unread[1]
  <2>1. \A i \in 1..n : unread[i] \in Half
    BY <1>1, <1>2, ElementOfSeq
  <2>2. \A i \in 1..2 : unread[i] \in Half
    BY <1>2, <2>1, SMT
  <2>3. a \in Seq(Half)
        /\ Len(a) = (IF 1 <= 2 THEN 2 - 1 + 1 ELSE 0)
        /\ \A i \in 1..2 - 1 + 1 : a[i] = unread[1 + i - 1]
    BY <1>3, <2>2, SubSeqProperties
  <2>4. Len(a) = 2
    BY <2>3, SMT
  <2>5. 1 \in 1..2 - 1 + 1 /\ 1 + 1 - 1 = 1
    BY SMT
  <2> QED
    BY <2>3, <2>4, <2>5
<1>5. unread' = SubSeq(unread, 3, n) /\ unread' \in Seq(Half)
  BY <1>2, DecodeType, Zenon
<1>6. a \o unread' = unread
  <2>1. 1 \in 1..n + 1 /\ 2 \in 1 - 1..n /\ n \in 2..n /\ 2 + 1 = 3
    BY <1>2, SMT
  <2>2. SubSeq(unread, 1, 2) \o SubSeq(unread, 2 + 1, n) = SubSeq(unread, 1, n)
    BY <1>1, <1>2, <2>1, ConcatAdjacentSubSeq, Zenon
  <2>3. SubSeq(unread, 1, n) = unread
    BY <1>1, <1>2, SubSeqFull, Zenon
  <2> QED
    BY <1>3, <1>5, <2>1, <2>2, <2>3, Zenon
<1>7. Stream = (a \o unread') \o (mData \o toClient)
  BY <1>1, <1>6 DEF Stream, InProcess
<1>8. (a \o unread') \o (mData \o toClient) = a \o (unread' \o (mData \o toClient))
  BY <1>4, <1>5, StreamType, Associative, ZenonT(60)
<1>9. a[1] \notin Others
  BY <1>1, <1>4 DEF Others
<1>10. a[1].half = 1 /\ a[1].frame \in Frame
  BY <1>1, <1>4, DecodeType
<1> QED
  BY <1>4, <1>5, <1>6, <1>7, <1>8, <1>9, <1>10, Zenon

\* What HdlcProcess takes over from the mailbox: the stream is the same, but
\* for an echo that is removed, or for what is dropped when the loop ends.
LEMMA ReceiveTakes ==
  ASSUME TypeInv, Receive, dataSent \in Seq(Clients)
  PROVE  \E a \in Seq(Half) :
           /\ Stream = a \o Stream' /\ Stream' \in Seq(Half)
           /\ pc' = "decode" => a \in Seq(Others)
<1>1. /\ pc = "wait" /\ mData' = <<>> /\ toClient' = toClient
      /\ unread' = IF loop THEN WithoutEcho(unread \o mData) ELSE unread \o mData
      /\ pc' = IF loop THEN "decode" ELSE "end"
  <2>1. /\ UNCHANGED line /\ pc = "wait" /\ Mail!Drain
        /\ unread' = IF loop THEN WithoutEcho(unread \o mData) ELSE unread \o mData
        /\ pc' = IF loop THEN "decode" ELSE "end"
    BY DEF Receive
  <2> QED
    BY <2>1 DEF line, Mail!Drain
<1>2. Stream = (unread \o mData) \o toClient
  <2>1. Stream = unread \o (mData \o toClient)
    BY <1>1 DEF Stream, InProcess
  <2> QED
    BY <2>1, StreamType, Associative, ZenonT(60)
<1>3. mData' \o toClient' = toClient
  BY <1>1, StreamType, ConcatEmptySeq, Zenon
<1>4. unread \o mData \in Seq(Half) /\ <<>> \in Seq(Half) /\ <<>> \in Seq(Others)
  BY StreamType, ConcatProperties, EmptySeq, Zenon
<1>5. CASE ~loop
  <2>1. Stream' = toClient /\ pc' = "end"
    BY <1>1, <1>3, <1>5, Zenon DEF Stream, InProcess
  <2> QED
    BY <1>2, <1>4, <2>1, StreamType
<1>6. CASE loop /\ unread \o mData = Bytes(dataSent)
  <2>1. unread' = <<>> /\ pc' = "decode"
    BY <1>1, <1>6, Zenon DEF WithoutEcho
  <2>2. Stream' = <<>> \o toClient
    BY <1>3, <2>1, Zenon DEF Stream, InProcess
  <2>3. Stream' = toClient
    BY <2>2, StreamType, ConcatEmptySeq, Zenon
  <2>4. unread \o mData \in Seq(Others)
    BY <1>6, ClientBytes
  <2> QED
    BY <1>2, <1>4, <2>3, <2>4, StreamType
<1>7. CASE loop /\ unread \o mData # Bytes(dataSent)
  <2>1. unread' = unread \o mData /\ pc' = "decode"
    BY <1>1, <1>7, Zenon DEF WithoutEcho
  <2>2. Stream' = (unread \o mData) \o toClient
    BY <1>3, <2>1, Zenon DEF Stream, InProcess
  <2>3. Stream = <<>> \o Stream' /\ Stream' \in Seq(Half)
    BY <1>2, <2>2, StreamType, ConcatEmptySeq, Zenon
  <2> QED
    BY <1>4, <2>3
<1> QED
  BY <1>5, <1>6, <1>7, Zenon

-----------------------------------------------------------------------------
(* Exchange 0                                                              *)

\* The bytes of the UA are its two halves.
LEMMA UaBytes ==
  /\ Ua \in Seq(Half) /\ Len(Ua) = 2
  /\ \A j \in 1..2 : Ua[j] \notin Others
  /\ \A j \in 1..2 : Ua[j].half = 1 => j = 1
  /\ \A j \in 1..2 : Ua[j].frame = UaFrame
  /\ UaFrame.info = <<0, 1>> /\ UaFrame.type = "UA" /\ Final(UaFrame)
<1>1. UaFrame \in Frame
  <2>1. Connected \in MeterType /\ 1 \in 0..Segments
    BY SizeAssumption, SMT DEF Connected, MeterType
  <2> QED
    BY <2>1, ReplyType, Zenon DEF UaFrame
<1>2. /\ UaFrame.info = <<0, 1>> /\ UaFrame.type = "UA" /\ Final(UaFrame)
      /\ UaFrame.from = "meter"
  BY DEF UaFrame, Reply, Connected, Final
<1>3. PICK f \in Seq(Frame) : f = <<UaFrame>> /\ Len(f) = 1 /\ f[1] = UaFrame
  BY <1>1, Singleton, Zenon
<1>4. Ua \in Seq(Half) /\ Len(Ua) = 2
  <2>1. Bytes(f) \in Seq(Half) /\ Len(Bytes(f)) = 2 * Len(f)
    BY BytesType
  <2> QED
    BY <1>3, <2>1, SMT DEF Ua
<1>5. \A j \in 1..2 : (j + 1) \div 2 = 1 /\ (j % 2 = 1 => j = 1)
  BY SMT
<1>6. ASSUME NEW j \in 1..2
      PROVE  Ua[j].frame = UaFrame /\ (Ua[j].half = 1 => j = 1)
  <2>1. j \in 1..2 * Len(f)
    BY <1>3, SMT
  <2>2. Ua[j] = [frame |-> f[(j + 1) \div 2], half |-> IF j % 2 = 1 THEN 1 ELSE 2]
    BY <1>3, <2>1, Zenon DEF Ua, Bytes
  <2>3. Ua[j].frame = f[(j + 1) \div 2]
    BY <2>2
  <2>4. PICK h : Ua[j].half = h /\ h = IF j % 2 = 1 THEN 1 ELSE 2
    BY <2>2, SMTT(30)
  <2>5. h = 1 => j % 2 = 1
    BY <2>4
  <2> QED
    BY <1>3, <1>5, <2>3, <2>4, <2>5, Zenon
<1>7. \A j \in 1..2 : Ua[j] \notin Others
  BY <1>2, <1>6 DEF Others
<1> QED
  BY <1>2, <1>4, <1>6, <1>7, Zenon

\* Exchange 0 has not begun.
LEMMA GreetingInit == Init => Greeting
<1> SUFFICES ASSUME Init PROVE Greeting
  OBVIOUS
<1>1. /\ pc = "idle" /\ mData = <<>> /\ toClient = <<>> /\ toMeter = <<>>
      /\ meter = Connected /\ hdlc = [type |-> "SNRM", sss |-> 0, rrr |-> 0]
  BY DEF Init, Mail!Init, Connected
<1> QED
  BY <1>1 DEF Greeting, Silent, InProcess

\* ConnectHdlc begins, or begins again, with nothing on its way.
LEMMA GreetingEntry ==
  ASSUME TypeInv, TypeInv', Greeting, exchange' = 0,
         StartExchange \/ RetryExchange
  PROVE  Greeting'
<1>1. /\ exchange = 0 /\ pc \in {"idle", "end"} /\ UNCHANGED <<mailbox, line>>
      /\ EnterHdlcProcess(Command("SNRM", 0))
      /\ hdlc' = [hdlc EXCEPT !.type = "SNRM"]
      /\ pc = "end" => CallerRetries
  BY Zenon DEF StartExchange, RetryExchange, caller
<1>2. meter = Connected /\ hdlc = [type |-> "SNRM", sss |-> 0, rrr |-> 0]
  BY <1>1, Zenon DEF Greeting
<1>3. Silent
  <2>1. CASE pc = "idle"
    BY <1>1, <2>1, Zenon DEF Greeting
  <2>2. CASE pc = "end" /\ retCode
    <3>1. rcv = <<<<0, 1>>>>
      BY <1>1, <2>2, Zenon DEF Greeting
    <3>2. rcv # <<>> /\ rcv[1] = <<0, 1>>
      BY <3>1
    <3>3. CallerAccepts
      <4>1. exchange # 1
        BY <1>1
      <4> QED
        BY <1>1, <2>2, <3>2, <4>1 DEF CallerAccepts
    <3>4. ~CallerRetries
      BY <1>1, <3>3 DEF CallerRetries
    <3> QED
      BY <1>1, <2>2, <3>4
  <2>3. CASE pc = "end" /\ ~retCode
    BY <1>1, <2>3, Zenon DEF Greeting
  <2> QED
    BY <1>1, <2>1, <2>2, <2>3
<1>4. /\ pc' = "send" /\ loop' = TRUE /\ retCode' = FALSE /\ rcv' = <<>>
      /\ dataToSend' = send' /\ dataSent' = <<>> /\ unread' = <<>> /\ written' = 0
  BY <1>1 DEF EnterHdlcProcess
<1>5. toMeter' = <<>> /\ toClient' = <<>> /\ mData' = <<>> /\ meter' = meter
  BY <1>1, <1>3 DEF Silent, mailbox, line
<1>6. hdlc' = [type |-> "SNRM", sss |-> 0, rrr |-> 0]
  BY <1>1, <1>2
<1>7. /\ <<>> \in Seq(Half) /\ <<>> \in Seq(Others) /\ <<>> \in Seq(Snrms)
      /\ Len(<<>>) = 0
  BY EmptySeq, Zenon
<1>8. <<>> \o (<<>> \o <<>>) = <<>>
  BY <1>7, ConcatEmptySeq, Zenon
<1>9. Quiet'
  BY <1>4, <1>5, <1>7, <1>8, Zenon DEF Quiet, Stream, InProcess
<1>10. 0 + Len(<<>>) + Len(<<>>) + 2 * Len(<<>>) <= 4 /\ Len(<<>>) <= 1
  BY <1>7, SMT
<1> QED
  BY <1>2, <1>4, <1>5, <1>6, <1>7, <1>9, <1>10, Zenon DEF Greeting, Silent, InProcess

\* What holds while ConnectHdlc waits or decodes, and no UA has come.
LEMMA GreetingRuns ==
  ASSUME TypeInv, Greeting, exchange = 0, InProcess
  PROVE  /\ meter = Connected /\ hdlc = [type |-> "SNRM", sss |-> 0, rrr |-> 0]
         /\ retCode => pc = "decode" /\ ~loop /\ toMeter = <<>> /\ Quiet
                       /\ rcv = <<<<0, 1>>>>
         /\ ~retCode => rcv = <<>>
         /\ pc = "send" => loop
         /\ loop \/ retCode \/ dataToSend # <<>>
         /\ loop /\ pc # "send" => dataToSend = <<>>
         /\ dataToSend \in {<<>>, send} /\ dataSent \in Seq(Snrms)
         /\ dataToSend # <<>> => Silent /\ written = 0 /\ pc # "decode"
                                 /\ unread = <<>>
         /\ written + Len(mData) + Len(toClient) + 2 * Len(toMeter) <= 4
         /\ Quiet \/ (toMeter = <<>> /\ From(Stream, Ua, 1))
         /\ Len(toMeter) <= 1
         /\ retCode \in BOOLEAN /\ loop \in BOOLEAN
<1>1. pc # "failed" /\ pc # "idle"
  BY DEF InProcess
<1>2. retCode \in BOOLEAN /\ loop \in BOOLEAN
  BY DEF TypeInv, Counters
<1> QED
  BY <1>1, <1>2 DEF Greeting

\* The SNRM goes out, with its echo or without.
LEMMA GreetingTransmit ==
  ASSUME TypeInv, TypeInv', Connects, Greeting, exchange' = 0,
         Transmit \/ TransmitNothing \/ NothingToTransmit
  PROVE  Greeting'
<1>1. /\ exchange = 0 /\ pc = "send" /\ pc' = "wait" /\ InProcess /\ InProcess'
      /\ UNCHANGED <<send, rcv, unread, written, mData, meter>>
  BY Zenon
     DEF Transmit, TransmitNothing, NothingToTransmit, Mail!Call, caller, process,
         line, InProcess
<1>2. pc # "decode"
  BY <1>1
<1>3. /\ ~retCode /\ loop /\ rcv = <<>> /\ meter = Connected
      /\ hdlc = [type |-> "SNRM", sss |-> 0, rrr |-> 0]
      /\ dataToSend \in {<<>>, send} /\ dataSent \in Seq(Snrms)
      /\ dataToSend # <<>> => Silent /\ written = 0 /\ unread = <<>>
      /\ written + Len(mData) + Len(toClient) + 2 * Len(toMeter) <= 4
      /\ Quiet \/ (toMeter = <<>> /\ From(Stream, Ua, 1))
      /\ Len(toMeter) <= 1
  BY <1>1, <1>2, GreetingRuns, Zenon
<1>4. pc' # "failed" /\ pc' # "idle" /\ pc' # "end" /\ pc' # "send" /\ pc' # "decode"
  BY <1>1
<1>5. CASE Transmit
  <2>1. /\ dataToSend # <<>> /\ dataToSend' = <<>> /\ dataSent' = dataToSend
        /\ UNCHANGED <<retCode, loop>>
    BY <1>5 DEF Transmit
  <2>2. /\ dataToSend = send /\ toMeter = <<>> /\ toClient = <<>> /\ mData = <<>>
        /\ unread = <<>> /\ written = 0
    BY <1>3, <2>1 DEF Silent
  <2>3. send \in Seq(Snrms) /\ Len(send) = 1
    BY <1>1, Zenon DEF Connects, TypeInv, Called
  <2>4. send \in Seq(Clients) /\ send \in Seq(Frame)
    <3>1. Snrms \subseteq Clients /\ Snrms \subseteq Frame
      BY DEF Snrms, Clients
    <3> QED
      BY <2>3, <3>1, SeqMonotonic, Zenon
  <2>5. Bytes(send) \in Seq(Others) /\ Len(Bytes(send)) = 2
    <3>1. Bytes(send) \in Seq(Others) /\ Len(Bytes(send)) = 2 * Len(send)
      BY <2>4, ClientBytes
    <3> QED
      BY <2>3, <3>1, SMT
  <2>6. toMeter' \in {toMeter, toMeter \o dataToSend}
        /\ toClient' \in {toClient, toClient \o Bytes(dataToSend)}
    BY <1>5, Zenon DEF Transmit
  <2>7. Bytes(send) \in Seq(Half)
    BY <2>4, BytesType
  <2>8. /\ <<>> \o send = send /\ <<>> \o Bytes(send) = Bytes(send)
        /\ <<>> \in Seq(Others) /\ <<>> \in Seq(Half) /\ Len(<<>>) = 0
    BY <2>4, <2>7, ConcatEmptySeq, EmptySeq
  <2>9. toMeter' \in {<<>>, send} /\ toClient' \in {<<>>, Bytes(send)}
    BY <2>2, <2>6, <2>8
  <2>10. /\ Len(toMeter') <= 1
         /\ written' + Len(mData') + Len(toClient') + 2 * Len(toMeter') <= 4
    <3>1. Len(toMeter') \in {0, 1} /\ Len(toClient') \in {0, 2} /\ Len(mData') = 0
          /\ written' = 0
      BY <1>1, <2>2, <2>3, <2>5, <2>8, <2>9
    <3>2. PICK l \in {0, 1}, k \in {0, 2} : l = Len(toMeter') /\ k = Len(toClient')
      BY <3>1
    <3>3. l <= 1 /\ 0 + 0 + k + 2 * l <= 4
      BY SMT
    <3> QED
      BY <3>1, <3>2, <3>3, Zenon
  <2>11. Quiet'
    <3>1. toClient' \in Seq(Others) /\ toClient' \in Seq(Half)
      BY <2>5, <2>7, <2>8, <2>9
    <3>2. <<>> \o (<<>> \o toClient') = toClient'
      BY <2>8, <3>1, ConcatEmptySeq, Zenon
    <3> QED
      BY <1>1, <2>2, <3>1, <3>2, Zenon DEF Quiet, Stream
  <2>12. hdlc' = hdlc
    <3>1. hdlc.type = "SNRM"
      BY <1>3
    <3> QED
      BY <1>5, <3>1 DEF Transmit, Numbered
  <2> QED
    BY <1>1, <1>3, <1>4, <2>1, <2>2, <2>3, <2>10, <2>11, <2>12, Zenon DEF Greeting
<1>6. CASE TransmitNothing \/ NothingToTransmit
  <2>1. /\ UNCHANGED <<dataToSend, dataSent, hdlc, toMeter, toClient>>
        /\ retCode' = FALSE
        /\ \/ loop' = FALSE /\ dataToSend # <<>>
           \/ loop' = loop /\ dataToSend = <<>>
    <3>1. CASE TransmitNothing
      BY <3>1, Zenon DEF TransmitNothing, line
    <3>2. CASE NothingToTransmit
      <4>1. retCode = FALSE
        BY <1>3 DEF TypeInv, Counters
      <4> QED
        BY <3>2, <4>1, Zenon DEF NothingToTransmit, line, process
    <3> QED
      BY <1>6, <3>1, <3>2
  <2>2. Stream' = Stream
    BY <1>1, <2>1, Zenon DEF Stream
  <2>3. Silent => Silent'
    BY <1>1, <2>1, Zenon DEF Silent
  <2> QED
    BY <1>1, <1>3, <1>4, <2>1, <2>2, <2>3, Zenon DEF Greeting, Quiet
<1> QED
  BY <1>5, <1>6

\* The bytes taken from the mailbox are appended to mRcvArray, which has room.
LEMMA GreetingReceive ==
  ASSUME BufferSize >= 4, TypeInv, TypeInv', OnTime, Greeting, exchange' = 0,
         Receive \/ ReceiveOverflows
  PROVE  Greeting'
<1>1. /\ exchange = 0 /\ pc = "wait" /\ InProcess /\ mData' = <<>>
      /\ UNCHANGED <<send, dataToSend, dataSent, rcv, hdlc, line>>
  BY Zenon DEF Receive, ReceiveOverflows, Mail!Drain, caller, InProcess
<1>2. pc # "decode" /\ pc # "send"
  BY <1>1
<1>3. /\ ~retCode /\ rcv = <<>> /\ meter = Connected
      /\ hdlc = [type |-> "SNRM", sss |-> 0, rrr |-> 0]
      /\ loop \/ dataToSend # <<>>
      /\ dataToSend \in {<<>>, send} /\ dataSent \in Seq(Snrms)
      /\ dataToSend # <<>> => Silent
      /\ written + Len(mData) + Len(toClient) + 2 * Len(toMeter) <= 4
      /\ Quiet \/ (toMeter = <<>> /\ From(Stream, Ua, 1))
      /\ Len(toMeter) <= 1
      /\ loop => dataToSend = <<>>
  BY <1>1, <1>2, GreetingRuns, Zenon
<1>4. Len(mData) \in Nat /\ Len(toClient) \in Nat /\ Len(toMeter) \in Nat
      /\ written \in Nat
  BY StreamType, LenProperties DEF TypeInv, Streams, Counters
<1>5. ~ReceiveOverflows
  <2>1. ~(written + Len(mData) > BufferSize)
    BY <1>3, <1>4, SizeAssumption, SMT
  <2> QED
    BY <2>1 DEF ReceiveOverflows
<1>6. /\ Receive /\ retCode' = retCode /\ loop' = loop
      /\ written' = written + Len(mData)
      /\ pc' = IF loop THEN "decode" ELSE "end"
  <2>1. Receive
    BY <1>5
  <2> QED
    BY <2>1 DEF Receive
<1>7. CASE ~loop
  <2>1. pc' = "end" /\ Silent
    BY <1>3, <1>6, <1>7
  <2>2. Silent'
    BY <1>1, <2>1, Zenon DEF Silent, line
  <2>3. pc' # "failed" /\ pc' # "idle" /\ ~InProcess'
    BY <2>1 DEF InProcess
  <2> QED
    BY <1>1, <1>3, <1>6, <2>1, <2>2, <2>3, Zenon DEF Greeting, line
<1>8. CASE loop
  <2>1. /\ pc' = "decode" /\ pc' # "failed" /\ pc' # "idle" /\ pc' # "end"
        /\ pc' # "send" /\ dataToSend = <<>>
    BY <1>3, <1>6, <1>8
  <2>2. dataSent \in Seq(Clients)
    <3>1. Snrms \subseteq Clients
      BY DEF Snrms, Clients
    <3> QED
      BY <1>3, <3>1, SeqMonotonic, Zenon
  <2>3. PICK a \in Seq(Others) : Stream = a \o Stream' /\ Stream' \in Seq(Half)
    <3>1. PICK a \in Seq(Half) : Stream = a \o Stream' /\ Stream' \in Seq(Half)
                                 /\ (pc' = "decode" => a \in Seq(Others))
      BY <1>6, <2>2, ReceiveTakes, Zenon
    <3> QED
      BY <2>1, <3>1
  <2>4. Quiet' \/ (toMeter' = <<>> /\ From(Stream, Ua, 1)' )
    <3>1. CASE Quiet
      <4>1. a \in Seq(Half)
        BY SeqMonotonic, Zenon DEF Others
      <4> QED
        BY <2>3, <3>1, <4>1, OthersConcat, Zenon DEF Quiet
    <3>2. CASE toMeter = <<>> /\ From(Stream, Ua, 1)
      <4>1. PICK t \in Seq(Half) : t = Stream'
        BY <2>3
      <4>2. From(a \o t, Ua, 1)
        BY <2>3, <3>2, <4>1, Zenon
      <4>3. Len(Ua) \in Nat /\ \A i \in 1..Len(Ua) : Ua[i] \notin Others
        BY UaBytes
      <4>4. 1 \in Nat \ {0}
        BY SMT
      <4>5. t \in Seq(Others) \/ From(t, Ua, 1)
        BY <4>2, <4>3, <4>4, FromDropOthers, Zenon
      <4> QED
        BY <1>1, <3>2, <4>1, <4>5, Zenon DEF Quiet, line, From
    <3> QED
      BY <1>3, <3>1, <3>2
  <2>5. /\ written' + Len(mData') + Len(toClient') + 2 * Len(toMeter') <= 4
        /\ Len(toMeter') <= 1
    <3>1. Len(mData') = 0 /\ toClient' = toClient /\ toMeter' = toMeter
      BY <1>1, EmptySeq DEF line
    <3> QED
      BY <1>3, <1>4, <1>6, <3>1, SMT
  <2>6. InProcess'
    BY <2>1 DEF InProcess
  <2> QED
    BY <1>1, <1>3, <1>6, <1>8, <2>1, <2>4, <2>5, <2>6, Zenon DEF Greeting, line
<1> QED
  BY <1>7, <1>8

\* The head of mRcvArray is the UA, or a frame that is jumped over.
LEMMA GreetingDecode ==
  ASSUME TypeInv, TypeInv', Connects, Greeting, exchange' = 0,
         DecodeNothing \/ DecodeReceiveReady \/ DecodeFrame
  PROVE  Greeting'
<1>1. /\ exchange = 0 /\ pc = "decode" /\ InProcess
      /\ UNCHANGED <<mData, send, dataSent, written, line>>
  BY Zenon
     DEF DecodeNothing, DecodeReceiveReady, DecodeFrame, mailbox, caller, process,
         InProcess
<1>2. /\ meter = Connected /\ hdlc = [type |-> "SNRM", sss |-> 0, rrr |-> 0]
      /\ retCode => ~loop /\ toMeter = <<>> /\ Quiet /\ rcv = <<<<0, 1>>>>
      /\ ~retCode => rcv = <<>>
      /\ loop \/ retCode \/ dataToSend # <<>>
      /\ dataToSend = <<>> /\ dataSent \in Seq(Snrms)
      /\ written + Len(mData) + Len(toClient) + 2 * Len(toMeter) <= 4
      /\ Quiet \/ (toMeter = <<>> /\ From(Stream, Ua, 1))
      /\ Len(toMeter) <= 1
  BY <1>1, GreetingRuns, Zenon
<1>3. CASE DecodeNothing
  <2>1. UNCHANGED <<unread, toClient, toMeter, rcv, retCode, loop, hdlc, dataToSend>>
        /\ pc' = Turn(loop)
    BY <1>3, Zenon DEF DecodeNothing, process, mailbox, line
  <2>2. CASE loop
    <3>1. /\ pc' = "send" /\ pc' # "failed" /\ pc' # "idle" /\ pc' # "end"
      BY <2>1, <2>2 DEF Turn
    <3>2. InProcess'
      BY <3>1 DEF InProcess
    <3>3. Stream' = Stream
      BY <1>1, <2>1, <3>2, Zenon DEF Stream
    <3>4. ~retCode
      BY <1>2, <2>2
    <3> QED
      BY <1>1, <1>2, <2>1, <2>2, <3>1, <3>3, <3>4, Zenon DEF Greeting, Quiet, line
  <2>3. CASE ~loop
    <3>1. /\ pc' = "end" /\ pc' # "failed" /\ pc' # "idle"
      BY <2>1, <2>3 DEF Turn
    <3>2. ~InProcess'
      BY <3>1 DEF InProcess
    <3>3. retCode /\ Quiet /\ toMeter = <<>> /\ rcv = <<<<0, 1>>>>
      BY <1>2, <2>3
    <3>4. Stream' = mData \o toClient /\ Stream = unread \o (mData \o toClient)
      BY <1>1, <2>1, <3>2, Zenon DEF Stream
    <3>5. Quiet'
      BY <3>3, <3>4, StreamType, OthersConcat, Zenon DEF Quiet
    <3> QED
      BY <1>1, <1>2, <2>1, <3>1, <3>2, <3>3, <3>5, Zenon DEF Greeting, line
  <2> QED
    BY <2>2, <2>3
<1>4. ~DecodeReceiveReady
  <2>1. unread \in Seq(UaHalves)
    BY <1>1, Zenon DEF Connects
  <2>2. ASSUME HeadDecodes PROVE unread[1].frame.type # "RR"
    <3>1. Len(unread) >= 2 /\ Len(unread) \in Nat
      BY <2>2, StreamType, Zenon DEF HeadDecodes
    <3>2. 1 \in 1..Len(unread)
      BY <3>1, SMT
    <3>3. unread[1] \in UaHalves
      BY <2>1, <3>2, ElementOfSeq, Zenon
    <3> QED
      BY <2>2, <3>3 DEF HeadDecodes, UaHalves
  <2> QED
    BY <2>2, Zenon DEF DecodeReceiveReady
<1>5. CASE DecodeFrame
  <2>1. PICK a \in Seq(Half) :
          /\ Len(a) = 2 /\ a[1] = unread[1] /\ unread' \in Seq(Half)
          /\ Stream = a \o (unread' \o (mData \o toClient))
          /\ a[1] \notin Others /\ a[1].frame \in Frame
    BY <1>5, DecodeTakes, Zenon
  <2>2. PICK t : t = unread' \o (mData \o toClient)
    OBVIOUS
  <2>3. t \in Seq(Half)
    BY <2>1, <2>2, StreamType, ConcatProperties
  <2>4. ~Quiet
    <3>1. 1 \in 1..Len(a)
      BY <2>1, SMT
    <3>2. a \notin Seq(Others)
      BY <2>1, <3>1, ElementOfSeq, Zenon
    <3> QED
      BY <2>1, <2>2, <2>3, <3>2, OthersConcat, Zenon DEF Quiet
  <2>5. toMeter = <<>> /\ From(a \o t, Ua, 1) /\ ~retCode /\ rcv = <<>>
    <3>1. toMeter = <<>> /\ From(Stream, Ua, 1) /\ ~retCode /\ rcv = <<>>
      BY <1>2, <2>4
    <3> QED
      BY <2>1, <2>2, <3>1, Zenon
  <2>6. Len(Ua) \in Nat /\ 1 \in Nat \ {0} /\ 1 + 2 > Len(Ua) /\ 1 + 2 \in Int
    BY UaBytes
  <2>7. a[1] = Ua[1] /\ From(t, Ua, 1 + 2)
    <3>1. PICK low \in Nat \ {0} : low = 1
      BY <2>6
    <3>2. From(a \o t, Ua, low)
      BY <2>5, <3>1, Zenon
    <3>3. a[1] = Ua[low] /\ From(t, Ua, low + 2)
      <4>1. PICK B : B = Ua
        OBVIOUS
      <4>2. /\ a \in Seq(Half) /\ Len(a) = 2 /\ t \in Seq(Half) /\ Len(B) \in Nat
            /\ From(a \o t, B, low) /\ a[1] \notin Others
        BY <2>1, <2>3, <2>6, <3>2, <4>1, Zenon
      <4>3. a[1] = B[low] /\ From(t, B, low + 2)
        BY <4>2, FromHead
      <4> QED
        BY <4>1, <4>3, Zenon
    <3> QED
      BY <3>1, <3>3, Zenon
  <2>8. t \in Seq(Others)
    BY <2>3, <2>6, <2>7, FromNothing, Zenon
  <2>9. unread[1].frame = UaFrame
    BY <2>1, <2>7, UaBytes
  <2>10. PICK f : f = unread[1].frame
    OBVIOUS
  <2>11. Final(f) /\ f.type # "I" /\ f.info = <<0, 1>>
    BY <2>9, <2>10, UaBytes
  <2>12. /\ rcv' = Append(rcv, f.info)
         /\ hdlc' = [hdlc EXCEPT !.rrr = hdlc.rrr, !.type = hdlc.type]
         /\ dataToSend' = dataToSend
         /\ retCode' = TRUE /\ loop' = FALSE
         /\ pc' = IF unread' = <<>> THEN Turn(loop') ELSE "decode"
    BY <1>5, <2>10, <2>11, Zenon DEF DecodeFrame
  <2>13. rcv' = <<<<0, 1>>>> /\ hdlc' = hdlc
    <3>1. rcv' = Append(<<>>, <<0, 1>>)
      BY <2>5, <2>11, <2>12, Zenon
    <3>2. Append(<<>>, <<0, 1>>) = <<<<0, 1>>>>
      BY SMT
    <3>3. hdlc' = hdlc
      BY <1>2, <2>12
    <3> QED
      BY <3>1, <3>2, <3>3, Zenon
  <2>14. pc' \in {"decode", "end"}
    BY <2>12 DEF Turn
  <2>15. Quiet'
    <3>1. mData' = mData /\ toClient' = toClient
      BY <1>1, Zenon DEF line
    <3>2. CASE InProcess'
      BY <2>2, <2>8, <3>1, <3>2, Zenon DEF Quiet, Stream
    <3>3. CASE ~InProcess'
      <4>1. mData \o toClient \in Seq(Others)
        BY <2>1, <2>2, <2>8, StreamType, OthersConcat, Zenon
      <4> QED
        BY <3>1, <3>3, <4>1, Zenon DEF Quiet, Stream
    <3> QED
      BY <3>2, <3>3
  <2>16. pc' # "idle" /\ pc' # "send" /\ (InProcess' => pc' = "decode")
    BY <2>14 DEF InProcess
  <2> QED
    BY <1>1, <1>2, <2>5, <2>12, <2>13, <2>15, <2>16, Zenon DEF Greeting, line
<1> QED
  BY <1>3, <1>4, <1>5

\* A timeout ends exchange 0, or it sends the SNRM again.
LEMMA GreetingTimeout ==
  ASSUME Retries < LastCount, TypeInv, TypeInv', Connects, OnTime, Greeting,
         exchange' = 0, TimeoutFails \/ TimeoutResyncs
  PROVE  Greeting'
<1>1. /\ exchange = 0 /\ pc = "wait" /\ InProcess /\ mData' = <<>>
      /\ call = "expired" /\ UNCHANGED <<rcv, line>>
  BY Zenon DEF TimeoutFails, TimeoutResyncs, Mail!Drain, caller, InProcess
<1>2. ~TimeoutResyncs
  <2>1. retries = Retries
    BY <1>1, Zenon DEF Connects
  <2>2. Count(Retries) = Retries + 1
    <3>1. Retries \in Nat /\ LastCount \in Nat /\ Retries < LastCount
      BY CounterAssumption, SMT
    <3> QED
      BY <3>1, SMT DEF Count
  <2>3. ~(Count(retries) <= Retries)
    BY <2>1, <2>2, CounterAssumption, SMT
  <2> QED
    BY <2>3 DEF TimeoutResyncs
<1>3. pc' = "end" /\ retCode' = FALSE /\ UNCHANGED hdlc
  BY <1>2, Zenon DEF TimeoutFails
<1>4. rcv = <<>> /\ meter = Connected
      /\ hdlc = [type |-> "SNRM", sss |-> 0, rrr |-> 0]
  <2>1. pc # "decode" /\ retCode \in BOOLEAN
    BY <1>1 DEF TypeInv, Counters
  <2> QED
    BY <1>1, <2>1, GreetingRuns, Zenon
<1>5. Silent'
  BY <1>1, Zenon DEF OnTime, Silent, line
<1>6. pc' # "idle" /\ pc' # "failed" /\ ~InProcess'
  BY <1>3 DEF InProcess
<1> QED
  BY <1>1, <1>3, <1>4, <1>5, <1>6, Zenon DEF Greeting, line

\* The meter answers with the UA; the reader and the line move bytes on.
LEMMA GreetingLine ==
  ASSUME "answer" \notin Losses, TypeInv, TypeInv', Connects, Greeting,
         exchange' = 0, pc' # "failed",
         Arrive \/ MeterReceives \/ LoseRequest \/ LoseAnswer
  PROVE  Greeting'
<1>1. exchange = 0 /\ pc # "failed" /\ UNCHANGED <<pc, caller, process, hdlc>>
  BY Zenon DEF Arrive, MeterReceives, LoseRequest, LoseAnswer, caller
<1>2. toMeter # <<>> \/ toClient # <<>>
  <2>1. CASE Arrive
    <3>1. PICK n \in 1..Len(toClient) : TRUE
      BY <2>1, Zenon DEF Arrive
    <3>2. Len(toClient) # 0
      BY <3>1, StreamType, SMT
    <3> QED
      BY <3>2, EmptySeq
  <2> QED
    BY <2>1, Zenon DEF MeterReceives, LoseRequest, LoseAnswer
<1>3. pc # "idle" /\ ~(pc = "end" /\ ~retCode)
  BY <1>1, <1>2, Zenon DEF Greeting, Silent
<1>4. InProcess => dataToSend = <<>>
  BY <1>1, <1>2, GreetingRuns, Zenon DEF Silent
<1>5. /\ meter = Connected /\ hdlc = [type |-> "SNRM", sss |-> 0, rrr |-> 0]
      /\ retCode => toMeter = <<>> /\ Quiet
  BY <1>1, <1>3, Zenon DEF Greeting
<1>6. UNCHANGED <<unread, written, send, dataToSend, dataSent, retCode, loop, rcv>>
      /\ InProcess' = InProcess /\ pc' = pc
  BY <1>1, Zenon DEF process, InProcess
<1> DEFINE Runs ==
      /\ ~retCode => rcv = <<>>
      /\ retCode => pc = "decode" /\ ~loop /\ rcv = <<<<0, 1>>>>
      /\ pc = "send" => loop
      /\ loop \/ retCode \/ dataToSend # <<>>
      /\ dataSent \in Seq(Snrms)
<1>11. InProcess => Runs
  BY <1>1, GreetingRuns, Zenon
<1>12. ~InProcess => rcv = <<<<0, 1>>>> /\ retCode
  <2>1. pc \in {"idle", "send", "wait", "decode", "end", "failed"}
    BY DEF TypeInv, Counters
  <2>2. ~InProcess => pc = "end"
    BY <1>1, <1>3, <2>1 DEF InProcess
  <2> QED
    BY <1>1, <1>3, <2>2, Zenon DEF Greeting
<1>13. ASSUME ~InProcess, toMeter' = toMeter, meter' = meter, Quiet'
       PROVE  Greeting'
  <2>1. pc' # "idle" /\ ~(pc' = "end" /\ ~retCode') /\ ~InProcess'
    BY <1>3, <1>6, <1>13, Zenon
  <2>2. /\ meter' = Connected /\ hdlc' = [type |-> "SNRM", sss |-> 0, rrr |-> 0]
        /\ retCode' /\ toMeter' = <<>> /\ rcv' = <<<<0, 1>>>>
    BY <1>1, <1>5, <1>6, <1>12, <1>13, Zenon
  <2> QED
    BY <1>13, <2>1, <2>2, Zenon DEF Greeting
<1>14. ASSUME InProcess, meter' = Connected,
              retCode => toMeter' = <<>> /\ Quiet',
              Quiet' \/ (toMeter' = <<>> /\ From(Stream, Ua, 1)'),
              Len(toMeter') <= 1,
              written' + Len(mData') + Len(toClient') + 2 * Len(toMeter') <= 4
       PROVE  Greeting'
  <2>1. pc' # "idle" /\ ~(pc' = "end" /\ ~retCode')
    BY <1>3, <1>6, Zenon
  <2>2. hdlc' = [type |-> "SNRM", sss |-> 0, rrr |-> 0]
    BY <1>1, <1>5, Zenon
  <2>3. dataToSend' = <<>> /\ Runs'
    <3>1. Runs /\ dataToSend = <<>>
      BY <1>4, <1>11, <1>14, Zenon
    <3> QED
      BY <1>6, <3>1, Zenon
  <2>4. IF retCode' THEN toMeter' = <<>> /\ Quiet' /\ rcv' = <<<<0, 1>>>>
                    ELSE rcv' = <<>>
    BY <1>6, <1>14, <2>3, Zenon
  <2> QED
    BY <1>14, <2>1, <2>2, <2>3, <2>4, Zenon DEF Greeting
<1>7. CASE Arrive
  <2>1. mData' \o toClient' = mData \o toClient
        /\ UNCHANGED <<toMeter, meter>>
    BY <1>7, ArriveKeeps, Zenon
  <2>2. Stream' = Stream
    BY <1>1, <1>6, <2>1, Zenon DEF Stream, InProcess
  <2>3. Len(mData') + Len(toClient') = Len(mData) + Len(toClient)
    <3>1. Len(mData' \o toClient') = Len(mData') + Len(toClient')
      <4>1. mData' \in Seq(Half) /\ toClient' \in Seq(Half)
        BY Zenon DEF TypeInv, Streams
      <4> QED
        BY <4>1, ConcatProperties
    <3> QED
      BY <2>1, <3>1, StreamType
  <2>4. written + Len(mData) + Len(toClient) + 2 * Len(toMeter) <= 4
        => written' + Len(mData') + Len(toClient') + 2 * Len(toMeter') <= 4
    <3>1. Len(mData') \in Nat /\ Len(toClient') \in Nat
      <4>1. mData' \in Seq(Half) /\ toClient' \in Seq(Half)
        BY Zenon DEF TypeInv, Streams
      <4> QED
        BY <4>1, LenProperties
    <3>2. toMeter' = toMeter /\ written' = written
      BY <1>6, <2>1
    <3>3. written \in Nat /\ Len(toMeter) \in Nat
      BY LenProperties DEF TypeInv, Streams, Counters
    <3> QED
      BY <2>3, <3>1, <3>2, <3>3, StreamType, SMT
  <2>5. CASE ~InProcess
    <3>1. Quiet'
      BY <1>5, <1>12, <2>2, <2>5, Zenon DEF Quiet
    <3> QED
      BY <1>13, <2>1, <2>5, <3>1, Zenon
  <2>6. CASE InProcess
    <3>1. /\ Quiet \/ (toMeter = <<>> /\ From(Stream, Ua, 1))
          /\ Len(toMeter) <= 1
          /\ written + Len(mData) + Len(toClient) + 2 * Len(toMeter) <= 4
      BY <1>1, <2>6, GreetingRuns, Zenon
    <3>2. Quiet' \/ (toMeter' = <<>> /\ From(Stream', Ua, 1))
      BY <2>1, <2>2, <3>1, Zenon DEF Quiet
    <3> QED
      <4>1. /\ meter' = Connected /\ (retCode => toMeter' = <<>> /\ Quiet')
            /\ Len(toMeter') <= 1
        BY <1>5, <2>1, <2>2, <3>1, Zenon DEF Quiet
      <4>2. written' + Len(mData') + Len(toClient') + 2 * Len(toMeter') <= 4
        BY <2>4, <3>1, Zenon
      <4> QED
        BY <1>14, <2>6, <3>2, <4>1, <4>2, Zenon
  <2> QED
    BY <2>5, <2>6
<1>8. CASE MeterReceives
  <2>1. toMeter # <<>> /\ toMeter' = Tail(toMeter) /\ mData' = mData
    BY <1>8, Zenon DEF MeterReceives, mailbox
  <2>2. InProcess /\ ~retCode
    <3>1. pc \in {"idle", "send", "wait", "decode", "end", "failed"}
      BY DEF TypeInv, Counters
    <3>2. ~retCode
      BY <1>5, <2>1
    <3> QED
      BY <1>1, <1>3, <3>1, <3>2 DEF InProcess
  <2>3. /\ Quiet \/ (toMeter = <<>> /\ From(Stream, Ua, 1))
        /\ Len(toMeter) <= 1
        /\ written + Len(mData) + Len(toClient) + 2 * Len(toMeter) <= 4
    BY <1>1, <2>2, GreetingRuns, Zenon
  <2>4. Quiet
    BY <2>1, <2>3
  <2>5. Len(toMeter) = 1 /\ toMeter \in Seq(Frame) /\ toMeter \in Seq(Snrms)
    <3>1. toMeter \in Seq(Frame) /\ toMeter \in Seq(Snrms)
      BY <1>1, Zenon DEF TypeInv, Streams, Connects
    <3>2. Len(toMeter) \in Nat \ {0}
      BY <2>1, <3>1, EmptySeq
    <3> QED
      <4>1. Len(toMeter) <= 1
        BY <1>1, <2>2, GreetingRuns, Zenon
      <4>2. PICK n \in Nat \ {0} : n = Len(toMeter)
        BY <3>2
      <4>3. n = 1
        BY <4>1, <4>2, SMT
      <4> QED
        BY <3>1, <4>2, <4>3, Zenon
  <2>6. toMeter' \in Seq(Frame) /\ Len(toMeter') = 0 /\ Head(toMeter) \in Snrms
    <3>1. Tail(toMeter) \in Seq(Frame) /\ Len(Tail(toMeter)) = Len(toMeter) - 1
          /\ Head(toMeter) \in Snrms
      BY <2>1, <2>5, HeadTailProperties
    <3> QED
      BY <2>1, <2>5, <3>1, SMT
  <2>7. toMeter' = <<>>
    BY <2>6, EmptySeq
  <2>8. PICK f : f = Head(toMeter)
    OBVIOUS
  <2>9. f.type = "SNRM" /\ f.type # "I" /\ f.type # "RR"
    BY <2>6, <2>8 DEF Snrms
  <2>10. Connected.answering = 0
    BY DEF Connected
  <2>11. toClient' = toClient \o Ua /\ meter' = Connected
    BY <1>8, <2>8, <2>9, <2>10, Zenon DEF MeterReceives, Ua, UaFrame
  <2>12. Stream' = Stream \o Ua
    <3>1. Stream' = unread \o (mData \o (toClient \o Ua))
      BY <1>1, <1>6, <2>1, <2>2, <2>11, Zenon DEF Stream, InProcess
    <3>2. Stream = unread \o (mData \o toClient)
      BY <2>2, Zenon DEF Stream
    <3>3. mData \o (toClient \o Ua) = (mData \o toClient) \o Ua
      BY StreamType, UaBytes, Associative, ZenonT(60)
    <3>4. unread \o ((mData \o toClient) \o Ua) = (unread \o (mData \o toClient)) \o Ua
      BY StreamType, UaBytes, Associative, ZenonT(60)
    <3> QED
      BY <3>1, <3>2, <3>3, <3>4, Zenon
  <2>13. From(Stream, Ua, 1)'
    <3>1. PICK s \in Seq(Others) : s = Stream
      BY <2>4 DEF Quiet
    <3>2. From(s \o Ua, Ua, 1)
      BY UaBytes, FromStart, Zenon
    <3>3. s \o Ua = Stream'
      BY <2>12, <3>1, Zenon
    <3> QED
      BY <3>2, <3>3, Zenon DEF From
  <2>14. Len(toClient') = Len(toClient) + 2
    <3>1. Len(toClient \o Ua) = Len(toClient) + Len(Ua)
      BY StreamType, UaBytes, ConcatProperties
    <3> QED
      BY <2>11, <3>1, UaBytes, SMT
  <2>15. /\ written' + Len(mData') + Len(toClient') + 2 * Len(toMeter') <= 4
         /\ Len(toMeter') <= 1
    <3>1. written' = written /\ Len(mData') = Len(mData) /\ written \in Nat
      BY <1>6, <2>1 DEF TypeInv, Counters
    <3> QED
      BY <2>3, <2>5, <2>6, <2>14, <3>1, StreamType, SMT
  <2> QED
    BY <1>14, <2>2, <2>7, <2>11, <2>13, <2>15, Zenon
<1>9. CASE LoseRequest
  <2>1. toMeter # <<>> /\ toMeter' = Tail(toMeter) /\ UNCHANGED <<mailbox, toClient, meter>>
    BY <1>9, Zenon DEF LoseRequest
  <2>2. Len(toMeter') \in Nat /\ Len(toMeter') = Len(toMeter) - 1
        /\ Len(toMeter) \in Nat /\ toMeter \in Seq(Frame)
    <3>1. toMeter \in Seq(Frame)
      BY DEF TypeInv, Streams
    <3> QED
      BY <2>1, <3>1, HeadTailProperties, LenProperties
  <2>3. InProcess /\ ~retCode
    <3>1. pc \in {"idle", "send", "wait", "decode", "end", "failed"}
      BY DEF TypeInv, Counters
    <3>2. ~retCode
      BY <1>5, <2>1
    <3> QED
      BY <1>1, <1>3, <3>1, <3>2 DEF InProcess
  <2>4. Quiet /\ Len(toMeter) <= 1
        /\ written + Len(mData) + Len(toClient) + 2 * Len(toMeter) <= 4
    BY <1>1, <2>1, <2>3, GreetingRuns, Zenon
  <2>5. Stream' = Stream /\ mData' = mData
    BY <1>1, <1>6, <2>1, Zenon DEF Stream, InProcess, mailbox
  <2>6. /\ written' + Len(mData') + Len(toClient') + 2 * Len(toMeter') <= 4
        /\ Len(toMeter') <= 1
    <3>1. written' = written /\ Len(mData') = Len(mData) /\ written \in Nat
          /\ Len(toClient') = Len(toClient)
      BY <1>6, <2>1, <2>5 DEF TypeInv, Counters
    <3> QED
      BY <2>2, <2>4, <3>1, StreamType, SMT
  <2> QED
    BY <1>5, <1>14, <2>1, <2>3, <2>4, <2>5, <2>6, Zenon DEF Quiet
<1>10. CASE LoseAnswer
  BY <1>10 DEF LoseAnswer
<1> QED
  BY <1>7, <1>8, <1>9, <1>10

\* Every step keeps Greeting.
LEMMA GreetingStep ==
  ASSUME Retries < LastCount, BufferSize >= 4, "answer" \notin Losses,
         TypeInv, TypeInv', Connects, OnTime, Greeting, [Next]_vars
  PROVE  Greeting'
<1> SUFFICES ASSUME exchange' = 0, pc' # "failed" PROVE Greeting'
  BY Zenon DEF Greeting
<1>1. ~NextExchange
  <2>1. exchange \in Nat
    BY SizeAssumption, SMT DEF TypeInv, Counters
  <2> QED
    BY <2>1, SMT DEF NextExchange
<1>2. ~GiveUp
  BY DEF GiveUp
<1>3. CASE Notified \/ Expires \/ Announce \/ Finished \/ UNCHANGED vars
  <2>1. UNCHANGED <<pc, caller, process, hdlc, line, mData>>
    BY <1>3, Zenon
       DEF Notified, Expires, Announce, Finished, vars, Mail!Take, Mail!Expire,
           Mail!Ring, mailbox
  <2>2. Stream' = Stream
    BY <2>1, Zenon DEF Stream, InProcess, process, line
  <2> QED
    BY <2>1, <2>2, Zenon
       DEF Greeting, Quiet, Silent, InProcess, caller, process, line
<1> QED
  BY <1>1, <1>2, <1>3, GreetingEntry, GreetingTransmit, GreetingReceive,
     GreetingDecode, GreetingTimeout, GreetingLine, Zenon DEF Next, Main

-----------------------------------------------------------------------------
(* The other exchanges, one group of actions at a time                     *)

\* The conjuncts, where they are looked at.
LEMMA AskingParts ==
  ASSUME Asking, exchange > 0, pc # "failed"
  PROVE  /\ Commands /\ Outgoing /\ Received /\ OneAtATime
         /\ pc # "idle" => InOrder
BY DEF Asking

\* Nothing goes to the meter and nothing comes from it: bytes leave the stream
\* at its head, none of an answer while HdlcProcess goes on.
LEMMA AskingGoesOn ==
  ASSUME TypeInv, TypeInv', Asking, exchange > 0, pc # "failed",
         (pc' = "idle") <=> (pc = "idle"), InProcess' => InProcess,
         UNCHANGED <<exchange, send, meter, toMeter, rcv>>,
         hdlc'.rrr = hdlc.rrr,
         NEW a \in Seq(Half), Stream = a \o Stream',
         InProcess' => a \in Seq(Others) \/ Quiet',
         Outgoing', AskIsNext' => AskIsNext \/ (Quiet' /\ toMeter = <<>>),
         retCode' /\ pc' # "idle" => retCode /\ ~loop' /\ pc' \in {"decode", "end"}
  PROVE  Asking'
<1>1. /\ Commands /\ Outgoing /\ Received /\ OneAtATime
      /\ pc # "idle" => InOrder
  BY AskingParts
<1>2. Commands'
  BY <1>1 DEF Commands, Request, Ask, Current, Asks
<1>3. Received'
  BY <1>1 DEF Received, Sent
<1>4. Asks' = Asks /\ OnTheLine' = OnTheLine
  BY DEF Asks, OnTheLine, Burst, Reply
<1>5. Stream' \in Seq(Half) /\ meter \in MeterType
  <2>1. meter \in MeterType
    BY DEF TypeInv, Counters, MeterType
  <2>2. mData' \in Seq(Half) /\ toClient' \in Seq(Half) /\ unread' \in Seq(Half)
    BY DEF TypeInv, Streams
  <2>3. mData' \o toClient' \in Seq(Half)
    BY <2>2, ConcatProperties
  <2>4. unread' \o (mData' \o toClient') \in Seq(Half)
    BY <2>2, <2>3, ConcatProperties
  <2> QED
    BY <2>1, <2>3, <2>4, Zenon DEF Stream
<1>6. Quiet => Quiet'
  BY <1>5, OthersConcat, Zenon DEF Quiet
<1>7. Len(OnTheLine) \in Nat
      /\ \A j \in 1..Len(OnTheLine) : OnTheLine[j] \notin Others
  <2>1. Bytes(Burst(meter)) \in Seq(Half)
        /\ \A j \in 1..Len(Bytes(Burst(meter))) : Bytes(Burst(meter))[j] \notin Others
    BY <1>5, BurstBytes, Zenon
  <2> QED
    BY <2>1, LenProperties, Zenon DEF OnTheLine
<1>8. PICK B : B = OnTheLine
  OBVIOUS
<1>9. OneAtATime'
  <2>1. \/ Quiet'
        \/ /\ meter'.answering = exchange' /\ Asks' = {} /\ ~AskIsNext'
           /\ \E low \in Nat \ {0} : From(Stream', B, low)
    <3>1. CASE Quiet
      BY <1>6, <3>1
    <3>2. CASE ~Quiet
      <4>1. /\ meter.answering = exchange /\ Asks = {} /\ ~AskIsNext
            /\ \E low \in Nat \ {0} : From(Stream, B, low)
        BY <1>1, <1>8, <3>2, Zenon DEF OneAtATime
      <4>2. \E low \in Nat \ {0} : From(Stream', B, low)
        <5>1. PICK low \in Nat \ {0} : From(a \o Stream', B, low)
          BY <4>1, Zenon
        <5>2. PICK s \in Seq(Half) : s = Stream'
          BY <1>5
        <5>3. Len(B) \in Nat /\ From(a \o s, B, low)
          BY <1>7, <1>8, <5>1, <5>2, Zenon
        <5>4. \E l \in Nat \ {0} : From(s, B, l)
          BY <5>3, FromDrop
        <5> QED
          BY <5>2, <5>4, Zenon
      <4> QED
        BY <1>4, <4>1, <4>2, Zenon
    <3> QED
      BY <3>1, <3>2
  <2>2. meter'.answering # exchange' =>
          /\ pc' # "idle" => rcv' = <<>>
          /\ Asks' \subseteq {1} /\ (AskIsNext' => toMeter' = <<>>)
    BY <1>1, <1>4, Zenon DEF OneAtATime
  <2>3. OnTheLine' = B
    BY <1>4, <1>8
  <2> HIDE DEF From
  <2> QED
    BY <2>1, <2>2, <2>3, Zenon DEF OneAtATime
<1>10. ASSUME pc' # "idle" PROVE InOrder'
  <2>1. InOrder
    BY <1>1, <1>10
  <2>2. rcv' # <<>> => rcv'[1][1] = exchange'
    BY <2>1, Zenon DEF InOrder
  <2>3. retCode' => /\ ~loop' /\ pc' \in {"decode", "end"} /\ Asks' = {}
                    /\ rcv' # <<>>
    BY <1>4, <1>10, <2>1, Zenon DEF InOrder
  <2>4. ASSUME Begun'
        PROVE  /\ \A i \in 1..Len(rcv') : rcv'[i] = <<exchange', i>>
               /\ Len(rcv') \in meter'.acked..Sent(meter')
               /\ hdlc'.rrr = SeqAfter(meter'.base, Len(rcv'))
               /\ InProcess' =>
                    Quiet' \/ From(Stream', B, 2 * (Len(rcv') - meter'.acked) + 1)
               /\ retCode' => Len(rcv') = Segments /\ Quiet'
    <3>1. Begun
      BY <2>4, Zenon DEF Begun
    <3>2. /\ \A i \in 1..Len(rcv) : rcv[i] = <<exchange, i>>
          /\ Len(rcv) \in meter.acked..Sent(meter)
          /\ hdlc.rrr = SeqAfter(meter.base, Len(rcv))
          /\ InProcess =>
               Quiet \/ From(Stream, B, 2 * (Len(rcv) - meter.acked) + 1)
          /\ retCode => Len(rcv) = Segments /\ Quiet
      BY <1>8, <2>1, <3>1, Zenon DEF InOrder
    <3>3. ASSUME InProcess', ~Quiet'
          PROVE  From(Stream', B, 2 * (Len(rcv') - meter'.acked) + 1)
      <4>1. PICK low \in Nat \ {0} : low = 2 * (Len(rcv) - meter.acked) + 1
        <5>1. meter.acked \in Nat /\ Sent(meter) \in Nat
          BY <1>5, BurstBytes, Zenon
        <5>2. PICK l \in Int, k \in Nat : l = Len(rcv) /\ k = meter.acked
          BY <3>2, <5>1
        <5>3. l >= k
          BY <3>2, <5>1, <5>2, SMT
        <5>4. 2 * (l - k) + 1 \in Nat \ {0}
          BY <5>3, SMT
        <5> QED
          BY <5>2, <5>4, Zenon
      <4>2. From(a \o Stream', B, low)
        BY <1>6, <3>2, <3>3, <4>1, Zenon
      <4>3. PICK b \in Seq(Others) : b = a
        BY <3>3
      <4>4. PICK s \in Seq(Half) : s = Stream'
        BY <1>5
      <4>5. /\ Len(B) \in Nat /\ \A i \in 1..Len(B) : B[i] \notin Others
            /\ From(b \o s, B, low)
        BY <1>7, <1>8, <4>2, <4>3, <4>4, Zenon
      <4>6. s \in Seq(Others) \/ From(s, B, low)
        BY <4>5, FromDropOthers
      <4>7. From(Stream', B, low)
        BY <3>3, <4>4, <4>6, Zenon DEF Quiet
      <4> QED
        BY <4>1, <4>7, Zenon
    <3> QED
      BY <1>6, <1>10, <3>2, <3>3, Zenon
  <2>5. OnTheLine' = B
    BY <1>4, <1>8
  <2> QED
    BY <2>2, <2>3, <2>4, <2>5, Zenon DEF InOrder
<1> QED
  BY <1>2, <1>3, <1>9, <1>10 DEF Asking

\* The clock, the mailbox and a turn without a frame to send.
LEMMA AskingWaits ==
  ASSUME TypeInv, TypeInv', Asking, exchange' > 0, pc' # "failed",
         \/ Notified \/ Expires \/ Announce \/ Arrive \/ Finished \/ UNCHANGED vars
         \/ TransmitNothing \/ NothingToTransmit
  PROVE  Asking'
<1>1. /\ UNCHANGED <<exchange, send, meter, toMeter, rcv, hdlc>>
      /\ UNCHANGED <<dataToSend, dataSent>> /\ retCode' \in {FALSE, retCode}
      /\ mData' \o toClient' = mData \o toClient /\ unread' = unread
  <2>1. CASE Arrive
    <3>1. /\ mData' \o toClient' = mData \o toClient
          /\ UNCHANGED <<pc, caller, process, hdlc, toMeter, meter>>
      BY <2>1, ArriveKeeps, Zenon
    <3> QED
      BY <3>1, Zenon DEF caller, process
  <2>2. CASE Notified \/ Expires \/ Announce \/ Finished \/ UNCHANGED vars
    <3>1. UNCHANGED <<caller, process, hdlc, line, mData>>
      BY <2>2, Zenon
         DEF Notified, Expires, Announce, Finished, vars, Mail!Take, Mail!Expire,
             Mail!Ring, mailbox
    <3> QED
      BY <3>1, Zenon DEF caller, process, line
  <2>3. CASE TransmitNothing \/ NothingToTransmit
    <3>1. /\ UNCHANGED <<caller, send, dataToSend, dataSent, rcv, unread, hdlc,
                         line, mData>>
          /\ retCode' \in {FALSE, retCode}
      BY <2>3, Zenon
         DEF TransmitNothing, NothingToTransmit, Mail!Call, process
    <3> QED
      BY <3>1, Zenon DEF caller, line
  <2> QED
    BY <2>1, <2>2, <2>3
<1>2. \/ pc' = pc /\ loop' = loop
      \/ pc = "send" /\ pc' = "wait"
  BY Zenon
     DEF Notified, Expires, Announce, Arrive, Finished, vars, TransmitNothing,
         NothingToTransmit, process
<1>3. InProcess' = InProcess /\ (pc' = "idle") = (pc = "idle") /\ pc # "failed"
  BY <1>2 DEF InProcess
<1>4. Stream' = Stream
  BY <1>1, <1>3, Zenon DEF Stream
<1>5. AskIsNext' => AskIsNext
  BY <1>1, <1>3 DEF AskIsNext
<1>6. exchange > 0
  BY <1>1
<1>7. Outgoing'
  <2>1. Outgoing
    BY <1>3, <1>6, AskingParts
  <2>2. Asks' = Asks
    BY <1>1 DEF Asks
  <2> QED
    BY <1>1, <1>3, <1>5, <2>1, <2>2 DEF Outgoing, Ask
<1>8. retCode' /\ pc' # "idle" => retCode /\ ~loop' /\ pc' \in {"decode", "end"}
  <2>1. pc # "idle" => InOrder
    BY <1>3, <1>6, AskingParts
  <2> QED
    BY <1>1, <1>2, <1>3, <2>1 DEF InOrder
<1>9. PICK a \in Seq(Half) : a = <<>> /\ a \in Seq(Others)
  <2>1. <<>> \in Seq(Half) /\ <<>> \in Seq(Others)
    BY EmptySeq, Zenon
  <2> QED
    BY <2>1
<1>10. Stream = a \o Stream'
  BY <1>4, <1>9, StreamType, ConcatEmptySeq, Zenon
<1>11. hdlc'.rrr = hdlc.rrr
  BY <1>1
<1> QED
  BY <1>1, <1>3, <1>5, <1>6, <1>7, <1>8, <1>9, <1>10, <1>11, AskingGoesOn, Zenon

\* Bytes are received, or a timeout ends HdlcProcess.
LEMMA AskingReceives ==
  ASSUME TypeInv, TypeInv', Asking, exchange' > 0,
         Receive \/ ReceiveOverflows \/ TimeoutFails
  PROVE  Asking'
<1>1. /\ pc = "wait" /\ pc' \in {"decode", "end"} /\ InProcess /\ mData' = <<>>
      /\ UNCHANGED <<exchange, send, meter, toMeter, toClient, rcv, hdlc>>
      /\ UNCHANGED <<dataToSend, dataSent>>
      /\ retCode' \in {FALSE, retCode}
  BY Zenon
     DEF Receive, ReceiveOverflows, TimeoutFails, Mail!Drain, caller, line, InProcess
<1>2. Outgoing /\ InOrder /\ exchange > 0 /\ pc # "failed"
  <2>1. exchange > 0 /\ pc # "failed" /\ pc # "idle"
    BY <1>1
  <2> QED
    BY <2>1, AskingParts, Zenon
<1>3. ~retCode
  BY <1>1, <1>2 DEF InOrder
<1>4. InProcess' = (pc' = "decode") /\ pc' # "idle" /\ pc' # "failed"
  BY <1>1 DEF InProcess
<1>5. PICK a \in Seq(Half) : Stream = a \o Stream' /\ (InProcess' => a \in Seq(Others))
  <2>1. CASE Receive
    <3>1. dataSent \in Seq(Clients)
      BY <1>1, <1>2 DEF Outgoing
    <3> QED
      BY <1>4, <2>1, <3>1, ReceiveTakes, Zenon
  <2>2. CASE ReceiveOverflows \/ TimeoutFails
    <3>1. pc' = "end"
      BY <2>2, Zenon DEF ReceiveOverflows, TimeoutFails
    <3>2. ~InProcess'
      BY <1>4, <3>1
    <3>3. Stream' = mData' \o toClient'
      BY <3>2, Zenon DEF Stream
    <3>4. Stream' = toClient
      BY <1>1, <3>3, StreamType, ConcatEmptySeq, Zenon
    <3>5. Stream = (unread \o mData) \o toClient
      <4>1. Stream = unread \o (mData \o toClient)
        BY <1>1, Zenon DEF Stream
      <4> QED
        BY <4>1, StreamType, Associative, ZenonT(60)
    <3>6. unread \o mData \in Seq(Half)
      BY StreamType, ConcatProperties
    <3> QED
      BY <3>2, <3>4, <3>5, <3>6, Zenon
  <2> QED
    BY <2>1, <2>2
<1>6. AskIsNext' => AskIsNext
  BY <1>1, Zenon DEF AskIsNext
<1>7. Outgoing'
  <2>1. Asks' = Asks
    BY <1>1 DEF Asks
  <2> QED
    BY <1>1, <1>2, <1>6, <2>1, Zenon DEF Outgoing, Ask
<1>8. pc # "idle" /\ hdlc'.rrr = hdlc.rrr
  BY <1>1
<1>9. ~retCode'
  <2>1. retCode = FALSE
    BY <1>3, Zenon DEF TypeInv, Counters
  <2>2. retCode' = FALSE
    BY <1>1, <2>1, Zenon
  <2> QED
    BY <2>2
<1> QED
  BY <1>1, <1>2, <1>4, <1>5, <1>6, <1>7, <1>8, <1>9, AskingGoesOn, Zenon

\* The head is no frame of an answer: the loop takes its next turn.
LEMMA AskingTurns ==
  ASSUME TypeInv, TypeInv', Asking, exchange' > 0,
         DecodeNothing \/ DecodeReceiveReady
  PROVE  Asking'
<1>1. /\ pc = "decode" /\ pc' = Turn(loop) /\ InProcess
      /\ UNCHANGED <<exchange, send, meter, toMeter, toClient, rcv, hdlc, mData,
                     unread, dataSent, retCode, loop>>
      /\ dataToSend' \in {dataToSend, send}
  BY Zenon
     DEF DecodeNothing, DecodeReceiveReady, mailbox, caller, process, line, InProcess
<1>2. Commands /\ Outgoing /\ InOrder /\ exchange > 0 /\ pc # "failed"
  <2>1. exchange > 0 /\ pc # "failed" /\ pc # "idle"
    BY <1>1
  <2> QED
    BY <2>1, AskingParts, Zenon
<1>3. pc' \in {"send", "end"} /\ pc # "idle" /\ (pc' = "send" => loop)
  BY <1>1 DEF Turn
<1>4. InProcess' = (pc' = "send") /\ pc' # "idle" /\ pc' # "failed"
  BY <1>3 DEF InProcess
<1>5. PICK a \in Seq(Half) : Stream = a \o Stream' /\ (InProcess' => a \in Seq(Others))
  <2>1. CASE InProcess'
    <3>1. Stream' = Stream
      BY <1>1, <2>1, Zenon DEF Stream
    <3>2. <<>> \in Seq(Half) /\ <<>> \in Seq(Others)
      BY EmptySeq, Zenon
    <3>3. Stream = <<>> \o Stream'
      BY <3>1, StreamType, ConcatEmptySeq, Zenon
    <3> QED
      BY <3>2, <3>3
  <2>2. CASE ~InProcess'
    <3>1. Stream' = mData \o toClient /\ Stream = unread \o (mData \o toClient)
      BY <1>1, <2>2, Zenon DEF Stream
    <3> QED
      BY <2>2, <3>1, StreamType, Zenon
  <2> QED
    BY <2>1, <2>2
<1>6. send[1].type = "I"
  BY <1>2, <1>3 DEF Commands, Request
<1>7. AskIsNext' => AskIsNext
  BY <1>1, <1>6 DEF AskIsNext
<1>8. Outgoing'
  <2>1. Asks' = Asks
    BY <1>1 DEF Asks
  <2> QED
    BY <1>1, <1>2, <1>7, <2>1, Zenon DEF Outgoing, Ask
<1>9. retCode' => retCode /\ ~loop' /\ pc' \in {"decode", "end"}
  BY <1>1, <1>2, <1>3 DEF InOrder
<1>10. hdlc'.rrr = hdlc.rrr
  BY <1>1
<1> QED
  BY <1>1, <1>2, <1>3, <1>4, <1>5, <1>7, <1>8, <1>9, <1>10, AskingGoesOn, Zenon

\* After a timeout, which finds nothing on its way, an RR is next.
LEMMA AskingResyncs ==
  ASSUME TypeInv, TypeInv', OnTime, Asking, exchange' > 0, TimeoutResyncs
  PROVE  Asking'
<1>1. /\ pc = "wait" /\ pc' = Turn(loop) /\ InProcess /\ call = "expired"
      /\ UNCHANGED <<exchange, send, meter, toMeter, toClient, rcv, dataSent,
                     retCode, loop>>
      /\ dataToSend' = <<ReceiveReady(hdlc.rrr)>> /\ unread' = <<>>
      /\ mData' = <<>> /\ hdlc' = [hdlc EXCEPT !.type = "RR"]
  BY Zenon
     DEF TimeoutResyncs, Mail!Drain, caller, line, InProcess, LeftOnTimeout
<1>2. Outgoing /\ InOrder /\ exchange > 0 /\ pc # "failed" /\ pc # "idle"
  <2>1. exchange > 0 /\ pc # "failed" /\ pc # "idle"
    BY <1>1
  <2> QED
    BY <2>1, AskingParts, Zenon
<1>3. ~retCode
  BY <1>1, <1>2 DEF InOrder
<1>4. pc' \in {"send", "end"} /\ pc' # "idle"
  BY <1>1 DEF Turn
<1>5. toMeter = <<>> /\ toClient = <<>> /\ mData = <<>>
  BY <1>1, Zenon DEF OnTime, Silent
<1>6. /\ <<>> \in Seq(Half) /\ <<>> \in Seq(Others) /\ Len(<<>>) = 0
      /\ <<>> \o (<<>> \o <<>>) = <<>> /\ <<>> \o <<>> = <<>>
  <2>1. <<>> \in Seq(Half) /\ <<>> \in Seq(Others) /\ Len(<<>>) = 0
    BY EmptySeq, Zenon
  <2> QED
    BY <2>1, ConcatEmptySeq, Zenon
<1>7. Stream' = <<>> /\ Stream = unread \o <<>>
  BY <1>1, <1>5, <1>6, Zenon DEF Stream
<1>8. Quiet'
  BY <1>6, <1>7 DEF Quiet
<1>9. hdlc'.rrr = hdlc.rrr
  BY <1>1 DEF TypeInv, Counters
<1>10. Asks' = {}
  <2>1. \A i \in 1..Len(toMeter') : FALSE
    BY <1>1, <1>5, <1>6, SMT
  <2> QED
    BY <2>1 DEF Asks
<1>11. Outgoing'
  <2>1. PICK f : f = ReceiveReady(hdlc.rrr)
    OBVIOUS
  <2>2. f.type = "RR" /\ f.from = "client" /\ f.rrr = hdlc.rrr
    BY <2>1 DEF ReceiveReady
  <2>3. dataToSend' = <<f>> /\ Len(<<f>>) = 1 /\ <<f>>[1] = f
    BY <1>1, <2>1
  <2>4. Ask(dataToSend[1])' /\ Len(dataToSend') = 1
    BY <1>9, <2>2, <2>3 DEF Ask
  <2>5. dataSent' \in Seq(Clients)
    BY <1>1, <1>2 DEF Outgoing
  <2> QED
    BY <1>10, <2>4, <2>5 DEF Outgoing
<1> HIDE DEF Quiet
<1>12. PICK a \in Seq(Half) : a = unread
  BY StreamType
<1>13. Stream = a \o Stream'
  BY <1>7, <1>12, Zenon
<1> QED
  BY <1>1, <1>2, <1>3, <1>4, <1>5, <1>8, <1>9, <1>11, <1>13, AskingGoesOn, Zenon

\* HdlcProcess begins, or begins again, with an I frame.
LEMMA AskingEntry ==
  ASSUME TypeInv, TypeInv', Asking, exchange' > 0, StartExchange \/ RetryExchange
  PROVE  Asking'
<1>1. /\ UNCHANGED <<exchange, meter, toMeter, toClient, mData>>
      /\ hdlc'.rrr = hdlc.rrr /\ exchange > 0 /\ pc \in {"idle", "end"}
  <2>1. /\ UNCHANGED <<exchange, mailbox, line>> /\ pc \in {"idle", "end"}
        /\ \/ hdlc' = hdlc
           \/ \E type \in {"I", "SNRM"} : hdlc' = [hdlc EXCEPT !.type = type]
    BY Zenon DEF StartExchange, RetryExchange, caller
  <2>2. hdlc'.rrr = hdlc.rrr
    BY <2>1 DEF TypeInv, Counters
  <2> QED
    BY <2>1, <2>2 DEF mailbox, line
<1>2. /\ Commands /\ Received /\ OneAtATime
      /\ pc # "idle" => InOrder
  BY <1>1, AskingParts
<1>3. PICK f : /\ EnterHdlcProcess(f) /\ f.type = "I" /\ f.from = "client"
               /\ f.info[1] = exchange
               /\ \/ pc = "idle"
                  \/ pc = "end" /\ f = send[1]
  <2>1. CASE StartExchange
    <3>1. EnterHdlcProcess(Command("I", exchange)) /\ pc = "idle"
      BY <1>1, <2>1, SMT DEF StartExchange
    <3> QED
      BY <3>1 DEF Command
  <2>2. CASE RetryExchange
    <3>1. EnterHdlcProcess(send[1]) /\ pc = "end"
      BY <1>1, <2>2, SMT DEF RetryExchange
    <3>2. Request(send[1]) /\ Current(send[1])
      BY <1>2, <3>1 DEF Commands
    <3> QED
      BY <3>1, <3>2 DEF Request, Current
  <2> QED
    BY <2>1, <2>2
<1>4. /\ pc' = "send" /\ retCode' = FALSE /\ rcv' = <<>> /\ unread' = <<>>
      /\ send' = <<f>> /\ dataToSend' = <<f>> /\ dataSent' = <<>>
  BY <1>3 DEF EnterHdlcProcess
<1>5. send'[1] = f /\ dataToSend'[1] = f
  BY <1>4
<1>6. Commands'
  <2>1. pc' # "idle"
    BY <1>4
  <2>2. Request(f)' /\ Current(f)'
    <3>1. CASE pc = "idle"
      <4>1. meter.answering # exchange
        BY <1>2, <3>1 DEF Commands
      <4> QED
        BY <1>1, <1>3, <4>1 DEF Request, Current
    <3>2. CASE pc = "end"
      <4>1. Request(f) /\ Current(f)
        BY <1>2, <1>3, <3>2 DEF Commands
      <4> QED
        BY <1>1, <4>1 DEF Request, Current
    <3> QED
      BY <1>1, <3>1, <3>2
  <2>3. \A i \in 1..Len(toMeter) : Current(toMeter[i]) => toMeter[i] = f
    BY <1>2, <1>3, Zenon DEF Commands
  <2>4. Request(send[1])' /\ Current(send[1])'
    BY <1>5, <2>2 DEF Request, Current
  <2>5. \A i \in 1..Len(toMeter') :
          Current(toMeter[i])' => pc' # "idle" /\ toMeter'[i] = send'[1]
    BY <1>1, <1>5, <2>1, <2>3 DEF Current
  <2>6. /\ meter'.answering \in {exchange' - 1, exchange'}
        /\ \A i \in 1..Len(toMeter') : Request(toMeter[i])' \/ Ask(toMeter[i])'
        /\ \A i, j \in 1..Len(toMeter') :
             i <= j /\ Current(toMeter[i])' /\ toMeter'[j].type = "I"
               => Current(toMeter[j])'
        /\ \A i, j \in Asks' : i = j
    BY <1>1, <1>2 DEF Commands, Request, Ask, Current, Asks
  <2> QED
    BY <2>1, <2>4, <2>5, <2>6, Zenon DEF Commands
<1>7. ~AskIsNext'
  BY <1>3, <1>5 DEF AskIsNext
<1>8. Outgoing'
  <2>1. <<>> \in Seq(Clients)
    BY EmptySeq
  <2> QED
    BY <1>4, <1>7, <2>1 DEF Outgoing
<1>9. Received'
  BY <1>1, <1>2 DEF Received, Sent
<1>10. Stream' = Stream
  <2>1. ~InProcess /\ InProcess'
    BY <1>1, <1>4 DEF InProcess
  <2>2. Stream' = <<>> \o (mData \o toClient) /\ Stream = mData \o toClient
    BY <1>1, <1>4, <2>1, Zenon DEF Stream
  <2> QED
    BY <2>2, StreamType, ConcatEmptySeq, Zenon
<1>11. OneAtATime'
  <2>1. Asks' = Asks /\ OnTheLine' = OnTheLine
    BY <1>1 DEF Asks, OnTheLine, Burst, Reply
  <2>2. Quiet' = Quiet
    BY <1>10 DEF Quiet
  <2> HIDE DEF From
  <2>3. \/ Quiet'
        \/ /\ meter'.answering = exchange' /\ Asks' = {} /\ ~AskIsNext'
           /\ \E low \in Nat \ {0} : From(Stream', OnTheLine', low)
    BY <1>1, <1>2, <1>7, <1>10, <2>1, <2>2 DEF OneAtATime
  <2>4. meter'.answering # exchange' => Asks' \subseteq {1}
    BY <1>1, <1>2, <2>1 DEF OneAtATime
  <2> QED
    BY <1>4, <1>7, <2>3, <2>4, Zenon DEF OneAtATime
<1>12. InOrder'
  BY <1>4 DEF InOrder, Begun
<1> QED
  BY <1>6, <1>8, <1>9, <1>11, <1>12 DEF Asking

\* After the UA nothing is on its way; after an answer the meter has sent all
\* of it, and the client has counted its frames.
LEMMA AskingNext ==
  ASSUME TypeInv, TypeInv', Greeting, Asking, NextExchange
  PROVE  Asking'
<1>1. /\ pc = "end" /\ CallerAccepts /\ pc' = "idle" /\ exchange' = exchange + 1
      /\ UNCHANGED <<meter, toMeter, toClient, mData, hdlc, rcv>>
      /\ retCode /\ rcv # <<>>
  BY Zenon DEF NextExchange, CallerAccepts, mailbox, process, line
<1>2. ~InProcess /\ ~InProcess' /\ ~AskIsNext'
  BY <1>1 DEF InProcess, AskIsNext
<1>3. Stream' = Stream /\ Quiet' = Quiet
  BY <1>1, <1>2, Zenon DEF Stream, Quiet
<1>4. PICK e \in Nat : e = exchange /\ exchange' = e + 1
  BY <1>1, SizeAssumption, SMT DEF TypeInv, Counters
<1>5. Outgoing'
  BY <1>2 DEF Outgoing
<1>6. CASE e = 0
  <2>1. /\ meter = Connected /\ hdlc = [type |-> "SNRM", sss |-> 0, rrr |-> 0]
        /\ toMeter = <<>> /\ Quiet
    BY <1>1, <1>4, <1>6, Zenon DEF Greeting
  <2>2. \A i \in 1..Len(toMeter') : FALSE
    <3>1. Len(toMeter') = 0
      BY <1>1, <2>1, EmptySeq, Zenon
    <3> QED
      BY <3>1, SMT
  <2>3. Asks' = {}
    BY <2>2 DEF Asks
  <2>4. meter'.answering = 0 /\ meter'.acked = 0 /\ meter'.base = 0 /\ hdlc'.rrr = 0
        /\ exchange' = 1
    BY <1>1, <1>4, <1>6, <2>1 DEF Connected
  <2>5. Commands'
    BY <1>1, <2>2, <2>3, <2>4 DEF Commands
  <2>6. Received'
    BY <2>4 DEF Received
  <2>7. OneAtATime'
    BY <1>1, <1>2, <1>3, <2>1, <2>3 DEF OneAtATime
  <2> QED
    BY <1>1, <1>5, <2>5, <2>6, <2>7 DEF Asking
<1>7. CASE e # 0
  <2>1. Commands /\ Received /\ OneAtATime /\ InOrder
    <3>1. exchange > 0 /\ pc # "failed" /\ pc # "idle"
      BY <1>1, <1>4, <1>7, SMT
    <3> QED
      BY <3>1, AskingParts
  <2>2. meter.answering = e
    BY <1>1, <1>4, <2>1 DEF OneAtATime
  <2>3. Begun
    <3>1. rcv[1] \in IF e = 1 THEN {<<1, 1>>} ELSE (2..Exchanges) \X {1}
      BY <1>1, <1>4, <1>7 DEF CallerAccepts
    <3>2. rcv[1][1] = e
      BY <1>1, <1>4, <2>1 DEF InOrder
    <3>3. rcv[1] = <<e, 1>>
      BY <3>1, <3>2
    <3> QED
      BY <1>1, <1>4, <3>3 DEF Begun
  <2>4. /\ Len(rcv) = Segments /\ Quiet /\ Asks = {}
        /\ hdlc.rrr = SeqAfter(meter.base, Segments)
        /\ Segments \in meter.acked..Sent(meter)
    BY <1>1, <2>1, <2>3 DEF InOrder
  <2>5. Sent(meter) = Segments
    <3>1. Sent(meter) \in meter.acked..Segments /\ meter.acked \in Nat
      <4>1. meter \in MeterType
        BY DEF TypeInv, Counters, MeterType
      <4> QED
        BY <4>1, BurstBytes, Zenon
    <3> QED
      BY <2>4, <3>1, SizeAssumption, SMT
  <2>6. Asks' = {} /\ Sent(meter)' = Sent(meter)
    BY <1>1, <2>4 DEF Asks, Sent
  <2>7. \A i \in 1..Len(toMeter) :
          /\ Request(toMeter[i]) /\ toMeter[i].info[1] = e
    <3>1. \A i \in 1..Len(toMeter) : toMeter[i].type # "RR"
      BY <2>4 DEF Asks
    <3>2. \A i \in 1..Len(toMeter) : Request(toMeter[i])
      BY <2>1, <3>1 DEF Commands, Ask
    <3> QED
      BY <1>4, <2>2, <3>2 DEF Request
  <2>8. e # e + 1 /\ (e + 1) - 1 = e /\ e + 1 > 0 /\ e + 1 # 0
    BY SMT
  <2>9. Commands'
    <3>1. \A i \in 1..Len(toMeter') : Request(toMeter[i])' /\ ~Current(toMeter[i])'
      BY <1>1, <1>4, <2>2, <2>7, <2>8 DEF Request, Current
    <3>2. meter'.answering \in {exchange' - 1, exchange'} /\ meter'.answering # exchange'
      BY <1>1, <1>4, <2>2, <2>8
    <3> QED
      BY <1>1, <2>6, <3>1, <3>2, Zenon DEF Commands
  <2>10. Received'
    BY <1>1, <1>4, <1>7, <2>2, <2>4, <2>5, <2>6, <2>8 DEF Received
  <2>11. OneAtATime'
    BY <1>1, <1>2, <1>3, <2>4, <2>6 DEF OneAtATime
  <2> QED
    BY <1>1, <1>5, <2>9, <2>10, <2>11 DEF Asking
<1> QED
  BY <1>6, <1>7

\* A sequence of one element has the type of that element.
LEMMA OneOf ==
  \A S, T : \A s \in Seq(S) : Len(s) = 1 /\ s[1] \in T => s \in Seq(T)
<1> SUFFICES ASSUME NEW S, NEW T, NEW s \in Seq(S), Len(s) = 1, s[1] \in T
             PROVE  s \in Seq(T)
  OBVIOUS
<1>1. s \in [1..1 -> S]
  BY LenProperties
<1>2. \A i \in 1..1 : s[i] \in T
  BY SMT
<1>3. s \in [1..1 -> T] /\ 1 \in Nat
  BY <1>1, <1>2
<1> QED
  BY <1>3, IsSequence, Zenon

\* A frame goes out: the request, or the RR, with which the meter has nothing
\* else to do.
LEMMA AskingTransmits ==
  ASSUME TypeInv, TypeInv', Asking, exchange' > 0, Transmit
  PROVE  Asking'
<1>1. /\ pc = "send" /\ pc' = "wait" /\ InProcess /\ InProcess'
      /\ UNCHANGED <<exchange, meter, mData, unread, rcv, send, retCode, loop>>
      /\ dataSent' = dataToSend /\ dataToSend' = <<>> /\ dataToSend # <<>>
      /\ \/ toMeter' = toMeter
         \/ toMeter' = toMeter \o dataToSend
      /\ \/ toClient' = toClient
         \/ toClient' = toClient \o Bytes(dataToSend)
  BY Zenon DEF Transmit, Mail!Call, caller, InProcess
<1>2. hdlc'.rrr = hdlc.rrr
  BY DEF Transmit, TypeInv, Counters
<1>3. exchange > 0 /\ Commands /\ Outgoing /\ Received /\ OneAtATime /\ InOrder
  <2>1. exchange > 0 /\ pc # "failed" /\ pc # "idle"
    BY <1>1
  <2> QED
    BY <2>1, AskingParts, Zenon
<1>4. PICK d \in Clients :
        /\ dataToSend \in Seq(Clients) /\ Len(dataToSend) = 1 /\ dataToSend[1] = d
        /\ Request(d) \/ Ask(d)
        /\ d.type = "I" => d = send[1] /\ Current(d)
        /\ d.type # "RR" => d.type = "I"
  <2>1. send \in Seq(Frame) /\ Len(send) = 1 /\ dataToSend \in Seq(Frame)
    BY <1>1 DEF TypeInv, Streams, Called
  <2>2. CASE dataToSend = send
    <3>1. send[1] \in Frame
      BY <2>1, ElementOfSeq, SMT
    <3>2. Request(send[1]) /\ Current(send[1])
      BY <1>1, <1>3 DEF Commands
    <3>3. send[1] \in Clients
      BY <3>1, <3>2 DEF Clients, Request
    <3>4. dataToSend \in Seq(Clients)
      BY <2>1, <2>2, <3>3, OneOf, Zenon
    <3> QED
      BY <2>1, <2>2, <3>2, <3>3, <3>4 DEF Request
  <2>3. CASE Len(dataToSend) = 1 /\ Ask(dataToSend[1])
    <3>1. dataToSend[1] \in Frame
      BY <2>1, <2>3, ElementOfSeq, SMT
    <3>2. dataToSend[1] \in Clients /\ dataToSend[1].type = "RR"
      BY <2>3, <3>1 DEF Clients, Ask
    <3>3. dataToSend \in Seq(Clients)
      BY <2>1, <2>3, <3>2, OneOf, Zenon
    <3> QED
      BY <2>3, <3>2, <3>3
  <2> QED
    BY <1>1, <1>3, <2>2, <2>3, Zenon DEF Outgoing
<1>5. d.type = "RR" => Asks = {} /\ AskIsNext
  <2>1. d.type = "RR" => AskIsNext
    BY <1>1, <1>4, Zenon DEF AskIsNext
  <2> QED
    BY <1>1, <1>3, <2>1, Zenon DEF Outgoing
<1>6. toMeter \in Seq(Frame) /\ Len(toMeter) \in Nat /\ toMeter' \in Seq(Frame)
  BY LenProperties DEF TypeInv, Streams
<1>7. PICK n \in Nat : n = Len(toMeter)
  BY <1>6
<1>8. /\ Len(toMeter') \in {n, n + 1}
      /\ \A i \in 1..Len(toMeter') :
           IF i <= n THEN i \in 1..n /\ toMeter'[i] = toMeter[i]
                     ELSE i = n + 1 /\ toMeter'[i] = d
  <2>1. CASE toMeter' = toMeter
    BY <1>7, <2>1, SMT
  <2>2. CASE toMeter' = toMeter \o dataToSend
    <3>2. PICK s \in Seq(Frame) : s = dataToSend /\ Len(s) = 1 /\ s[1] = d
      BY <1>4 DEF TypeInv, Streams
    <3>3. /\ Len(toMeter \o s) = Len(toMeter) + Len(s)
          /\ \A i \in 1..Len(toMeter) + Len(s) :
               (toMeter \o s)[i]
                 = IF i <= Len(toMeter) THEN toMeter[i] ELSE s[i - Len(toMeter)]
      BY <1>6, ConcatProperties
    <3>4. /\ Len(toMeter') = n + 1
          /\ \A i \in 1..n + 1 :
               toMeter'[i] = IF i <= n THEN toMeter[i] ELSE s[i - n]
      BY <1>4, <1>7, <2>2, <3>2, <3>3, Zenon
    <3>5. \A i \in 1..n + 1 : i <= n \/ i = n + 1
      BY SMT
    <3>6. (n + 1) - n = 1 /\ ~(n + 1 <= n) /\ n + 1 \in 1..n + 1
      BY SMT
    <3>7. \A i \in 1..n + 1 : i <= n => i \in 1..n
      BY SMT
    <3>8. toMeter'[n + 1] = d
      BY <3>2, <3>4, <3>6, Zenon
    <3>9. \A i \in 1..n + 1 : ~(i <= n) => i = n + 1
      BY <3>5, Zenon
    <3> QED
      BY <3>4, <3>7, <3>8, <3>9, Zenon
  <2> QED
    BY <1>1, <2>1, <2>2
<1>9. Len(toMeter') \in Nat /\ \A i \in 1..Len(toMeter') : i \in Int
  BY <1>8, SMT
<1>10. Commands'
  <2>1. /\ meter'.answering \in {exchange' - 1, exchange'}
        /\ pc' # "idle" /\ Request(send[1])' /\ Current(send[1])'
    BY <1>1, <1>3 DEF Commands, Request, Current
  <2>2. \A i \in 1..Len(toMeter') : Request(toMeter[i])' \/ Ask(toMeter[i])'
    <3>1. \A i \in 1..n : Request(toMeter[i]) \/ Ask(toMeter[i])
      BY <1>3, <1>7 DEF Commands
    <3> QED
      <4> SUFFICES ASSUME NEW i \in 1..Len(toMeter')
                   PROVE  Request(toMeter[i])' \/ Ask(toMeter[i])'
        OBVIOUS
      <4>1. PICK x : x = toMeter'[i] /\ (Request(x) \/ Ask(x))
        BY <1>4, <1>8, <3>1, Zenon
      <4> QED
        BY <1>1, <1>2, <4>1 DEF Request, Ask
  <2>3. \A i \in 1..Len(toMeter') :
          Current(toMeter[i])' => pc' # "idle" /\ toMeter'[i] = send'[1]
    <3>1. \A i \in 1..n : Current(toMeter[i]) => toMeter[i] = send[1]
      BY <1>3, <1>7 DEF Commands
    <3> QED
      <4> SUFFICES ASSUME NEW i \in 1..Len(toMeter'), Current(toMeter[i])'
                   PROVE  toMeter'[i] = send'[1]
        BY <2>1, Zenon
      <4>1. PICK x : x = toMeter'[i] /\ Current(x)
        BY <1>1 DEF Current
      <4>2. x = send[1]
        <5>1. CASE i <= n
          BY <1>8, <3>1, <4>1, <5>1, Zenon
        <5>2. CASE ~(i <= n)
          <6>1. x = d
            BY <1>8, <4>1, <5>2, Zenon
          <6> QED
            BY <1>4, <4>1, <6>1 DEF Current
        <5> QED
          BY <5>1, <5>2
      <4> QED
        BY <1>1, <4>1, <4>2
  <2>4. \A i, j \in 1..Len(toMeter') :
          i <= j /\ Current(toMeter[i])' /\ toMeter'[j].type = "I"
            => Current(toMeter[j])'
    <3> SUFFICES ASSUME NEW i \in 1..Len(toMeter'), NEW j \in 1..Len(toMeter'),
                        i <= j, Current(toMeter[i])', toMeter'[j].type = "I"
                 PROVE  Current(toMeter[j])'
      BY Zenon
    <3>1. CASE j <= n
      <4>1. i <= n
        BY <1>7, <1>8, <3>1, SMT
      <4>2. /\ i \in 1..n /\ toMeter'[i] = toMeter[i]
            /\ j \in 1..n /\ toMeter'[j] = toMeter[j]
        BY <1>8, <3>1, <4>1, Zenon
      <4>3. Current(toMeter[i])
        BY <1>1, <4>2 DEF Current
      <4>4. Current(toMeter[j])
        BY <1>3, <1>7, <4>2, <4>3 DEF Commands
      <4> QED
        BY <1>1, <4>2, <4>4 DEF Current
    <3>2. CASE ~(j <= n)
      <4>1. toMeter'[j] = d
        BY <1>8, <3>2, Zenon
      <4>2. Current(d)
        BY <1>4, <3>2, <4>1
      <4> QED
        BY <1>1, <4>1, <4>2 DEF Current
    <3> QED
      BY <3>1, <3>2
  <2>5. \A i, j \in Asks' : i = j
    <3>1. CASE d.type = "RR"
      <4>1. \A i \in 1..n : toMeter[i].type # "RR"
        BY <1>5, <1>7, <3>1 DEF Asks
      <4>2. \A i \in Asks' : i = n + 1
        BY <1>8, <4>1 DEF Asks
      <4> QED
        BY <4>2
    <3>2. CASE d.type # "RR"
      <4>1. \A i \in Asks' : i \in Asks
        BY <1>7, <1>8, <3>2 DEF Asks
      <4> QED
        BY <1>3, <4>1 DEF Commands
    <3> QED
      BY <3>1, <3>2
  <2> QED
    BY <2>1, <2>2, <2>3, <2>4, <2>5, Zenon DEF Commands
<1>11. ~AskIsNext'
  BY <1>1 DEF AskIsNext
<1>12. Outgoing'
  <2>1. dataSent' \in Seq(Clients)
    BY <1>1, <1>4, Zenon
  <2> QED
    BY <1>1, <1>11, <2>1 DEF Outgoing
<1>13. Received'
  BY <1>1, <1>2, <1>3 DEF Received, Sent
<1>14. \E b \in Seq(Others) : Stream' = Stream \o b
  <2>1. Stream = unread \o (mData \o toClient)
        /\ Stream' = unread \o (mData \o toClient')
    BY <1>1, Zenon DEF Stream
  <2>2. CASE toClient' = toClient
    <3>1. <<>> \in Seq(Others)
      BY EmptySeq
    <3>2. Stream' = Stream \o <<>>
      BY <2>1, <2>2, StreamType, ConcatEmptySeq, Zenon
    <3> QED
      BY <3>1, <3>2
  <2>3. CASE toClient' = toClient \o Bytes(dataToSend)
    <3>1. Bytes(dataToSend) \in Seq(Others)
      BY <1>4, ClientBytes, Zenon
    <3>2. PICK b \in Seq(Others) : b = Bytes(dataToSend)
      BY <3>1
    <3>3. b \in Seq(Half)
      BY SeqMonotonic, Zenon DEF Others
    <3>4. mData \o (toClient \o b) = (mData \o toClient) \o b
      BY <3>3, StreamType, Associative, ZenonT(60)
    <3>5. unread \o ((mData \o toClient) \o b) = (unread \o (mData \o toClient)) \o b
      BY <3>3, StreamType, Associative, ZenonT(60)
    <3> QED
      BY <2>1, <2>3, <3>2, <3>4, <3>5, Zenon
  <2> QED
    BY <1>1, <2>2, <2>3
<1>15. PICK b \in Seq(Others) : Stream' = Stream \o b
  BY <1>14
<1>16. Quiet => Quiet'
  BY <1>15, ConcatProperties DEF Quiet
<1>17. OnTheLine' = OnTheLine /\ Len(OnTheLine) \in Nat
  <2>1. meter \in MeterType
    BY DEF TypeInv, Counters, MeterType
  <2>2. Len(Bytes(Burst(meter))) \in Nat
    BY <2>1, BurstBytes, LenProperties, Zenon
  <2>3. OnTheLine' = OnTheLine
    BY <1>1 DEF OnTheLine, Burst, Reply
  <2> QED
    BY <2>2, <2>3, Zenon DEF OnTheLine
<1>18. PICK B : B = OnTheLine
  OBVIOUS
<1>19. \A low \in Int : From(Stream, B, low) => From(Stream', B, low)
  <2> SUFFICES ASSUME NEW low \in Int, From(Stream, B, low)
               PROVE  From(Stream', B, low)
    OBVIOUS
  <2>1. PICK s \in Seq(Half) : s = Stream
    BY StreamType
  <2>2. Len(B) \in Nat /\ From(s, B, low)
    BY <1>17, <1>18, <2>1, Zenon
  <2>3. From(s \o b, B, low)
    BY <2>2, FromMore
  <2> QED
    BY <1>15, <2>1, <2>3, Zenon
<1>20. OneAtATime'
  <2>1. \/ Quiet'
        \/ /\ meter'.answering = exchange' /\ Asks' = {} /\ ~AskIsNext'
           /\ \E low \in Nat \ {0} : From(Stream', B, low)
    <3>1. CASE Quiet
      BY <1>16, <3>1
    <3>2. CASE ~Quiet
      <4>1. /\ meter.answering = exchange /\ Asks = {} /\ ~AskIsNext
            /\ \E low \in Nat \ {0} : From(Stream, B, low)
        BY <1>3, <1>18, <3>2, Zenon DEF OneAtATime
      <4>2. \E low \in Nat \ {0} : From(Stream', B, low)
        <5>1. PICK low \in Nat \ {0} : From(Stream, B, low)
          BY <4>1, Zenon
        <5>2. low \in Int
          OBVIOUS
        <5> QED
          BY <1>19, <5>1, <5>2, Zenon
      <4>3. d.type # "RR"
        BY <1>5, <4>1
      <4>4. Asks' = {}
        BY <1>7, <1>8, <4>1, <4>3 DEF Asks
      <4> QED
        BY <1>1, <1>11, <4>1, <4>2, <4>4, Zenon
    <3> QED
      BY <3>1, <3>2
  <2>2. ASSUME meter'.answering # exchange'
        PROVE  rcv' = <<>> /\ Asks' \subseteq {1}
    <3>1. /\ rcv = <<>> /\ Asks \subseteq {1} /\ (AskIsNext => toMeter = <<>>)
      BY <1>1, <1>3, <2>2 DEF OneAtATime
    <3>2. CASE d.type = "RR"
      <4>1. toMeter = <<>>
        BY <1>5, <3>1, <3>2
      <4>2. n = 0
        BY <1>7, <4>1, EmptySeq, Zenon
      <4>3. \A i \in Asks' : i = 1
        BY <1>8, <4>2, SMT DEF Asks
      <4> QED
        BY <1>1, <3>1, <4>3
    <3>3. CASE d.type # "RR"
      <4>1. \A i \in Asks' : i \in Asks
        BY <1>7, <1>8, <3>3 DEF Asks
      <4> QED
        BY <1>1, <3>1, <4>1
    <3> QED
      BY <3>2, <3>3
  <2>3. OnTheLine' = B
    BY <1>17, <1>18
  <2> QED
    BY <1>11, <2>1, <2>2, <2>3, Zenon DEF OneAtATime
<1>21. InOrder'
  <2>1. ~retCode'
    <3>1. ~retCode
      BY <1>1, <1>3 DEF InOrder
    <3> QED
      BY <1>1, <3>1
  <2>2. rcv' # <<>> => rcv'[1][1] = exchange'
    BY <1>1, <1>3 DEF InOrder
  <2>3. ASSUME Begun'
        PROVE  /\ \A i \in 1..Len(rcv') : rcv'[i] = <<exchange', i>>
               /\ Len(rcv') \in meter'.acked..Sent(meter')
               /\ hdlc'.rrr = SeqAfter(meter'.base, Len(rcv'))
               /\ \/ Quiet'
                  \/ From(Stream', B, 2 * (Len(rcv') - meter'.acked) + 1)
    <3>1. Begun
      BY <1>1, <2>3, Zenon DEF Begun
    <3>2. /\ \A i \in 1..Len(rcv) : rcv[i] = <<exchange, i>>
          /\ Len(rcv) \in meter.acked..Sent(meter)
          /\ hdlc.rrr = SeqAfter(meter.base, Len(rcv))
          /\ \/ Quiet
             \/ From(Stream, B, 2 * (Len(rcv) - meter.acked) + 1)
      BY <1>1, <1>3, <1>18, <3>1, Zenon DEF InOrder
    <3>3. 2 * (Len(rcv) - meter.acked) + 1 \in Int
      <4>1. Len(rcv) \in Nat /\ meter.acked \in Nat
        BY LenProperties, SizeAssumption, SMT DEF TypeInv, Streams, Counters
      <4> QED
        BY <4>1, SMT
    <3>4. \/ Quiet'
          \/ From(Stream', B, 2 * (Len(rcv) - meter.acked) + 1)
      BY <1>16, <1>19, <3>2, <3>3, Zenon
    <3> QED
      BY <1>1, <1>2, <3>2, <3>4, Zenon
  <2>4. OnTheLine' = B
    BY <1>17, <1>18
  <2> QED
    BY <2>1, <2>2, <2>3, <2>4, Zenon DEF InOrder
<1> QED
  BY <1>10, <1>12, <1>13, <1>20, <1>21 DEF Asking

\* A frame is decoded: it is the next of the answer, and the last of a burst
\* leaves nothing behind it.
LEMMA AskingDecodes ==
  ASSUME TypeInv, TypeInv', Asking, exchange' > 0, DecodeFrame
  PROVE  Asking'
<1>1. /\ pc = "decode" /\ InProcess
      /\ UNCHANGED <<exchange, send, dataSent, meter, toMeter, toClient, mData>>
  BY Zenon DEF DecodeFrame, mailbox, caller, line, InProcess
<1>2. /\ exchange > 0 /\ Commands /\ Outgoing /\ Received /\ OneAtATime /\ InOrder
  <2>1. exchange > 0 /\ pc # "failed" /\ pc # "idle"
    BY <1>1
  <2> QED
    BY <2>1, AskingParts, Zenon
<1>3. PICK a \in Seq(Half) :
        /\ Len(a) = 2 /\ a[1] = unread[1] /\ a[1].half = 1 /\ a[1].frame \in Frame
        /\ Stream = a \o (unread' \o (mData \o toClient))
        /\ unread' \in Seq(Half) /\ a[1] \notin Others
  BY DecodeTakes, Zenon
<1>4. PICK t \in Seq(Half) : t = unread' \o (mData \o toClient)
  <2>1. unread' \o (mData \o toClient) \in Seq(Half)
    BY <1>3, StreamType, ConcatProperties
  <2> QED
    BY <2>1
<1>5. ~Quiet
  <2>1. 1 \in 1..Len(a)
    BY <1>3, SMT
  <2>2. a \notin Seq(Others)
    BY <1>3, <2>1, ElementOfSeq, Zenon
  <2> QED
    BY <1>3, <1>4, <2>2, OthersConcat, Zenon DEF Quiet
<1>6. /\ meter.answering = exchange /\ Asks = {} /\ ~AskIsNext
      /\ \E low \in Nat \ {0} : From(Stream, OnTheLine, low)
  BY <1>2, <1>5, Zenon DEF OneAtATime
<1>7. meter \in MeterType
  BY DEF TypeInv, Counters, MeterType
<1>8. PICK acked \in Nat, size \in Nat :
        /\ acked = meter.acked /\ size = Sent(meter) - acked
        /\ Sent(meter) = acked + size /\ acked + size <= Segments
  <2>1. /\ Sent(meter) \in meter.acked..Segments /\ Sent(meter) \in Nat
        /\ meter.acked \in Nat
    BY <1>7, BurstBytes, Zenon
  <2>2. PICK x \in Nat, y \in Nat : x = meter.acked /\ y = Sent(meter)
    BY <2>1
  <2>3. y - x \in Nat /\ y = x + (y - x) /\ x + (y - x) <= Segments
    BY <2>1, <2>2, SMT
  <2> QED
    BY <2>2, <2>3, Zenon
<1>9. PICK B : B = OnTheLine
  OBVIOUS
<1>10. /\ B \in Seq(Half) /\ Len(B) = 2 * size /\ Len(B) \in Nat
       /\ \A j \in 1..Len(B) :
            B[j].half = 1 =>
              \E k \in 1..size : /\ j = 2 * k - 1
                                /\ B[j].frame = Reply(meter, "I", acked + k, k = size)
  <2>1. /\ Bytes(Burst(meter)) \in Seq(Half)
        /\ Len(Bytes(Burst(meter))) = 2 * (Sent(meter) - meter.acked)
        /\ \A j \in 1..Len(Bytes(Burst(meter))) :
              Bytes(Burst(meter))[j].half = 1 =>
                \E k \in 1..Sent(meter) - meter.acked :
                  /\ j = 2 * k - 1
                  /\ Bytes(Burst(meter))[j].frame
                       = Reply(meter, "I", meter.acked + k,
                               k = Sent(meter) - meter.acked)
    BY <1>7, BurstBytes, Zenon
  <2>2. B = Bytes(Burst(meter))
    BY <1>9 DEF OnTheLine
  <2>3. Len(B) \in Nat
    BY <2>1, <2>2, LenProperties, Zenon
  <2> QED
    BY <1>8, <2>1, <2>2, <2>3, Zenon
<1>11. Begun => /\ \A i \in 1..Len(rcv) : rcv[i] = <<exchange, i>>
                /\ Len(rcv) \in acked..acked + size
                /\ From(Stream, B, 2 * (Len(rcv) - acked) + 1)
                /\ ~retCode
  BY <1>1, <1>2, <1>5, <1>8, <1>9, Zenon DEF InOrder
<1>12. rcv \in Seq(UserData) /\ Len(rcv) \in Nat
  BY LenProperties DEF TypeInv, Streams
<1>13. PICK low \in Nat \ {0} :
         From(Stream, B, low) /\ (Begun => low = 2 * (Len(rcv) - acked) + 1)
  <2>1. CASE Begun
    <3>1. PICK l \in Nat : l = Len(rcv) /\ l >= acked
      BY <1>11, <1>12, <2>1, SMT
    <3>2. 2 * (l - acked) + 1 \in Nat \ {0}
      BY <3>1, SMT
    <3> QED
      BY <1>11, <2>1, <3>1, <3>2, Zenon
  <2>2. CASE ~Begun
    BY <1>6, <1>9, <2>2, Zenon
  <2> QED
    BY <2>1, <2>2
<1>14. low <= Len(B) /\ a[1] = B[low] /\ From(t, B, low + 2)
  <2>1. From(a \o t, B, low)
    BY <1>3, <1>4, <1>13, Zenon
  <2>2. Len(a) = 2 /\ a[1] \notin Others /\ Len(B) \in Nat
    BY <1>3, <1>10
  <2> QED
    BY <2>1, <2>2, FromHead
<1>15. PICK k \in 1..size :
         low = 2 * k - 1 /\ a[1].frame = Reply(meter, "I", acked + k, k = size)
  <2>1. low \in 1..Len(B)
    BY <1>10, <1>14, SMT
  <2>2. B[low].half = 1
    BY <1>3, <1>14
  <2> QED
    BY <1>10, <1>14, <2>1, <2>2, Zenon
<1>16. PICK n \in Nat \ {0} : n = acked + k /\ n <= Segments /\ n \in acked..Sent(meter)
  <2>1. acked + k \in Nat \ {0} /\ acked + k <= Segments
    <3>1. acked + size <= Segments
      BY <1>8, Zenon
    <3> QED
      BY <3>1, SizeAssumption, SMT
  <2>2. acked + k \in acked..acked + size
    BY SMT
  <2> QED
    BY <1>8, <2>1, <2>2, Zenon
<1>17. PICK f : f = unread[1].frame
  OBVIOUS
<1>18. /\ f.type = "I" /\ f.sss = SeqAfter(meter.base, n - 1)
       /\ f.info = <<exchange, n>>
       /\ f.segmentation = IF n < Segments THEN 1 ELSE 0
       /\ f.poll_final = IF k = size THEN 1 ELSE 0
  <2>1. f = Reply(meter, "I", n, k = size)
    BY <1>3, <1>15, <1>16, <1>17, Zenon
  <2> QED
    BY <1>6, <2>1 DEF Reply
<1>19. PICK r : r = SeqAfter(meter.base, n)
  OBVIOUS
<1>20. NextSeq(f.sss) = r
  <2>1. meter.base \in Nat
    BY <1>7, SizeAssumption, SMT DEF MeterType
  <2> QED
    BY <1>18, <1>19, <2>1, NextInWindow, Zenon
<1>21. (Final(f) \/ f.poll_final = 1) => k = size
  BY <1>18 DEF Final
<1>22. Final(f) => n = Segments
  BY <1>16, <1>18, SizeAssumption, SMT DEF Final
<1> DEFINE more == ~Final(f) /\ f.segmentation = 1 /\ f.poll_final = 1
<1>23. /\ rcv' = Append(rcv, f.info) /\ hdlc'.rrr = r
       /\ dataToSend' = IF more THEN <<ReceiveReady(r)>> ELSE dataToSend
       /\ retCode' = (retCode \/ Final(f)) /\ loop' = (loop /\ ~Final(f))
       /\ pc' = IF unread' = <<>> THEN Turn(loop') ELSE "decode"
  <2>1. /\ rcv' = Append(rcv, f.info)
        /\ retCode' = (retCode \/ Final(f)) /\ loop' = (loop /\ ~Final(f))
        /\ pc' = IF unread' = <<>> THEN Turn(loop') ELSE "decode"
    BY <1>17 DEF DecodeFrame
  <2>2. dataToSend' = IF more THEN <<ReceiveReady(r)>> ELSE dataToSend
    <3>1. r = IF f.type = "I" THEN NextSeq(f.sss) ELSE hdlc.rrr
      BY <1>18, <1>20
    <3> QED
      BY <1>17, <3>1, Zenon DEF DecodeFrame
  <2>3. hdlc'.rrr = r
    <3>1. PICK x : hdlc' = [hdlc EXCEPT !.rrr = IF f.type = "I" THEN NextSeq(f.sss)
                                                ELSE hdlc.rrr, !.type = x]
      BY <1>17, Zenon DEF DecodeFrame
    <3>2. hdlc' = [hdlc EXCEPT !.rrr = r, !.type = x]
      BY <1>18, <1>20, <3>1, Zenon
    <3> QED
      BY <3>2 DEF TypeInv, Counters
  <2> QED
    BY <2>1, <2>2, <2>3
<1>24. pc' \in {"send", "decode", "end"} /\ pc' # "idle" /\ pc' # "failed"
  BY <1>23 DEF Turn
<1>25. Stream' = t
  <2>1. CASE InProcess'
    BY <1>1, <1>4, <2>1, Zenon DEF Stream
  <2>2. CASE ~InProcess'
    <3>1. pc' = "end"
      BY <1>24, <2>2 DEF InProcess
    <3>2. unread' = <<>>
      BY <1>23, <3>1
    <3>3. t = mData \o toClient
      BY <1>4, <3>2, StreamType, ConcatEmptySeq, Zenon
    <3> QED
      BY <1>1, <2>2, <3>3, Zenon DEF Stream
  <2> QED
    BY <2>1, <2>2
<1>26. k = size => Quiet'
  <2> SUFFICES ASSUME k = size PROVE Quiet'
    OBVIOUS
  <2>1. low + 2 \in Int /\ low + 2 > Len(B)
    BY <1>10, <1>15, SMT
  <2>2. t \in Seq(Others)
    BY <1>10, <1>14, <2>1, FromNothing, Zenon
  <2> QED
    BY <1>25, <2>2 DEF Quiet
<1>27. Asks' = Asks /\ Sent(meter)' = Sent(meter) /\ OnTheLine' = B
  BY <1>1, <1>9 DEF Asks, Sent, OnTheLine, Burst, Reply
<1>28. Commands'
  <2>1. \A i \in 1..Len(toMeter) : Request(toMeter[i])
    <3>1. \A i \in 1..Len(toMeter) : toMeter[i].type # "RR"
      BY <1>6 DEF Asks
    <3> QED
      BY <1>2, <3>1 DEF Commands, Ask
  <2>2. \A i \in 1..Len(toMeter') : Request(toMeter[i])'
    BY <1>1, <2>1 DEF Request
  <2>3. /\ meter'.answering \in {exchange' - 1, exchange'}
        /\ Request(send[1])' /\ Current(send[1])'
        /\ \A i \in 1..Len(toMeter') :
             Current(toMeter[i])' => toMeter'[i] = send'[1]
        /\ \A i, j \in 1..Len(toMeter') :
             i <= j /\ Current(toMeter[i])' /\ toMeter'[j].type = "I"
               => Current(toMeter[j])'
    BY <1>1, <1>2 DEF Commands, Request, Current
  <2> QED
    BY <1>6, <1>24, <1>27, <2>2, <2>3, Zenon DEF Commands
<1>29. more => /\ Len(dataToSend') = 1 /\ Ask(dataToSend[1])'
  <2> SUFFICES ASSUME more PROVE Len(dataToSend') = 1 /\ Ask(dataToSend[1])'
    OBVIOUS
  <2>1. PICK g : g = ReceiveReady(r)
    OBVIOUS
  <2>2. g.type = "RR" /\ g.from = "client" /\ g.rrr = r
    BY <2>1 DEF ReceiveReady
  <2>3. dataToSend' = <<g>>
    BY <1>23, <2>1, Zenon
  <2>4. Len(dataToSend') = 1 /\ dataToSend'[1] = g
    BY <2>3
  <2> QED
    BY <1>23, <2>2, <2>4 DEF Ask
<1>30. ~more => dataToSend' \in {<<>>, send} /\ dataToSend' = dataToSend
  <2>1. dataToSend \in {<<>>, send}
    <3>1. ~(Len(dataToSend) = 1 /\ Ask(dataToSend[1]))
      <4>1. Len(<<>>) # 1
        BY EmptySeq
      <4> QED
        BY <1>1, <1>6, <4>1 DEF AskIsNext, Ask
    <3> QED
      BY <1>1, <1>2, <3>1, Zenon DEF Outgoing
  <2> QED
    BY <1>23, <2>1, Zenon
<1>31. AskIsNext' => Quiet'
  <2> SUFFICES ASSUME AskIsNext' PROVE more
    BY <1>21, <1>26
  <2> SUFFICES ASSUME ~more PROVE FALSE
    OBVIOUS
  <2> HIDE DEF more
  <2>1. dataToSend' # <<>> /\ dataToSend'[1].type = "RR"
    BY DEF AskIsNext
  <2> QED
    BY <1>1, <1>6, <1>30, <2>1 DEF AskIsNext
<1>32. Outgoing'
  <2>1. dataSent' \in Seq(Clients) /\ send' = send
    BY <1>1, <1>2 DEF Outgoing
  <2> HIDE DEF more
  <2> QED
    BY <1>6, <1>27, <1>29, <1>30, <2>1, Zenon DEF Outgoing
<1>33. Received'
  <2>1. meter'.answering = exchange'
    BY <1>1, <1>6
  <2>2. \E g \in meter'.acked..Sent(meter') : hdlc'.rrr = SeqAfter(meter'.base, g)
    BY <1>1, <1>8, <1>16, <1>19, <1>23, Zenon
  <2> QED
    BY <2>1, <2>2, Zenon DEF Received
<1>34. OneAtATime'
  <2>1. meter'.answering = exchange' /\ Asks' = {}
    BY <1>1, <1>6, <1>27
  <2>2. \E l \in Nat \ {0} : From(Stream', B, l)
    <3>1. PICK l \in Nat \ {0} : l = low + 2
      BY SMT
    <3> QED
      BY <1>14, <1>25, <3>1, Zenon
  <2> QED
    BY <1>27, <1>31, <2>1, <2>2, Zenon DEF OneAtATime
<1>35. PICK l \in Nat : l = Len(rcv)
  BY <1>12
<1>36. /\ Len(rcv') = l + 1
       /\ \A i \in 1..l + 1 : rcv'[i] = IF i = l + 1 THEN <<exchange, n>> ELSE rcv[i]
       /\ \A i \in 1..l + 1 : i # l + 1 => i \in 1..l
  <2>1. f.info \in UserData
    BY <1>3, <1>17 DEF Frame
  <2>2. /\ Len(Append(rcv, f.info)) = Len(rcv) + 1
        /\ \A i \in 1..Len(rcv) + 1 :
             Append(rcv, f.info)[i] = IF i = Len(rcv) + 1 THEN f.info ELSE rcv[i]
    <3>1. /\ Len(Append(rcv, f.info)) = Len(rcv) + 1
          /\ \A i \in 1..Len(rcv) : Append(rcv, f.info)[i] = rcv[i]
          /\ Append(rcv, f.info)[Len(rcv) + 1] = f.info
      BY <1>12, <2>1, AppendProperties
    <3>2. \A i \in 1..Len(rcv) + 1 : i = Len(rcv) + 1 \/ i \in 1..Len(rcv)
      BY <1>12, SMT
    <3> QED
      BY <3>1, <3>2, Zenon
  <2>3. \A i \in 1..l + 1 : i # l + 1 => i \in 1..l
    BY SMT
  <2> QED
    BY <1>18, <1>23, <1>35, <2>2, <2>3, Zenon
<1>37. rcv' # <<>>
  <2>1. Len(rcv') # 0
    BY <1>36, SMT
  <2> QED
    BY <2>1, EmptySeq
<1>38. rcv = <<>> <=> l = 0
  BY <1>12, <1>35, EmptySeq
<1>39. ASSUME Begun' PROVE n = l + 1 /\ ~retCode /\ (l # 0 => Begun)
  <2>1. rcv'[1] = <<exchange, 1>>
    BY <1>1, <1>39 DEF Begun
  <2>2. CASE l = 0
    <3>1. rcv'[1] = <<exchange, n>>
      BY <1>36, <2>2, SMT
    <3>2. n = 1
      BY <2>1, <3>1
    <3>3. ~retCode
      BY <1>2, <1>38, <2>2 DEF InOrder
    <3> QED
      BY <2>2, <3>2, <3>3
  <2>3. CASE l # 0
    <3>1. 1 \in 1..l + 1 /\ 1 # l + 1
      BY <2>3, SMT
    <3>2. rcv[1] = <<exchange, 1>>
      BY <1>36, <2>1, <3>1, Zenon
    <3>3. Begun
      BY <1>38, <2>3, <3>2 DEF Begun
    <3>4. 2 * k - 1 = 2 * (l - acked) + 1
      BY <1>13, <1>15, <1>35, <3>3, Zenon
    <3>5. n = l + 1
      BY <1>16, <3>4, SMT
    <3> QED
      BY <1>11, <3>3, <3>5, Zenon
  <2> QED
    BY <2>2, <2>3
<1>40. InOrder'
  <2>1. rcv'[1][1] = exchange'
    <3>1. CASE l = 0
      <4>1. rcv'[1] = <<exchange, n>>
        BY <1>36, <3>1, SMT
      <4> QED
        BY <1>1, <4>1
    <3>2. CASE l # 0
      <4>1. 1 \in 1..l + 1 /\ 1 # l + 1
        BY <3>2, SMT
      <4>2. rcv'[1] = rcv[1]
        BY <1>36, <4>1, Zenon
      <4>3. rcv[1][1] = exchange
        BY <1>2, <1>38, <3>2 DEF InOrder
      <4> QED
        BY <1>1, <4>2, <4>3
    <3> QED
      BY <3>1, <3>2
  <2>2. retCode' => ~loop' /\ pc' \in {"decode", "end"} /\ Asks' = {}
    <3>1. retCode => ~loop
      BY <1>2 DEF InOrder
    <3>2. retCode' => ~loop'
      BY <1>23, <3>1 DEF TypeInv, Counters
    <3> QED
      BY <1>6, <1>23, <1>27, <3>2 DEF Turn
  <2>3. ASSUME Begun'
        PROVE  /\ \A i \in 1..Len(rcv') : rcv'[i] = <<exchange', i>>
               /\ Len(rcv') \in meter'.acked..Sent(meter')
               /\ hdlc'.rrr = SeqAfter(meter'.base, Len(rcv'))
               /\ From(Stream', B, 2 * (Len(rcv') - meter'.acked) + 1)
               /\ retCode' => Len(rcv') = Segments /\ Quiet'
    <3>1. n = l + 1 /\ ~retCode /\ (l # 0 => Begun)
      BY <1>39, <2>3
    <3>2. Len(rcv') = n
      BY <1>36, <3>1, Zenon
    <3>3. \A i \in 1..l + 1 : rcv'[i] = <<exchange, i>>
      <4>1. \A i \in 1..l : rcv[i] = <<exchange, i>>
        <5>1. CASE l = 0
          BY <5>1, SMT
        <5>2. CASE l # 0
          BY <1>11, <1>35, <3>1, <5>2, Zenon
        <5> QED
          BY <5>1, <5>2
      <4> QED
        BY <1>36, <3>1, <4>1, Zenon
    <3>4. low + 2 = 2 * (n - acked) + 1
      BY <1>15, <1>16, SMT
    <3>5. From(Stream', B, 2 * (n - acked) + 1)
      BY <1>14, <1>25, <3>4, Zenon
    <3>6. retCode' => n = Segments /\ Quiet'
      <4>1. retCode' => Final(f)
        BY <1>23, <3>1 DEF TypeInv, Counters
      <4> QED
        BY <1>21, <1>22, <1>26, <4>1, Zenon
    <3>7. meter' = meter /\ exchange' = exchange
      BY <1>1
    <3> QED
      BY <1>8, <1>16, <1>19, <1>23, <3>1, <3>2, <3>3, <3>5, <3>6, <3>7, Zenon
  <2> QED
    BY <1>27, <1>37, <2>1, <2>2, <2>3, Zenon DEF InOrder
<1> QED
  BY <1>24, <1>28, <1>32, <1>33, <1>34, <1>40 DEF Asking

\* What is left on its way to the meter when the first frame is gone.
LEMMA TailOfRequests ==
  ASSUME TypeInv, toMeter # <<>>, toMeter' = Tail(toMeter)
  PROVE  /\ Len(toMeter) \in Nat /\ 1 \in 1..Len(toMeter) /\ toMeter[1] \in Frame
         /\ \A i \in 1..Len(toMeter') :
              /\ i \in Int /\ i + 1 \in 1..Len(toMeter)
              /\ toMeter'[i] = toMeter[i + 1]
         /\ \A i \in Asks' : i + 1 \in Asks
<1>1. toMeter \in Seq(Frame)
  BY DEF TypeInv, Streams
<1>2. PICK n \in Nat : n = Len(toMeter) /\ n # 0
  BY <1>1, EmptySeq, LenProperties
<1>3. /\ Len(toMeter') = n - 1
      /\ \A i \in 1..n - 1 : toMeter'[i] = toMeter[i + 1]
  BY <1>1, <1>2, HeadTailProperties
<1>4. \A i \in 1..n - 1 : i \in Int /\ i + 1 \in 1..n
  BY SMT
<1>5. 1 \in 1..n
  BY <1>2, SMT
<1>6. toMeter[1] \in Frame
  BY <1>1, <1>2, <1>5, ElementOfSeq, Zenon
<1>7. \A i \in 1..Len(toMeter') :
        i \in Int /\ i + 1 \in 1..Len(toMeter) /\ toMeter'[i] = toMeter[i + 1]
  BY <1>2, <1>3, <1>4, Zenon
<1>8. \A i \in Asks' : i + 1 \in Asks
  BY <1>7 DEF Asks
<1> QED
  BY <1>2, <1>5, <1>6, <1>7, <1>8, Zenon

\* The frames that are left are what they were, if the meter's counter is.
LEMMA CommandsOfTail ==
  ASSUME TypeInv, TypeInv', Commands, UNCHANGED <<exchange, pc, send, hdlc>>,
         meter'.answering = meter.answering, meter'.vr = meter.vr,
         toMeter # <<>>, toMeter' = Tail(toMeter)
  PROVE  Commands'
<1>1. /\ \A i \in 1..Len(toMeter') :
           /\ i \in Int /\ i + 1 \in 1..Len(toMeter)
           /\ toMeter'[i] = toMeter[i + 1]
      /\ \A i \in Asks' : i + 1 \in Asks
  BY TailOfRequests
<1>2. \A i, j \in Int : /\ i <= j => i + 1 <= j + 1
                        /\ i + 1 = j + 1 => i = j
  BY SMT
<1>3. \A i \in Asks' : i \in Int
  <2>1. \A i \in Asks' : i \in 1..Len(toMeter')
    BY DEF Asks
  <2> QED
    BY <1>1, <2>1, Zenon
<1>4. /\ meter'.answering \in {exchange' - 1, exchange'}
      /\ pc' = "idle" => meter'.answering # exchange'
      /\ pc' # "idle" => Request(send[1])' /\ Current(send[1])'
  BY DEF Commands, Request, Current
<1>5. \A i \in 1..Len(toMeter') : Request(toMeter[i])' \/ Ask(toMeter[i])'
  <2> SUFFICES ASSUME NEW i \in 1..Len(toMeter')
               PROVE  Request(toMeter[i])' \/ Ask(toMeter[i])'
    OBVIOUS
  <2>1. PICK x : x = toMeter'[i] /\ (Request(x) \/ Ask(x))
    BY <1>1, Zenon DEF Commands
  <2> QED
    BY <2>1 DEF Request, Ask
<1>6. \A i \in 1..Len(toMeter') :
        Current(toMeter[i])' => pc' # "idle" /\ toMeter'[i] = send'[1]
  <2> SUFFICES ASSUME NEW i \in 1..Len(toMeter'), Current(toMeter[i])'
               PROVE  pc' # "idle" /\ toMeter'[i] = send'[1]
    OBVIOUS
  <2>1. PICK x : x = toMeter'[i] /\ Current(x)
    BY DEF Current
  <2>2. pc # "idle" /\ x = send[1]
    BY <1>1, <2>1, Zenon DEF Commands
  <2> QED
    BY <2>1, <2>2
<1>7. \A i, j \in 1..Len(toMeter') :
        i <= j /\ Current(toMeter[i])' /\ toMeter'[j].type = "I"
          => Current(toMeter[j])'
  <2> SUFFICES ASSUME NEW i \in 1..Len(toMeter'), NEW j \in 1..Len(toMeter'),
                      i <= j, Current(toMeter[i])', toMeter'[j].type = "I"
               PROVE  Current(toMeter[j])'
    BY Zenon
  <2>1. PICK x, y : /\ x = toMeter'[i] /\ y = toMeter'[j]
                    /\ Current(x) /\ y.type = "I"
    BY DEF Current
  <2>2. /\ i + 1 \in 1..Len(toMeter) /\ j + 1 \in 1..Len(toMeter)
        /\ i + 1 <= j + 1 /\ x = toMeter[i + 1] /\ y = toMeter[j + 1]
    BY <1>1, <1>2, <2>1, Zenon
  <2>3. Current(y)
    BY <2>1, <2>2, Zenon DEF Commands
  <2> QED
    BY <2>1, <2>3 DEF Current
<1>8. \A i, j \in Asks' : i = j
  <2> SUFFICES ASSUME NEW i \in Asks', NEW j \in Asks' PROVE i = j
    BY Zenon
  <2>1. i + 1 = j + 1
    BY <1>1, Zenon DEF Commands
  <2> QED
    BY <1>2, <1>3, <2>1, Zenon
<1> QED
  BY <1>4, <1>5, <1>6, <1>7, <1>8, Zenon DEF Commands

\* A request is lost, or the meter has nothing new to say to it: at most an RR
\* is put behind the stream.
LEMMA AskingIgnored ==
  ASSUME TypeInv, TypeInv', Asking, exchange > 0, pc # "failed",
         UNCHANGED <<exchange, pc, send, dataToSend, dataSent, loop, retCode, rcv,
                     hdlc, meter>>,
         toMeter # <<>>, toMeter' = Tail(toMeter),
         NEW b \in Seq(Others), Stream' = Stream \o b
  PROVE  Asking'
<1>1. /\ Commands /\ Outgoing /\ Received /\ OneAtATime
      /\ pc # "idle" => InOrder
  BY AskingParts
<1>2. /\ \A i \in 1..Len(toMeter') :
           /\ i \in Int /\ i + 1 \in 1..Len(toMeter)
           /\ toMeter'[i] = toMeter[i + 1]
      /\ \A i \in Asks' : i + 1 \in Asks
  BY TailOfRequests
<1>3. \A i, j \in Int : /\ i <= j => i + 1 <= j + 1
                        /\ i + 1 = j + 1 => i = j
  BY SMT
<1>4. \A i \in Asks' : i \in Int /\ i >= 1
  <2>1. \A i \in Asks' : i \in 1..Len(toMeter')
    BY DEF Asks
  <2>2. Len(toMeter') \in Nat
    BY LenProperties DEF TypeInv, Streams
  <2> QED
    BY <2>1, <2>2, SMT
<1>5. Asks = {} => Asks' = {}
  BY <1>2
<1>6. Asks \subseteq {1} => Asks' = {}
  <2> SUFFICES ASSUME Asks \subseteq {1}, NEW i \in Asks' PROVE FALSE
    OBVIOUS
  <2>1. i + 1 = 1
    BY <1>2
  <2> QED
    BY <1>4, <2>1, SMT
<1>7. Commands'
  BY <1>1, CommandsOfTail
<1>8. AskIsNext' => AskIsNext
  BY DEF AskIsNext, InProcess
<1>9. Outgoing'
  BY <1>1, <1>5, <1>8 DEF Outgoing, Ask, InProcess
<1>10. Received'
  BY <1>1 DEF Received, Sent
<1>11. Quiet => Quiet'
  BY ConcatProperties DEF Quiet
<1>12. OnTheLine' = OnTheLine /\ Len(OnTheLine) \in Nat
  <2>1. meter \in MeterType
    BY DEF TypeInv, Counters, MeterType
  <2>2. Len(Bytes(Burst(meter))) \in Nat
    BY <2>1, BurstBytes, LenProperties, Zenon
  <2>3. OnTheLine' = OnTheLine
    BY DEF OnTheLine, Burst, Reply
  <2> QED
    BY <2>2, <2>3, Zenon DEF OnTheLine
<1>13. PICK B : B = OnTheLine
  OBVIOUS
<1>14. \A low \in Int : From(Stream, B, low) => From(Stream', B, low)
  <2> SUFFICES ASSUME NEW low \in Int, From(Stream, B, low)
               PROVE  From(Stream', B, low)
    OBVIOUS
  <2>1. PICK s \in Seq(Half) : s = Stream
    BY StreamType
  <2>2. Len(B) \in Nat /\ From(s, B, low)
    BY <1>12, <1>13, <2>1, Zenon
  <2>3. From(s \o b, B, low)
    BY <2>2, FromMore
  <2> QED
    BY <2>1, <2>3, Zenon
<1>15. OneAtATime'
  <2>1. \/ Quiet'
        \/ /\ meter'.answering = exchange' /\ Asks' = {} /\ ~AskIsNext'
           /\ \E low \in Nat \ {0} : From(Stream', B, low)
    <3>1. CASE Quiet
      BY <1>11, <3>1
    <3>2. CASE ~Quiet
      <4>1. /\ meter.answering = exchange /\ Asks = {} /\ ~AskIsNext
            /\ \E low \in Nat \ {0} : From(Stream, B, low)
        BY <1>1, <1>13, <3>2, Zenon DEF OneAtATime
      <4>2. \E low \in Nat \ {0} : From(Stream', B, low)
        <5>1. PICK low \in Nat \ {0} : From(Stream, B, low)
          BY <4>1, Zenon
        <5>2. low \in Int
          OBVIOUS
        <5> QED
          BY <1>14, <5>1, <5>2, Zenon
      <4> QED
        BY <1>5, <1>8, <4>1, <4>2, Zenon
    <3> QED
      BY <3>1, <3>2
  <2>2. ASSUME meter'.answering # exchange'
        PROVE  /\ pc' # "idle" => rcv' = <<>>
               /\ Asks' \subseteq {1} /\ ~AskIsNext'
    <3>1. /\ pc # "idle" => rcv = <<>>
          /\ Asks \subseteq {1} /\ ~AskIsNext
      BY <1>1, <2>2, Zenon DEF OneAtATime
    <3> QED
      BY <1>6, <1>8, <3>1
  <2>3. OnTheLine' = B
    BY <1>12, <1>13
  <2> QED
    BY <2>1, <2>2, <2>3, Zenon DEF OneAtATime
<1>16. ASSUME pc' # "idle" PROVE InOrder'
  <2>1. InOrder
    BY <1>1, <1>16
  <2>2. /\ rcv' # <<>> => rcv'[1][1] = exchange'
        /\ retCode' => /\ ~loop' /\ pc' \in {"decode", "end"} /\ Asks' = {}
                       /\ rcv' # <<>>
    BY <1>5, <2>1, Zenon DEF InOrder
  <2>3. ASSUME Begun'
        PROVE  /\ \A i \in 1..Len(rcv') : rcv'[i] = <<exchange', i>>
               /\ Len(rcv') \in meter'.acked..Sent(meter')
               /\ hdlc'.rrr = SeqAfter(meter'.base, Len(rcv'))
               /\ InProcess' =>
                    Quiet' \/ From(Stream', B, 2 * (Len(rcv') - meter'.acked) + 1)
               /\ retCode' => Len(rcv') = Segments /\ Quiet'
    <3>1. Begun
      BY <2>3, Zenon DEF Begun
    <3>2. /\ \A i \in 1..Len(rcv) : rcv[i] = <<exchange, i>>
          /\ Len(rcv) \in meter.acked..Sent(meter)
          /\ hdlc.rrr = SeqAfter(meter.base, Len(rcv))
          /\ InProcess =>
               Quiet \/ From(Stream, B, 2 * (Len(rcv) - meter.acked) + 1)
          /\ retCode => Len(rcv) = Segments /\ Quiet
      BY <1>13, <2>1, <3>1, Zenon DEF InOrder
    <3>3. 2 * (Len(rcv) - meter.acked) + 1 \in Int
      <4>1. Len(rcv) \in Nat /\ meter.acked \in Nat
        BY LenProperties, SizeAssumption, SMTT(30) DEF TypeInv, Streams, Counters
      <4> QED
        BY <4>1, SMT
    <3>4. InProcess' = InProcess
      BY DEF InProcess
    <3>5. InProcess =>
            Quiet' \/ From(Stream', B, 2 * (Len(rcv) - meter.acked) + 1)
      BY <1>11, <1>14, <3>2, <3>3, Zenon
    <3> QED
      BY <1>11, <3>2, <3>4, <3>5, Zenon
  <2>4. OnTheLine' = B
    BY <1>12, <1>13
  <2> QED
    BY <2>2, <2>3, <2>4, Zenon DEF InOrder
<1> QED
  BY <1>7, <1>9, <1>10, <1>15, <1>16 DEF Asking

\* The answer of the meter is put behind the stream.
LEMMA AnswerStream ==
  ASSUME TypeInv, MeterReceives, NEW ans \in Seq(Frame),
         toClient' = toClient \o Bytes(ans)
  PROVE  Bytes(ans) \in Seq(Half) /\ Stream' = Stream \o Bytes(ans)
<1>1. PICK b \in Seq(Half) : b = Bytes(ans)
  BY BytesType
<1>2. mData' = mData /\ unread' = unread /\ InProcess' = InProcess
  BY Zenon DEF MeterReceives, mailbox, process, InProcess
<1>3. mData \o (toClient \o b) = (mData \o toClient) \o b
  BY StreamType, Associative, ZenonT(60)
<1>4. unread \o ((mData \o toClient) \o b) = (unread \o (mData \o toClient)) \o b
  BY StreamType, Associative, ZenonT(60)
<1> QED
  BY <1>1, <1>2, <1>3, <1>4, Zenon DEF Stream

\* An RR of the meter is no part of an answer, and neither is nothing.
LEMMA NoAnswer ==
  /\ <<>> \in Seq(Frame) /\ Bytes(<<>>) \in Seq(Others)
  /\ \A m \in MeterType : /\ <<Reply(m, "RR", 0, TRUE)>> \in Seq(Frame)
                         /\ Bytes(<<Reply(m, "RR", 0, TRUE)>>) \in Seq(Others)
<1>1. <<>> \in Seq(Frame) /\ <<>> \in Seq(Clients)
  BY EmptySeq, Zenon
<1>2. Bytes(<<>>) \in Seq(Others)
  BY <1>1, ClientBytes, Zenon
<1>3. ASSUME NEW m \in MeterType
      PROVE  /\ <<Reply(m, "RR", 0, TRUE)>> \in Seq(Frame)
             /\ Bytes(<<Reply(m, "RR", 0, TRUE)>>) \in Seq(Others)
  <2>1. PICK r : r = Reply(m, "RR", 0, TRUE)
    OBVIOUS
  <2>2. r \in Frame
    <3>1. 0 \in 0..Segments
      BY SizeAssumption, SMT
    <3> QED
      BY <2>1, <3>1, ReplyType, Zenon
  <2>3. r.type = "RR"
    BY <2>1 DEF Reply
  <2>4. \A x \in {r} : \A k \in {1, 2} : [frame |-> x, half |-> k] \in Others
    BY <2>2, <2>3 DEF Others, Half
  <2>5. <<r>> \in Seq({r}) /\ <<r>> \in Seq(Frame)
    BY <2>2, Singleton, Zenon
  <2>6. Bytes(<<r>>) \in Seq(Others)
    BY <2>4, <2>5, BytesIn, Zenon
  <2> QED
    BY <2>1, <2>5, <2>6, Zenon
<1> QED
  BY <1>1, <1>2, <1>3

\* A request the meter has had before.
LEMMA AskingRepeats ==
  ASSUME TypeInv, TypeInv', Asking, exchange > 0, pc # "failed", MeterReceives,
         toMeter[1].type = "I", toMeter[1].sss # meter.vr
  PROVE  Asking'
<1>1. toMeter # <<>> /\ toMeter' = Tail(toMeter) /\ Head(toMeter) = toMeter[1]
      /\ UNCHANGED <<pc, exchange, send, dataToSend, dataSent, loop, retCode, rcv,
                     hdlc>>
  <2>1. toMeter # <<>> /\ toMeter' = Tail(toMeter)
        /\ UNCHANGED <<pc, caller, process, hdlc>>
    BY Zenon DEF MeterReceives
  <2>2. Head(toMeter) = toMeter[1]
    BY <2>1, HeadTailProperties DEF TypeInv, Streams
  <2> QED
    BY <2>1, <2>2, Zenon DEF caller, process
<1>2. PICK f : f = toMeter[1]
  OBVIOUS
<1>3. f.type = "I" /\ f.type # "SNRM" /\ f.type # "RR" /\ f.sss # meter.vr
  BY <1>2
<1>4. /\ meter' = meter
      /\ \/ toClient' = toClient \o Bytes(<<>>)
         \/ toClient' = toClient \o Bytes(<<Reply(meter, "RR", 0, TRUE)>>)
  BY <1>1, <1>2, <1>3, Zenon DEF MeterReceives
<1>5. meter \in MeterType
  BY DEF TypeInv, Counters, MeterType
<1>6. PICK ans \in Seq(Frame) :
        toClient' = toClient \o Bytes(ans) /\ Bytes(ans) \in Seq(Others)
  BY <1>4, <1>5, NoAnswer, Zenon
<1>7. PICK b \in Seq(Others) : Stream' = Stream \o b
  BY <1>6, AnswerStream, Zenon
<1> QED
  BY <1>1, <1>4, <1>7, AskingIgnored, Zenon

\* Within what the meter has sent an RR names one frame.
LEMMA AckedIs ==
  ASSUME meter \in MeterType, NEW f, NEW g \in meter.acked..Sent(meter),
         f.rrr = SeqAfter(meter.base, g)
  PROVE  AckedBy(f) = [meter EXCEPT !.acked = g]
<1>1. /\ Sent(meter) - meter.acked <= Window /\ Sent(meter) \in Nat
      /\ meter.acked \in Nat /\ meter.base \in Int
  <2>1. meter.base \in Int
    BY DEF MeterType
  <2> QED
    BY <2>1, BurstBytes, Zenon
<1>2. PICK lo \in Nat, hi \in Nat, b \in Int :
        lo = meter.acked /\ hi = Sent(meter) /\ b = meter.base /\ hi - lo <= LastSeq
  <2>1. PICK lo \in Nat, hi \in Nat : lo = meter.acked /\ hi = Sent(meter)
    BY <1>1
  <2>2. hi - lo <= Window
    BY <1>1, <2>1, Zenon
  <2>3. hi - lo <= LastSeq
    BY <2>2, SizeAssumption, SMT
  <2> QED
    BY <1>1, <2>1, <2>3, Zenon
<1>3. g \in lo..hi
  BY <1>2, Zenon
<1> DEFINE fits == {k \in lo..hi : SeqAfter(b, k) = f.rrr}
<1>4. \A k \in lo..hi : SeqAfter(b, k) = f.rrr => k = g
  <2> SUFFICES ASSUME NEW k \in lo..hi, SeqAfter(b, k) = f.rrr PROVE k = g
    OBVIOUS
  <2>1. SeqAfter(b, k) = SeqAfter(b, g)
    BY <1>2, Zenon
  <2>2. g \in Int /\ k \in Int
    BY <1>3
  <2>3. CASE k <= g
    <3>1. g - k <= LastSeq
      BY <1>2, <1>3, SizeAssumption, SMT
    <3> QED
      BY <2>1, <2>2, <2>3, <3>1, OneFrameOnly
  <2>4. CASE g <= k
    <3>1. k - g <= LastSeq
      BY <1>2, <1>3, SizeAssumption, SMT
    <3> QED
      BY <2>1, <2>2, <2>4, <3>1, OneFrameOnly
  <2> QED
    BY <2>2, <2>3, <2>4, SMT
<1>5. fits = {g}
  <2>1. SeqAfter(b, g) = f.rrr
    BY <1>2, Zenon
  <2> QED
    BY <1>3, <1>4, <2>1
<1>6. (CHOOSE k \in fits : TRUE) = g
  BY <1>5
<1> HIDE DEF fits
<1>7. AckedBy(f) = [meter EXCEPT !.acked = IF fits = {} THEN meter.acked
                                            ELSE CHOOSE k \in fits : TRUE]
  BY <1>2, Zenon DEF AckedBy, fits, Sent
<1> QED
  BY <1>5, <1>6, <1>7

\* The burst that follows an answer without gaps.
LEMMA BurstFollows ==
  ASSUME TypeInv, TypeInv', MeterReceives, Quiet, NEW m \in MeterType, meter' = m,
         toClient' = toClient \o Bytes(Burst(m))
  PROVE  /\ From(Stream', OnTheLine', 1)
         /\ From(Stream, OnTheLine, 1)'
<1>1. PICK B \in Seq(Half) : B = Bytes(Burst(m))
  BY BurstBytes
<1>2. OnTheLine' = B
  BY <1>1, Zenon DEF OnTheLine, Burst, Reply
<1>3. Burst(m) \in Seq(Frame)
  BY BurstType
<1>4. Stream' = Stream \o B
  BY <1>1, <1>3, AnswerStream, Zenon
<1>5. PICK s \in Seq(Others) : s = Stream
  BY DEF Quiet
<1>6. From(s \o B, B, 1)
  BY FromStart
<1>7. From(Stream', OnTheLine', 1)
  BY <1>2, <1>4, <1>5, <1>6, Zenon
<1> QED
  BY <1>7, Zenon

\* A request the meter has not had: its answer begins.
LEMMA AskingAnswers ==
  ASSUME TypeInv, TypeInv', Asking, exchange > 0, pc # "failed", MeterReceives,
         toMeter[1].type = "I", toMeter[1].sss = meter.vr
  PROVE  Asking'
<1>1. /\ toMeter # <<>> /\ toMeter' = Tail(toMeter) /\ Head(toMeter) = toMeter[1]
      /\ UNCHANGED <<pc, exchange, send, dataToSend, dataSent, loop, retCode, rcv,
                     hdlc>>
  <2>1. toMeter # <<>> /\ toMeter' = Tail(toMeter)
        /\ UNCHANGED <<pc, caller, process, hdlc>>
    BY Zenon DEF MeterReceives
  <2>2. Head(toMeter) = toMeter[1]
    BY <2>1, HeadTailProperties DEF TypeInv, Streams
  <2> QED
    BY <2>1, <2>2, Zenon DEF caller, process
<1>2. /\ Commands /\ Outgoing /\ Received /\ OneAtATime
      /\ pc # "idle" => InOrder
  BY AskingParts
<1>3. /\ Len(toMeter) \in Nat /\ 1 \in 1..Len(toMeter) /\ toMeter[1] \in Frame
      /\ \A i \in 1..Len(toMeter') :
           /\ i \in Int /\ i + 1 \in 1..Len(toMeter)
           /\ toMeter'[i] = toMeter[i + 1]
      /\ \A i \in Asks' : i + 1 \in Asks
  BY <1>1, TailOfRequests
<1>4. PICK f \in Frame : f = toMeter[1]
  BY <1>3
<1>5. f.type = "I" /\ f.type # "SNRM" /\ f.type # "RR" /\ f.sss = meter.vr
  BY <1>4
<1>6. meter \in MeterType /\ exchange \in Nat \ {0} /\ exchange \in Int
  <2>1. exchange \in Nat
    BY SizeAssumption, SMT DEF TypeInv, Counters
  <2> QED
    BY <2>1, SMT DEF TypeInv, Counters, MeterType
<1>7. Request(f)
  <2>1. Request(f) \/ Ask(f)
    BY <1>2, <1>3, <1>4, Zenon DEF Commands
  <2> QED
    BY <1>5, <2>1 DEF Ask
<1>8. NextSeq(meter.vr) # meter.vr
  BY <1>6, NextIsOther DEF MeterType
<1>9. f.info[1] = exchange /\ meter.answering # exchange
  BY <1>5, <1>7, <1>8 DEF Request
<1>10. Current(f) /\ pc # "idle" /\ f = send[1]
  <2>1. Current(f)
    BY <1>5, <1>9 DEF Current
  <2> QED
    BY <1>2, <1>3, <1>4, <2>1, Zenon DEF Commands
<1>11. meter.answering = exchange - 1
  BY <1>2, <1>9 DEF Commands
<1>12. /\ Quiet /\ rcv = <<>> /\ Asks = {} /\ ~AskIsNext
  <2>1. /\ Quiet /\ rcv = <<>> /\ Asks \subseteq {1}
        /\ AskIsNext => toMeter = <<>>
    BY <1>2, <1>9, <1>10, Zenon DEF OneAtATime
  <2>2. 1 \notin Asks
    BY <1>4, <1>5 DEF Asks
  <2> QED
    BY <1>1, <2>1, <2>2
<1>13. PICK m : m = Answering(f)
  OBVIOUS
<1>14. /\ m.vr = NextSeq(meter.vr) /\ m.answering = exchange /\ m.acked = 0
       /\ m.base = IF meter.answering = 0 THEN meter.base
                   ELSE SeqAfter(meter.base, Segments)
  BY <1>9, <1>13 DEF Answering
<1>15. meter' = m /\ toClient' = toClient \o Bytes(Burst(m))
  <2>1. m.answering # 0 /\ m.acked < Segments
    BY <1>6, <1>14, SizeAssumption, SMT
  <2> QED
    BY <1>1, <1>4, <1>5, <1>13, <2>1, Zenon DEF MeterReceives
<1>16. m \in MeterType
  BY <1>15, Zenon DEF TypeInv, Counters, MeterType
<1>17. From(Stream', OnTheLine', 1)
  BY <1>12, <1>15, <1>16, BurstFollows, Zenon
<1>18. Asks' = {}
  BY <1>3, <1>12
<1>19. Commands'
  <2>1. Request(send[1])' /\ Current(send[1])'
    BY <1>1, <1>5, <1>7, <1>9, <1>10, <1>14, <1>15 DEF Request, Current
  <2>2. \A i \in 1..Len(toMeter') : toMeter'[i].type # "RR"
    BY <1>18 DEF Asks
  <2>3. \A i \in 1..Len(toMeter') :
          \/ Ask(toMeter[i])'
          \/ toMeter'[i] = send[1]
    <3> SUFFICES ASSUME NEW i \in 1..Len(toMeter')
                 PROVE  toMeter'[i] = send[1]
      BY Zenon
    <3>1. PICK x : x = toMeter'[i] /\ x = toMeter[i + 1] /\ (Request(x) \/ Ask(x))
      BY <1>2, <1>3, ZenonT(60) DEF Commands
    <3>2. x.type = "I"
      BY <2>2, <3>1 DEF Request, Ask
    <3>3. 1 <= i + 1
      BY <1>3, SMT
    <3>4. Current(x)
      BY <1>2, <1>3, <1>4, <1>10, <3>1, <3>2, <3>3, Zenon DEF Commands
    <3> QED
      BY <1>2, <1>3, <3>1, <3>4, Zenon DEF Commands
  <2>4. \A i \in 1..Len(toMeter') : toMeter'[i] = send'[1]
    BY <1>1, <2>2, <2>3 DEF Ask
  <2>5. meter'.answering = exchange' /\ pc' # "idle"
    BY <1>1, <1>10, <1>14, <1>15
  <2>6. \A i \in 1..Len(toMeter') : Request(toMeter[i])' /\ Current(toMeter[i])'
    BY <2>1, <2>4 DEF Request, Current
  <2> QED
    BY <1>18, <2>1, <2>4, <2>5, <2>6, Zenon DEF Commands
<1>20. ~AskIsNext'
  BY <1>1, <1>12 DEF AskIsNext, InProcess
<1>21. Outgoing'
  <2>1. InProcess' = InProcess
    BY <1>1 DEF InProcess
  <2> QED
    BY <1>1, <1>2, <1>20, <2>1 DEF Outgoing, Ask
<1>22. Received'
  <2>1. hdlc'.rrr = m.base
    <3>1. CASE meter.answering = 0
      BY <1>1, <1>2, <1>9, <1>14, <3>1 DEF Received
    <3>2. CASE meter.answering # 0
      BY <1>1, <1>2, <1>9, <1>14, <3>2 DEF Received
    <3> QED
      BY <3>1, <3>2
  <2>2. SeqAfter(m.base, 0) = m.base
    BY <1>16, AfterNone DEF MeterType
  <2>3. 0 \in m.acked..Sent(m)
    BY <1>14, SizeAssumption, SMT DEF Sent
  <2> QED
    BY <1>1, <1>14, <1>15, <2>1, <2>2, <2>3, Zenon DEF Received
<1>23. OneAtATime'
  <2>1. meter'.answering = exchange'
    BY <1>1, <1>14, <1>15
  <2>2. 1 \in Nat \ {0}
    OBVIOUS
  <2> QED
    BY <1>17, <1>18, <1>20, <2>1, <2>2, Zenon DEF OneAtATime
<1>24. InOrder'
  BY <1>1, <1>2, <1>10, <1>12, <1>18 DEF InOrder, Begun
<1> QED
  BY <1>19, <1>21, <1>22, <1>23, <1>24 DEF Asking

\* An RR: the meter goes on where the client waits.
LEMMA AskingAsks ==
  ASSUME TypeInv, TypeInv', Asking, exchange > 0, pc # "failed", MeterReceives,
         toMeter[1].type # "I"
  PROVE  Asking'
<1>1. /\ toMeter # <<>> /\ toMeter' = Tail(toMeter) /\ Head(toMeter) = toMeter[1]
      /\ UNCHANGED <<pc, exchange, send, dataToSend, dataSent, loop, retCode, rcv,
                     hdlc>>
  <2>1. toMeter # <<>> /\ toMeter' = Tail(toMeter)
        /\ UNCHANGED <<pc, caller, process, hdlc>>
    BY Zenon DEF MeterReceives
  <2>2. Head(toMeter) = toMeter[1]
    BY <2>1, HeadTailProperties DEF TypeInv, Streams
  <2> QED
    BY <2>1, <2>2, Zenon DEF caller, process
<1>2. /\ Commands /\ Outgoing /\ Received /\ OneAtATime
      /\ pc # "idle" => InOrder
  BY AskingParts
<1>3. /\ Len(toMeter) \in Nat /\ 1 \in 1..Len(toMeter) /\ toMeter[1] \in Frame
      /\ \A i \in 1..Len(toMeter') :
           /\ i \in Int /\ i + 1 \in 1..Len(toMeter)
           /\ toMeter'[i] = toMeter[i + 1]
      /\ \A i \in Asks' : i + 1 \in Asks
  BY <1>1, TailOfRequests
<1>4. PICK f \in Frame : f = toMeter[1]
  BY <1>3
<1>5. f.type = "RR" /\ f.type # "SNRM" /\ f.type # "I" /\ f.rrr = hdlc.rrr
  <2>1. Request(f) \/ Ask(f)
    BY <1>2, <1>3, <1>4, Zenon DEF Commands
  <2> QED
    BY <1>4, <2>1 DEF Request, Ask
<1>6. 1 \in Asks
  BY <1>3, <1>4, <1>5 DEF Asks
<1>7. Asks' = {}
  <2> SUFFICES ASSUME NEW i \in Asks' PROVE FALSE
    OBVIOUS
  <2>1. i + 1 = 1
    BY <1>2, <1>3, <1>6, Zenon DEF Commands
  <2>2. i \in 1..Len(toMeter') /\ Len(toMeter') \in Nat
    BY LenProperties DEF Asks, TypeInv, Streams
  <2> QED
    BY <2>1, <2>2, SMT
<1>8. Quiet
  BY <1>2, <1>6, Zenon DEF OneAtATime
<1>9. ~AskIsNext' /\ ~AskIsNext
  <2>1. AskIsNext => Asks = {}
    BY <1>2 DEF Outgoing, AskIsNext
  <2>2. ~AskIsNext
    BY <1>6, <2>1
  <2> QED
    BY <1>1, <2>2 DEF AskIsNext, InProcess
<1>10. meter \in MeterType /\ exchange \in Nat \ {0}
  <2>1. exchange \in Nat
    BY SizeAssumption, SMT DEF TypeInv, Counters
  <2> QED
    BY <2>1, SMT DEF TypeInv, Counters, MeterType
<1>11. /\ Sent(meter) \in meter.acked..Segments /\ Sent(meter) \in Nat
       /\ meter.acked \in Nat
  BY <1>10, BurstBytes, Zenon
<1>12. PICK g \in meter.acked..Sent(meter) :
         /\ hdlc.rrr = SeqAfter(meter.base, g)
         /\ meter.answering # exchange =>
              IF meter.answering = 0 THEN g = 0 /\ meter.acked = 0
                                     ELSE g = Segments
  <2>1. CASE meter.answering = exchange
    BY <1>2, <2>1 DEF Received
  <2>2. CASE meter.answering # exchange /\ meter.answering = 0
    <3>1. meter.acked = 0 /\ meter.base = 0 /\ hdlc.rrr = 0
      BY <1>2, <2>2 DEF Received
    <3>2. SeqAfter(0, 0) = 0
      <4>1. 0 \in 0..LastSeq
        BY SizeAssumption, SMT
      <4> QED
        BY <4>1, AfterNone
    <3>3. 0 \in meter.acked..Sent(meter)
      BY <1>11, <3>1, SMT
    <3> QED
      BY <2>2, <3>1, <3>2, <3>3, Zenon
  <2>3. CASE meter.answering # exchange /\ meter.answering # 0
    <3>1. Sent(meter) = Segments /\ hdlc.rrr = SeqAfter(meter.base, Segments)
      BY <1>2, <2>3 DEF Received
    <3>2. Segments \in meter.acked..Sent(meter)
      BY <1>11, <3>1, SMT
    <3> QED
      BY <2>3, <3>1, <3>2, Zenon
  <2> QED
    BY <2>1, <2>2, <2>3
<1>13. PICK m : m = [meter EXCEPT !.acked = g]
  OBVIOUS
<1>14. AckedBy(f) = m
  BY <1>5, <1>10, <1>12, <1>13, AckedIs, ZenonT(60)
<1>15. /\ m.acked = g /\ m.vr = meter.vr /\ m.base = meter.base
       /\ m.answering = meter.answering
  BY <1>10, <1>13 DEF MeterType
<1>16. /\ meter' = m
       /\ toClient' = toClient \o Bytes(IF m.answering # 0 /\ m.acked < Segments
                                          THEN Burst(m)
                                          ELSE <<Reply(m, "RR", 0, TRUE)>>)
  <2>1. meter' = m
    BY <1>1, <1>4, <1>5, <1>14, Zenon DEF MeterReceives
  <2>2. CASE m.answering # 0 /\ m.acked < Segments
    BY <1>1, <1>4, <1>5, <1>14, <2>1, <2>2, Zenon DEF MeterReceives
  <2>3. CASE ~(m.answering # 0 /\ m.acked < Segments)
    BY <1>1, <1>4, <1>5, <1>14, <2>1, <2>3, Zenon DEF MeterReceives
  <2> QED
    BY <2>1, <2>2, <2>3, Zenon
<1>17. m \in MeterType
  BY <1>16, Zenon DEF TypeInv, Counters, MeterType
<1>18. g \in Nat /\ g <= Segments
  BY <1>11, <1>12, SizeAssumption, SMT
<1>19. meter.answering = exchange => g \in g..Sent(m)
  BY <1>15, <1>17, <1>18, SizeAssumption, SMT DEF Sent
<1>20. Quiet' \/ (meter.answering = exchange /\ From(Stream', OnTheLine', 1))
  <2>1. CASE m.answering # 0 /\ m.acked < Segments
    <3>1. meter.answering = exchange
      <4>1. g # Segments
        BY <1>15, <1>18, <2>1, SMT
      <4> QED
        BY <1>12, <1>15, <2>1, <4>1
    <3>2. toClient' = toClient \o Bytes(Burst(m))
      BY <1>16, <2>1, Zenon
    <3> QED
      BY <1>8, <1>16, <1>17, <3>1, <3>2, BurstFollows, Zenon
  <2>2. CASE ~(m.answering # 0 /\ m.acked < Segments)
    <3>1. PICK ans \in Seq(Frame) :
            toClient' = toClient \o Bytes(ans) /\ Bytes(ans) \in Seq(Others)
      BY <1>16, <1>17, <2>2, NoAnswer, Zenon
    <3>2. Stream' = Stream \o Bytes(ans)
      BY <3>1, AnswerStream, Zenon
    <3> QED
      BY <1>8, <3>1, <3>2, ConcatProperties DEF Quiet
  <2> QED
    BY <2>1, <2>2
<1>21. Commands'
  BY <1>1, <1>2, <1>15, <1>16, CommandsOfTail, Zenon
<1>22. Outgoing'
  <2>1. InProcess' = InProcess
    BY <1>1 DEF InProcess
  <2> QED
    BY <1>1, <1>2, <1>9, <2>1 DEF Outgoing, Ask
<1>23. Received'
  <2>1. CASE meter.answering = exchange
    BY <1>1, <1>12, <1>15, <1>16, <1>19, <2>1, Zenon DEF Received
  <2>2. CASE meter.answering # exchange /\ meter.answering = 0
    BY <1>1, <1>2, <1>12, <1>15, <1>16, <2>2 DEF Received
  <2>3. CASE meter.answering # exchange /\ meter.answering # 0
    <3>1. g = Segments
      BY <1>12, <2>3
    <3>2. Sent(m) = Segments
      BY <1>15, <3>1, SizeAssumption, SMT DEF Sent
    <3> QED
      BY <1>1, <1>12, <1>15, <1>16, <2>3, <3>1, <3>2, Zenon DEF Received
  <2> QED
    BY <2>1, <2>2, <2>3
<1>24. OneAtATime'
  <2>1. /\ meter'.answering = meter.answering
        /\ meter.answering # exchange /\ pc # "idle" => rcv = <<>>
    BY <1>2, <1>15, <1>16, Zenon DEF OneAtATime
  <2>2. 1 \in Nat \ {0}
    OBVIOUS
  <2> QED
    BY <1>1, <1>7, <1>9, <1>20, <2>1, <2>2, Zenon DEF OneAtATime
<1>25. ASSUME pc' # "idle" PROVE InOrder'
  <2>1. InOrder
    BY <1>1, <1>2, <1>25
  <2>2. ~retCode'
    <3>1. ~retCode
      BY <1>6, <2>1 DEF InOrder
    <3> QED
      BY <1>1, <3>1
  <2>3. rcv' # <<>> => rcv'[1][1] = exchange'
    BY <1>1, <2>1 DEF InOrder
  <2>4. ASSUME Begun'
        PROVE  /\ \A i \in 1..Len(rcv') : rcv'[i] = <<exchange', i>>
               /\ Len(rcv') \in meter'.acked..Sent(meter')
               /\ hdlc'.rrr = SeqAfter(meter'.base, Len(rcv'))
               /\ \/ Quiet'
                  \/ From(Stream', OnTheLine', 2 * (Len(rcv') - meter'.acked) + 1)
    <3>1. Begun
      BY <1>1, <2>4, Zenon DEF Begun
    <3>2. meter.answering = exchange
      <4>1. pc # "idle" /\ rcv # <<>>
        BY <1>1, <1>25, <3>1 DEF Begun
      <4> QED
        BY <1>2, <4>1, Zenon DEF OneAtATime
    <3>3. /\ \A i \in 1..Len(rcv) : rcv[i] = <<exchange, i>>
          /\ Len(rcv) \in meter.acked..Sent(meter)
          /\ hdlc.rrr = SeqAfter(meter.base, Len(rcv))
      BY <2>1, <3>1, Zenon DEF InOrder
    <3>4. Len(rcv) = g
      <4>1. f.rrr = SeqAfter(meter.base, Len(rcv))
        BY <1>5, <3>3
      <4>2. AckedBy(f) = [meter EXCEPT !.acked = Len(rcv)]
        BY <1>10, <3>3, <4>1, AckedIs, Zenon
      <4>3. m.acked = Len(rcv)
        BY <1>10, <1>14, <4>2 DEF MeterType
      <4> QED
        BY <1>15, <4>3
    <3>5. 2 * (g - g) + 1 = 1
      BY <1>18, SMT
    <3>6. Quiet' \/ From(Stream', OnTheLine', 2 * (g - g) + 1)
      BY <1>20, <3>5, Zenon
    <3>7. rcv' = rcv /\ exchange' = exchange /\ hdlc' = hdlc
      BY <1>1
    <3> QED
      BY <1>12, <1>15, <1>16, <1>19, <3>2, <3>3, <3>4, <3>6, <3>7, Zenon
  <2> QED
    BY <2>2, <2>3, <2>4, Zenon DEF InOrder
<1> QED
  BY <1>1, <1>21, <1>22, <1>23, <1>24, <1>25 DEF Asking

\* The meter and the line.
LEMMA AskingLine ==
  ASSUME "answer" \notin Losses, TypeInv, TypeInv', Asking, exchange' > 0,
         pc' # "failed", MeterReceives \/ LoseRequest \/ LoseAnswer
  PROVE  Asking'
<1>1. exchange > 0 /\ pc # "failed"
  BY Zenon DEF MeterReceives, LoseRequest, LoseAnswer, caller
<1>2. CASE MeterReceives
  BY <1>1, <1>2, AskingRepeats, AskingAnswers, AskingAsks, Zenon
<1>3. CASE LoseRequest
  <2>1. /\ toMeter # <<>> /\ toMeter' = Tail(toMeter)
        /\ UNCHANGED <<exchange, pc, send, dataToSend, dataSent, loop, retCode, rcv,
                       hdlc, meter, unread, mData, toClient>>
    BY <1>3, Zenon DEF LoseRequest, mailbox, caller, process
  <2>2. PICK b \in Seq(Others) : b = <<>>
    BY EmptySeq
  <2>3. Stream' = Stream
    BY <2>1, Zenon DEF Stream, InProcess
  <2>4. Stream' = Stream \o b
    BY <2>2, <2>3, StreamType, ConcatEmptySeq, Zenon
  <2> QED
    BY <1>1, <2>1, <2>4, AskingIgnored, Zenon
<1>4. CASE LoseAnswer
  BY <1>4 DEF LoseAnswer
<1> QED
  BY <1>2, <1>3, <1>4

\* No exchange after the first has begun.
LEMMA AskingInit == Init => Asking
BY DEF Init, Asking

\* Every step keeps Asking.
LEMMA AskingStep ==
  ASSUME "answer" \notin Losses, TypeInv, TypeInv', OnTime, Greeting, Asking,
         [Next]_vars
  PROVE  Asking'
<1> SUFFICES ASSUME exchange' > 0, pc' # "failed" PROVE Asking'
  BY Zenon DEF Asking
<1>1. ~GiveUp
  BY DEF GiveUp
<1> QED
  BY <1>1, AskingEntry, AskingNext, AskingTransmits, AskingWaits, AskingReceives,
     AskingTurns, AskingDecodes, AskingResyncs, AskingLine, Zenon DEF Next, Main

-----------------------------------------------------------------------------
(* The answer a caller goes on with                                        *)

\* Exchange 0 ends with the UA, the others with all segments in order.
LEMMA OrderedIsRight ==
  ASSUME TypeInv, Greeting, Asking
  PROVE  RightAnswer
<1> SUFFICES ASSUME pc = "end", CallerAccepts PROVE rcv = Answer(exchange)
  BY DEF RightAnswer, Accepted
<1>1. retCode /\ rcv # <<>> /\ exchange \in Nat
  BY SizeAssumption, SMT DEF CallerAccepts, TypeInv, Counters
<1>2. CASE exchange = 0
  <2>1. rcv = <<<<0, 1>>>>
    BY <1>1, <1>2, Zenon DEF Greeting
  <2> QED
    BY <1>2, <2>1 DEF Answer
<1>3. CASE exchange # 0
  <2>1. InOrder
    <3>1. exchange > 0 /\ pc # "failed" /\ pc # "idle"
      BY <1>1, <1>3, SMT
    <3> QED
      BY <3>1, AskingParts
  <2>2. rcv[1] \in IF exchange = 1 THEN {<<1, 1>>} ELSE (2..Exchanges) \X {1}
    BY <1>3 DEF CallerAccepts
  <2>3. rcv[1][1] = exchange
    BY <1>1, <2>1 DEF InOrder
  <2>4. Begun
    BY <1>1, <2>2, <2>3 DEF Begun
  <2>5. Len(rcv) = Segments /\ \A i \in 1..Len(rcv) : rcv[i] = <<exchange, i>>
    BY <1>1, <2>1, <2>4, Zenon DEF InOrder
  <2>6. rcv \in [1..Segments -> UserData]
    BY <2>5, LenProperties DEF TypeInv, Streams
  <2>7. Answer(exchange) = [i \in 1..Segments |-> <<exchange, i>>]
    BY <1>3 DEF Answer
  <2> QED
    BY <2>5, <2>6, <2>7
<1> QED
  BY <1>2, <1>3

\* Where the timeout is longer than a frame takes, and the line loses requests
\* but no bytes of an answer, an answer a caller goes on with is the one to its
\* request, whole, in order and without repetition: for every window, number of
\* segments, retries and exchanges, with an echo or without, however the bytes
\* are cut into chunks, and whether or not the meter answers what is repeated
\* (lib/CosemClient.cpp:102-283).  The counter must be able to pass Retries, so
\* that ConnectHdlc ends at its timeout, and the buffer must hold the echo of an
\* SNRM and a UA.
THEOREM RightAnswerOnTime ==
  Timely /\ "answer" \notin Losses /\ Retries < LastCount /\ BufferSize >= 4
    => (Spec => []RightAnswer)
<1> SUFFICES ASSUME Timely, "answer" \notin Losses, Retries < LastCount,
                    BufferSize >= 4
             PROVE  Spec => []RightAnswer
  OBVIOUS
<1> DEFINE Inv == TypeInv /\ Connects /\ OnTime /\ Greeting /\ Asking
<1>1. Init => Inv
  BY TypeInit, ConnectsInit, OnTimeInit, GreetingInit, AskingInit
<1>2. Inv /\ [Next]_vars => Inv'
  <2> SUFFICES ASSUME TypeInv, Connects, OnTime, Greeting, Asking, [Next]_vars
               PROVE  Inv'
    BY DEF Inv
  <2>1. TypeInv'
    BY TypeStep
  <2>2. Connects' /\ OnTime' /\ Greeting'
    BY <2>1, ConnectsStep, OnTimeStep, GreetingStep
  <2>3. Asking'
    BY <2>1, AskingStep
  <2> QED
    BY <2>1, <2>2, <2>3 DEF Inv
<1>3. Inv => RightAnswer
  BY OrderedIsRight
<1> QED
  BY <1>1, <1>2, <1>3, PTL DEF Spec
-----------------------------------------------------------------------------
(* What is on its way when halves of answers get lost: one frame of the    *)
(* client, or what the meter has answered it                               *)

\* Half frames of mRcvArray that one frame for a frame takes, with its echo.
HalvesPerFrame == IF Echo THEN 4 ELSE 2

\* What the timeouts and resends of the code are enough for: no request is
\* lost, Send writes all it is given, a timeout is longer than the line, and
\* mRcvArray has room for an answer in the smallest windows, echoes included.
Recoverable ==
  /\ Timely /\ Retries < LastCount
  /\ "request" \notin Losses /\ SendResults \subseteq {"written"}
  /\ HalvesPerFrame * Segments <= BufferSize

\* A half of the meter's answer as far as it has been sent: of the UA, or of
\* the segments that are not acknowledged.
Part(h) ==
  /\ h.frame.from = "meter" /\ h.frame.info[1] = exchange
  /\ IF exchange = 0
       THEN h.frame = UaFrame
       ELSE /\ h.frame.type = "I"
            /\ h.frame.info[2] \in meter.acked + 1..Sent(meter)
            /\ h.frame.sss = SeqAfter(meter.base, h.frame.info[2] - 1)
            /\ h.frame.segmentation = IF h.frame.info[2] < Segments THEN 1 ELSE 0
            /\ h.frame.poll_final = IF h.frame.info[2] = Sent(meter) THEN 1 ELSE 0

\* There are only echoes; or echoes and parts, with nothing behind the frame
\* that ends a burst.
EchoIn(s) == \A p \in 1..Len(s) : s[p].frame.from = "client"
PartsIn(s) ==
  \A p \in 1..Len(s) : s[p].frame.from # "client" =>
    /\ Part(s[p])
    /\ s[p].half = 1 /\ s[p].frame.poll_final = 1 => p >= Len(s) - 1

\* The halves of an answer are numbered.  Behind the echoes and the segments
\* already received, as many may be missing as the line has lost.
Number(h) == 2 * (h.frame.info[2] - 1) + h.half
NumberBefore(s, p, got) ==
  IF p = 1 \/ s[p - 1].frame.from = "client" THEN 2 * got ELSE Number(s[p - 1])
NearlyWhole(s, got) ==
  \A p \in 1..Len(s) : s[p].frame.from # "client" =>
    /\ \A r \in p..Len(s) : s[r].frame.from # "client"
    /\ Number(s[p]) - NumberBefore(s, p, got) \in 1..losses + 1

\* What mRcvArray holds at most, when everything under way has arrived.
Load == written + Len(mData) + Len(toClient)

\* A frame of the client is about to be sent, or on its way, or answered; each
\* with the load that was there before and is there with the answer.
ToBeSent(f) ==
  pc = "send" /\ dataToSend = <<f>> /\ toMeter = <<>> /\ Stream = <<>>
OnItsWay(f) == dataToSend = <<>> /\ toMeter = <<f>> /\ EchoIn(Stream)
Answered == dataToSend = <<>> /\ toMeter = <<>> /\ PartsIn(Stream)
OneThing(f, before, after) ==
  \/ ToBeSent(f) /\ Load <= before
  \/ OnItsWay(f) /\ Load <= before + (HalvesPerFrame - 2)
  \/ Answered /\ Load <= after

Waiting == ~retCode /\ loop /\ dataSent \in Seq(Clients)

Retried == attempts <= Retries /\ (InProcess => retries <= Retries)

\* Exchange 0.
Greets ==
  exchange = 0 /\ pc # "failed" =>
    /\ meter = Connected /\ hdlc = [type |-> "SNRM", sss |-> 0, rrr |-> 0]
    /\ pc \in {"idle", "end"} => Silent
    /\ pc = "end" /\ retCode => rcv = <<<<0, 1>>>>
    /\ InProcess =>
         /\ Waiting /\ rcv = <<>> /\ retries = Retries /\ send[1] \in Snrms
         /\ OneThing(send[1], 0, HalvesPerFrame)

\* The number of the first segment of the meter's next answer.
NextBase ==
  IF meter.answering = 0 THEN meter.base ELSE SeqAfter(meter.base, Segments)

Requested(f) == Current(f) /\ f.from = "client"

\* A later exchange whose request the meter has not seen.
Unseen ==
  /\ meter.answering = exchange - 1 /\ hdlc.rrr = NextBase
  /\ pc # "end"
  /\ pc = "idle" => Silent /\ hdlc.sss = meter.vr
  /\ InProcess =>
       /\ Waiting /\ rcv = <<>> /\ retries = 0 /\ hdlc.type = "I"
       /\ Requested(send[1]) /\ send[1].sss = meter.vr
       /\ OneThing(send[1], 0, 0) /\ (dataToSend # <<>> \/ toMeter # <<>>)
       /\ hdlc.sss = IF dataToSend # <<>> THEN meter.vr ELSE NextSeq(meter.vr)

\* A request the meter has answered before.
Repetition(f) == Requested(f) /\ NextSeq(f.sss) = meter.vr
Repetitions ==
  Stream \in Seq(Others) /\ \A i \in 1..Len(toMeter) : Repetition(toMeter[i])

\* The segments appended so far are the last ones received.
LastOf(segments, got) ==
  \A i \in 1..Len(segments) : segments[i][2] = got - Len(segments) + i

\* Of a request the meter has seen, the first got segments were received:
\* the meter is asked for more, or is sent the request again.
Resuming(got) ==
  \/ /\ OneThing(ReceiveReady(hdlc.rrr), HalvesPerFrame * got,
                 HalvesPerFrame * Sent(meter))
     /\ dataToSend # <<>> => hdlc.type = "RR"
     /\ MaxLosses <= 1 => NearlyWhole(Stream, got)
  \/ dataToSend \in {<<>>, send} /\ hdlc.type = "RR" /\ Repetitions
Seen(got) ==
  /\ pc # "idle" /\ Repetition(send[1]) /\ hdlc.sss = meter.vr
  /\ got \in meter.acked..Sent(meter) /\ hdlc.rrr = SeqAfter(meter.base, got)
  /\ retCode <=> got = Segments
  /\ \A i \in 1..Len(rcv) : rcv[i][1] = exchange
  /\ MaxLosses <= 1 => LastOf(rcv, got)
  /\ pc = "end" =>
       IF retCode THEN Silent ELSE Repetitions /\ (hdlc.type = "RR" \/ Retries = 0)
  /\ InProcess =>
       /\ Waiting /\ (hdlc.type = "RR" \/ (hdlc.type = "I" /\ retries = 0))
       /\ Resuming(got)

Pacing ==
  exchange > 0 /\ pc # "failed" =>
    IF meter.answering = exchange
      THEN \E got \in 0..Segments : Seen(got)
      ELSE Unseen

Steady == Retried /\ Greets /\ Pacing

-----------------------------------------------------------------------------
(* Streams of echoes and parts                                             *)

\* Every half of t is one of s, and no further from the end.
Within(t, s) ==
  \A p \in 1..Len(t) :
    \E r \in 1..Len(s) : t[p] = s[r] /\ Len(t) - p <= Len(s) - r

\* What is left of a stream of echoes, of parts or of others is one.
LEMMA WithinKeeps ==
  ASSUME NEW s \in Seq(Half), NEW t \in Seq(Half), Within(t, s)
  PROVE  /\ EchoIn(s) => EchoIn(t)
         /\ PartsIn(s) => PartsIn(t)
         /\ s \in Seq(Others) => t \in Seq(Others)
         /\ s = <<>> => t = <<>>
<1>1. PICK m \in Nat, n \in Nat : m = Len(s) /\ n = Len(t)
  BY LenProperties
<1>2. \A p \in 1..n : \E r \in 1..m : t[p] = s[r] /\ n - p <= m - r
  BY <1>1 DEF Within
<1>3. EchoIn(s) => EchoIn(t)
  BY <1>1, <1>2, Zenon DEF EchoIn
<1>4. ASSUME PartsIn(s) PROVE PartsIn(t)
  <2> SUFFICES ASSUME NEW p \in 1..n, t[p].frame.from # "client"
               PROVE  /\ Part(t[p])
                      /\ t[p].half = 1 /\ t[p].frame.poll_final = 1 => p >= n - 1
    BY <1>1, Zenon DEF PartsIn
  <2>1. PICK r \in 1..m : t[p] = s[r] /\ n - p <= m - r
    BY <1>2
  <2>2. /\ Part(s[r])
        /\ s[r].half = 1 /\ s[r].frame.poll_final = 1 => r >= m - 1
    BY <1>1, <1>4, <2>1, Zenon DEF PartsIn
  <2>3. r >= m - 1 => p >= n - 1
    BY <2>1, SMT
  <2> QED
    BY <2>1, <2>2, <2>3, Zenon
<1>5. ASSUME s \in Seq(Others) PROVE t \in Seq(Others)
  <2>1. \A p \in 1..n : t[p] \in Others
    BY <1>1, <1>2, <1>5, ElementOfSeq, Zenon
  <2>2. t \in [1..n -> Others]
    <3>1. t \in [1..n -> Half]
      BY <1>1, LenProperties
    <3> QED
      BY <2>1, <3>1
  <2> QED
    BY <2>2, IsSequence, Zenon
<1>6. ASSUME s = <<>> PROVE t = <<>>
  <2>1. m = 0
    BY <1>1, <1>6, EmptySeq
  <2>2. n = 0
    <3>1. ASSUME n > 0 PROVE FALSE
      <4>1. 1 \in 1..n
        BY <3>1
      <4>2. PICK r \in 1..m : TRUE
        BY <1>2, <4>1
      <4> QED
        BY <2>1, <4>2
    <3> QED
      BY <3>1
  <2> QED
    BY <1>1, <2>2, EmptySeq
<1> QED
  BY <1>3, <1>4, <1>5, <1>6

\* The elements of a concatenation.
LEMMA Concatenated ==
  ASSUME NEW a \in Seq(Half), NEW b \in Seq(Half)
  PROVE  /\ a \o b \in Seq(Half) /\ Len(a \o b) = Len(a) + Len(b)
         /\ Len(a) \in Nat /\ Len(b) \in Nat /\ Len(a \o b) \in Nat
         /\ \A p \in 1..Len(a) : (a \o b)[p] = a[p]
         /\ \A p \in 1..Len(b) : (a \o b)[Len(a) + p] = b[p]
<1>1. /\ a \o b \in Seq(Half) /\ Len(a \o b) = Len(a) + Len(b)
      /\ \A p \in 1..Len(a) + Len(b) :
           (a \o b)[p] = IF p <= Len(a) THEN a[p] ELSE b[p - Len(a)]
  BY ConcatProperties
<1>2. PICK m \in Nat, n \in Nat : m = Len(a) /\ n = Len(b)
  BY LenProperties
<1>3. \A p \in 1..m : (a \o b)[p] = a[p]
  BY <1>1, <1>2
<1>4. ASSUME NEW p \in 1..n PROVE (a \o b)[m + p] = b[p]
  <2>1. m + p \in 1..m + n /\ ~(m + p <= m) /\ m + p - m = p
    OBVIOUS
  <2> QED
    BY <1>1, <1>2, <2>1
<1>5. m + n \in Nat
  BY <1>2
<1> QED
  BY <1>1, <1>2, <1>3, <1>4, <1>5

\* A stream is within itself, and what follows its beginning is within it.
LEMMA WithinSuffix ==
  /\ \A s \in Seq(Half) : Within(s, s)
  /\ \A a, t \in Seq(Half) : Within(t, a \o t)
<1>1. ASSUME NEW s \in Seq(Half) PROVE Within(s, s)
  <2>1. PICK n \in Nat : n = Len(s)
    BY LenProperties
  <2>2. \A p \in 1..n : n - p <= n - p
    BY SMT
  <2> QED
    BY <2>1, <2>2, Zenon DEF Within
<1>2. ASSUME NEW a \in Seq(Half), NEW t \in Seq(Half) PROVE Within(t, a \o t)
  <2>1. PICK m \in Nat, n \in Nat : m = Len(a) /\ n = Len(t)
    BY LenProperties
  <2>2. Len(a \o t) = m + n /\ \A p \in 1..n : (a \o t)[m + p] = t[p]
    BY <2>1, Concatenated, Zenon
  <2>3. \A p \in 1..n : m + p \in 1..m + n /\ n - p <= (m + n) - (m + p)
    BY SMT
  <2> QED
    BY <2>1, <2>2, <2>3, Zenon DEF Within
<1> QED
  BY <1>1, <1>2

\* A stream that has lost one half, in the middle.
LEMMA OneLess ==
  ASSUME NEW u \in Seq(Half), NEW c \in Seq(Half), c # <<>>
  PROVE  /\ u \o Tail(c) \in Seq(Half) /\ Len(u) \in Nat
         /\ Len(u \o c) \in Nat /\ Len(u) + 1 <= Len(u \o c)
         /\ Len(u \o Tail(c)) = Len(u \o c) - 1
         /\ \A p \in 1..Len(u \o Tail(c)) :
              (u \o Tail(c))[p] = IF p <= Len(u) THEN (u \o c)[p] ELSE (u \o c)[p + 1]
<1>1. PICK d \in Seq(Half) : d = Tail(c)
  BY HeadTailProperties
<1>2. PICK m \in Nat, n \in Nat : m = Len(u) /\ n = Len(c) /\ n >= 1
  BY LenProperties, EmptySeq
<1>3. Len(d) = n - 1 /\ \A i \in 1..n - 1 : d[i] = c[i + 1]
  BY <1>1, <1>2, HeadTailProperties
<1>4. /\ u \o c \in Seq(Half) /\ Len(u \o c) = m + n
      /\ \A p \in 1..m : (u \o c)[p] = u[p]
      /\ \A p \in 1..n : (u \o c)[m + p] = c[p]
  BY <1>2, Concatenated, Zenon
<1>5. /\ u \o d \in Seq(Half) /\ Len(u \o d) = m + Len(d)
      /\ \A p \in 1..m : (u \o d)[p] = u[p]
      /\ \A p \in 1..Len(d) : (u \o d)[m + p] = d[p]
  BY <1>2, Concatenated, Zenon
<1>6. Len(u \o d) = m + n - 1
  BY <1>3, <1>5
<1>7. ASSUME NEW p \in 1..m + n - 1
      PROVE  (u \o d)[p] = IF p <= m THEN (u \o c)[p] ELSE (u \o c)[p + 1]
  <2>1. CASE p <= m
    <3>1. p \in 1..m
      BY <2>1
    <3> QED
      BY <1>4, <1>5, <2>1, <3>1, Zenon
  <2>2. CASE ~(p <= m)
    <3>1. PICK k \in 1..n - 1 : p = m + k /\ k + 1 \in 1..n /\ p + 1 = m + (k + 1)
      <4>1. p - m \in 1..n - 1 /\ p = m + (p - m) /\ (p - m) + 1 \in 1..n
            /\ p + 1 = m + ((p - m) + 1)
        BY <2>2
      <4> QED
        BY <4>1
    <3>2. (u \o d)[p] = d[k]
      BY <1>3, <1>5, <3>1, Zenon
    <3>3. (u \o c)[p + 1] = c[k + 1]
      BY <1>4, <3>1, Zenon
    <3> QED
      BY <1>3, <2>2, <3>1, <3>2, <3>3, Zenon
  <2> QED
    BY <2>1, <2>2
<1>8. m + 1 <= m + n /\ m + n \in Nat /\ m + n - 1 = (m + n) - 1
  BY <1>2
<1>9. Len(u \o d) = Len(u \o c) - 1
  BY <1>4, <1>6, <1>8, Zenon
<1> QED
  BY <1>1, <1>2, <1>4, <1>5, <1>6, <1>7, <1>8, <1>9, Zenon

\* ... is within what it was.
LEMMA WithinLess ==
  ASSUME NEW u \in Seq(Half), NEW c \in Seq(Half), c # <<>>
  PROVE  Within(u \o Tail(c), u \o c)
<1>1. PICK t, s, m, n : t = u \o Tail(c) /\ s = u \o c /\ m = Len(u) /\ n = Len(s)
  OBVIOUS
<1>2. /\ m \in Nat /\ n \in Nat /\ m + 1 <= n /\ Len(t) = n - 1
      /\ \A p \in 1..Len(t) : t[p] = IF p <= m THEN s[p] ELSE s[p + 1]
  BY <1>1, OneLess, Zenon
<1>3. ASSUME NEW p \in 1..n - 1
      PROVE  /\ p \in 1..n /\ (n - 1) - p <= n - p
             /\ p + 1 \in 1..n /\ (n - 1) - p <= n - (p + 1)
  BY <1>2, SMT
<1> QED
  BY <1>1, <1>2, <1>3, Zenon DEF Within

-----------------------------------------------------------------------------
(* Steps that move bytes on, or lose some                                  *)

\* Steps that send nothing, answer nothing and decode nothing.
Moving ==
  \/ NothingToTransmit \/ Notified \/ Expires \/ DecodeNothing \/ Announce
  \/ Receive \/ Arrive \/ LoseAnswer \/ UNCHANGED vars

\* While HdlcProcess runs they leave it running.
InTheLoop == InProcess => loop /\ dataSent \in Seq(Clients)

\* What such a step leaves as it is, and what becomes of the stream: it stays,
\* or it loses an echo at its head, or the line loses a half.
LEMMA Moves ==
  ASSUME TypeInv, TypeInv', Moving, InTheLoop
  PROVE  /\ UNCHANGED <<caller, send, dataToSend, dataSent, retries, loop, retCode,
                        rcv, hdlc, toMeter, meter>>
         /\ InProcess' = InProcess /\ (~InProcess => pc' = pc)
         /\ dataToSend # <<>> /\ pc = "send" => pc' = "send"
         /\ Load' <= Load /\ (Silent => Silent')
         /\ \/ Stream' = Stream /\ losses' = losses
            \/ /\ losses' = losses
               /\ \E a \in Seq(Others) : Stream = a \o Stream'
            \/ /\ losses' = losses + 1 /\ losses < MaxLosses
               /\ \E u, c \in Seq(Half) :
                    c # <<>> /\ Stream = u \o c /\ Stream' = u \o Tail(c)
<1>1. CASE NothingToTransmit \/ Notified \/ Expires \/ DecodeNothing \/ Announce
           \/ UNCHANGED vars
  <2>1. UNCHANGED <<caller, process, hdlc, line, mData>>
    BY <1>1, Zenon
       DEF NothingToTransmit, Notified, Expires, DecodeNothing, Announce, vars,
           Mail!Call, Mail!Take, Mail!Expire, Mail!Ring, mailbox
  <2>2. InProcess' = InProcess /\ (~InProcess => pc' = pc)
        /\ (dataToSend # <<>> /\ pc = "send" => pc' = "send")
    <3>1. CASE NothingToTransmit
      BY <3>1 DEF NothingToTransmit, InProcess
    <3>2. CASE DecodeNothing
      <4>1. pc = "decode" /\ pc' = Turn(loop)
        BY <3>2 DEF DecodeNothing
      <4>2. loop
        BY <4>1 DEF InTheLoop, InProcess
      <4> QED
        BY <4>1, <4>2 DEF Turn, InProcess
    <3>3. CASE Notified \/ Expires \/ Announce \/ UNCHANGED vars
      <4>1. pc' = pc
        BY <3>3, Zenon DEF Notified, Expires, Announce, vars
      <4> QED
        BY <4>1 DEF InProcess
    <3> QED
      BY <1>1, <3>1, <3>2, <3>3
  <2>3. Stream' = Stream /\ losses' = losses
    BY <2>1, <2>2, Zenon DEF Stream, process, line
  <2>4. Load' = Load
    BY <2>1, Zenon DEF Load, process, line
  <2>5. Load \in Int
    BY StreamType, SMT DEF Load, TypeInv, Counters
  <2>6. Load' <= Load
    BY <2>4, <2>5, SMT
  <2>7. Silent => Silent'
    BY <2>1, Zenon DEF Silent, line
  <2> QED
    BY <2>1, <2>2, <2>3, <2>6, <2>7, Zenon DEF process, line
<1>2. CASE Receive
  <2>1. /\ UNCHANGED <<caller, send, dataToSend, dataSent, retries, loop, retCode,
                       rcv, hdlc, line>>
        /\ pc = "wait" /\ mData' = <<>> /\ written' = written + Len(mData)
        /\ pc' = IF loop THEN "decode" ELSE "end"
    BY <1>2, Zenon DEF Receive, Mail!Drain
  <2>2. InProcess /\ loop /\ dataSent \in Seq(Clients)
    BY <2>1 DEF InProcess, InTheLoop
  <2>3. pc' = "decode" /\ InProcess'
    BY <2>1, <2>2 DEF InProcess
  <2>4. PICK a \in Seq(Half) : Stream = a \o Stream' /\ a \in Seq(Others)
    BY <1>2, <2>2, <2>3, ReceiveTakes, Zenon
  <2>5. Load' <= Load
    <3>1. Len(mData') = 0 /\ toClient' = toClient
      BY <2>1, EmptySeq DEF line
    <3> QED
      BY <2>1, <3>1, StreamType, SMT DEF Load, TypeInv, Counters
  <2>6. Silent => Silent'
    BY <2>1, Zenon DEF Silent, line
  <2>7. losses' = losses /\ toMeter' = toMeter /\ meter' = meter
    BY <2>1 DEF line
  <2>8. pc # "send"
    BY <2>1
  <2> QED
    BY <2>1, <2>2, <2>3, <2>4, <2>5, <2>6, <2>7, <2>8, Zenon
<1>3. CASE Arrive
  <2>1. /\ mData' \o toClient' = mData \o toClient
        /\ UNCHANGED <<pc, caller, process, hdlc, toMeter, meter, losses>>
    BY <1>3, ArriveKeeps, Zenon
  <2>2. InProcess' = InProcess /\ unread' = unread /\ written' = written
    BY <2>1, Zenon DEF InProcess, process
  <2>3. Stream' = Stream
    BY <2>1, <2>2, Zenon DEF Stream
  <2>4. Load' <= Load
    <3>1. /\ mData' \in Seq(Half) /\ toClient' \in Seq(Half)
          /\ mData \in Seq(Half) /\ toClient \in Seq(Half) /\ written \in Nat
      BY Zenon DEF TypeInv, Streams, Counters
    <3>2. /\ Len(mData' \o toClient') = Len(mData') + Len(toClient')
          /\ Len(mData \o toClient) = Len(mData) + Len(toClient)
          /\ Len(mData') \in Nat /\ Len(toClient') \in Nat
          /\ Len(mData) \in Nat /\ Len(toClient) \in Nat
      BY <3>1, Concatenated, Zenon
    <3>3. Len(mData') + Len(toClient') = Len(mData) + Len(toClient)
      BY <2>1, <3>2, Zenon
    <3> QED
      BY <2>2, <3>1, <3>2, <3>3, SMT DEF Load
  <2>5. ~Silent
    <3>1. PICK n \in 1..Len(toClient) : TRUE
      BY <1>3, Zenon DEF Arrive
    <3>2. Len(toClient) # 0
      BY <3>1, StreamType, SMT
    <3> QED
      BY <3>2, EmptySeq DEF Silent
  <2> QED
    BY <2>1, <2>2, <2>3, <2>4, <2>5, Zenon DEF process
<1>4. CASE LoseAnswer
  <2>1. /\ toClient # <<>> /\ toClient' = Tail(toClient)
        /\ losses' = losses + 1 /\ losses < MaxLosses
        /\ UNCHANGED <<mailbox, pc, caller, process, hdlc, toMeter, meter>>
    BY <1>4, Zenon DEF LoseAnswer
  <2>2. InProcess' = InProcess /\ unread' = unread /\ written' = written
        /\ mData' = mData
    BY <2>1, Zenon DEF InProcess, process, mailbox
  <2>3. PICK c, d : c = toClient /\ d = Tail(c)
    OBVIOUS
  <2>4. c \in Seq(Half) /\ d \in Seq(Half) /\ c # <<>> /\ Len(d) = Len(c) - 1
        /\ Len(c) \in Nat
    <3>1. c \in Seq(Half) /\ c # <<>>
      BY <2>1, <2>3, StreamType, Zenon
    <3>2. d \in Seq(Half) /\ Len(d) = Len(c) - 1
      BY <2>3, <3>1, HeadTailProperties
    <3> QED
      BY <3>1, <3>2, LenProperties
  <2>5. \E u \in Seq(Half) : Stream = u \o c /\ Stream' = u \o d
    <3>1. CASE InProcess
      <4>1. Stream = unread \o (mData \o c) /\ Stream' = unread \o (mData \o d)
        BY <2>1, <2>2, <2>3, <3>1, Zenon DEF Stream
      <4>2. unread \o mData \in Seq(Half)
        BY StreamType, ConcatProperties
      <4>3. unread \in Seq(Half) /\ mData \in Seq(Half)
        BY StreamType
      <4>4. unread \o (mData \o c) = (unread \o mData) \o c
        BY <2>4, <4>3, Associative, Zenon
      <4>5. unread \o (mData \o d) = (unread \o mData) \o d
        BY <2>4, <4>3, Associative, Zenon
      <4> QED
        BY <4>1, <4>2, <4>4, <4>5, Zenon
    <3>2. CASE ~InProcess
      <4>1. Stream = mData \o c /\ Stream' = mData \o d
        BY <2>1, <2>2, <2>3, <3>2, Zenon DEF Stream
      <4> QED
        BY <4>1, StreamType, Zenon
    <3> QED
      BY <3>1, <3>2
  <2>6. Load' <= Load
    <3>1. Len(mData') = Len(mData) /\ Len(toClient') = Len(toClient) - 1
      BY <2>1, <2>2, <2>3, <2>4
    <3> QED
      BY <2>2, <3>1, StreamType, SMT DEF Load, TypeInv, Counters
  <2>7. ~Silent
    BY <2>1 DEF Silent
  <2>8. \E x, y \in Seq(Half) : y # <<>> /\ Stream = x \o y /\ Stream' = x \o Tail(y)
    BY <2>3, <2>4, <2>5, Zenon
  <2> QED
    BY <2>1, <2>2, <2>6, <2>7, <2>8, Zenon DEF process
<1> QED
  BY <1>1, <1>2, <1>3, <1>4 DEF Moving

\* The stream after such a step is within the one before.
LEMMA MovesWithin ==
  ASSUME TypeInv, TypeInv', Moving, InTheLoop
  PROVE  Within(Stream', Stream) /\ Stream' \in Seq(Half) /\ Stream \in Seq(Half)
<1>1. PICK s \in Seq(Half) : s = Stream
  BY StreamType
<1>2. PICK t \in Seq(Half) : t = Stream'
  <2>1. Stream' \in Seq(Half)
    <3>1. /\ mData' \in Seq(Half) /\ toClient' \in Seq(Half) /\ unread' \in Seq(Half)
      BY Zenon DEF TypeInv, Streams
    <3> QED
      BY <3>1, ConcatProperties, Zenon DEF Stream
  <2> QED
    BY <2>1
<1>3. \/ t = s
      \/ \E a \in Seq(Others) : s = a \o t
      \/ \E u, c \in Seq(Half) : c # <<>> /\ s = u \o c /\ t = u \o Tail(c)
  BY <1>1, <1>2, Moves, Zenon
<1>4. Seq(Others) \subseteq Seq(Half)
  <2>1. Others \subseteq Half
    BY Zenon DEF Others
  <2> QED
    BY <2>1, SeqMonotonic, Zenon
<1>5. Within(t, s)
  BY <1>3, <1>4, WithinSuffix, WithinLess, Zenon
<1> QED
  BY <1>1, <1>2, <1>5, Zenon

\* The number of a half of a frame is a number.
LEMMA NumberType ==
  /\ \A h \in Half : Number(h) \in Int /\ h.half \in {1, 2} /\ h.frame.info[2] \in Int
  /\ \A s \in Seq(Half) : \A p \in 1..Len(s) : Number(s[p]) \in Int /\ s[p] \in Half
<1>1. ASSUME NEW h \in Half
      PROVE  Number(h) \in Int /\ h.half \in {1, 2} /\ h.frame.info[2] \in Int
  <2>1. h.half \in {1, 2} /\ h.frame.info \in UserData
    BY DEF Half, Frame
  <2>2. h.frame.info[2] \in 0..Segments
    BY <2>1 DEF UserData
  <2>3. h.frame.info[2] \in Int /\ h.half \in Int
    BY <2>1, <2>2, SizeAssumption, SMT
  <2> QED
    BY <2>1, <2>3, SMT DEF Number
<1>2. \A s \in Seq(Half) : \A p \in 1..Len(s) : s[p] \in Half
  BY ElementOfSeq
<1> QED
  BY <1>1, <1>2

\* Of a stream of parts only echoes are others.
LEMMA OthersAreEchoes ==
  ASSUME NEW a \in Seq(Others), NEW t \in Seq(Half), PartsIn(a \o t)
  PROVE  a \in Seq(Half) /\ \A p \in 1..Len(a) : a[p].frame.from = "client"
<1>1. a \in Seq(Half)
  <2>1. Others \subseteq Half
    BY Zenon DEF Others
  <2> QED
    BY <2>1, SeqMonotonic, Zenon
<1>2. ASSUME NEW p \in 1..Len(a), a[p].frame.from # "client" PROVE FALSE
  <2>1. a[p].frame.type = "RR"
    <3>1. a[p] \in Others
      BY ElementOfSeq
    <3> QED
      BY <1>2, <3>1 DEF Others
  <2>2. PICK m \in Nat, n \in Nat : m = Len(a) /\ n = Len(t)
    BY <1>1, LenProperties
  <2>3. Len(a \o t) = m + n /\ (a \o t)[p] = a[p]
    BY <1>1, <2>2, Concatenated, Zenon
  <2>4. p \in 1..m + n
    BY <2>2
  <2>5. Part(a[p])
    BY <1>2, <2>3, <2>4, Zenon DEF PartsIn
  <2>6. a[p].frame.type # "RR"
    BY <2>5 DEF Part, UaFrame, Reply
  <2> QED
    BY <2>1, <2>6
<1> QED
  BY <1>1, <1>2

\* Without its echoes a stream is as whole as it was.
LEMMA WholeSuffix ==
  ASSUME NEW a \in Seq(Half), NEW t \in Seq(Half), NEW got \in Int,
         \A p \in 1..Len(a) : a[p].frame.from = "client",
         NearlyWhole(a \o t, got)
  PROVE  NearlyWhole(t, got)
<1>1. PICK m \in Nat, n \in Nat : m = Len(a) /\ n = Len(t)
  BY LenProperties
<1>2. PICK s : s = a \o t
  OBVIOUS
<1>3. Len(s) = m + n /\ (\A p \in 1..m : s[p] = a[p])
      /\ \A p \in 1..n : s[m + p] = t[p]
  BY <1>1, <1>2, Concatenated, Zenon
<1> SUFFICES ASSUME NEW p \in 1..n, t[p].frame.from # "client"
             PROVE  /\ \A r \in p..n : t[r].frame.from # "client"
                    /\ Number(t[p]) - NumberBefore(t, p, got) \in 1..losses + 1
  BY <1>1, Zenon DEF NearlyWhole
<1>4. m + p \in 1..m + n /\ \A r \in p..n : m + r \in m + p..m + n /\ r \in 1..n
  OBVIOUS
<1>5. /\ \A r \in m + p..m + n : s[r].frame.from # "client"
      /\ Number(s[m + p]) - NumberBefore(s, m + p, got) \in 1..losses + 1
  <2>1. NearlyWhole(s, got) /\ s[m + p].frame.from # "client"
    BY <1>2, <1>3, Zenon
  <2> QED
    BY <1>3, <1>4, <2>1, Zenon DEF NearlyWhole
<1>6. \A r \in p..n : t[r].frame.from # "client"
  BY <1>3, <1>4, <1>5, Zenon
<1>7. NumberBefore(s, m + p, got) = NumberBefore(t, p, got)
  <2>1. CASE p = 1
    <3>1. NumberBefore(t, p, got) = 2 * got
      BY <2>1 DEF NumberBefore
    <3>2. CASE m = 0
      <4>1. m + p = 1
        BY <2>1, <3>2
      <4> QED
        BY <3>1, <4>1 DEF NumberBefore
    <3>3. CASE m # 0
      <4>1. m \in 1..m /\ (m + p) - 1 = m
        BY <2>1, <3>3
      <4>2. s[m].frame.from = "client"
        BY <1>1, <1>3, <4>1, Zenon
      <4>3. NumberBefore(s, m + p, got) = 2 * got
        BY <4>1, <4>2, Zenon DEF NumberBefore
      <4> QED
        BY <3>1, <4>3, Zenon
    <3> QED
      BY <3>2, <3>3
  <2>2. CASE p # 1
    <3>1. PICK q \in 1..n : q = p - 1 /\ (m + p) - 1 = m + q /\ m + p # 1
      <4>1. p - 1 \in 1..n /\ (m + p) - 1 = m + (p - 1) /\ m + p # 1
        BY <2>2
      <4> QED
        BY <4>1
    <3>2. s[m + q] = t[q]
      BY <1>3
    <3>3. PICK v : v = IF t[q].frame.from = "client" THEN 2 * got ELSE Number(t[q])
      OBVIOUS
    <3>4. NumberBefore(t, p, got) = v
      BY <2>2, <3>1, <3>3, Zenon DEF NumberBefore
    <3>5. NumberBefore(s, m + p, got) = v
      <4>1. PICK i : i = m + p
        OBVIOUS
      <4>2. i # 1 /\ s[i - 1] = t[q]
        BY <3>1, <3>2, <4>1, Zenon
      <4>3. NumberBefore(s, i, got) = v
        BY <3>3, <4>2, Zenon DEF NumberBefore
      <4> QED
        BY <4>1, <4>3, Zenon
    <3> QED
      BY <3>4, <3>5, Zenon
  <2> QED
    BY <2>1, <2>2
<1> QED
  BY <1>3, <1>5, <1>6, <1>7, Zenon

\* The first half that is lost leaves the stream nearly whole.
LEMMA WholeLess ==
  ASSUME NEW u \in Seq(Half), NEW c \in Seq(Half), c # <<>>, NEW got \in Int,
         losses = 0, losses' = 1, NearlyWhole(u \o c, got)
  PROVE  NearlyWhole(u \o Tail(c), got)'
<1>1. PICK t, s, m, n : t = u \o Tail(c) /\ s = u \o c /\ m = Len(u) /\ n = Len(s)
  OBVIOUS
<1>2. /\ m \in Nat /\ n \in Nat /\ m + 1 <= n /\ Len(t) = n - 1
      /\ \A p \in 1..Len(t) : t[p] = IF p <= m THEN s[p] ELSE s[p + 1]
  BY <1>1, OneLess, Zenon
<1>3. s \in Seq(Half)
  BY <1>1, ConcatProperties
<1>4. \A p \in 1..n - 1 : t[p] = IF p <= m THEN s[p] ELSE s[p + 1]
  BY <1>2, Zenon
<1>5. \A p \in 1..n : s[p].frame.from # "client" =>
        /\ \A r \in p..n : s[r].frame.from # "client"
        /\ Number(s[p]) - NumberBefore(s, p, got) \in 1..0 + 1
  <2>1. NearlyWhole(s, got)
    BY <1>1
  <2> QED
    BY <1>1, <2>1, Zenon DEF NearlyWhole
<1>6. \A p \in 1..n : Number(s[p]) \in Int
  BY <1>1, <1>3, NumberType, Zenon
<1>7. \A p \in 1..n : NumberBefore(s, p, got) \in Int
  <2> SUFFICES ASSUME NEW p \in 1..n PROVE NumberBefore(s, p, got) \in Int
    OBVIOUS
  <2>1. p = 1 \/ p - 1 \in 1..n
    BY <1>2
  <2>2. 2 * got \in Int
    BY SMT
  <2> QED
    BY <1>6, <2>1, <2>2, Zenon DEF NumberBefore
<1>8. \A p \in 1..n : s[p].frame.from # "client" =>
        Number(s[p]) = NumberBefore(s, p, got) + 1
  BY <1>5, <1>6, <1>7, SMT
<1>9. ASSUME NEW p \in 1..n - 1, t[p].frame.from # "client"
      PROVE  /\ \A r \in p..n - 1 : t[r].frame.from # "client"
             /\ Number(t[p]) - NumberBefore(t, p, got) \in 1..1 + 1
  <2>1. PICK q \in 1..n : t[p] = s[q] /\ q = IF p <= m THEN p ELSE p + 1
    <3>1. p \in 1..n /\ p + 1 \in 1..n
      BY <1>2
    <3> QED
      BY <1>4, <3>1, Zenon
  <2>2. ASSUME NEW r \in p..n - 1 PROVE t[r].frame.from # "client"
    <3>1. r \in 1..n - 1 /\ r \in p..n /\ r + 1 \in p..n
          /\ (p <= m \/ r > m) /\ (p > m => r + 1 \in p + 1..n /\ ~(r <= m))
      BY <1>2
    <3>2. CASE r <= m
      <4>1. r \in q..n
        BY <1>2, <2>1, <3>1, <3>2
      <4>2. t[r] = s[r]
        BY <1>4, <3>1, <3>2, Zenon
      <4> QED
        BY <1>5, <1>9, <2>1, <4>1, <4>2, Zenon
    <3>3. CASE ~(r <= m)
      <4>1. r + 1 \in q..n
        BY <1>2, <2>1, <3>1, <3>3
      <4>2. t[r] = s[r + 1]
        BY <1>4, <3>1, <3>3, Zenon
      <4> QED
        BY <1>5, <1>9, <2>1, <4>1, <4>2, Zenon
    <3> QED
      BY <3>2, <3>3
  <2>3. CASE p <= m
    <3>1. q = p /\ t[p] = s[p]
      BY <2>1, <2>3
    <3>2. NumberBefore(t, p, got) = NumberBefore(s, p, got)
      <4>1. p = 1 \/ (p - 1 \in 1..n - 1 /\ p - 1 <= m)
        BY <1>2, <2>3
      <4>2. p = 1 \/ t[p - 1] = s[p - 1]
        BY <1>4, <4>1, Zenon
      <4> QED
        BY <4>2, Zenon DEF NumberBefore
    <3>3. Number(s[p]) = NumberBefore(s, p, got) + 1 /\ p \in 1..n
      BY <1>8, <1>9, <2>1, <3>1, Zenon
    <3>4. NumberBefore(s, p, got) \in Int
      BY <1>7, <3>3
    <3>5. Number(t[p]) = NumberBefore(t, p, got) + 1 /\ NumberBefore(t, p, got) \in Int
      BY <3>1, <3>2, <3>3, <3>4, Zenon
    <3>6. Number(t[p]) - NumberBefore(t, p, got) \in 1..1 + 1
      BY <3>5, SMT
    <3> QED
      BY <2>2, <3>6
  <2>4. CASE p > m + 1
    <3>1. PICK r \in 1..n - 1 : r = p - 1 /\ ~(r <= m) /\ r + 1 = p
      <4>1. p - 1 \in 1..n - 1 /\ ~(p - 1 <= m) /\ (p - 1) + 1 = p
        BY <1>2, <2>4
      <4> QED
        BY <4>1
    <3>2. q = p + 1 /\ q - 1 = p /\ q # 1 /\ p # 1
      BY <1>2, <2>1, <2>4
    <3>3. t[r] = s[p] /\ t[p] = s[q]
      BY <1>4, <2>1, <3>1, Zenon
    <3>4. NumberBefore(t, p, got) = NumberBefore(s, q, got)
      BY <3>1, <3>2, <3>3, Zenon DEF NumberBefore
    <3>5. Number(s[q]) = NumberBefore(s, q, got) + 1 /\ NumberBefore(s, q, got) \in Int
      BY <1>7, <1>8, <1>9, <2>1, Zenon
    <3>6. Number(t[p]) = NumberBefore(t, p, got) + 1 /\ NumberBefore(t, p, got) \in Int
      BY <3>3, <3>4, <3>5, Zenon
    <3>7. Number(t[p]) - NumberBefore(t, p, got) \in 1..1 + 1
      BY <3>6, SMT
    <3> QED
      BY <2>2, <3>7
  <2>5. CASE p = m + 1
    <3>1. q = p + 1 /\ q - 1 = p /\ q # 1 /\ p \in 1..n /\ q \in p..n
      BY <1>2, <2>1, <2>5
    <3>2. NumberBefore(t, p, got) = NumberBefore(s, p, got)
      <4>1. p = 1 \/ (p - 1 \in 1..n - 1 /\ p - 1 <= m)
        BY <1>2, <2>5
      <4>2. p = 1 \/ t[p - 1] = s[p - 1]
        BY <1>4, <4>1, Zenon
      <4> QED
        BY <4>2, Zenon DEF NumberBefore
    <3>3. Number(s[q]) = NumberBefore(s, q, got) + 1
      BY <1>8, <1>9, <2>1, Zenon
    <3>4. CASE s[p].frame.from = "client"
      <4>1. NumberBefore(s, q, got) = 2 * got
        BY <3>1, <3>4, Zenon DEF NumberBefore
      <4>2. NumberBefore(s, p, got) = 2 * got
        <5>1. ASSUME p # 1, s[p - 1].frame.from # "client" PROVE FALSE
          <6>1. p - 1 \in 1..n /\ p \in p - 1..n
            BY <1>2, <2>5, <5>1
          <6> QED
            BY <1>5, <3>4, <5>1, <6>1, Zenon
        <5> QED
          BY <5>1, Zenon DEF NumberBefore
      <4>3. Number(t[p]) = 2 * got + 1 /\ NumberBefore(t, p, got) = 2 * got
        BY <2>1, <3>2, <3>3, <4>1, <4>2, Zenon
      <4>4. Number(t[p]) - NumberBefore(t, p, got) \in 1..1 + 1
        BY <4>3, SMT
      <4> QED
        BY <2>2, <4>4
    <3>5. CASE s[p].frame.from # "client"
      <4>1. NumberBefore(s, q, got) = Number(s[p])
        BY <3>1, <3>5, Zenon DEF NumberBefore
      <4>2. Number(s[p]) = NumberBefore(s, p, got) + 1
            /\ NumberBefore(s, p, got) \in Int
        BY <1>7, <1>8, <3>1, <3>5, Zenon
      <4>3. PICK b \in Int : b = NumberBefore(s, p, got)
        BY <4>2
      <4>4. Number(t[p]) = (b + 1) + 1 /\ NumberBefore(t, p, got) = b
        BY <2>1, <3>2, <3>3, <4>1, <4>2, <4>3, Zenon
      <4>5. Number(t[p]) - NumberBefore(t, p, got) \in 1..1 + 1
        BY <4>4, SMT
      <4> QED
        BY <2>2, <4>5
    <3> QED
      BY <3>4, <3>5
  <2>6. p <= m \/ p > m + 1 \/ p = m + 1
    BY <1>2
  <2> QED
    BY <2>3, <2>4, <2>5, <2>6
<1>10. NearlyWhole(t, got)'
  <2>1. \A p \in 1..Len(t) : t[p].frame.from # "client" =>
          /\ \A r \in p..Len(t) : t[r].frame.from # "client"
          /\ Number(t[p]) - NumberBefore(t, p, got) \in 1..losses' + 1
    BY <1>2, <1>9, Zenon
  <2> QED
    BY <2>1, Zenon DEF NearlyWhole, Number, NumberBefore
<1> QED
  BY <1>1, <1>10

\* Without bytes there are no parts, and echoes are none either.
LEMMA EchoesAreParts ==
  /\ EchoIn(<<>>) /\ PartsIn(<<>>) /\ Within(<<>>, <<>>)
  /\ \A got : NearlyWhole(<<>>, got)
  /\ \A s : EchoIn(s) => PartsIn(s) /\ \A got : NearlyWhole(s, got)
  /\ \A s \in Seq(Half) : EchoIn(s) => s \in Seq(Others)
<1>1. \A p \in 1..Len(<<>>) : FALSE
  BY EmptySeq, SMT
<1>2. EchoIn(<<>>) /\ Within(<<>>, <<>>)
  BY <1>1, Zenon DEF EchoIn, Within
<1>3. \A s : EchoIn(s) => PartsIn(s) /\ \A got : NearlyWhole(s, got)
  BY Zenon DEF EchoIn, PartsIn, NearlyWhole
<1>4. ASSUME NEW s \in Seq(Half), EchoIn(s) PROVE s \in Seq(Others)
  <2>1. s \in [1..Len(s) -> Half] /\ Len(s) \in Nat
    BY LenProperties
  <2>2. \A p \in 1..Len(s) : s[p] \in Others
    BY <1>4, ElementOfSeq DEF EchoIn, Others
  <2>3. s \in [1..Len(s) -> Others]
    BY <2>1, <2>2
  <2> QED
    BY <2>1, <2>3, IsSequence, Zenon
<1> QED
  BY <1>2, <1>3, <1>4, Zenon

\* Wherever the frame is, the stream is of echoes and parts.
LEMMA OneThingParts ==
  \A f, before, after : OneThing(f, before, after) => PartsIn(Stream)
BY EchoesAreParts, Zenon DEF OneThing, ToBeSent, OnItsWay, Answered

\* What PartsIn and Repetition say depends on the exchange and the meter only.
LEMMA SamePlace ==
  ASSUME exchange' = exchange, meter' = meter
  PROVE  /\ \A s : PartsIn(s) => PartsIn(s)'
         /\ \A s : EchoIn(s) => EchoIn(s)'
         /\ \A f : Repetition(f) => Repetition(f)'
<1>1. \A h : Part(h) => Part(h)'
  <2>1. Sent(meter)' = Sent(meter)
    BY Zenon DEF Sent
  <2> QED
    BY <2>1, Zenon DEF Part, UaFrame, Reply, Connected
<1>2. \A s : PartsIn(s) => PartsIn(s)'
  BY <1>1, Zenon DEF PartsIn
<1>3. \A f : Repetition(f) => Repetition(f)'
  BY Zenon DEF Repetition, Requested, Current
<1>4. \A s : EchoIn(s) => EchoIn(s)'
  BY Zenon DEF EchoIn
<1> QED
  BY <1>2, <1>3, <1>4, Zenon

\* A step that only moves bytes leaves the one thing where it is.
LEMMA OneThingMoves ==
  ASSUME TypeInv, TypeInv', Moving, InTheLoop, InProcess,
         NEW f, NEW before \in Int, NEW after \in Int, OneThing(f, before, after)
  PROVE  OneThing(f, before, after)'
<1>1. /\ UNCHANGED <<caller, dataToSend, toMeter, meter>>
      /\ dataToSend # <<>> /\ pc = "send" => pc' = "send"
      /\ Load' <= Load
  BY Moves, Zenon
<1>2. PICK s \in Seq(Half), t \in Seq(Half) :
        s = Stream /\ t = Stream' /\ Within(t, s)
  BY MovesWithin
<1>3. /\ EchoIn(s) => EchoIn(t)
      /\ PartsIn(s) => PartsIn(t)
      /\ s = <<>> => t = <<>>
  BY <1>2, WithinKeeps, Zenon
<1>4. PartsIn(t) => PartsIn(t)'
  BY <1>1, SamePlace, Zenon DEF caller
<1>5. Load \in Int /\ Load' \in Int
  <2>1. Len(mData') \in Nat /\ Len(toClient') \in Nat /\ written' \in Nat
    BY LenProperties DEF TypeInv, Streams, Counters
  <2>2. written \in Nat
    BY DEF TypeInv, Counters
  <2> QED
    BY <2>1, <2>2, StreamType, SMT DEF Load
<1>6. HalvesPerFrame \in Int
  BY DEF HalvesPerFrame
<1>7. CASE ToBeSent(f) /\ Load <= before
  <2>1. Load' <= before
    BY <1>1, <1>5, <1>7, SMT
  <2>2. <<f>> # <<>>
    BY Singleton, EmptySeq
  <2>3. pc' = "send" /\ dataToSend' = <<f>> /\ toMeter' = <<>> /\ Stream' = <<>>
    BY <1>1, <1>2, <1>3, <1>7, <2>2, Zenon DEF ToBeSent
  <2> QED
    BY <2>1, <2>3, Zenon DEF OneThing, ToBeSent
<1>8. CASE OnItsWay(f) /\ Load <= before + (HalvesPerFrame - 2)
  <2>1. Load' <= before + (HalvesPerFrame - 2)
    BY <1>1, <1>5, <1>6, <1>8, SMT
  <2>2. dataToSend' = <<>> /\ toMeter' = <<f>> /\ EchoIn(t)
    BY <1>1, <1>2, <1>3, <1>8, Zenon DEF OnItsWay
  <2>3. OnItsWay(f)'
    BY <1>2, <2>2, Zenon DEF OnItsWay, EchoIn
  <2> QED
    BY <2>1, <2>3, Zenon DEF OneThing, HalvesPerFrame
<1>9. CASE Answered /\ Load <= after
  <2>1. Load' <= after
    BY <1>1, <1>5, <1>9, SMT
  <2>2. dataToSend' = <<>> /\ toMeter' = <<>> /\ PartsIn(t)'
    BY <1>1, <1>2, <1>3, <1>4, <1>9, Zenon DEF Answered
  <2>3. Answered'
    BY <1>2, <2>2, Zenon DEF Answered, PartsIn
  <2> QED
    BY <2>1, <2>3, Zenon DEF OneThing
<1> QED
  BY <1>7, <1>8, <1>9, Zenon DEF OneThing

\* ... and with one loss at most the stream stays nearly whole.
LEMMA WholeMoves ==
  ASSUME TypeInv, TypeInv', Moving, InTheLoop, MaxLosses <= 1,
         PartsIn(Stream), NEW got \in Int, NearlyWhole(Stream, got)
  PROVE  NearlyWhole(Stream, got)'
<1>1. \/ Stream' = Stream /\ losses' = losses
      \/ losses' = losses /\ \E a \in Seq(Others) : Stream = a \o Stream'
      \/ /\ losses' = losses + 1 /\ losses < MaxLosses
         /\ \E u, c \in Seq(Half) :
              c # <<>> /\ Stream = u \o c /\ Stream' = u \o Tail(c)
  BY Moves, Zenon
<1>2. PICK s \in Seq(Half), t \in Seq(Half) : s = Stream /\ t = Stream'
  BY MovesWithin
<1>3. PartsIn(s) /\ NearlyWhole(s, got)
  BY <1>2, Zenon
<1>4. ASSUME losses' = losses, NearlyWhole(t, got)
      PROVE  NearlyWhole(t, got)'
  BY <1>4, Zenon DEF NearlyWhole, Number, NumberBefore
<1>5. CASE Stream' = Stream /\ losses' = losses
  <2>1. NearlyWhole(t, got)'
    BY <1>2, <1>3, <1>4, <1>5, Zenon
  <2> QED
    BY <1>2, <2>1, Zenon DEF NearlyWhole, Number, NumberBefore
<1>6. CASE losses' = losses /\ \E a \in Seq(Others) : Stream = a \o Stream'
  <2>1. PICK a \in Seq(Others) : s = a \o t
    BY <1>2, <1>6, Zenon
  <2>2. a \in Seq(Half) /\ \A p \in 1..Len(a) : a[p].frame.from = "client"
    BY <1>3, <2>1, OthersAreEchoes, Zenon
  <2>3. NearlyWhole(t, got)
    BY <1>3, <2>1, <2>2, WholeSuffix, Zenon
  <2>4. NearlyWhole(t, got)'
    BY <1>4, <1>6, <2>3, Zenon
  <2> QED
    BY <1>2, <2>4, Zenon DEF NearlyWhole, Number, NumberBefore
<1>7. CASE /\ losses' = losses + 1 /\ losses < MaxLosses
           /\ \E u, c \in Seq(Half) :
                c # <<>> /\ Stream = u \o c /\ Stream' = u \o Tail(c)
  <2>1. losses = 0 /\ losses' = 1
    <3>1. losses \in 0..MaxLosses
      BY DEF TypeInv, Counters
    <3> QED
      BY <1>7, <3>1, SizeAssumption, SMT
  <2>2. PICK u \in Seq(Half), c \in Seq(Half) :
          c # <<>> /\ s = u \o c /\ t = u \o Tail(c)
    BY <1>2, <1>7, Zenon
  <2>3. NearlyWhole(u \o Tail(c), got)'
    BY <1>3, <2>1, <2>2, WholeLess, Zenon
  <2> QED
    BY <1>2, <2>2, <2>3, Zenon DEF NearlyWhole, Number, NumberBefore
<1> QED
  BY <1>1, <1>5, <1>6, <1>7

\* Repeated requests stay what they are, too.
LEMMA RepetitionsMove ==
  ASSUME TypeInv, TypeInv', Moving, InTheLoop, Repetitions
  PROVE  Repetitions'
<1>1. UNCHANGED <<caller, toMeter, meter>>
  BY Moves, Zenon
<1>2. PICK s \in Seq(Half), t \in Seq(Half) :
        s = Stream /\ t = Stream' /\ Within(t, s)
  BY MovesWithin
<1>3. t \in Seq(Others)
  BY <1>2, WithinKeeps, Zenon DEF Repetitions
<1>4. \A i \in 1..Len(toMeter) : Repetition(toMeter[i])'
  BY <1>1, SamePlace, Zenon DEF Repetitions, caller
<1> QED
  BY <1>1, <1>2, <1>3, <1>4, Zenon DEF Repetitions, Repetition, Requested, Current

-----------------------------------------------------------------------------
(* What the client sends                                                   *)

\* What the client sends is put behind what is on its way, and its echo behind
\* the stream.
LEMMA Transmitted ==
  ASSUME Recoverable, TypeInv, TypeInv', Transmit, dataToSend \in Seq(Clients)
  PROVE  /\ pc = "send" /\ pc' = "wait" /\ InProcess /\ InProcess'
         /\ UNCHANGED <<caller, send, retries, loop, retCode, rcv, written, meter>>
         /\ dataToSend # <<>> /\ dataSent' = dataToSend /\ dataToSend' = <<>>
         /\ toMeter' = toMeter \o dataToSend
         /\ hdlc' = IF hdlc.type = "I" THEN [hdlc EXCEPT !.sss = NextSeq(@)] ELSE hdlc
         /\ \E b \in Seq(Half) :
              /\ Stream' = Stream \o b /\ EchoIn(b)
              /\ Load' = Load + Len(b)
              /\ Echo => Len(b) = 2 * Len(dataToSend)
              /\ ~Echo => Len(b) = 0
<1>1. /\ pc = "send" /\ pc' = "wait" /\ dataToSend # <<>>
      /\ dataSent' = dataToSend /\ dataToSend' = <<>>
      /\ UNCHANGED <<caller, send, retries, loop, retCode, rcv, unread, written,
                     meter, losses, mData>>
      /\ hdlc' = IF hdlc.type = "I" THEN [hdlc EXCEPT !.sss = NextSeq(@)] ELSE hdlc
  BY Zenon DEF Transmit, Mail!Call, Numbered
<1>2. /\ toMeter' = toMeter \o dataToSend
      /\ toClient' = IF Echo THEN toClient \o Bytes(dataToSend) ELSE toClient
  <2>1. PICK result \in SendResults \ {"nothing"} :
          /\ toMeter' = IF result = "written" THEN toMeter \o dataToSend ELSE toMeter
          /\ toClient' = IF result = "written" /\ Echo
                           THEN toClient \o Bytes(dataToSend) ELSE toClient
    BY Zenon DEF Transmit
  <2>2. result = "written"
    BY Zenon DEF Recoverable
  <2> QED
    BY <2>1, <2>2, Zenon
<1>3. InProcess /\ InProcess'
  BY <1>1 DEF InProcess
<1>4. PICK e \in Seq(Half) : e = Bytes(dataToSend) /\ Len(e) = 2 * Len(dataToSend)
                             /\ EchoIn(e)
  <2>1. \A x \in Clients : \A k \in {1, 2} :
          [frame |-> x, half |-> k] \in {h \in Half : h.frame.from = "client"}
    BY DEF Clients, Half
  <2>2. /\ Bytes(dataToSend) \in Seq({h \in Half : h.frame.from = "client"})
        /\ Len(Bytes(dataToSend)) = 2 * Len(dataToSend)
    BY <2>1, BytesIn, Zenon
  <2>3. EchoIn(Bytes(dataToSend))
    BY <2>2, ElementOfSeq DEF EchoIn
  <2>4. Bytes(dataToSend) \in Seq(Half)
    BY BytesType DEF TypeInv, Streams
  <2> QED
    BY <2>2, <2>3, <2>4
<1>5. PICK b \in Seq(Half) :
        /\ toClient' = toClient \o b /\ EchoIn(b)
        /\ Echo => Len(b) = 2 * Len(dataToSend)
        /\ ~Echo => Len(b) = 0
  <2>1. CASE Echo
    BY <1>2, <1>4, <2>1, Zenon
  <2>2. CASE ~Echo
    <3>1. toClient' = toClient \o <<>> /\ <<>> \in Seq(Half) /\ Len(<<>>) = 0
      BY <1>2, <2>2, StreamType, ConcatEmptySeq, EmptySeq, Zenon
    <3> QED
      BY <2>2, <3>1, EchoesAreParts, Zenon
  <2> QED
    BY <2>1, <2>2
<1>6. Stream' = Stream \o b
  <2>1. Stream' = unread \o (mData \o (toClient \o b))
        /\ Stream = unread \o (mData \o toClient)
    BY <1>1, <1>3, <1>5, Zenon DEF Stream
  <2>2. /\ unread \in Seq(Half) /\ mData \in Seq(Half) /\ toClient \in Seq(Half)
        /\ mData \o toClient \in Seq(Half)
    BY StreamType
  <2>3. mData \o (toClient \o b) = (mData \o toClient) \o b
    BY <2>2, Associative, Zenon
  <2>4. unread \o ((mData \o toClient) \o b) = (unread \o (mData \o toClient)) \o b
    BY <2>2, Associative, Zenon
  <2> QED
    BY <2>1, <2>3, <2>4, Zenon
<1>7. Load' = Load + Len(b)
  <2>1. Len(toClient') = Len(toClient) + Len(b) /\ Len(b) \in Nat
    BY <1>5, StreamType, Concatenated, Zenon
  <2>2. mData' = mData /\ written' = written /\ written \in Nat
    BY <1>1 DEF TypeInv, Counters
  <2> QED
    BY <2>1, <2>2, StreamType, SMT DEF Load
<1> QED
  BY <1>1, <1>2, <1>3, <1>5, <1>6, <1>7, Zenon

\* The frame that was to be sent is on its way.
LEMMA OneThingSent ==
  ASSUME Recoverable, TypeInv, TypeInv', Transmit, NEW f \in Clients,
         NEW before \in Int, NEW after \in Int, OneThing(f, before, after)
  PROVE  /\ OneThing(f, before, after)' /\ toMeter' = <<f>> /\ dataToSend' = <<>>
         /\ dataToSend = <<f>> /\ dataSent' \in Seq(Clients)
         /\ EchoIn(Stream)'
<1>1. ToBeSent(f) /\ Load <= before
  <2>1. dataToSend # <<>>
    BY DEF Transmit
  <2> QED
    BY <2>1 DEF OneThing, OnItsWay, Answered
<1>2. dataToSend = <<f>> /\ toMeter = <<>> /\ Stream = <<>>
  BY <1>1 DEF ToBeSent
<1>3. <<f>> \in Seq(Clients) /\ Len(<<f>>) = 1
  BY Singleton, Zenon
<1>4. PICK b \in Seq(Half) :
        /\ Stream' = Stream \o b /\ EchoIn(b) /\ Load' = Load + Len(b)
        /\ Echo => Len(b) = 2 * Len(dataToSend)
        /\ ~Echo => Len(b) = 0
  BY <1>2, <1>3, Transmitted, Zenon
<1>5. /\ toMeter' = toMeter \o dataToSend /\ dataToSend' = <<>>
      /\ dataSent' = dataToSend
  BY <1>2, <1>3, Transmitted, Zenon
<1>6. toMeter' = <<f>>
  BY <1>2, <1>3, <1>5, ConcatEmptySeq, Zenon
<1>7. Stream' = b
  BY <1>2, <1>4, ConcatEmptySeq, Zenon
<1>8. EchoIn(Stream)'
  BY <1>4, <1>7, Zenon DEF EchoIn
<1>9. Load' <= before + (HalvesPerFrame - 2)
  <2>1. Len(b) = HalvesPerFrame - 2
    <3>1. (Echo => Len(b) = 2 * 1) /\ (~Echo => Len(b) = 0)
      BY <1>2, <1>3, <1>4, Zenon
    <3>2. CASE Echo
      <4>1. HalvesPerFrame = 4
        BY <3>2, Zenon DEF HalvesPerFrame
      <4> QED
        BY <3>1, <3>2, <4>1
    <3>3. CASE ~Echo
      <4>1. HalvesPerFrame = 2
        BY <3>3, Zenon DEF HalvesPerFrame
      <4> QED
        BY <3>1, <3>3, <4>1
    <3> QED
      BY <3>2, <3>3
  <2>2. Load \in Int
    BY StreamType, SMT DEF Load, TypeInv, Counters
  <2>3. HalvesPerFrame \in Int
    BY DEF HalvesPerFrame
  <2> QED
    BY <1>1, <1>4, <2>1, <2>2, <2>3, SMT
<1>10. OnItsWay(f)'
  BY <1>5, <1>6, <1>8, Zenon DEF OnItsWay
<1> QED
  BY <1>2, <1>3, <1>5, <1>6, <1>8, <1>9, <1>10, Zenon DEF OneThing, HalvesPerFrame

\* A request that is repeated is one more, with an echo.
LEMMA RepetitionsSent ==
  ASSUME Recoverable, TypeInv, TypeInv', Transmit, Repetitions, NEW f \in Clients,
         dataToSend = <<f>>, Repetition(f)
  PROVE  Repetitions' /\ dataSent' \in Seq(Clients) /\ dataToSend' = <<>>
<1>1. <<f>> \in Seq(Clients) /\ Len(<<f>>) = 1 /\ <<f>>[1] = f /\ <<f>> \in Seq(Frame)
  <2>1. f \in Frame
    BY DEF Clients
  <2> QED
    BY <2>1, Singleton, Zenon
<1>2. PICK b \in Seq(Half) : Stream' = Stream \o b /\ EchoIn(b)
  BY <1>1, Transmitted, Zenon
<1>3. /\ toMeter' = toMeter \o <<f>> /\ dataToSend' = <<>> /\ dataSent' = <<f>>
      /\ UNCHANGED <<caller, meter>>
  BY <1>1, Transmitted, Zenon
<1>4. Stream' \in Seq(Others)
  <2>1. PICK s \in Seq(Half) : s = Stream
    BY StreamType
  <2>2. s \in Seq(Others) /\ b \in Seq(Others)
    BY <1>2, <2>1, EchoesAreParts, Zenon DEF Repetitions
  <2> QED
    BY <1>2, <2>1, <2>2, OthersConcat, Zenon
<1>5. \A i \in 1..Len(toMeter') : Repetition(toMeter'[i])
  <2>1. PICK n \in Nat : n = Len(toMeter)
    BY LenProperties DEF TypeInv, Streams
  <2>2. /\ Len(toMeter') = n + 1
        /\ \A i \in 1..n + 1 :
             toMeter'[i] = IF i <= n THEN toMeter[i] ELSE <<f>>[i - n]
    <3>1. toMeter \in Seq(Frame)
      BY DEF TypeInv, Streams
    <3>2. /\ Len(toMeter \o <<f>>) = Len(toMeter) + Len(<<f>>)
          /\ \A i \in 1..Len(toMeter) + Len(<<f>>) :
               (toMeter \o <<f>>)[i]
                 = IF i <= Len(toMeter) THEN toMeter[i] ELSE <<f>>[i - Len(toMeter)]
      BY <1>1, <3>1, ConcatProperties
    <3> QED
      BY <1>1, <1>3, <2>1, <3>2, Zenon
  <2>3. \A i \in 1..n + 1 : IF i <= n THEN i \in 1..n ELSE i - n = 1
    BY SMT
  <2> QED
    BY <1>1, <2>1, <2>2, <2>3, Zenon DEF Repetitions
<1>6. ASSUME NEW i \in 1..Len(toMeter')
      PROVE  LET g == toMeter'[i]
             IN  /\ g.type = "I" /\ g.info[1] = exchange' /\ g.from = "client"
                 /\ NextSeq(g.sss) = meter'.vr
  <2>1. Repetition(toMeter'[i])
    BY <1>5
  <2> QED
    BY <1>3, <2>1, Zenon DEF caller, Repetition, Requested, Current
<1>7. Repetitions'
  BY <1>4, <1>6, Zenon DEF Repetitions, Repetition, Requested, Current
<1> QED
  BY <1>1, <1>3, <1>7, Zenon

\* Of an echo of one frame there are two halves.
LEMMA HalvesType == HalvesPerFrame \in {2, 4} /\ HalvesPerFrame \in Int
<1>1. HalvesPerFrame = 2 \/ HalvesPerFrame = 4
  BY Zenon DEF HalvesPerFrame
<1> QED
  BY <1>1

\* What OneThing says of a frame, it says of the first one of send ...
LEMMA OneThingOfSend ==
  ASSUME NEW f, NEW before, NEW after, OneThing(f, before, after)', f = send'[1]
  PROVE  OneThing(send[1], before, after)'
BY Zenon DEF OneThing, ToBeSent, OnItsWay

\* ... and of an RR.
LEMMA OneThingOfAsk ==
  ASSUME NEW f, NEW got, NEW before, NEW after, OneThing(f, before, after)',
         f = ReceiveReady(hdlc.rrr)', before = HalvesPerFrame * got,
         after = HalvesPerFrame * Sent(meter')
  PROVE  OneThing(ReceiveReady(hdlc.rrr), HalvesPerFrame * got,
                  HalvesPerFrame * Sent(meter))'
BY Zenon DEF OneThing, ToBeSent, OnItsWay, ReceiveReady, HalvesPerFrame, Sent

\* While HdlcProcess runs it waits.
LEMMA SteadyWaits ==
  ASSUME TypeInv, Steady
  PROVE  InProcess => Waiting
<1> SUFFICES ASSUME InProcess PROVE Waiting
  OBVIOUS
<1>1. exchange \in Nat /\ pc # "failed" /\ pc # "idle"
  BY SizeAssumption, SMT DEF TypeInv, Counters, InProcess
<1>2. CASE exchange = 0
  BY <1>1, <1>2, Zenon DEF Steady, Greets
<1>3. CASE exchange > 0
  BY <1>1, <1>3, Zenon DEF Steady, Pacing, Seen, Unseen
<1> QED
  BY <1>1, <1>2, <1>3, SMT

\* The two counters never pass the configured retries.
LEMMA RetriedStep ==
  ASSUME TypeInv, Retried, [Next]_vars
  PROVE  Retried'
<1>1. RetriesAtEntry <= Retries /\ 0 <= Retries
  BY CounterAssumption, SMT DEF RetriesAtEntry
<1>2. attempts' <= Retries
  <2>1. \/ attempts' = attempts \/ attempts' = 0
        \/ attempts' = Count(attempts) /\ Count(attempts) <= Retries
    BY Zenon DEF Next, Main, StartExchange, NextExchange, RetryExchange, GiveUp,
         Transmit, TransmitNothing, NothingToTransmit, Notified, Expires, Receive,
         ReceiveOverflows, DecodeNothing, DecodeReceiveReady, DecodeFrame,
         TimeoutFails, TimeoutResyncs, Arrive, Announce, MeterReceives,
         LoseRequest, LoseAnswer, Finished, CallerRetries, caller, vars
  <2> QED
    BY <1>1, <2>1, Zenon DEF Retried
<1>3. ASSUME InProcess' PROVE retries' <= Retries
  <2>1. \/ retries' = retries /\ InProcess
        \/ retries' = RetriesAtEntry
        \/ retries' = Count(retries) /\ Count(retries) <= Retries
    <3>1. CASE StartExchange \/ RetryExchange
      BY <3>1, Zenon DEF StartExchange, RetryExchange, EnterHdlcProcess
    <3>2. CASE TimeoutResyncs
      BY <3>2, Zenon DEF TimeoutResyncs
    <3>3. CASE TimeoutFails \/ NextExchange \/ GiveUp \/ ReceiveOverflows
      BY <1>3, <3>3 DEF TimeoutFails, NextExchange, GiveUp, ReceiveOverflows,
         InProcess
    <3>4. CASE \/ Transmit \/ TransmitNothing \/ NothingToTransmit \/ Receive
               \/ DecodeNothing \/ DecodeReceiveReady \/ DecodeFrame
      <4>1. retries' = retries /\ pc \in {"send", "wait", "decode"}
        BY <3>4 DEF Transmit, TransmitNothing, NothingToTransmit, Receive,
           DecodeNothing, DecodeReceiveReady, DecodeFrame, process
      <4> QED
        BY <4>1 DEF InProcess
    <3>5. CASE \/ Notified \/ Expires \/ Announce \/ Arrive \/ LoseRequest
               \/ LoseAnswer \/ MeterReceives \/ Finished \/ UNCHANGED vars
      <4>1. retries' = retries /\ pc' = pc
        BY <3>5, Zenon DEF Notified, Expires, Announce, Arrive, LoseRequest,
           LoseAnswer, MeterReceives, Finished, process, vars
      <4> QED
        BY <1>3, <4>1 DEF InProcess
    <3> QED
      BY <3>1, <3>2, <3>3, <3>4, <3>5, Zenon DEF Next, Main
  <2> QED
    BY <1>1, <2>1, Zenon DEF Retried
<1> QED
  BY <1>2, <1>3, Zenon DEF Retried

\* A step that only moves bytes keeps what Greets says ...
LEMMA GreetsMoves ==
  ASSUME TypeInv, TypeInv', Steady, Moving, exchange = 0, pc' # "failed"
  PROVE  Greets'
<1>1. InTheLoop
  BY SteadyWaits, Zenon DEF InTheLoop, Waiting
<1>2. /\ UNCHANGED <<caller, send, dataToSend, dataSent, retries, loop, retCode,
                     rcv, hdlc, toMeter, meter>>
      /\ InProcess' = InProcess /\ (~InProcess => pc' = pc)
      /\ (Silent => Silent')
  BY <1>1, Moves, Zenon
<1>3. pc # "failed"
  BY <1>2 DEF InProcess
<1>4. /\ meter = Connected /\ hdlc = [type |-> "SNRM", sss |-> 0, rrr |-> 0]
      /\ pc \in {"idle", "end"} => Silent
      /\ pc = "end" /\ retCode => rcv = <<<<0, 1>>>>
      /\ InProcess =>
           /\ Waiting /\ rcv = <<>> /\ retries = Retries /\ send[1] \in Snrms
           /\ OneThing(send[1], 0, HalvesPerFrame)
  BY <1>3, Zenon DEF Steady, Greets
<1>5. CASE InProcess
  <2>1. PICK f : f = send[1]
    OBVIOUS
  <2>2. OneThing(f, 0, HalvesPerFrame)'
    BY <1>1, <1>4, <1>5, <2>1, HalvesType, OneThingMoves
  <2>3. f = send'[1] /\ f \in Snrms
    BY <1>2, <1>4, <1>5, <2>1, Zenon
  <2>4. OneThing(send[1], 0, HalvesPerFrame)'
    BY <2>2, <2>3, OneThingOfSend, Zenon
  <2>5. /\ Waiting' /\ rcv' = <<>> /\ retries' = Retries /\ send'[1] \in Snrms
        /\ meter' = Connected /\ hdlc' = [type |-> "SNRM", sss |-> 0, rrr |-> 0]
    BY <1>2, <1>4, <1>5, <2>1, <2>3, Zenon DEF Waiting
  <2>6. pc' \notin {"idle", "end"}
    BY <1>2, <1>5 DEF InProcess
  <2> QED
    BY <2>4, <2>5, <2>6, Zenon DEF Greets
<1>6. CASE ~InProcess
  BY <1>2, <1>4, <1>6, Zenon DEF Greets
<1> QED
  BY <1>5, <1>6

\* What the client has got is within the answer.
LEMMA GotType ==
  ASSUME TypeInv
  PROVE  /\ meter \in MeterType /\ meter.acked \in Nat /\ meter.base \in 0..LastSeq
         /\ meter.vr \in 0..LastSeq /\ Sent(meter) \in Nat
         /\ Sent(meter) <= Segments /\ meter.acked <= Sent(meter)
         /\ \A got \in meter.acked..Sent(meter) :
              /\ got \in Nat /\ got \in Int /\ got <= Segments
              /\ got \in 0..Segments /\ HalvesPerFrame * got \in Int
         /\ HalvesPerFrame * Sent(meter) \in Int
<1>1. meter \in MeterType /\ meter.base \in 0..LastSeq /\ meter.vr \in 0..LastSeq
  BY DEF TypeInv, Counters, MeterType
<1>2. /\ Sent(meter) \in meter.acked..Segments
      /\ Sent(meter) \in Nat /\ meter.acked \in Nat
  BY <1>1, BurstBytes
<1>3. PICK H \in Int : H = HalvesPerFrame
  BY HalvesType
<1>4. \A k \in Int : H * k \in Int
  BY SMT
<1>5. \A got \in meter.acked..Sent(meter) :
        /\ got \in Nat /\ got \in Int /\ got <= Segments /\ got \in 0..Segments
  BY <1>2, SizeAssumption, SMT
<1>6. Sent(meter) <= Segments /\ meter.acked <= Sent(meter) /\ Sent(meter) \in Int
  BY <1>2, SizeAssumption, SMT
<1> QED
  BY <1>1, <1>2, <1>3, <1>4, <1>5, <1>6, Zenon

\* ... what Unseen says ...
LEMMA UnseenMoves ==
  ASSUME TypeInv, TypeInv', Steady, Moving, Unseen, exchange > 0
  PROVE  Unseen'
<1>1. InTheLoop
  BY SteadyWaits, Zenon DEF InTheLoop, Waiting
<1>2. /\ UNCHANGED <<caller, send, dataToSend, dataSent, retries, loop, retCode,
                     rcv, hdlc, toMeter, meter>>
      /\ InProcess' = InProcess /\ (~InProcess => pc' = pc)
      /\ (Silent => Silent')
  BY <1>1, Moves, Zenon
<1>3. /\ meter.answering = exchange - 1 /\ hdlc.rrr = NextBase
      /\ pc # "end"
      /\ pc = "idle" => Silent /\ hdlc.sss = meter.vr
      /\ InProcess =>
           /\ Waiting /\ rcv = <<>> /\ retries = 0 /\ hdlc.type = "I"
           /\ Requested(send[1]) /\ send[1].sss = meter.vr
           /\ OneThing(send[1], 0, 0) /\ (dataToSend # <<>> \/ toMeter # <<>>)
           /\ hdlc.sss = IF dataToSend # <<>> THEN meter.vr ELSE NextSeq(meter.vr)
  BY Zenon DEF Unseen
<1>4. /\ meter'.answering = exchange' - 1 /\ hdlc'.rrr = NextBase'
      /\ exchange' = exchange /\ meter' = meter
  BY <1>2, <1>3, Zenon DEF caller, NextBase
<1>5. CASE InProcess
  <2>1. PICK f : f = send[1]
    OBVIOUS
  <2>2. OneThing(f, 0, 0)'
    BY <1>1, <1>3, <1>5, <2>1, OneThingMoves
  <2>3. f = send'[1] /\ f.sss = meter'.vr
    BY <1>2, <1>3, <1>5, <2>1, Zenon
  <2>4. OneThing(send[1], 0, 0)'
    BY <2>2, <2>3, OneThingOfSend, Zenon
  <2>5. Requested(send[1])'
    BY <1>2, <1>3, <1>4, <1>5, Zenon DEF Requested, Current
  <2>6. /\ Waiting' /\ rcv' = <<>> /\ retries' = 0 /\ hdlc'.type = "I"
        /\ send'[1].sss = meter'.vr /\ (dataToSend' # <<>> \/ toMeter' # <<>>)
        /\ dataToSend' = dataToSend /\ hdlc' = hdlc
    BY <1>2, <1>3, <1>5, <2>1, <2>3, Zenon DEF Waiting
  <2>7. hdlc'.sss = IF dataToSend' # <<>> THEN meter'.vr ELSE NextSeq(meter'.vr)
    BY <1>2, <1>3, <1>5
  <2>8. pc' \notin {"idle", "end"}
    BY <1>2, <1>5 DEF InProcess
  <2> QED
    BY <1>4, <2>4, <2>5, <2>6, <2>7, <2>8, Zenon DEF Unseen
<1>6. CASE ~InProcess
  <2>1. pc' = pc /\ hdlc' = hdlc /\ ~InProcess'
    BY <1>2, <1>6, Zenon
  <2> QED
    BY <1>2, <1>3, <1>4, <2>1, Zenon DEF Unseen
<1> QED
  BY <1>5, <1>6

\* ... and what Seen says.
LEMMA SeenMoves ==
  ASSUME TypeInv, TypeInv', Steady, Moving, NEW got, Seen(got), exchange > 0
  PROVE  Seen(got)'
<1>1. InTheLoop
  BY SteadyWaits, Zenon DEF InTheLoop, Waiting
<1>2. /\ UNCHANGED <<caller, send, dataToSend, dataSent, retries, loop, retCode,
                     rcv, hdlc, toMeter, meter>>
      /\ InProcess' = InProcess /\ (~InProcess => pc' = pc)
      /\ (Silent => Silent')
  BY <1>1, Moves, Zenon
<1>3. /\ pc # "idle" /\ Repetition(send[1]) /\ hdlc.sss = meter.vr
      /\ got \in meter.acked..Sent(meter) /\ hdlc.rrr = SeqAfter(meter.base, got)
      /\ retCode <=> got = Segments
      /\ \A i \in 1..Len(rcv) : rcv[i][1] = exchange
      /\ MaxLosses <= 1 => LastOf(rcv, got)
      /\ pc = "end" =>
           IF retCode THEN Silent
                      ELSE Repetitions /\ (hdlc.type = "RR" \/ Retries = 0)
      /\ InProcess =>
           /\ Waiting /\ (hdlc.type = "RR" \/ (hdlc.type = "I" /\ retries = 0))
           /\ Resuming(got)
  BY Zenon DEF Seen
<1>4. /\ exchange' = exchange /\ meter' = meter /\ Sent(meter') = Sent(meter)
      /\ hdlc' = hdlc /\ rcv' = rcv /\ send' = send
  BY <1>2, Zenon DEF caller
<1>5. Repetition(send[1])'
  <2>1. PICK f : f = send[1]
    OBVIOUS
  <2>2. Repetition(f)'
    BY <1>3, <1>4, <2>1, SamePlace, Zenon
  <2> QED
    BY <1>4, <2>1, <2>2, Zenon DEF Repetition, Requested, Current
<1>6. /\ hdlc'.sss = meter'.vr
      /\ got \in meter'.acked..Sent(meter)'
      /\ hdlc'.rrr = SeqAfter(meter'.base, got)
      /\ retCode' <=> got = Segments
      /\ \A i \in 1..Len(rcv') : rcv'[i][1] = exchange'
  BY <1>2, <1>3, <1>4, Zenon DEF Sent
<1>7. MaxLosses <= 1 => LastOf(rcv, got)'
  BY <1>3, <1>4, Zenon DEF LastOf
<1>8. Repetitions => Repetitions'
  BY <1>1, RepetitionsMove, Zenon
<1>9. CASE ~InProcess
  <2>1. pc' = pc /\ ~InProcess'
    BY <1>2, <1>9, Zenon
  <2> QED
    BY <1>2, <1>3, <1>4, <1>5, <1>6, <1>7, <1>8, <2>1, Zenon DEF Seen
<1>10. CASE InProcess
  <2>1. pc' \notin {"idle", "end"}
    BY <1>2, <1>10 DEF InProcess
  <2>2. Waiting' /\ (hdlc'.type = "RR" \/ (hdlc'.type = "I" /\ retries' = 0))
    BY <1>2, <1>3, <1>10, Zenon DEF Waiting
  <2>3. PICK before \in Int, after \in Int :
          before = HalvesPerFrame * got /\ after = HalvesPerFrame * Sent(meter)
    BY <1>3, GotType, Zenon
  <2>4. Resuming(got)'
    <3>1. CASE /\ OneThing(ReceiveReady(hdlc.rrr), before, after)
               /\ dataToSend # <<>> => hdlc.type = "RR"
               /\ MaxLosses <= 1 => NearlyWhole(Stream, got)
      <4>1. PICK f : f = ReceiveReady(hdlc.rrr)
        OBVIOUS
      <4>2. OneThing(f, before, after)
        BY <3>1, <4>1, Zenon
      <4>3. OneThing(f, before, after)'
        BY <1>1, <1>10, <4>2, OneThingMoves, Zenon
      <4>4. f = ReceiveReady(hdlc.rrr)' /\ after = HalvesPerFrame * Sent(meter')
        BY <1>4, <2>3, <4>1, Zenon DEF ReceiveReady
      <4>5. OneThing(ReceiveReady(hdlc.rrr), HalvesPerFrame * got,
                     HalvesPerFrame * Sent(meter))'
        BY <2>3, <4>3, <4>4, OneThingOfAsk, Zenon
      <4>6. MaxLosses <= 1 => NearlyWhole(Stream, got)'
        <5>1. PartsIn(Stream)
          BY <4>2, OneThingParts, Zenon
        <5>2. got \in Int
          BY <1>3, GotType, Zenon
        <5> QED
          BY <1>1, <3>1, <5>1, <5>2, WholeMoves, Zenon
      <4> QED
        BY <1>2, <3>1, <4>5, <4>6, Zenon DEF Resuming
    <3>2. CASE dataToSend \in {<<>>, send} /\ hdlc.type = "RR" /\ Repetitions
      BY <1>2, <1>8, <3>2, Zenon DEF Resuming
    <3> QED
      BY <1>3, <1>10, <2>3, <3>1, <3>2, Zenon DEF Resuming
  <2> QED
    BY <1>2, <1>5, <1>6, <1>7, <2>1, <2>2, <2>4, Zenon DEF Seen
<1> QED
  BY <1>9, <1>10

\* All of it together.
LEMMA SteadyMoves ==
  ASSUME TypeInv, TypeInv', Steady, Moving
  PROVE  Greets' /\ Pacing'
<1>1. InTheLoop
  BY SteadyWaits, Zenon DEF InTheLoop, Waiting
<1>2. /\ exchange' = exchange /\ meter' = meter
      /\ InProcess' = InProcess /\ (~InProcess => pc' = pc)
  BY <1>1, Moves, Zenon DEF caller
<1>3. exchange > 0 => exchange # 0
  OBVIOUS
<1>4. pc' # "failed" => pc # "failed"
  BY <1>2 DEF InProcess
<1>5. Greets'
  BY <1>2, GreetsMoves, Zenon DEF Greets
<1>6. ASSUME exchange > 0, pc # "failed"
      PROVE  IF meter.answering = exchange
               THEN \E got \in 0..Segments : Seen(got)'
               ELSE Unseen'
  BY <1>6, SeenMoves, UnseenMoves, Zenon DEF Steady, Pacing
<1>7. Pacing'
  BY <1>2, <1>4, <1>6, Zenon DEF Pacing
<1> QED
  BY <1>5, <1>7

\* A count below its limit is one more.
LEMMA CountsOn == \A n \in Nat : n < LastCount => Count(n) = n + 1
<1> SUFFICES ASSUME NEW n \in Nat, n < LastCount PROVE Count(n) = n + 1
  OBVIOUS
<1>1. PICK d \in Nat \ {0} : d = LastCount + 1
  BY CounterAssumption, SMT
<1>2. n + 1 \in Int /\ n + 1 \in 0..d - 1 /\ n + 1 = d * 0 + (n + 1) /\ 0 \in Int
  BY <1>1, CounterAssumption, SMT
<1>3. (n + 1) % d = n + 1
  BY <1>1, <1>2, ModIs, Zenon
<1> QED
  BY <1>1, <1>3, Zenon DEF Count

\* HdlcProcess begins, with nothing under way: its frame is about to be sent.
LEMMA EntrySends ==
  ASSUME NEW f \in Frame, EnterHdlcProcess(f), UNCHANGED <<mailbox, line>>, Silent
  PROVE  /\ InProcess' /\ pc' = "send" /\ Waiting' /\ rcv' = <<>> /\ send' = <<f>>
         /\ f = send'[1] /\ dataToSend' = <<f>> /\ dataToSend' # <<>>
         /\ retries' = RetriesAtEntry
         /\ \A after : OneThing(f, 0, after)'
<1>1. /\ unread' = <<>> /\ written' = 0
      /\ send' = <<f>> /\ dataToSend' = <<f>> /\ dataSent' = <<>>
      /\ retries' = RetriesAtEntry
      /\ loop' = TRUE /\ retCode' = FALSE /\ rcv' = <<>> /\ pc' = "send"
  BY Zenon DEF EnterHdlcProcess
<1>2. toMeter' = <<>> /\ mData' = <<>> /\ toClient' = <<>>
  BY Zenon DEF Silent, mailbox, line
<1>3. <<>> \in Seq(Clients) /\ <<>> \in Seq(Half) /\ Len(<<>>) = 0 /\ <<>> \o <<>> = <<>>
  BY EmptySeq, ConcatEmptySeq, Zenon
<1>4. InProcess'
  BY <1>1 DEF InProcess
<1>5. Stream' = <<>>
  <2>1. Stream' = <<>> \o (<<>> \o <<>>)
    BY <1>1, <1>2, <1>4, Zenon DEF Stream
  <2> QED
    BY <1>3, <2>1, Zenon
<1>6. Load' <= 0
  <2>1. Load' = (0 + 0) + 0
    BY <1>1, <1>2, <1>3, Zenon DEF Load
  <2> QED
    BY <2>1, SMT
<1>7. ToBeSent(f)'
  BY <1>1, <1>2, <1>5, Zenon DEF ToBeSent
<1>8. \A after : OneThing(f, 0, after)'
  BY <1>6, <1>7, Zenon DEF OneThing
<1>9. f = <<f>>[1] /\ <<f>> # <<>>
  BY Singleton, EmptySeq
<1>10. Waiting'
  BY <1>1, <1>3, Zenon DEF Waiting
<1> QED
  BY <1>1, <1>4, <1>8, <1>9, <1>10, Zenon

\* The SNRM, for the first time or again.
LEMMA GreetsEntry ==
  ASSUME TypeInv, Steady, exchange = 0, StartExchange \/ RetryExchange
  PROVE  Greets' /\ Pacing'
<1>1. pc \in {"idle", "end"}
  BY Zenon DEF StartExchange, RetryExchange
<1>2. pc # "failed"
  BY <1>1
<1>3. /\ meter = Connected /\ hdlc = [type |-> "SNRM", sss |-> 0, rrr |-> 0] /\ Silent
  BY <1>1, <1>2, Zenon DEF Steady, Greets
<1>4. PICK f : f = Command("SNRM", 0)
  OBVIOUS
<1>5. f \in Snrms /\ f \in Frame
  BY <1>4, SnrmCommand DEF Snrms
<1>6. /\ EnterHdlcProcess(f) /\ UNCHANGED <<mailbox, line>> /\ exchange' = exchange
      /\ hdlc' = [hdlc EXCEPT !.type = "SNRM"]
  BY <1>4, Zenon DEF StartExchange, RetryExchange, caller
<1>7. hdlc' = hdlc /\ meter' = meter
  BY <1>3, <1>6 DEF line
<1>8. /\ InProcess' /\ pc' = "send" /\ Waiting' /\ rcv' = <<>>
      /\ f = send'[1] /\ retries' = RetriesAtEntry
      /\ OneThing(f, 0, HalvesPerFrame)'
  BY <1>3, <1>5, <1>6, EntrySends, Zenon
<1>9. OneThing(send[1], 0, HalvesPerFrame)'
  BY <1>8, OneThingOfSend, Zenon
<1>10. retries' = Retries
  BY <1>8, Zenon DEF RetriesAtEntry
<1>11. pc' # "idle" /\ pc' # "end" /\ ~(exchange' > 0)
  BY <1>6, <1>8
<1> QED
  BY <1>3, <1>5, <1>6, <1>7, <1>8, <1>9, <1>10, <1>11, Zenon DEF Greets, Pacing

\* A request of a later exchange.
LEMMA UnseenEntry ==
  ASSUME TypeInv, Steady, exchange > 0, StartExchange
  PROVE  Unseen' /\ meter'.answering # exchange' /\ exchange' = exchange
<1>1. pc = "idle" /\ exchange <= Exchanges
  BY Zenon DEF StartExchange
<1>2. exchange \in Nat /\ exchange # 0 /\ pc # "failed"
  BY <1>1, SizeAssumption, SMT DEF TypeInv, Counters
<1>3. Unseen /\ meter.answering # exchange
  <2>1. meter.answering # exchange
    BY <1>1, <1>2, Zenon DEF Steady, Pacing, Seen
  <2> QED
    BY <1>2, <2>1, Zenon DEF Steady, Pacing
<1>4. /\ meter.answering = exchange - 1 /\ hdlc.rrr = NextBase
      /\ Silent /\ hdlc.sss = meter.vr
  BY <1>1, <1>3, Zenon DEF Unseen
<1>5. PICK f : f = Command("I", exchange)
  OBVIOUS
<1>6. /\ f \in Frame /\ f.type = "I" /\ f.info[1] = exchange /\ f.from = "client"
      /\ f.sss = meter.vr
  <2>1. f \in Frame
    <3>1. exchange \in 0..Exchanges
      BY <1>1, <1>2, SizeAssumption, SMT
    <3> QED
      BY <1>5, <3>1, CommandType
  <2> QED
    BY <1>4, <1>5, <2>1 DEF Command
<1>7. /\ EnterHdlcProcess(f) /\ UNCHANGED <<mailbox, line>> /\ exchange' = exchange
      /\ hdlc' = [hdlc EXCEPT !.type = "I"]
  BY <1>2, <1>5, Zenon DEF StartExchange, caller
<1>8. hdlc'.type = "I" /\ hdlc'.sss = hdlc.sss /\ hdlc'.rrr = hdlc.rrr /\ meter' = meter
  BY <1>7 DEF line, TypeInv, Counters
<1>9. /\ InProcess' /\ pc' = "send" /\ Waiting' /\ rcv' = <<>>
      /\ f = send'[1] /\ retries' = RetriesAtEntry /\ dataToSend' # <<>>
      /\ OneThing(f, 0, 0)'
  BY <1>4, <1>6, <1>7, EntrySends, Zenon
<1>10. OneThing(send[1], 0, 0)'
  BY <1>9, OneThingOfSend, Zenon
<1>11. retries' = 0
  BY <1>2, <1>9, Zenon DEF RetriesAtEntry
<1>12. Requested(send[1])' /\ send'[1].sss = meter'.vr
  BY <1>6, <1>7, <1>8, <1>9, Zenon DEF Requested, Current
<1>13. NextBase' = NextBase
  BY <1>8, Zenon DEF NextBase
<1>14. pc' # "idle" /\ pc' # "end"
  BY <1>9
<1> QED
  BY <1>3, <1>4, <1>7, <1>8, <1>9, <1>10, <1>11, <1>12, <1>13, <1>14, Zenon
     DEF Unseen

\* A GET again: the meter has seen it, and every request under way is this one.
LEMMA SeenEntry ==
  ASSUME Recoverable, TypeInv, Steady, exchange > 0, RetryExchange
  PROVE  /\ exchange' = exchange /\ meter'.answering = exchange'
         /\ \E got \in 0..Segments : Seen(got)'
<1>1. pc = "end" /\ ~retCode /\ Count(attempts) <= Retries /\ exchange # 0
  <2>1. pc = "end" /\ CallerRetries
    BY Zenon DEF RetryExchange
  <2>2. exchange # 0
    BY SMT DEF TypeInv, Counters
  <2> QED
    BY <2>1, <2>2, Zenon DEF CallerRetries
<1>2. PICK got \in 0..Segments : Seen(got) /\ meter.answering = exchange
  <2>1. pc # "failed"
    BY <1>1
  <2> QED
    BY <1>1, <2>1, Zenon DEF Steady, Pacing, Unseen
<1>3. /\ Repetition(send[1]) /\ hdlc.sss = meter.vr
      /\ got \in meter.acked..Sent(meter) /\ hdlc.rrr = SeqAfter(meter.base, got)
      /\ got # Segments /\ Repetitions /\ (hdlc.type = "RR" \/ Retries = 0)
  BY <1>1, <1>2, Zenon DEF Seen
<1>4. hdlc.type = "RR"
  <2>1. ASSUME Retries = 0 PROVE FALSE
    <3>1. attempts = 0 /\ 0 < LastCount
      <4>1. attempts <= Retries /\ attempts \in Nat
        BY CounterAssumption, SMT DEF Steady, Retried, TypeInv, Counters
      <4> QED
        BY <2>1, <4>1, SMT DEF Recoverable
    <3>2. Count(attempts) = 0 + 1
      BY <3>1, CountsOn, Zenon
    <3> QED
      BY <1>1, <2>1, <3>2, SMT
  <2> QED
    BY <1>3, <2>1
<1>5. send = <<send[1]>> /\ Len(send) = 1
  <2>1. Len(send) = 1 /\ send \in Seq(Frame)
    BY <1>1 DEF TypeInv, Called, Streams
  <2> QED
    BY <2>1
<1>6. /\ EnterHdlcProcess(send[1]) /\ UNCHANGED <<mailbox, line, hdlc, exchange>>
  BY <1>1, Zenon DEF RetryExchange
<1>7. /\ unread' = <<>> /\ send' = send /\ dataToSend' = send' /\ dataSent' = <<>>
      /\ retries' = RetriesAtEntry
      /\ loop' = TRUE /\ retCode' = FALSE /\ rcv' = <<>> /\ pc' = "send"
  BY <1>5, <1>6, Zenon DEF EnterHdlcProcess
<1>8. /\ mData' = mData /\ toClient' = toClient /\ toMeter' = toMeter
      /\ meter' = meter /\ hdlc' = hdlc /\ exchange' = exchange
  BY <1>6, Zenon DEF mailbox, line
<1>9. InProcess' /\ ~InProcess
  BY <1>1, <1>7 DEF InProcess
<1>10. Stream' = Stream
  <2>1. Stream' = <<>> \o (mData \o toClient) /\ Stream = mData \o toClient
    BY <1>7, <1>8, <1>9, Zenon DEF Stream
  <2> QED
    BY <2>1, StreamType, ConcatEmptySeq, Zenon
<1>11. Repetitions'
  BY <1>3, <1>8, <1>10, Zenon DEF Repetitions, Repetition, Requested, Current
<1>12. Repetition(send[1])'
  BY <1>3, <1>7, <1>8, Zenon DEF Repetition, Requested, Current
<1>13. /\ \A i \in 1..Len(rcv') : rcv'[i][1] = exchange'
       /\ LastOf(rcv, got)'
  <2>1. \A i \in 1..Len(<<>>) : FALSE
    BY EmptySeq, SMT
  <2> QED
    BY <1>7, <2>1, Zenon DEF LastOf
<1>14. Waiting'
  <2>1. <<>> \in Seq(Clients)
    BY EmptySeq, Zenon
  <2> QED
    BY <1>7, <2>1, Zenon DEF Waiting
<1>15. Resuming(got)'
  BY <1>4, <1>7, <1>8, <1>11 DEF Resuming
<1>16. pc' # "idle" /\ pc' # "end"
  BY <1>7
<1>17. Seen(got)'
  BY <1>3, <1>4, <1>7, <1>8, <1>12, <1>13, <1>14, <1>15, <1>16, Zenon DEF Seen, Sent
<1> QED
  BY <1>2, <1>8, <1>17, Zenon

\* HdlcProcess is called, once more or for the first time.
LEMMA SteadyEntry ==
  ASSUME Recoverable, TypeInv, Steady, StartExchange \/ RetryExchange
  PROVE  Greets' /\ Pacing'
<1>1. exchange \in Nat /\ (exchange > 0 <=> exchange # 0)
  BY SizeAssumption, SMT DEF TypeInv, Counters
<1>2. CASE exchange = 0
  BY <1>2, GreetsEntry, Zenon
<1>3. CASE exchange > 0
  <2>1. CASE StartExchange
    BY <1>1, <1>3, <2>1, UnseenEntry, Zenon DEF Greets, Pacing
  <2>2. CASE RetryExchange
    BY <1>1, <1>3, <2>2, SeenEntry, Zenon DEF Greets, Pacing
  <2> QED
    BY <2>1, <2>2
<1> QED
  BY <1>1, <1>2, <1>3

\* The caller goes on, or gives up.
LEMMA SteadyCalls ==
  ASSUME TypeInv, Steady, NextExchange \/ GiveUp
  PROVE  Greets' /\ Pacing'
<1>1. exchange \in Nat
  BY SizeAssumption, SMT DEF TypeInv, Counters
<1>2. CASE GiveUp
  <2>1. pc' = "failed"
    BY <1>2 DEF GiveUp
  <2> QED
    BY <2>1, Zenon DEF Greets, Pacing
<1>3. CASE NextExchange
  <2>1. /\ pc = "end" /\ retCode /\ pc' = "idle" /\ exchange' = exchange + 1
        /\ UNCHANGED <<mailbox, process, hdlc, line>>
    BY <1>3, Zenon DEF NextExchange, CallerAccepts
  <2>2. /\ meter' = meter /\ hdlc' = hdlc /\ Silent' = Silent
        /\ pc # "failed" /\ pc # "idle"
    BY <2>1 DEF mailbox, line, Silent
  <2>3. exchange' # 0 /\ exchange' > 0 /\ exchange' - 1 = exchange
    BY <1>1, <2>1, SMT
  <2>4. /\ Silent /\ meter.answering = exchange /\ hdlc.sss = meter.vr
        /\ hdlc.rrr = NextBase
    <3>1. CASE exchange = 0
      <4>1. /\ meter = Connected /\ hdlc = [type |-> "SNRM", sss |-> 0, rrr |-> 0]
            /\ Silent
        BY <2>1, <2>2, <3>1, Zenon DEF Steady, Greets
      <4>2. meter.answering = 0 /\ meter.base = 0 /\ meter.vr = 0
            /\ hdlc.sss = 0 /\ hdlc.rrr = 0
        BY <4>1 DEF Connected
      <4> QED
        BY <3>1, <4>1, <4>2, Zenon DEF NextBase
    <3>2. CASE exchange > 0
      <4>1. PICK got \in 0..Segments : Seen(got) /\ meter.answering = exchange
        BY <2>1, <2>2, <3>2, Zenon DEF Steady, Pacing, Unseen
      <4>2. /\ hdlc.sss = meter.vr /\ got = Segments /\ Silent
            /\ hdlc.rrr = SeqAfter(meter.base, got)
        BY <2>1, <4>1, Zenon DEF Seen
      <4>3. meter.answering # 0
        BY <3>2, <4>1
      <4> QED
        BY <4>1, <4>2, <4>3, Zenon DEF NextBase
    <3> QED
      BY <1>1, <3>1, <3>2, SMT
  <2>5. meter'.answering = exchange' - 1 /\ meter'.answering # exchange'
    BY <1>1, <2>1, <2>2, <2>4, SMT
  <2>6. Unseen'
    <3>1. NextBase' = NextBase /\ pc' # "end" /\ ~InProcess'
      BY <2>1, <2>2 DEF NextBase, InProcess
    <3> QED
      BY <2>2, <2>4, <2>5, <3>1, Zenon DEF Unseen
  <2> QED
    BY <2>3, <2>5, <2>6, Zenon DEF Greets, Pacing
<1> QED
  BY <1>2, <1>3

\* Send writes all it is given, and no request is lost.
LEMMA NothingLost ==
  ASSUME Recoverable
  PROVE  ~TransmitNothing /\ ~LoseRequest
BY Zenon DEF Recoverable, TransmitNothing, LoseRequest

\* What is about to be sent is sent: the SNRM ...
LEMMA GreetsTransmits ==
  ASSUME Recoverable, TypeInv, TypeInv', Steady, Transmit, exchange = 0
  PROVE  Greets'
<1>1. pc = "send" /\ InProcess
  BY DEF Transmit, InProcess
<1>2. pc # "failed"
  BY <1>1
<1>3. /\ meter = Connected /\ hdlc = [type |-> "SNRM", sss |-> 0, rrr |-> 0]
      /\ Waiting /\ rcv = <<>> /\ retries = Retries /\ send[1] \in Snrms
      /\ OneThing(send[1], 0, HalvesPerFrame)
  BY <1>1, <1>2, Zenon DEF Steady, Greets
<1>4. PICK f \in Clients : f = send[1]
  BY <1>3 DEF Snrms, Clients
<1>5. /\ OneThing(f, 0, HalvesPerFrame)' /\ dataToSend = <<f>> /\ dataSent' \in Seq(Clients)
  BY <1>3, <1>4, HalvesType, OneThingSent
<1>6. <<f>> \in Seq(Clients)
  BY Singleton, Zenon
<1>7. /\ pc' = "wait" /\ InProcess'
      /\ UNCHANGED <<caller, send, retries, loop, retCode, rcv, written, meter>>
      /\ hdlc' = IF hdlc.type = "I" THEN [hdlc EXCEPT !.sss = NextSeq(@)] ELSE hdlc
  BY <1>5, <1>6, Transmitted, Zenon
<1>8. hdlc' = hdlc
  BY <1>3, <1>7
<1>9. OneThing(send[1], 0, HalvesPerFrame)'
  BY <1>4, <1>5, <1>7, OneThingOfSend, Zenon
<1>10. Waiting'
  BY <1>3, <1>5, <1>7, Zenon DEF Waiting
<1>11. pc' # "idle" /\ pc' # "end"
  BY <1>7
<1> QED
  BY <1>3, <1>7, <1>8, <1>9, <1>10, <1>11, Zenon DEF Greets

\* ... a request, which takes its number ...
LEMMA UnseenTransmits ==
  ASSUME Recoverable, TypeInv, TypeInv', Unseen, Transmit
  PROVE  Unseen'
<1>1. pc = "send" /\ InProcess
  BY DEF Transmit, InProcess
<1>2. /\ meter.answering = exchange - 1 /\ hdlc.rrr = NextBase
      /\ Waiting /\ rcv = <<>> /\ retries = 0 /\ hdlc.type = "I"
      /\ Requested(send[1]) /\ send[1].sss = meter.vr
      /\ OneThing(send[1], 0, 0)
      /\ hdlc.sss = IF dataToSend # <<>> THEN meter.vr ELSE NextSeq(meter.vr)
  BY <1>1, Zenon DEF Unseen
<1>3. send[1] \in Clients
  <2>1. Len(send) = 1 /\ send \in Seq(Frame)
    BY <1>1 DEF TypeInv, Called, Streams
  <2>2. send[1] \in Frame
    BY <2>1, ElementOfSeq
  <2> QED
    BY <1>2, <2>2 DEF Requested, Clients
<1>4. PICK f \in Clients : f = send[1]
  BY <1>3
<1>5. /\ OneThing(f, 0, 0)' /\ dataToSend = <<f>> /\ dataSent' \in Seq(Clients)
      /\ toMeter' = <<f>> /\ dataToSend' = <<>>
  BY <1>2, <1>4, OneThingSent
<1>6. <<f>> \in Seq(Clients) /\ <<f>> # <<>>
  BY Singleton, EmptySeq
<1>7. /\ pc' = "wait" /\ InProcess'
      /\ UNCHANGED <<caller, send, retries, loop, retCode, rcv, written, meter>>
      /\ hdlc' = IF hdlc.type = "I" THEN [hdlc EXCEPT !.sss = NextSeq(@)] ELSE hdlc
  BY <1>5, <1>6, Transmitted, Zenon
<1>8. hdlc'.type = "I" /\ hdlc'.rrr = hdlc.rrr /\ hdlc'.sss = NextSeq(meter.vr)
  <2>1. hdlc.sss = meter.vr
    BY <1>2, <1>5, <1>6, Zenon
  <2> QED
    BY <1>2, <1>7, <2>1 DEF TypeInv, Counters
<1>9. OneThing(send[1], 0, 0)'
  BY <1>4, <1>5, <1>7, OneThingOfSend, Zenon
<1>10. Waiting'
  BY <1>2, <1>5, <1>7, Zenon DEF Waiting
<1>11. pc' # "idle" /\ pc' # "end" /\ exchange' = exchange
  BY <1>7 DEF caller
<1>12. Requested(send[1])' /\ NextBase' = NextBase
  BY <1>2, <1>7, <1>11, Zenon DEF Requested, Current, NextBase
<1>13. hdlc'.sss = IF dataToSend' # <<>> THEN meter'.vr ELSE NextSeq(meter'.vr)
  BY <1>5, <1>7, <1>8
<1>14. meter'.answering = exchange' - 1 /\ send'[1].sss = meter'.vr
       /\ toMeter' # <<>>
  BY <1>2, <1>5, <1>6, <1>7, <1>11, Zenon
<1> QED
  BY <1>2, <1>5, <1>7, <1>8, <1>9, <1>10, <1>11, <1>12, <1>13, <1>14, Zenon
     DEF Unseen

\* ... and an RR or a repetition, which take none.
LEMMA SeenTransmits ==
  ASSUME Recoverable, TypeInv, TypeInv', NEW got, Seen(got), Transmit
  PROVE  Seen(got)'
<1>1. pc = "send" /\ InProcess /\ dataToSend # <<>>
  BY DEF Transmit, InProcess
<1>2. /\ Repetition(send[1]) /\ hdlc.sss = meter.vr
      /\ got \in meter.acked..Sent(meter) /\ hdlc.rrr = SeqAfter(meter.base, got)
      /\ retCode <=> got = Segments
      /\ \A i \in 1..Len(rcv) : rcv[i][1] = exchange
      /\ MaxLosses <= 1 => LastOf(rcv, got)
      /\ Waiting /\ (hdlc.type = "RR" \/ (hdlc.type = "I" /\ retries = 0))
      /\ Resuming(got)
  BY <1>1, Zenon DEF Seen
<1>3. Len(send) = 1 /\ send \in Seq(Frame) /\ send[1] \in Frame /\ exchange <= Exchanges
  <2>1. Len(send) = 1 /\ send \in Seq(Frame) /\ exchange <= Exchanges
    BY <1>1 DEF TypeInv, Called, Streams
  <2>2. send[1] \in Frame
    BY <2>1, ElementOfSeq
  <2> QED
    BY <2>1, <2>2
<1>4. PICK before \in Int, after \in Int :
        before = HalvesPerFrame * got /\ after = HalvesPerFrame * Sent(meter)
  BY <1>2, GotType, Zenon
<1>5. hdlc.type = "RR"
  BY <1>1, <1>2, Zenon DEF Resuming
<1>6. PICK f \in Clients : dataToSend = <<f>>
  <2>1. CASE OneThing(ReceiveReady(hdlc.rrr), before, after)
    <3>1. dataToSend = <<ReceiveReady(hdlc.rrr)>>
      BY <1>1, <2>1, Zenon DEF OneThing, ToBeSent, OnItsWay, Answered
    <3>2. ReceiveReady(hdlc.rrr) \in Frame
      <4>1. hdlc.rrr \in 0..LastSeq
        BY DEF TypeInv, Counters
      <4> QED
        BY <1>3, <4>1, ReceiveReadyType
    <3>3. ReceiveReady(hdlc.rrr) \in Clients
      BY <3>2 DEF ReceiveReady, Clients
    <3> QED
      BY <3>1, <3>3
  <2>2. CASE dataToSend = send
    <3>1. send = <<send[1]>>
      BY <1>3
    <3>2. send[1] \in Clients
      BY <1>2, <1>3 DEF Repetition, Requested, Clients
    <3> QED
      BY <2>2, <3>1, <3>2, Zenon
  <2> QED
    BY <1>1, <1>2, <1>4, <2>1, <2>2, Zenon DEF Resuming
<1>7. <<f>> \in Seq(Clients)
  BY Singleton, Zenon
<1>8. /\ pc' = "wait" /\ InProcess'
      /\ UNCHANGED <<caller, send, retries, loop, retCode, rcv, written, meter>>
      /\ dataSent' = <<f>> /\ dataToSend' = <<>>
      /\ hdlc' = IF hdlc.type = "I" THEN [hdlc EXCEPT !.sss = NextSeq(@)] ELSE hdlc
  BY <1>6, <1>7, Transmitted, Zenon
<1>9. /\ hdlc' = hdlc /\ meter' = meter /\ exchange' = exchange /\ send' = send
      /\ rcv' = rcv /\ retCode' = retCode /\ Sent(meter') = Sent(meter)
  BY <1>5, <1>8 DEF caller
<1>10. Waiting'
  BY <1>2, <1>7, <1>8, Zenon DEF Waiting
<1>11. Resuming(got)'
  <2>1. CASE /\ OneThing(ReceiveReady(hdlc.rrr), before, after)
             /\ MaxLosses <= 1 => NearlyWhole(Stream, got)
    <3>1. PICK g \in Clients : g = ReceiveReady(hdlc.rrr)
      <4>1. dataToSend = <<ReceiveReady(hdlc.rrr)>>
        BY <1>1, <2>1, Zenon DEF OneThing, ToBeSent, OnItsWay, Answered
      <4> QED
        BY <1>6, <4>1
    <3>2. OneThing(g, before, after)' /\ EchoIn(Stream)' /\ dataToSend' = <<>>
      BY <2>1, <3>1, OneThingSent
    <3>3. g = ReceiveReady(hdlc.rrr)'
      BY <1>9, <3>1, Zenon DEF ReceiveReady
    <3>4. OneThing(ReceiveReady(hdlc.rrr), HalvesPerFrame * got,
                   HalvesPerFrame * Sent(meter))'
      BY <1>4, <1>9, <3>2, <3>3, OneThingOfAsk, Zenon
    <3>5. NearlyWhole(Stream, got)'
      BY <3>2, Zenon DEF EchoIn, NearlyWhole
    <3> QED
      BY <3>2, <3>4, <3>5, Zenon DEF Resuming
  <2>2. CASE dataToSend = send /\ Repetitions
    <3>1. Repetition(f)
      <4>1. send[1] = f
        BY <1>6, <2>2, Singleton, Zenon
      <4> QED
        BY <1>2, <4>1, Zenon
    <3>2. Repetitions'
      BY <1>6, <2>2, <3>1, RepetitionsSent, Zenon
    <3> QED
      BY <1>5, <1>8, <1>9, <3>2, Zenon DEF Resuming
  <2> QED
    BY <1>1, <1>2, <1>4, <2>1, <2>2, Zenon DEF Resuming
<1>12. Repetition(send[1])'
  BY <1>2, <1>9, Zenon DEF Repetition, Requested, Current
<1>13. pc' # "idle" /\ pc' # "end"
  BY <1>8
<1>14. MaxLosses <= 1 => LastOf(rcv, got)'
  BY <1>2, <1>9, Zenon DEF LastOf
<1>15. /\ hdlc'.sss = meter'.vr /\ hdlc'.type = "RR"
       /\ got \in meter'.acked..Sent(meter)'
       /\ hdlc'.rrr = SeqAfter(meter'.base, got)
       /\ retCode' <=> got = Segments
       /\ \A i \in 1..Len(rcv') : rcv'[i][1] = exchange'
  BY <1>2, <1>5, <1>9, Zenon DEF Sent
<1> QED
  BY <1>10, <1>11, <1>12, <1>13, <1>14, <1>15, Zenon DEF Seen

\* All of it together.
LEMMA SteadyTransmits ==
  ASSUME Recoverable, TypeInv, TypeInv', Steady, Transmit
  PROVE  Greets' /\ Pacing'
<1>1. exchange' = exchange /\ meter' = meter /\ pc # "failed"
  BY DEF Transmit, caller
<1>2. exchange \in Nat
  BY SizeAssumption, SMT DEF TypeInv, Counters
<1>3. CASE exchange = 0
  <2>1. ~(exchange' > 0)
    BY <1>1, <1>3
  <2> QED
    BY <1>3, <2>1, GreetsTransmits, Zenon DEF Pacing
<1>4. CASE exchange > 0
  <2>1. exchange' # 0
    BY <1>1, <1>4
  <2>2. IF meter.answering = exchange
          THEN \E got \in 0..Segments : Seen(got)' ELSE Unseen'
    BY <1>1, <1>4, SeenTransmits, UnseenTransmits, Zenon DEF Steady, Pacing
  <2> QED
    BY <1>1, <2>1, <2>2, Zenon DEF Greets, Pacing
<1> QED
  BY <1>2, <1>3, <1>4, SMT

-----------------------------------------------------------------------------
(* Timeouts, a full buffer and RRs                                         *)

\* A timeout finds nothing under way, and leaves nothing.
LEMMA TimeoutFinds ==
  ASSUME TypeInv, OnTime, TimeoutFails \/ TimeoutResyncs
  PROVE  /\ pc = "wait" /\ InProcess /\ Silent /\ Silent' /\ Stream' = <<>>
         /\ exchange' = exchange /\ meter' = meter /\ losses' = losses
         /\ UNCHANGED <<caller, send, dataSent, rcv>>
<1>1. /\ pc = "wait" /\ call = "expired" /\ Mail!Drain
      /\ UNCHANGED <<caller, send, dataSent, rcv, line>>
  BY Zenon DEF TimeoutFails, TimeoutResyncs
<1>2. Silent
  BY <1>1, Zenon DEF OnTime
<1>3. Silent' /\ mData' = <<>>
  BY <1>1, <1>2, Zenon DEF Silent, line, Mail!Drain
<1>4. <<>> \o <<>> = <<>>
  BY EmptySeq, ConcatEmptySeq, Zenon
<1>5. Stream' = <<>>
  <2>1. CASE TimeoutFails
    <3>1. ~InProcess'
      BY <2>1 DEF TimeoutFails, InProcess
    <3> QED
      BY <1>3, <1>4, <3>1, Zenon DEF Stream, Silent
  <2>2. CASE TimeoutResyncs
    <3>1. unread' = <<>>
      BY <2>2, Zenon DEF TimeoutResyncs, LeftOnTimeout
    <3> QED
      BY <1>3, <1>4, <3>1, Zenon DEF Stream, Silent
  <2> QED
    BY <2>1, <2>2
<1>6. InProcess
  BY <1>1 DEF InProcess
<1> QED
  BY <1>1, <1>2, <1>3, <1>5, <1>6, Zenon DEF caller, line

\* Without bytes and frames there are no repetitions but one that is to be sent.
LEMMA NothingRepeats ==
  ASSUME toMeter' = <<>>, Stream' = <<>>
  PROVE  Repetitions'
<1>1. Len(<<>>) = 0 /\ <<>> \in Seq(Others) /\ \A i \in 1..0 : FALSE
  BY EmptySeq, SMT
<1> QED
  BY <1>1, Zenon DEF Repetitions

\* A request the meter has not seen does not time out: it is on its way.
LEMMA UnseenIsAnswered ==
  ASSUME Unseen, InProcess, pc # "send"
  PROVE  ~Silent
<1>1. OneThing(send[1], 0, 0) /\ (dataToSend # <<>> \/ toMeter # <<>>)
  BY Zenon DEF Unseen
<1>2. dataToSend = <<>>
  BY <1>1, Zenon DEF OneThing, ToBeSent, OnItsWay, Answered
<1> QED
  BY <1>1, <1>2, Zenon DEF Silent

\* The exchange fails: the counter is past the configured retries.
LEMMA SeenFails ==
  ASSUME Recoverable, TypeInv, TypeInv', OnTime, NEW got, Seen(got), TimeoutFails
  PROVE  Seen(got)'
<1>1. /\ pc = "wait" /\ InProcess /\ Silent' /\ Stream' = <<>>
      /\ exchange' = exchange /\ meter' = meter /\ UNCHANGED <<send, rcv>>
  BY TimeoutFinds, Zenon
<1>2. /\ Count(retries) > Retries /\ retCode' = FALSE /\ pc' = "end" /\ hdlc' = hdlc
  BY Zenon DEF TimeoutFails
<1>3. /\ Repetition(send[1]) /\ hdlc.sss = meter.vr
      /\ got \in meter.acked..Sent(meter) /\ hdlc.rrr = SeqAfter(meter.base, got)
      /\ got # Segments
      /\ \A i \in 1..Len(rcv) : rcv[i][1] = exchange
      /\ MaxLosses <= 1 => LastOf(rcv, got)
      /\ hdlc.type = "RR" \/ (hdlc.type = "I" /\ retries = 0)
  BY <1>1, Zenon DEF Seen, Waiting
<1>4. hdlc.type = "RR" \/ Retries = 0
  <2>1. ASSUME retries = 0 PROVE Retries = 0
    <3>1. 0 < LastCount
      BY CounterAssumption, SMT DEF Recoverable
    <3>2. Count(retries) = 0 + 1
      BY <2>1, <3>1, CountsOn, Zenon
    <3> QED
      BY <1>2, <3>2, CounterAssumption, SMT
  <2> QED
    BY <1>3, <2>1
<1>5. Repetitions'
  BY <1>1, NothingRepeats, Zenon DEF Silent
<1>6. Repetition(send[1])'
  BY <1>1, <1>3, Zenon DEF Repetition, Requested, Current
<1>7. MaxLosses <= 1 => LastOf(rcv, got)'
  BY <1>1, <1>3, Zenon DEF LastOf
<1>8. pc' # "idle" /\ ~InProcess'
  BY <1>2 DEF InProcess
<1>9. /\ hdlc'.sss = meter'.vr /\ got \in meter'.acked..Sent(meter)'
      /\ hdlc'.rrr = SeqAfter(meter'.base, got)
      /\ retCode' <=> got = Segments
      /\ \A i \in 1..Len(rcv') : rcv'[i][1] = exchange'
  BY <1>1, <1>2, <1>3, Zenon DEF Sent
<1> QED
  BY <1>2, <1>4, <1>5, <1>6, <1>7, <1>8, <1>9, Zenon DEF Seen

\* The client asks for what it waits for.
LEMMA SeenResyncs ==
  ASSUME TypeInv, TypeInv', OnTime, NEW got, Seen(got), TimeoutResyncs
  PROVE  Seen(got)'
<1>1. /\ pc = "wait" /\ InProcess /\ Silent' /\ Stream' = <<>>
      /\ exchange' = exchange /\ meter' = meter /\ UNCHANGED <<send, rcv, dataSent>>
  BY TimeoutFinds, Zenon
<1>2. /\ Repetition(send[1]) /\ hdlc.sss = meter.vr
      /\ got \in meter.acked..Sent(meter) /\ hdlc.rrr = SeqAfter(meter.base, got)
      /\ Waiting
      /\ retCode <=> got = Segments
      /\ \A i \in 1..Len(rcv) : rcv[i][1] = exchange
      /\ MaxLosses <= 1 => LastOf(rcv, got)
  BY <1>1, Zenon DEF Seen
<1>3. /\ written' = 0 /\ dataToSend' = <<ReceiveReady(hdlc.rrr)>>
      /\ hdlc' = [hdlc EXCEPT !.type = "RR"]
      /\ pc' = Turn(loop) /\ loop' = loop /\ retCode' = retCode
  BY Zenon DEF TimeoutResyncs
<1>4. pc' = "send"
  BY <1>2, <1>3 DEF Turn, Waiting
<1>5. hdlc'.type = "RR" /\ hdlc'.rrr = hdlc.rrr /\ hdlc'.sss = hdlc.sss
  BY <1>3 DEF TypeInv, Counters
<1>6. PICK f : f = ReceiveReady(hdlc.rrr)
  OBVIOUS
<1>7. f = ReceiveReady(hdlc.rrr)'
  BY <1>1, <1>5, <1>6, Zenon DEF ReceiveReady
<1>8. PICK before \in Int, after \in Int :
        before = HalvesPerFrame * got /\ after = HalvesPerFrame * Sent(meter)
  BY <1>2, GotType, Zenon
<1>9. ToBeSent(f)' /\ Load' <= before
  <2>1. ToBeSent(f)'
    BY <1>1, <1>3, <1>4, <1>6, Zenon DEF ToBeSent, Silent
  <2>2. Load' = (0 + 0) + 0
    <3>1. Len(<<>>) = 0
      BY EmptySeq
    <3> QED
      BY <1>1, <1>3, <3>1, Zenon DEF Load, Silent
  <2>3. 0 <= before
    <3>1. PICK H \in Nat : H = HalvesPerFrame
      BY HalvesType
    <3>2. PICK g \in Nat : g = got
      BY <1>2, GotType, Zenon
    <3>3. 0 <= H * g
      BY SMT
    <3> QED
      BY <1>8, <3>1, <3>2, <3>3, Zenon
  <2> QED
    BY <2>1, <2>2, <2>3, SMT
<1>10. OneThing(f, before, after)'
  BY <1>9, Zenon DEF OneThing
<1>11. OneThing(ReceiveReady(hdlc.rrr), HalvesPerFrame * got,
                HalvesPerFrame * Sent(meter))'
  BY <1>1, <1>7, <1>8, <1>10, OneThingOfAsk, Zenon
<1>12. NearlyWhole(Stream, got)'
  <2>1. \A p \in 1..Len(<<>>) : FALSE
    BY EmptySeq, SMT
  <2> QED
    BY <1>1, <2>1, Zenon DEF NearlyWhole
<1>13. Resuming(got)'
  BY <1>5, <1>11, <1>12, Zenon DEF Resuming
<1>14. Repetition(send[1])'
  BY <1>1, <1>2, Zenon DEF Repetition, Requested, Current
<1>15. MaxLosses <= 1 => LastOf(rcv, got)'
  BY <1>1, <1>2, Zenon DEF LastOf
<1>16. pc' # "idle" /\ pc' # "end"
  BY <1>4
<1>17. Waiting'
  BY <1>1, <1>2, <1>3, Zenon DEF Waiting
<1>18. /\ hdlc'.sss = meter'.vr /\ got \in meter'.acked..Sent(meter)'
       /\ hdlc'.rrr = SeqAfter(meter'.base, got)
       /\ retCode' <=> got = Segments
       /\ \A i \in 1..Len(rcv') : rcv'[i][1] = exchange'
  BY <1>1, <1>2, <1>3, <1>5, Zenon DEF Sent
<1> QED
  BY <1>5, <1>13, <1>14, <1>15, <1>16, <1>17, <1>18, Zenon DEF Seen

\* All of it together: exchange 0 never asks again, since its counter is at its
\* limit.
LEMMA SteadyTimeouts ==
  ASSUME Recoverable, TypeInv, TypeInv', OnTime, Steady, TimeoutFails \/ TimeoutResyncs
  PROVE  Greets' /\ Pacing'
<1>1. /\ pc = "wait" /\ InProcess /\ Silent /\ Silent'
      /\ exchange' = exchange /\ meter' = meter
  BY TimeoutFinds, Zenon
<1>2. exchange \in Nat /\ pc # "failed"
  BY <1>1, SizeAssumption, SMT DEF TypeInv, Counters
<1>3. CASE exchange = 0
  <2>1. /\ meter = Connected /\ hdlc = [type |-> "SNRM", sss |-> 0, rrr |-> 0]
        /\ retries = Retries
    BY <1>1, <1>2, <1>3, Zenon DEF Steady, Greets
  <2>2. Count(retries) > Retries
    <3>1. Retries \in Nat /\ Retries < LastCount
      BY CounterAssumption, SMT DEF Recoverable
    <3>2. Count(retries) = Retries + 1
      BY <2>1, <3>1, CountsOn, Zenon
    <3> QED
      BY <3>1, <3>2, SMT
  <2>3. TimeoutFails
    <3>1. Count(retries) \in Int /\ Retries \in Int
      BY CountType, CounterAssumption, SMT DEF TypeInv, Counters
    <3>2. ~(Count(retries) <= Retries)
      BY <2>2, <3>1, SMT
    <3> QED
      BY <3>2, Zenon DEF TimeoutResyncs
  <2>4. pc' = "end" /\ retCode' = FALSE /\ hdlc' = hdlc /\ ~(exchange' > 0)
    BY <1>1, <1>3, <2>3 DEF TimeoutFails
  <2>5. ~InProcess'
    BY <2>4 DEF InProcess
  <2> QED
    BY <1>1, <2>1, <2>4, <2>5, Zenon DEF Greets, Pacing
<1>4. CASE exchange > 0
  <2>1. PICK got \in 0..Segments : Seen(got) /\ meter.answering = exchange
    <3>1. ~Unseen
      BY <1>1, UnseenIsAnswered
    <3> QED
      BY <1>2, <1>4, <3>1, Zenon DEF Steady, Pacing
  <2>2. Seen(got)'
    BY <2>1, SeenFails, SeenResyncs, Zenon
  <2>3. exchange' # 0
    BY <1>1, <1>4
  <2> QED
    BY <1>1, <2>1, <2>2, <2>3, Zenon DEF Greets, Pacing
<1> QED
  BY <1>2, <1>3, <1>4, SMT

\* mRcvArray has room for what a frame under way brings.
LEMMA BufferFits ==
  ASSUME Recoverable
  PROVE  /\ HalvesPerFrame <= BufferSize /\ 0 + (HalvesPerFrame - 2) <= BufferSize
         /\ 0 <= BufferSize
         /\ \A k \in 0..Segments : HalvesPerFrame * k <= BufferSize
         /\ \A k \in 0..Segments :
              k # Segments => HalvesPerFrame * k + (HalvesPerFrame - 2) <= BufferSize
<1>1. PICK H \in {2, 4} : H = HalvesPerFrame
  BY HalvesType
<1>2. PICK B \in Nat, S \in Nat \ {0} : B = BufferSize /\ S = Segments
  BY SizeAssumption
<1>3. H * S <= B
  BY <1>1, <1>2, Zenon DEF Recoverable
<1>4. /\ H <= B /\ 0 + (H - 2) <= B /\ 0 <= B
      /\ \A k \in 0..S : H * k <= B
      /\ \A k \in 0..S : k # S => H * k + (H - 2) <= B
  <2>1. CASE H = 2
    BY <1>2, <1>3, <2>1, SMT
  <2>2. CASE H = 4
    BY <1>2, <1>3, <2>2, SMT
  <2> QED
    BY <1>1, <2>1, <2>2
<1> QED
  BY <1>1, <1>2, <1>4, Zenon

\* ... so that it does not overflow.
LEMMA LoadFits ==
  ASSUME TypeInv, NEW f, NEW before \in Int, NEW after \in Int,
         OneThing(f, before, after), before + (HalvesPerFrame - 2) <= BufferSize,
         after <= BufferSize
  PROVE  ~ReceiveOverflows
<1>1. PICK H \in {2, 4}, B \in Nat : H = HalvesPerFrame /\ B = BufferSize
  BY HalvesType, SizeAssumption
<1>2. PICK n \in Int : n = Load
  BY StreamType, SMT DEF Load, TypeInv, Counters
<1>3. n <= before \/ n <= before + (H - 2) \/ n <= after
  BY <1>1, <1>2, Zenon DEF OneThing
<1>4. before + (H - 2) <= B /\ after <= B
  BY <1>1
<1>5. n <= B
  BY <1>1, <1>3, <1>4, SMT
<1>6. written + Len(mData) <= B
  <2>1. written \in Nat
    BY DEF TypeInv, Counters
  <2> QED
    BY <1>2, <1>5, <2>1, StreamType, SMT DEF Load
<1>7. written + Len(mData) \in Int
  BY StreamType, SMT DEF TypeInv, Counters
<1>8. ~(written + Len(mData) > BufferSize)
  BY <1>1, <1>6, <1>7, SMT
<1> QED
  BY <1>8, Zenon DEF ReceiveOverflows

\* Only repetitions, which the meter answers with RRs without end, can be too
\* much; the exchange fails.
LEMMA SteadyOverflows ==
  ASSUME Recoverable, TypeInv, TypeInv', Steady, ReceiveOverflows
  PROVE  Greets' /\ Pacing'
<1>1. /\ pc = "wait" /\ pc' = "end" /\ retCode' = FALSE /\ mData' = <<>>
      /\ UNCHANGED <<caller, send, rcv, hdlc, toMeter, toClient, meter>>
  BY Zenon DEF ReceiveOverflows, Mail!Drain, line
<1>2. InProcess /\ ~InProcess' /\ pc # "failed"
  BY <1>1 DEF InProcess
<1>3. exchange \in Nat /\ exchange' = exchange
  BY <1>1, SizeAssumption, SMT DEF TypeInv, Counters, caller
<1>4. exchange # 0
  <2>1. ASSUME exchange = 0 PROVE OneThing(send[1], 0, HalvesPerFrame)
    BY <1>2, <2>1, Zenon DEF Steady, Greets
  <2>2. PICK f : f = send[1]
    OBVIOUS
  <2>3. ASSUME exchange = 0 PROVE FALSE
    BY <2>1, <2>2, <2>3, HalvesType, BufferFits, LoadFits
  <2> QED
    BY <2>3
<1>5. exchange > 0 /\ exchange' > 0
  BY <1>3, <1>4, SMT
<1>6. ~Unseen
  <2>1. Unseen => OneThing(send[1], 0, 0)
    BY <1>2, Zenon DEF Unseen
  <2>2. PICK f : f = send[1]
    OBVIOUS
  <2> QED
    BY <2>1, <2>2, BufferFits, LoadFits
<1>7. PICK got \in 0..Segments : Seen(got) /\ meter.answering = exchange
  BY <1>2, <1>5, <1>6, Zenon DEF Steady, Pacing
<1>8. /\ Repetition(send[1]) /\ hdlc.sss = meter.vr
      /\ got \in meter.acked..Sent(meter) /\ hdlc.rrr = SeqAfter(meter.base, got)
      /\ got # Segments
      /\ \A i \in 1..Len(rcv) : rcv[i][1] = exchange
      /\ MaxLosses <= 1 => LastOf(rcv, got)
      /\ Resuming(got)
  BY <1>2, <1>7, Zenon DEF Seen, Waiting
<1>9. PICK before \in Int, after \in Int :
        before = HalvesPerFrame * got /\ after = HalvesPerFrame * Sent(meter)
  BY <1>8, GotType, Zenon
<1>10. hdlc.type = "RR" /\ Repetitions
  <2>1. ~OneThing(ReceiveReady(hdlc.rrr), before, after)
    <3>1. PICK f : f = ReceiveReady(hdlc.rrr)
      OBVIOUS
    <3>2. before + (HalvesPerFrame - 2) <= BufferSize
      BY <1>7, <1>8, <1>9, BufferFits, Zenon
    <3>3. after <= BufferSize
      <4>1. Sent(meter) \in 0..Segments
        BY GotType, SMT
      <4> QED
        BY <1>9, <4>1, BufferFits, Zenon
    <3> QED
      BY <3>1, <3>2, <3>3, LoadFits, Zenon
  <2> QED
    BY <1>8, <1>9, <2>1, Zenon DEF Resuming
<1>11. Repetitions'
  <2>1. Stream = unread \o (mData \o toClient)
    BY <1>2, Zenon DEF Stream
  <2>2. mData \o toClient \in Seq(Others)
    BY <1>10, <2>1, StreamType, OthersConcat, Zenon DEF Repetitions
  <2>3. toClient \in Seq(Others)
    BY <2>2, StreamType, OthersConcat, Zenon
  <2>4. Stream' = <<>> \o toClient
    BY <1>1, <1>2, Zenon DEF Stream
  <2>5. Stream' = toClient
    BY <2>4, StreamType, ConcatEmptySeq, Zenon
  <2> QED
    BY <1>1, <1>3, <1>10, <2>3, <2>5, Zenon DEF Repetitions, Repetition, Requested,
       Current
<1>12. Repetition(send[1])'
  BY <1>1, <1>3, <1>8, Zenon DEF Repetition, Requested, Current
<1>13. MaxLosses <= 1 => LastOf(rcv, got)'
  BY <1>1, <1>8, Zenon DEF LastOf
<1>14. /\ hdlc'.sss = meter'.vr /\ got \in meter'.acked..Sent(meter)'
       /\ hdlc'.rrr = SeqAfter(meter'.base, got)
       /\ retCode' <=> got = Segments
       /\ \A i \in 1..Len(rcv') : rcv'[i][1] = exchange'
  BY <1>1, <1>3, <1>8, Zenon DEF Sent
<1>15. Seen(got)'
  <2>1. pc' # "idle" /\ hdlc'.type = "RR"
    BY <1>1, <1>10
  <2> QED
    BY <1>1, <1>2, <1>11, <1>12, <1>13, <1>14, <2>1, Zenon DEF Seen
<1> QED
  BY <1>1, <1>3, <1>4, <1>7, <1>15, Zenon DEF Greets, Pacing

\* What is decoded first of a stream of echoes and parts is a part.
LEMMA HeadIsPart ==
  ASSUME TypeInv, pc = "decode", HeadDecodes, PartsIn(Stream)
  PROVE  /\ Part(unread[1]) /\ unread[1].frame.type # "RR"
         /\ unread[1] = Stream[1] /\ 1 \in 1..Len(Stream) /\ Stream \in Seq(Half)
         /\ unread[1].half = 1 /\ unread[1].frame.from = "meter"
         /\ unread[1].frame.poll_final = 1 => Len(Stream) <= 2
<1>1. PICK u \in Seq(Half), r \in Seq(Half) : u = unread /\ r = mData \o toClient
  BY StreamType
<1>2. Stream = u \o r
  BY <1>1 DEF Stream, InProcess
<1>3. /\ u \o r \in Seq(Half) /\ Len(u \o r) = Len(u) + Len(r)
      /\ Len(u) \in Nat /\ Len(r) \in Nat
      /\ \A p \in 1..Len(u) : (u \o r)[p] = u[p]
  BY Concatenated
<1>4. /\ Len(u) >= 2 /\ u[1].half = 1 /\ u[1].frame.from = "meter"
  BY <1>1, Zenon DEF HeadDecodes
<1>5. 1 \in 1..Len(u) /\ 1 \in 1..Len(u \o r)
  BY <1>3, <1>4, SMT
<1>6. (u \o r)[1] = u[1]
  BY <1>3, <1>5, Zenon
<1>7. /\ Part(u[1])
      /\ u[1].half = 1 /\ u[1].frame.poll_final = 1 => 1 >= Len(u \o r) - 1
  <2>1. (u \o r)[1].frame.from # "client"
    BY <1>4, <1>6
  <2> QED
    BY <1>2, <1>5, <1>6, <2>1, Zenon DEF PartsIn
<1>8. u[1].frame.poll_final = 1 => Len(u \o r) <= 2
  BY <1>3, <1>4, <1>7, SMT
<1>9. u[1].frame.type # "RR"
  <2>1. UaFrame.type = "UA"
    BY UaBytes
  <2> QED
    BY <1>7, <2>1 DEF Part
<1> QED
  BY <1>1, <1>2, <1>3, <1>4, <1>5, <1>6, <1>7, <1>8, <1>9, Zenon

\* An RR answers a repetition, and makes the client repeat the request.
LEMMA SteadyRepeats ==
  ASSUME Recoverable, TypeInv, TypeInv', Steady, DecodeReceiveReady
  PROVE  Greets' /\ Pacing'
<1>1. /\ pc = "decode" /\ HeadDecodes /\ unread[1].frame.type = "RR"
      /\ dataToSend' = send /\ pc' = Turn(loop)
      /\ UNCHANGED <<mailbox, caller, send, dataSent, retries, loop, retCode, rcv,
                     unread, written, hdlc, line>>
  BY Zenon DEF DecodeReceiveReady
<1>2. InProcess /\ pc # "failed"
  BY <1>1 DEF InProcess
<1>3. Waiting /\ pc' = "send" /\ InProcess'
  <2>1. Waiting
    BY <1>2, SteadyWaits
  <2> QED
    BY <1>1, <2>1 DEF Waiting, Turn, InProcess
<1>4. /\ exchange \in Nat /\ exchange' = exchange /\ meter' = meter
      /\ mData' = mData /\ toClient' = toClient /\ toMeter' = toMeter
  BY <1>1, SizeAssumption, SMT DEF TypeInv, Counters, caller, line, mailbox
<1>5. ~PartsIn(Stream)
  BY <1>1, HeadIsPart
<1>6. exchange # 0
  BY <1>2, <1>5, OneThingParts, Zenon DEF Steady, Greets
<1>7. ~Unseen
  BY <1>2, <1>5, OneThingParts, Zenon DEF Unseen
<1>8. exchange > 0 /\ exchange' > 0
  BY <1>4, <1>6, SMT
<1>9. PICK got \in 0..Segments : Seen(got) /\ meter.answering = exchange
  BY <1>2, <1>7, <1>8, Zenon DEF Steady, Pacing
<1>10. /\ Repetition(send[1]) /\ hdlc.sss = meter.vr
       /\ got \in meter.acked..Sent(meter) /\ hdlc.rrr = SeqAfter(meter.base, got)
       /\ retCode <=> got = Segments
       /\ \A i \in 1..Len(rcv) : rcv[i][1] = exchange
       /\ MaxLosses <= 1 => LastOf(rcv, got)
       /\ Resuming(got)
  BY <1>2, <1>9, Zenon DEF Seen
<1>11. hdlc.type = "RR" /\ Repetitions
  BY <1>5, <1>10, OneThingParts, Zenon DEF Resuming
<1>12. Stream' = Stream
  BY <1>1, <1>2, <1>3, <1>4, Zenon DEF Stream
<1>13. Repetitions'
  BY <1>4, <1>11, <1>12, Zenon DEF Repetitions, Repetition, Requested, Current
<1>14. Repetition(send[1])'
  BY <1>1, <1>4, <1>10, Zenon DEF Repetition, Requested, Current
<1>15. MaxLosses <= 1 => LastOf(rcv, got)'
  BY <1>1, <1>10, Zenon DEF LastOf
<1>16. Resuming(got)'
  BY <1>1, <1>11, <1>13 DEF Resuming
<1>17. /\ hdlc'.sss = meter'.vr /\ got \in meter'.acked..Sent(meter)'
       /\ hdlc'.rrr = SeqAfter(meter'.base, got) /\ hdlc'.type = "RR"
       /\ retCode' <=> got = Segments
       /\ \A i \in 1..Len(rcv') : rcv'[i][1] = exchange'
  BY <1>1, <1>4, <1>10, <1>11, Zenon DEF Sent
<1>18. Waiting' /\ pc' # "idle" /\ pc' # "end"
  BY <1>1, <1>3 DEF Waiting
<1>19. Seen(got)'
  BY <1>14, <1>15, <1>16, <1>17, <1>18, Zenon DEF Seen
<1> QED
  BY <1>4, <1>6, <1>9, <1>19, Zenon DEF Greets, Pacing

-----------------------------------------------------------------------------
(* What the meter answers                                                  *)

\* Each half of a burst, with its number.
LEMMA BurstHalves ==
  ASSUME NEW m \in MeterType, NEW n, n = Sent(m) - m.acked,
         NEW j \in 1..2 * n
  PROVE  \E k \in 1..n :
           /\ Bytes(Burst(m))[j].frame = Reply(m, "I", m.acked + k, k = n)
           /\ \/ Bytes(Burst(m))[j].half = 1 /\ j = 2 * k - 1
              \/ Bytes(Burst(m))[j].half = 2 /\ j = 2 * k
<1>1. PICK a \in Nat, c \in Nat : a = m.acked /\ c = Sent(m) /\ n = c - a /\ a <= c
                                  /\ c <= Segments
  BY BurstBytes, SMT
<1>2. n \in Nat
  BY <1>1, SMT
<1>3. PICK b \in Seq(Frame) : b = Burst(m) /\ Len(b) = n
                              /\ \A k \in 1..n : b[k] = Reply(m, "I", m.acked + k, k = n)
  <2>1. /\ Burst(m) \in Seq(Frame)
        /\ Len(Burst(m)) = IF Segments - m.acked < Window
                             THEN Segments - m.acked ELSE Window
        /\ \A k \in 1..Len(Burst(m)) :
             Burst(m)[k] = Reply(m, "I", m.acked + k, k = Len(Burst(m)))
    BY BurstType
  <2>2. m.acked \in 0..Segments
    BY DEF MeterType
  <2>3. Len(Burst(m)) = n
    BY <1>1, <2>1, <2>2, SizeAssumption, SMT DEF Sent
  <2> QED
    BY <2>1, <2>3, Zenon
<1>4. Bytes(b)[j] = [frame |-> b[(j + 1) \div 2], half |-> IF j % 2 = 1 THEN 1 ELSE 2]
  BY <1>3, Zenon DEF Bytes
<1>5. PICK k \in 1..n : k = (j + 1) \div 2
  BY <1>2, SMT
<1>6. (j % 2 = 1 /\ j = 2 * k - 1) \/ (j % 2 # 1 /\ j = 2 * k)
  BY <1>2, <1>5, SMT
<1>7. PICK f, h : /\ Bytes(b)[j] = [frame |-> f, half |-> h] /\ f = b[k]
                  /\ h = IF j % 2 = 1 THEN 1 ELSE 2
  BY <1>4, <1>5, Zenon
<1>8. Bytes(b)[j].frame = f /\ Bytes(b)[j].half = h
  BY <1>7
<1>9. (h = 1 /\ j = 2 * k - 1) \/ (h = 2 /\ j = 2 * k)
  BY <1>6, <1>7
<1> QED
  BY <1>3, <1>5, <1>7, <1>8, <1>9, Zenon

\* Behind echoes an answer is a stream of parts ...
LEMMA PartsBehind ==
  ASSUME NEW s \in Seq(Half), EchoIn(s), NEW B \in Seq(Half),
         \A j \in 1..Len(B) :
           /\ Part(B[j])'
           /\ B[j].half = 1 /\ B[j].frame.poll_final = 1 => j >= Len(B) - 1
  PROVE  PartsIn(s \o B)'
<1>1. /\ s \o B \in Seq(Half) /\ Len(s \o B) = Len(s) + Len(B)
      /\ Len(s) \in Nat /\ Len(B) \in Nat
      /\ \A p \in 1..Len(s) : (s \o B)[p] = s[p]
      /\ \A p \in 1..Len(B) : (s \o B)[Len(s) + p] = B[p]
  BY Concatenated
<1>2. PICK t \in Seq(Half), m \in Nat, n \in Nat :
        t = s \o B /\ m = Len(s) /\ n = Len(B) /\ Len(t) = m + n
  BY <1>1
<1>3. ASSUME NEW p \in 1..Len(t), t[p].frame.from # "client"
      PROVE  /\ Part(t[p])'
             /\ t[p].half = 1 /\ t[p].frame.poll_final = 1 => p >= Len(t) - 1
  <2>1. p > m
    <3>1. p \in 1..m => t[p].frame.from = "client"
      BY <1>1, <1>2, Zenon DEF EchoIn
    <3> QED
      BY <1>2, <1>3, <3>1, SMT
  <2>2. PICK j \in 1..n : p = m + j
    <3>1. p - m \in 1..n /\ p = m + (p - m)
      BY <1>2, <2>1, SMT
    <3> QED
      BY <3>1
  <2>3. t[p] = B[j]
    BY <1>1, <1>2, <2>2, Zenon
  <2>4. j >= n - 1 => p >= Len(t) - 1
    BY <1>2, <2>2, SMT
  <2>5. /\ Part(B[j])'
        /\ B[j].half = 1 /\ B[j].frame.poll_final = 1 => j >= n - 1
    BY <1>2, <2>2, Zenon
  <2> QED
    BY <2>3, <2>4, <2>5, Zenon
<1>4. PartsIn(t)'
  BY <1>3, Zenon DEF PartsIn
<1> QED
  BY <1>2, <1>4, Zenon

\* ... and a whole one.
LEMMA WholeBehind ==
  ASSUME NEW s \in Seq(Half), EchoIn(s), NEW B \in Seq(Half), NEW a \in Int,
         \A j \in 1..Len(B) :
           B[j].frame.from # "client" /\ Number(B[j]) = 2 * a + j,
         losses' \in Nat
  PROVE  NearlyWhole(s \o B, a)'
<1>1. /\ s \o B \in Seq(Half) /\ Len(s \o B) = Len(s) + Len(B)
      /\ Len(s) \in Nat /\ Len(B) \in Nat
      /\ \A p \in 1..Len(s) : (s \o B)[p] = s[p]
      /\ \A p \in 1..Len(B) : (s \o B)[Len(s) + p] = B[p]
  BY Concatenated
<1>2. PICK t \in Seq(Half), m \in Nat, n \in Nat :
        t = s \o B /\ m = Len(s) /\ n = Len(B) /\ Len(t) = m + n
  BY <1>1
<1>3. /\ \A p \in 1..m : t[p].frame.from = "client"
      /\ \A j \in 1..n : t[m + j].frame.from # "client" /\ Number(t[m + j]) = 2 * a + j
  BY <1>1, <1>2, Zenon DEF EchoIn
<1>4. ASSUME NEW p \in m + 1..m + n
      PROVE  t[p].frame.from # "client" /\ Number(t[p]) = 2 * a + (p - m)
  <2>1. p - m \in 1..n /\ m + (p - m) = p
    BY SMT
  <2> QED
    BY <1>3, <2>1, Zenon
<1>5. ASSUME NEW p \in 1..Len(t), t[p].frame.from # "client"
      PROVE  /\ \A r \in p..Len(t) : t[r].frame.from # "client"
             /\ Number(t[p]) - NumberBefore(t, p, a) \in 1..losses' + 1
  <2>1. p \in m + 1..m + n
    BY <1>2, <1>3, <1>5, SMT
  <2>2. \A r \in p..Len(t) : t[r].frame.from # "client"
    <3>1. \A r \in p..Len(t) : r \in m + 1..m + n
      BY <1>2, <2>1, SMT
    <3> QED
      BY <1>4, <3>1, Zenon
  <2>3. PICK x \in Int : x = Number(t[p]) /\ x = 2 * a + (p - m)
    <3>1. 2 * a + (p - m) \in Int
      BY <1>2, SMT
    <3> QED
      BY <1>4, <2>1, <3>1, Zenon
  <2>4. CASE p = m + 1
    <3>1. p = 1 \/ t[p - 1].frame.from = "client"
      <4>1. m = 0 \/ (p - 1 \in 1..m)
        BY <1>2, <2>4, SMT
      <4>2. m = 0 => p = 1
        BY <2>4, SMT
      <4> QED
        BY <1>3, <4>1, <4>2, Zenon
    <3>2. NumberBefore(t, p, a) = 2 * a
      BY <3>1, Zenon DEF NumberBefore
    <3>3. x - 2 * a \in 1..losses' + 1
      BY <1>2, <2>3, <2>4, SMT
    <3> QED
      BY <2>2, <2>3, <3>2, <3>3, Zenon
  <2>5. CASE p # m + 1
    <3>1. p - 1 \in m + 1..m + n /\ p # 1
      BY <1>2, <2>1, <2>5, SMT
    <3>2. PICK y \in Int : y = Number(t[p - 1]) /\ y = 2 * a + ((p - 1) - m)
      <4>1. 2 * a + ((p - 1) - m) \in Int
        BY <1>2, SMT
      <4> QED
        BY <1>4, <3>1, <4>1, Zenon
    <3>3. NumberBefore(t, p, a) = y
      <4>1. t[p - 1].frame.from # "client"
        BY <1>4, <3>1, Zenon
      <4> QED
        BY <3>1, <3>2, <4>1, Zenon DEF NumberBefore
    <3>4. x - y \in 1..losses' + 1
      <4>1. p \in Int
        BY <1>2
      <4>2. x - y = 1
        BY <1>2, <2>3, <3>2, <4>1, SMT
      <4>3. 1 \in 1..losses' + 1
        <5>1. PICK l \in Nat : l = losses'
          OBVIOUS
        <5>2. 1 \in 1..l + 1
          BY SMT
        <5> QED
          BY <5>1, <5>2, Zenon
      <4> QED
        BY <4>2, <4>3, Zenon
    <3> QED
      BY <2>2, <2>3, <3>3, <3>4, Zenon
  <2> QED
    BY <2>4, <2>5
<1>6. NearlyWhole(t, a)'
  BY <1>5, Zenon DEF NearlyWhole, Number, NumberBefore
<1> QED
  BY <1>2, <1>6, Zenon

\* The meter's next frames are the parts of its answer that follow what is
\* acknowledged.
LEMMA BurstParts ==
  ASSUME NEW m \in MeterType, meter' = m, m.answering = exchange', exchange' # 0
  PROVE  /\ Bytes(Burst(m)) \in Seq(Half)
         /\ Len(Bytes(Burst(m))) = 2 * (Sent(m) - m.acked)
         /\ \A j \in 1..Len(Bytes(Burst(m))) :
              /\ Part(Bytes(Burst(m))[j])'
              /\ Bytes(Burst(m))[j].half = 1 /\ Bytes(Burst(m))[j].frame.poll_final = 1
                   => j >= Len(Bytes(Burst(m))) - 1
              /\ Bytes(Burst(m))[j].frame.from # "client"
              /\ Number(Bytes(Burst(m))[j]) = 2 * m.acked + j
<1>1. PICK a \in Nat, c \in Nat : a = m.acked /\ c = Sent(m) /\ a <= c /\ c <= Segments
  BY BurstBytes, SMT
<1>2. PICK n \in Nat : n = c - a
  BY <1>1, SMT
<1>3. PICK B \in Seq(Half) : B = Bytes(Burst(m)) /\ Len(B) = 2 * n
  <2>1. Bytes(Burst(m)) \in Seq(Half) /\ Len(Bytes(Burst(m))) = 2 * (Sent(m) - m.acked)
    BY BurstBytes
  <2> QED
    BY <1>1, <1>2, <2>1, Zenon
<1>4. ASSUME NEW j \in 1..2 * n
      PROVE  /\ Part(B[j])'
             /\ B[j].half = 1 /\ B[j].frame.poll_final = 1 => j >= 2 * n - 1
             /\ B[j].frame.from # "client"
             /\ Number(B[j]) = 2 * a + j
  <2>1. PICK k \in 1..n :
          /\ B[j].frame = Reply(m, "I", a + k, k = n)
          /\ (B[j].half = 1 /\ j = 2 * k - 1) \/ (B[j].half = 2 /\ j = 2 * k)
    <3>1. n = Sent(m) - m.acked
      BY <1>1, <1>2, Zenon
    <3>2. PICK k \in 1..n :
            /\ Bytes(Burst(m))[j].frame = Reply(m, "I", m.acked + k, k = n)
            /\ \/ Bytes(Burst(m))[j].half = 1 /\ j = 2 * k - 1
               \/ Bytes(Burst(m))[j].half = 2 /\ j = 2 * k
      BY <3>1, BurstHalves
    <3> QED
      BY <1>1, <1>3, <3>2, Zenon
  <2>2. PICK f : f = B[j].frame
    OBVIOUS
  <2>3. /\ f.from = "meter" /\ f.type = "I" /\ f.info = <<m.answering, a + k>>
        /\ f.sss = SeqAfter(m.base, (a + k) - 1)
        /\ f.poll_final = IF k = n THEN 1 ELSE 0
        /\ f.segmentation = IF a + k < Segments THEN 1 ELSE 0
    BY <2>1, <2>2 DEF Reply
  <2>4. f.info[1] = exchange' /\ f.info[2] = a + k
    BY <2>3
  <2>5. a + k \in a + 1..c /\ (k = n <=> a + k = c)
    BY <1>1, <1>2, SMT
  <2>6. f.poll_final = IF f.info[2] = c THEN 1 ELSE 0
    BY <2>3, <2>4, <2>5, Zenon
  <2>7. Part(B[j])'
    <3>1. Sent(meter)' = c
      BY <1>1, Zenon DEF Sent
    <3> QED
      BY <1>1, <2>2, <2>3, <2>4, <2>5, <2>6, <3>1, Zenon DEF Part
  <2>8. B[j].half = 1 /\ B[j].frame.poll_final = 1 => j >= 2 * n - 1
    BY <2>1, <2>2, <2>3
  <2>9. Number(B[j]) = 2 * a + j
    <3>1. Number(B[j]) = 2 * ((a + k) - 1) + B[j].half
      BY <2>2, <2>4, Zenon DEF Number
    <3>2. CASE B[j].half = 1 /\ j = 2 * k - 1
      <4>1. 2 * ((a + k) - 1) + 1 = 2 * a + (2 * k - 1)
        BY SMT
      <4> QED
        BY <3>1, <3>2, <4>1, Zenon
    <3>3. CASE B[j].half = 2 /\ j = 2 * k
      <4>1. 2 * ((a + k) - 1) + 2 = 2 * a + 2 * k
        BY SMT
      <4> QED
        BY <3>1, <3>3, <4>1, Zenon
    <3> QED
      BY <2>1, <3>2, <3>3
  <2>10. B[j].frame.from # "client"
    BY <2>2, <2>3
  <2> QED
    BY <2>7, <2>8, <2>9, <2>10, Zenon
<1>5. 2 * (Sent(m) - m.acked) = 2 * n
  BY <1>1, <1>2, Zenon
<1> QED
  BY <1>1, <1>3, <1>4, <1>5, Zenon

\* What every answer leaves as it is.
LEMMA MeterKeeps ==
  ASSUME TypeInv, MeterReceives
  PROVE  /\ UNCHANGED <<mailbox, pc, caller, process, hdlc, losses>>
         /\ UNCHANGED <<exchange, send, dataToSend, dataSent, retries, loop, retCode,
                        rcv, written, mData>>
         /\ InProcess' = InProcess /\ Waiting' = Waiting
         /\ toMeter # <<>> /\ toMeter' = Tail(toMeter) /\ losses' \in Nat
<1>1. /\ UNCHANGED <<mailbox, pc, caller, process, hdlc, losses>>
      /\ toMeter # <<>> /\ toMeter' = Tail(toMeter)
  BY Zenon DEF MeterReceives
<1>2. UNCHANGED <<exchange, send, dataToSend, dataSent, retries, loop, retCode,
                  rcv, written, mData>>
  BY <1>1, Zenon DEF mailbox, caller, process
<1>3. losses' \in Nat
  BY <1>1, SizeAssumption, SMT DEF TypeInv, Counters
<1>4. InProcess' = InProcess /\ Waiting' = Waiting
  BY <1>1, <1>2, Zenon DEF InProcess, Waiting
<1> QED
  BY <1>1, <1>2, <1>3, <1>4, Zenon

\* The one frame on its way, and the load its answer adds.
LEMMA OneArrives ==
  ASSUME TypeInv, MeterReceives, NEW f, NEW before, NEW after,
         OneThing(f, before, after), NEW ans \in Seq(Frame)
  PROVE  /\ dataToSend = <<>> /\ dataToSend' = <<>> /\ toMeter = <<f>>
         /\ EchoIn(Stream) /\ Load <= before + (HalvesPerFrame - 2)
         /\ Head(toMeter) = f /\ toMeter' = <<>> /\ Load \in Int /\ InProcess' = InProcess
         /\ toClient' = toClient \o Bytes(ans) =>
              /\ Stream' = Stream \o Bytes(ans) /\ Bytes(ans) \in Seq(Half)
              /\ Load' = Load + Len(Bytes(ans)) /\ Stream \in Seq(Half)
<1>1. OnItsWay(f) /\ Load <= before + (HalvesPerFrame - 2)
  BY MeterKeeps, Zenon DEF OneThing, ToBeSent, Answered
<1>2. dataToSend = <<>> /\ toMeter = <<f>> /\ EchoIn(Stream)
  BY <1>1, Zenon DEF OnItsWay
<1>3. Head(<<f>>) = f /\ Tail(<<f>>) = <<>>
  OBVIOUS
<1>4. Head(toMeter) = f /\ toMeter' = <<>> /\ dataToSend' = <<>>
  BY <1>2, <1>3, MeterKeeps, Zenon
<1>5. Load \in Int
  BY StreamType, SMT DEF Load, TypeInv, Counters
<1>6. ASSUME toClient' = toClient \o Bytes(ans)
      PROVE  /\ Stream' = Stream \o Bytes(ans) /\ Bytes(ans) \in Seq(Half)
             /\ Load' = Load + Len(Bytes(ans))
  <2>1. Stream' = Stream \o Bytes(ans) /\ Bytes(ans) \in Seq(Half)
    BY <1>6, AnswerStream, Zenon
  <2>2. Len(toClient') = Len(toClient) + Len(Bytes(ans)) /\ Len(Bytes(ans)) \in Nat
    BY <1>6, <2>1, StreamType, Concatenated, Zenon
  <2>3. written' = written /\ mData' = mData /\ written \in Nat
    BY MeterKeeps DEF TypeInv, Counters
  <2> QED
    BY <2>1, <2>2, <2>3, StreamType, SMT DEF Load
<1> QED
  BY <1>1, <1>2, <1>4, <1>5, <1>6, StreamType, MeterKeeps, Zenon

\* The SNRM is answered with a UA.
LEMMA GreetsAnswers ==
  ASSUME TypeInv, TypeInv', Steady, MeterReceives, exchange = 0, pc # "failed"
  PROVE  Greets'
<1>1. /\ meter = Connected /\ hdlc = [type |-> "SNRM", sss |-> 0, rrr |-> 0]
      /\ InProcess
  <2>1. toMeter # <<>>
    BY Zenon DEF MeterReceives
  <2>2. pc \in {"idle", "end"} \/ InProcess
    BY DEF TypeInv, Counters, InProcess
  <2> QED
    BY <2>1, <2>2, Zenon DEF Steady, Greets, Silent
<1>2. /\ Waiting /\ rcv = <<>> /\ retries = Retries /\ send[1] \in Snrms
      /\ OneThing(send[1], 0, HalvesPerFrame)
  BY <1>1, Zenon DEF Steady, Greets
<1>3. PICK f : f = send[1]
  OBVIOUS
<1>4. /\ f.type = "SNRM" /\ f.type # "I" /\ f.type # "RR"
      /\ OneThing(f, 0, HalvesPerFrame)
  BY <1>2, <1>3 DEF Snrms
<1>5. <<UaFrame>> \in Seq(Frame) /\ Bytes(<<UaFrame>>) = Ua
  <2>1. Connected \in MeterType /\ 1 \in 0..Segments
    BY SizeAssumption, SMT DEF Connected, MeterType
  <2>2. UaFrame \in Frame
    BY <2>1, ReplyType, Zenon DEF UaFrame
  <2> QED
    BY <2>2, Singleton, Zenon DEF Ua
<1>6. Head(toMeter) = f /\ toMeter' = <<>> /\ dataToSend' = <<>> /\ EchoIn(Stream)
  BY <1>4, <1>5, OneArrives, Zenon
<1>7. meter' = Connected /\ toClient' = toClient \o Bytes(<<UaFrame>>)
  <2>1. Connected.answering = 0
    BY DEF Connected
  <2> QED
    BY <1>4, <1>6, <2>1, Zenon DEF MeterReceives, UaFrame
<1>8. /\ Stream' = Stream \o Ua /\ Load' = Load + Len(Ua) /\ Load \in Int
      /\ Load <= 0 + (HalvesPerFrame - 2) /\ Stream \in Seq(Half)
  BY <1>4, <1>5, <1>7, OneArrives, Zenon
<1>9. /\ UNCHANGED <<pc, exchange, send, retries, rcv, hdlc>>
      /\ InProcess' /\ Waiting'
  BY <1>1, <1>2, MeterKeeps, Zenon
<1>10. PartsIn(Stream)'
  <2>1. PICK s \in Seq(Half), u \in Seq(Half) : s = Stream /\ u = Ua
    BY <1>8, UaBytes
  <2>2. \A j \in 1..Len(u) :
          /\ Part(u[j])'
          /\ u[j].half = 1 /\ u[j].frame.poll_final = 1 => j >= Len(u) - 1
    <3>1. UaFrame.from = "meter" /\ UaFrame.info = <<0, 1>>
      BY UaBytes DEF UaFrame, Reply
    <3>2. UaFrame.info[1] = 0 /\ exchange' = 0
      BY <1>9, <3>1
    <3>3. /\ Len(u) = 2 /\ \A j \in 1..2 : u[j].frame = UaFrame
      BY <2>1, UaBytes
    <3>4. \A j \in 1..2 : j >= 2 - 1
      BY SMT
    <3>5. UaFrame' = UaFrame
      BY Zenon DEF UaFrame, Connected, Reply
    <3> QED
      BY <3>1, <3>2, <3>3, <3>4, <3>5, Zenon DEF Part
  <2>3. PartsIn(s \o u)'
    BY <1>6, <2>1, <2>2, PartsBehind, Zenon
  <2>4. Stream' = s \o u
    BY <1>8, <2>1
  <2> QED
    BY <2>3, <2>4, Zenon DEF PartsIn
<1>11. Load' <= HalvesPerFrame
  BY <1>8, UaBytes, HalvesType, SMT
<1>12. OneThing(send[1], 0, HalvesPerFrame)'
  BY <1>6, <1>10, <1>11, Zenon DEF OneThing, Answered, HalvesPerFrame
<1>13. pc' # "idle" /\ pc' # "end"
  BY <1>1, <1>9 DEF InProcess
<1> QED
  BY <1>1, <1>2, <1>7, <1>9, <1>12, <1>13, Zenon DEF Greets

\* What an RR and its echo leave room for.
LEMMA AnswerFits ==
  \A l, a, c \in Int : a + 1 <= c /\ l <= 4 * a + (4 - 2) => l + 2 * (c - a) <= 4 * c
BY SMT

\* The burst is put behind the echoes: an answer, whole and in time.
LEMMA BurstAnswers ==
  ASSUME TypeInv, MeterReceives, NEW f, NEW before \in Int, NEW after,
         OneThing(f, before, after), NEW m \in MeterType, meter' = m,
         m.answering = exchange, exchange # 0,
         toClient' = toClient \o Bytes(Burst(m)),
         NEW a \in Nat, a = m.acked, before = HalvesPerFrame * a, a # Segments
  PROVE  /\ dataToSend' = <<>> /\ Answered' /\ NearlyWhole(Stream, a)'
         /\ Load' <= HalvesPerFrame * Sent(m)
<1>1. Burst(m) \in Seq(Frame)
  BY BurstType
<1>2. /\ dataToSend' = <<>> /\ toMeter' = <<>> /\ EchoIn(Stream)
      /\ Load <= before + (HalvesPerFrame - 2) /\ Load \in Int
      /\ Stream' = Stream \o Bytes(Burst(m)) /\ Load' = Load + Len(Bytes(Burst(m)))
      /\ Stream \in Seq(Half)
  BY <1>1, OneArrives, Zenon
<1>3. /\ Bytes(Burst(m)) \in Seq(Half)
      /\ Len(Bytes(Burst(m))) = 2 * (Sent(m) - m.acked)
      /\ \A j \in 1..Len(Bytes(Burst(m))) :
           /\ Part(Bytes(Burst(m))[j])'
           /\ Bytes(Burst(m))[j].half = 1 /\ Bytes(Burst(m))[j].frame.poll_final = 1
                => j >= Len(Bytes(Burst(m))) - 1
           /\ Bytes(Burst(m))[j].frame.from # "client"
           /\ Number(Bytes(Burst(m))[j]) = 2 * m.acked + j
  <2>1. exchange' = exchange
    BY MeterKeeps, Zenon
  <2>2. m.answering = exchange' /\ exchange' # 0
    BY <2>1
  <2> QED
    BY <2>2, BurstParts
<1>4. PICK s \in Seq(Half), B \in Seq(Half), c \in Nat :
        /\ s = Stream /\ B = Bytes(Burst(m)) /\ c = Sent(m)
        /\ a < c
  <2>1. Sent(m) \in m.acked..Segments /\ Sent(m) \in Nat /\ m.acked \in Nat
    BY BurstBytes, Zenon
  <2>2. m.acked < Sent(m)
    <3>1. m.acked \in 0..Segments
      BY DEF MeterType
    <3> QED
      BY <3>1, SizeAssumption, SMT DEF Sent
  <2> QED
    BY <1>2, <1>3, <2>1, <2>2, Zenon
<1>5. Stream' = s \o B /\ EchoIn(s)
  BY <1>2, <1>4, Zenon
<1>6. Answered'
  <2>1. \A j \in 1..Len(B) :
          /\ Part(B[j])'
          /\ B[j].half = 1 /\ B[j].frame.poll_final = 1 => j >= Len(B) - 1
    BY <1>3, <1>4, Zenon
  <2>2. PartsIn(s \o B)'
    BY <1>5, <2>1, PartsBehind, Zenon
  <2> QED
    BY <1>2, <1>5, <2>2, Zenon DEF Answered, PartsIn
<1>7. NearlyWhole(Stream, a)'
  <2>1. \A j \in 1..Len(B) : B[j].frame.from # "client" /\ Number(B[j]) = 2 * a + j
    BY <1>3, <1>4, Zenon
  <2>2. losses' \in Nat /\ a \in Int
    BY MeterKeeps
  <2>3. NearlyWhole(s \o B, a)'
    BY <1>5, <2>1, <2>2, WholeBehind, Zenon
  <2> QED
    BY <1>5, <2>3, Zenon DEF NearlyWhole, NumberBefore, Number
<1>8. Load' <= HalvesPerFrame * Sent(m)
  <2>1. PICK l \in Int : l = Load
    BY <1>2
  <2>2. Load' = l + 2 * (c - a)
    BY <1>2, <1>3, <1>4, <2>1, Zenon
  <2>3. CASE HalvesPerFrame = 2
    <3>1. l <= 2 * a + (2 - 2)
      BY <1>2, <1>4, <2>1, <2>3, Zenon
    <3>2. l + 2 * (c - a) <= 2 * c
      BY <1>4, <2>1, <3>1, SMT
    <3> QED
      BY <1>4, <2>2, <2>3, <3>2, Zenon
  <2>4. CASE HalvesPerFrame = 4
    <3>1. l <= 4 * a + (4 - 2)
      BY <1>2, <1>4, <2>1, <2>4, Zenon
    <3>2. l + 2 * (c - a) <= 4 * c
      <4>1. a + 1 <= c
        BY <1>4, SMT
      <4>2. l \in Int /\ a \in Int /\ c \in Int
        OBVIOUS
      <4> QED
        BY <3>1, <4>1, <4>2, AnswerFits, Zenon
    <3> QED
      BY <1>4, <2>2, <2>4, <3>2, Zenon
  <2> QED
    BY <2>3, <2>4, HalvesType
<1> QED
  BY <1>2, <1>6, <1>7, <1>8, Zenon

\* A request the meter has not seen: it has now, and nothing is received of the
\* answer yet.
LEMMA UnseenAnswers ==
  ASSUME TypeInv, TypeInv', Unseen, MeterReceives, exchange > 0, pc # "failed"
  PROVE  Seen(0)' /\ meter'.answering = exchange'
<1>1. /\ toMeter # <<>> /\ exchange \in Nat /\ exchange # 0 /\ InProcess
  <2>1. toMeter # <<>>
    BY Zenon DEF MeterReceives
  <2>2. pc \in {"idle", "end"} \/ InProcess
    BY DEF TypeInv, Counters, InProcess
  <2>3. exchange \in Nat /\ exchange # 0
    BY SizeAssumption, SMT DEF TypeInv, Counters
  <2> QED
    BY <2>1, <2>2, <2>3, Zenon DEF Unseen, Silent
<1>2. /\ meter.answering = exchange - 1 /\ hdlc.rrr = NextBase
      /\ Waiting /\ rcv = <<>> /\ retries = 0 /\ hdlc.type = "I"
      /\ Requested(send[1]) /\ send[1].sss = meter.vr
      /\ OneThing(send[1], 0, 0)
      /\ hdlc.sss = IF dataToSend # <<>> THEN meter.vr ELSE NextSeq(meter.vr)
  BY <1>1, Zenon DEF Unseen
<1>3. PICK f : f = send[1]
  OBVIOUS
<1>4. /\ OneThing(f, 0, 0) /\ f.type = "I" /\ f.type # "SNRM" /\ f.type # "RR"
      /\ f.info[1] = exchange /\ f.sss = meter.vr
  BY <1>2, <1>3 DEF Requested, Current
<1>5. Head(toMeter) = f /\ dataToSend = <<>>
  <2>1. <<>> \in Seq(Frame)
    BY EmptySeq
  <2> QED
    BY <1>4, <2>1, OneArrives, Zenon
<1>6. PICK m : m = Answering(f)
  OBVIOUS
<1>7. /\ m.vr = NextSeq(meter.vr) /\ m.answering = exchange /\ m.acked = 0
      /\ m.base = NextBase
  BY <1>4, <1>6 DEF Answering, NextBase
<1>8. meter' = m /\ toClient' = toClient \o Bytes(Burst(m))
  <2>1. m.answering # 0 /\ m.acked < Segments
    BY <1>1, <1>7, SizeAssumption, SMT
  <2> QED
    BY <1>4, <1>5, <1>6, <2>1, Zenon DEF MeterReceives
<1>9. m \in MeterType
  BY <1>8, Zenon DEF TypeInv, Counters, MeterType
<1>10. /\ dataToSend' = <<>> /\ Answered' /\ NearlyWhole(Stream, 0)'
       /\ Load' <= HalvesPerFrame * Sent(m)
  <2>1. 0 = HalvesPerFrame * 0 /\ 0 # Segments /\ 0 \in Int /\ 0 \in Nat
    <3>1. PICK H \in Int : H = HalvesPerFrame
      BY HalvesType
    <3>2. H * 0 = 0
      BY SMT
    <3> QED
      BY <1>7, <3>1, <3>2, SizeAssumption
  <2> QED
    BY <1>1, <1>4, <1>7, <1>8, <1>9, <2>1, BurstAnswers, Zenon
<1>11. /\ UNCHANGED <<pc, exchange, send, retries, retCode, rcv, hdlc>>
       /\ InProcess' /\ Waiting'
  BY <1>1, <1>2, MeterKeeps, Zenon
<1>12. Sent(meter)' = Sent(m)
  BY <1>8, Zenon DEF Sent
<1>13. Resuming(0)'
  <2>1. OneThing(ReceiveReady(hdlc.rrr), HalvesPerFrame * 0,
                 HalvesPerFrame * Sent(meter))'
    BY <1>8, <1>10, Zenon DEF OneThing, HalvesPerFrame, Sent
  <2> QED
    BY <1>10, <2>1, Zenon DEF Resuming
<1>14. Repetition(send[1])'
  BY <1>3, <1>4, <1>2, <1>7, <1>8, <1>11, Zenon DEF Repetition, Requested, Current
<1>15. /\ 0 \in meter'.acked..Sent(meter)' /\ hdlc'.rrr = SeqAfter(meter'.base, 0)
       /\ hdlc'.sss = meter'.vr
  <2>1. 0 \in m.acked..Sent(m)
    BY <1>7, SizeAssumption, SMT DEF Sent
  <2>2. m.base \in 0..LastSeq
    BY <1>9 DEF MeterType
  <2>3. SeqAfter(m.base, 0) = m.base
    BY <2>2, AfterNone
  <2>4. hdlc.sss = NextSeq(meter.vr)
    BY <1>2, <1>5
  <2> QED
    BY <1>2, <1>7, <1>8, <1>11, <1>12, <2>1, <2>3, <2>4, Zenon
<1>16. /\ retCode' <=> 0 = Segments
       /\ \A i \in 1..Len(rcv') : rcv'[i][1] = exchange'
       /\ LastOf(rcv, 0)'
  <2>1. ~retCode' /\ 0 # Segments
    BY <1>2, <1>11, SizeAssumption DEF Waiting
  <2>2. \A i \in 1..Len(<<>>) : FALSE
    BY EmptySeq, SMT
  <2> QED
    BY <1>2, <1>11, <2>1, <2>2, Zenon DEF LastOf
<1>17. pc' # "idle" /\ pc' # "end"
  BY <1>1, <1>11 DEF InProcess
<1>18. hdlc'.type = "I" /\ retries' = 0
  BY <1>2, <1>11
<1> QED
  BY <1>7, <1>8, <1>11, <1>13, <1>14, <1>15, <1>16, <1>17, <1>18, Zenon DEF Seen

\* An RR for what follows the first got segments: the meter goes on there.
LEMMA AskedAnswers ==
  ASSUME TypeInv, TypeInv', MeterReceives, NEW got \in meter.acked..Sent(meter),
         OneThing(ReceiveReady(hdlc.rrr), HalvesPerFrame * got,
                  HalvesPerFrame * Sent(meter)),
         hdlc.rrr = SeqAfter(meter.base, got), got # Segments,
         meter.answering = exchange, exchange > 0
  PROVE  /\ dataToSend' = <<>> /\ NearlyWhole(Stream, got)'
         /\ OneThing(ReceiveReady(hdlc.rrr), HalvesPerFrame * got,
                     HalvesPerFrame * Sent(meter))'
         /\ meter' = [meter EXCEPT !.acked = got]
<1>1. PICK f : f = ReceiveReady(hdlc.rrr)
  OBVIOUS
<1>2. /\ f.type = "RR" /\ f.type # "SNRM" /\ f.type # "I"
      /\ f.rrr = SeqAfter(meter.base, got)
  BY <1>1 DEF ReceiveReady
<1>3. PICK before \in Int, after \in Int :
        before = HalvesPerFrame * got /\ after = HalvesPerFrame * Sent(meter)
  BY GotType, Zenon
<1>4. OneThing(f, before, after)
  BY <1>1, <1>3, Zenon
<1>5. Head(toMeter) = f
  <2>1. <<>> \in Seq(Frame)
    BY EmptySeq
  <2> QED
    BY <1>4, <2>1, OneArrives, Zenon
<1>6. meter \in MeterType /\ got \in Nat /\ got <= Segments /\ exchange # 0
  BY GotType
<1>7. PICK m : m = [meter EXCEPT !.acked = got]
  OBVIOUS
<1>8. AckedBy(f) = m
  BY <1>2, <1>6, <1>7, AckedIs, ZenonT(60)
<1>9. /\ m.acked = got /\ m.vr = meter.vr /\ m.base = meter.base
      /\ m.answering = meter.answering
  BY <1>6, <1>7 DEF MeterType
<1>10. meter' = m /\ toClient' = toClient \o Bytes(Burst(m))
  <2>1. m.answering # 0 /\ m.acked < Segments
    BY <1>6, <1>9, SizeAssumption, SMT
  <2>2. meter' = m
    BY <1>2, <1>5, <1>8, Zenon DEF MeterReceives
  <2> QED
    BY <1>2, <1>5, <1>8, <2>1, <2>2, Zenon DEF MeterReceives
<1>11. m \in MeterType
  BY <1>10, Zenon DEF TypeInv, Counters, MeterType
<1>12. /\ dataToSend' = <<>> /\ Answered' /\ NearlyWhole(Stream, got)'
       /\ Load' <= HalvesPerFrame * Sent(m)
  BY <1>3, <1>4, <1>6, <1>9, <1>10, <1>11, BurstAnswers, Zenon
<1>13. OneThing(ReceiveReady(hdlc.rrr), HalvesPerFrame * got,
                HalvesPerFrame * Sent(meter))'
  BY <1>10, <1>12, Zenon DEF OneThing, HalvesPerFrame, Sent
<1> QED
  BY <1>7, <1>10, <1>12, <1>13, Zenon

\* A repetition is not answered, or with an RR.
LEMMA RepetitionsAnswers ==
  ASSUME TypeInv, TypeInv', MeterReceives, Repetitions
  PROVE  Repetitions' /\ meter' = meter
<1>1. toMeter # <<>> /\ toMeter' = Tail(toMeter) /\ exchange' = exchange
  BY MeterKeeps, Zenon
<1>2. Head(toMeter) = toMeter[1]
  BY <1>1, HeadTailProperties DEF TypeInv, Streams
<1>3. /\ 1 \in 1..Len(toMeter)
      /\ \A i \in 1..Len(toMeter') :
           i + 1 \in 1..Len(toMeter) /\ toMeter'[i] = toMeter[i + 1]
  BY <1>1, TailOfRequests
<1>4. PICK f : f = toMeter[1]
  OBVIOUS
<1>5. Repetition(f) /\ meter \in MeterType
  BY <1>3, <1>4, GotType, Zenon DEF Repetitions
<1>6. NextSeq(meter.vr) # meter.vr
  BY <1>5, NextIsOther DEF MeterType
<1>7. f.type = "I" /\ f.type # "SNRM" /\ f.type # "RR" /\ f.sss # meter.vr
  BY <1>5, <1>6 DEF Repetition, Requested, Current
<1>8. /\ meter' = meter
      /\ \/ toClient' = toClient \o Bytes(<<>>)
         \/ toClient' = toClient \o Bytes(<<Reply(meter, "RR", 0, TRUE)>>)
  BY <1>2, <1>4, <1>7, Zenon DEF MeterReceives
<1>9. PICK ans \in Seq(Frame) :
        toClient' = toClient \o Bytes(ans) /\ Bytes(ans) \in Seq(Others)
  BY <1>5, <1>8, NoAnswer, Zenon
<1>10. Stream' \in Seq(Others)
  <2>1. Stream' = Stream \o Bytes(ans) /\ Bytes(ans) \in Seq(Half)
    BY <1>9, AnswerStream, Zenon
  <2> QED
    BY <1>9, <2>1, StreamType, OthersConcat, Zenon DEF Repetitions
<1>11. ASSUME NEW i \in 1..Len(toMeter')
       PROVE  Repetition(toMeter'[i])
  BY <1>3, Zenon DEF Repetitions
<1>12. Repetitions'
  BY <1>1, <1>8, <1>10, <1>11, Zenon DEF Repetitions, Repetition, Requested, Current
<1> QED
  BY <1>8, <1>12

\* What the client has got stays got, whatever the meter answers.
LEMMA SeenAnswers ==
  ASSUME TypeInv, TypeInv', NEW got, Seen(got), MeterReceives,
         meter.answering = exchange, exchange > 0, pc # "failed"
  PROVE  Seen(got)' /\ meter'.answering = exchange'
<1>1. /\ UNCHANGED <<exchange, send, dataToSend, retries, retCode, rcv>>
      /\ pc' = pc /\ hdlc' = hdlc
      /\ InProcess' = InProcess /\ Waiting' = Waiting /\ toMeter # <<>>
  BY MeterKeeps, Zenon
<1>2. /\ pc # "idle" /\ Repetition(send[1]) /\ hdlc.sss = meter.vr
      /\ got \in meter.acked..Sent(meter) /\ hdlc.rrr = SeqAfter(meter.base, got)
      /\ retCode <=> got = Segments
      /\ \A i \in 1..Len(rcv) : rcv[i][1] = exchange
      /\ MaxLosses <= 1 => LastOf(rcv, got)
      /\ pc = "end" =>
           IF retCode THEN Silent
                      ELSE Repetitions /\ (hdlc.type = "RR" \/ Retries = 0)
      /\ InProcess =>
           /\ Waiting /\ (hdlc.type = "RR" \/ (hdlc.type = "I" /\ retries = 0))
           /\ Resuming(got)
  BY Zenon DEF Seen
<1>3. meter \in MeterType /\ got \in Nat /\ got <= Segments
  BY <1>2, GotType
<1>4. ASSUME meter' = meter \/ meter' = [meter EXCEPT !.acked = got],
             pc = "end" =>
               ~retCode /\ Repetitions' /\ (hdlc.type = "RR" \/ Retries = 0),
             InProcess => Resuming(got)'
      PROVE  Seen(got)' /\ meter'.answering = exchange'
  <2>1. /\ meter'.vr = meter.vr /\ meter'.base = meter.base
        /\ meter'.answering = meter.answering
        /\ got \in meter'.acked..Sent(meter')
    <3>1. CASE meter' = meter
      BY <1>2, <3>1, Zenon
    <3>2. CASE meter' = [meter EXCEPT !.acked = got]
      <4>1. /\ meter'.vr = meter.vr /\ meter'.base = meter.base
            /\ meter'.answering = meter.answering /\ meter'.acked = got
        BY <1>3, <3>2 DEF MeterType
      <4>2. got \in got..Sent(meter')
        BY <1>3, <4>1, SizeAssumption, SMT DEF Sent
      <4> QED
        BY <4>1, <4>2, Zenon
    <3> QED
      BY <1>4, <3>1, <3>2
  <2>2. Repetition(send[1])'
    BY <1>1, <1>2, <2>1, Zenon DEF Repetition, Requested, Current
  <2>3. MaxLosses <= 1 => LastOf(rcv, got)'
    BY <1>1, <1>2, Zenon DEF LastOf
  <2>4. /\ hdlc'.sss = meter'.vr /\ got \in meter'.acked..Sent(meter)'
        /\ hdlc'.rrr = SeqAfter(meter'.base, got)
        /\ retCode' <=> got = Segments
        /\ \A i \in 1..Len(rcv') : rcv'[i][1] = exchange'
    BY <1>1, <1>2, <2>1, Zenon DEF Sent
  <2>5. InProcess' =>
          /\ Waiting'
          /\ (hdlc'.type = "RR" \/ (hdlc'.type = "I" /\ retries' = 0))
          /\ Resuming(got)'
    BY <1>1, <1>2, <1>4, Zenon
  <2>6. pc' = "end" =>
          ~retCode' /\ Repetitions' /\ (hdlc'.type = "RR" \/ Retries = 0)
    BY <1>1, <1>4, Zenon
  <2> QED
    BY <1>1, <1>2, <2>1, <2>2, <2>3, <2>4, <2>5, <2>6, Zenon DEF Seen
<1>5. CASE ~InProcess
  <2>1. pc = "end"
    BY <1>2, <1>5 DEF TypeInv, Counters, InProcess
  <2>2. ~retCode /\ Repetitions /\ (hdlc.type = "RR" \/ Retries = 0)
    BY <1>1, <1>2, <2>1, Zenon DEF Silent
  <2> QED
    BY <1>4, <1>5, <2>2, RepetitionsAnswers, Zenon
<1>6. CASE InProcess
  <2>1. pc # "end"
    BY <1>6 DEF InProcess
  <2>2. CASE OneThing(ReceiveReady(hdlc.rrr), HalvesPerFrame * got,
                      HalvesPerFrame * Sent(meter))
    <3>1. got # Segments
      BY <1>2, <1>6, Zenon DEF Waiting
    <3>2. /\ dataToSend' = <<>> /\ NearlyWhole(Stream, got)'
          /\ OneThing(ReceiveReady(hdlc.rrr), HalvesPerFrame * got,
                      HalvesPerFrame * Sent(meter))'
          /\ meter' = [meter EXCEPT !.acked = got]
      BY <1>2, <2>2, <3>1, AskedAnswers, Zenon
    <3>3. Resuming(got)'
      BY <3>2, Zenon DEF Resuming
    <3> QED
      BY <1>4, <2>1, <3>2, <3>3, Zenon
  <2>3. CASE dataToSend \in {<<>>, send} /\ hdlc.type = "RR" /\ Repetitions
    <3>1. Repetitions' /\ meter' = meter
      BY <2>3, RepetitionsAnswers, Zenon
    <3>2. Resuming(got)'
      BY <1>1, <2>3, <3>1, Zenon DEF Resuming
    <3> QED
      BY <1>4, <2>1, <3>1, <3>2, Zenon
  <2> QED
    BY <1>2, <1>6, <2>2, <2>3, Zenon DEF Resuming
<1> QED
  BY <1>5, <1>6

\* All of it together.
LEMMA SteadyAnswers ==
  ASSUME TypeInv, TypeInv', Steady, MeterReceives
  PROVE  Greets' /\ Pacing'
<1>1. pc' = pc /\ exchange' = exchange
  BY MeterKeeps, Zenon
<1>2. exchange \in Nat
  BY SizeAssumption, SMT DEF TypeInv, Counters
<1>3. CASE pc = "failed"
  BY <1>1, <1>3, Zenon DEF Greets, Pacing
<1>4. CASE pc # "failed" /\ exchange = 0
  <2>1. ~(exchange' > 0)
    BY <1>1, <1>4
  <2> QED
    BY <1>4, <2>1, GreetsAnswers, Zenon DEF Pacing
<1>5. CASE pc # "failed" /\ exchange > 0
  <2>1. exchange' # 0
    BY <1>1, <1>5
  <2>2. 0 \in 0..Segments
    BY SizeAssumption, SMT
  <2>3. meter'.answering = exchange' /\ \E got \in 0..Segments : Seen(got)'
    <3>1. CASE meter.answering = exchange
      BY <1>5, <3>1, SeenAnswers, Zenon DEF Steady, Pacing
    <3>2. CASE meter.answering # exchange
      BY <1>5, <2>2, <3>2, UnseenAnswers, Zenon DEF Steady, Pacing
    <3> QED
      BY <3>1, <3>2
  <2> QED
    BY <2>1, <2>3, Zenon DEF Greets, Pacing
<1> QED
  BY <1>2, <1>3, <1>4, <1>5, SMT

-----------------------------------------------------------------------------
(* What the client decodes                                                 *)

\* Only a frame of an answer can be at the head of echoes and parts.
LEMMA OnlyAnswered ==
  ASSUME TypeInv, pc = "decode", HeadDecodes,
         NEW f, NEW before, NEW after, OneThing(f, before, after)
  PROVE  /\ PartsIn(Stream) /\ Answered /\ Load <= after
<1>1. PartsIn(Stream)
  BY OneThingParts
<1>2. Stream[1].frame.from = "meter" /\ 1 \in 1..Len(Stream)
  BY <1>1, HeadIsPart
<1>3. ~ToBeSent(f) /\ ~OnItsWay(f)
  BY <1>2 DEF ToBeSent, OnItsWay, EchoIn
<1> QED
  BY <1>1, <1>3, Zenon DEF OneThing

\* The two halves that DecodeFrame takes away, and what is behind them.
LEMMA FrameTaken ==
  ASSUME TypeInv, DecodeFrame
  PROVE  \E a \in Seq(Half), t \in Seq(Half), f \in Frame :
           /\ Stream = a \o t /\ t = unread' \o (mData \o toClient)
           /\ Len(a) = 2 /\ Len(Stream) = 2 + Len(t)
           /\ a[1] = unread[1] /\ a[2] = [unread[1] EXCEPT !.half = 2]
           /\ unread[1].frame = f /\ f.from = "meter" /\ f.type # "RR"
           /\ t = <<>> => unread' = <<>> /\ mData = <<>> /\ toClient = <<>>
<1>1. PICK a \in Seq(Half) :
        /\ Len(a) = 2 /\ unread = a \o unread' /\ a[1] = unread[1]
        /\ Stream = a \o (unread' \o (mData \o toClient))
        /\ unread' \in Seq(Half) /\ a[1].frame \in Frame
  BY DecodeTakes, Zenon
<1>2. /\ unread[2] = [unread[1] EXCEPT !.half = 2]
      /\ unread[1].frame.from = "meter" /\ unread[1].frame.type # "RR"
  BY Zenon DEF DecodeFrame, HeadDecodes
<1>3. a[2] = unread[2]
  <2>1. 2 \in 1..Len(a)
    BY <1>1, SMT
  <2> QED
    BY <1>1, <2>1, Concatenated, Zenon
<1>4. PICK u \in Seq(Half), m \in Seq(Half), c \in Seq(Half) :
        u = unread' /\ m = mData /\ c = toClient
  BY <1>1, StreamType
<1>5. PICK t \in Seq(Half) : t = u \o (m \o c)
  BY <1>4, ConcatProperties
<1>6. Len(a \o t) = 2 + Len(t)
  <2>1. Len(a \o t) = Len(a) + Len(t)
    BY Concatenated
  <2> QED
    BY <1>1, <2>1, Zenon
<1>7. ASSUME t = <<>> PROVE u = <<>> /\ m = <<>> /\ c = <<>>
  <2>1. Len(t) = 0
    BY <1>7, EmptySeq
  <2>2. /\ Len(t) = Len(u) + Len(m \o c) /\ Len(m \o c) = Len(m) + Len(c)
        /\ Len(u) \in Nat /\ Len(m) \in Nat /\ Len(c) \in Nat
    <3>1. m \o c \in Seq(Half) /\ Len(m \o c) = Len(m) + Len(c)
          /\ Len(m) \in Nat /\ Len(c) \in Nat
      BY Concatenated
    <3>2. Len(u \o (m \o c)) = Len(u) + Len(m \o c) /\ Len(u) \in Nat
      BY <3>1, Concatenated, Zenon
    <3> QED
      BY <1>5, <3>1, <3>2
  <2>3. Len(u) = 0 /\ Len(m) = 0 /\ Len(c) = 0
    <3>1. PICK x \in Nat, y \in Nat, z \in Nat :
            x = Len(u) /\ y = Len(m) /\ z = Len(c) /\ 0 = x + (y + z)
      BY <2>1, <2>2, Zenon
    <3>2. x = 0 /\ y = 0 /\ z = 0
      BY <3>1, SMT
    <3> QED
      BY <3>1, <3>2, Zenon
  <2> QED
    BY <2>3, EmptySeq
<1>8. /\ Stream = a \o t /\ t = unread' \o (mData \o toClient)
      /\ Len(Stream) = 2 + Len(t)
      /\ t = <<>> => unread' = <<>> /\ mData = <<>> /\ toClient = <<>>
  BY <1>1, <1>4, <1>5, <1>6, <1>7, Zenon
<1>9. a[1] = unread[1] /\ a[2] = [unread[1] EXCEPT !.half = 2] /\ Len(a) = 2
  BY <1>1, <1>2, <1>3
<1>10. PICK f \in Frame : f = unread[1].frame /\ f.from = "meter" /\ f.type # "RR"
  BY <1>1, <1>2
<1> QED
  BY <1>8, <1>9, <1>10, Zenon

\* What DecodeFrame leaves alone, and what becomes of the rest.
LEMMA DecodeDoes ==
  ASSUME TypeInv, DecodeFrame, Waiting, NEW f, f = unread[1].frame
  PROVE  /\ UNCHANGED <<exchange, attempts, send, dataSent, retries, mData, toClient,
                        toMeter, meter, losses, written>>
         /\ pc = "decode" /\ HeadDecodes /\ InProcess /\ pc # "failed"
         /\ rcv' = Append(rcv, f.info)
         /\ Load' = Load
         /\ hdlc'.sss = hdlc.sss
         /\ hdlc'.rrr = IF f.type = "I" THEN NextSeq(f.sss) ELSE hdlc.rrr
         /\ Final(f) =>
              /\ retCode' /\ ~loop' /\ hdlc'.type = hdlc.type /\ dataToSend' = dataToSend
              /\ unread' = <<>> => pc' = "end"
         /\ ~Final(f) =>
              /\ retCode' = retCode /\ loop' = loop /\ Waiting'
              /\ pc' = IF unread' = <<>> THEN "send" ELSE "decode"
              /\ InProcess'
         /\ ~Final(f) /\ f.segmentation = 1 /\ f.poll_final = 1 =>
              hdlc'.type = "RR" /\ dataToSend' = <<ReceiveReady(hdlc'.rrr)>>
         /\ f.poll_final = 0 =>
              hdlc'.type = hdlc.type /\ dataToSend' = dataToSend
<1>1. PICK more, rrr, h :
        /\ more = (~Final(f) /\ f.segmentation = 1 /\ f.poll_final = 1)
        /\ rrr = IF f.type = "I" THEN NextSeq(f.sss) ELSE hdlc.rrr
        /\ h = hdlc
  OBVIOUS
<1>2. /\ rcv' = Append(rcv, f.info)
      /\ hdlc' = [h EXCEPT !.rrr = rrr, !.type = IF more THEN "RR" ELSE h.type]
      /\ dataToSend' = IF more THEN <<ReceiveReady(rrr)>> ELSE dataToSend
      /\ retCode' = (retCode \/ Final(f)) /\ loop' = (loop /\ ~Final(f))
      /\ pc' = IF unread' = <<>> THEN Turn(loop') ELSE "decode"
      /\ pc = "decode" /\ HeadDecodes
      /\ UNCHANGED <<mailbox, caller, send, dataSent, retries, written, line>>
  BY <1>1, Zenon DEF DecodeFrame
<1>3. /\ h \in [type : {"SNRM", "I", "RR"}, sss : 0..LastSeq, rrr : 0..LastSeq]
      /\ loop \in BOOLEAN /\ retCode \in BOOLEAN
  BY <1>1, Zenon DEF TypeInv, Counters
<1>4. /\ hdlc'.sss = h.sss /\ hdlc'.rrr = rrr
      /\ more => hdlc'.type = "RR"
      /\ ~more => hdlc'.type = h.type
  BY <1>2, <1>3
<1>5. /\ UNCHANGED <<exchange, attempts, send, dataSent, retries, mData, toClient,
                     toMeter, meter, losses, written>>
  BY <1>2, Zenon DEF mailbox, caller, line
<1>6. Load' = Load
  BY <1>5, Zenon DEF Load
<1>7. InProcess /\ pc # "failed"
  BY <1>2 DEF InProcess
<1>8. ASSUME Final(f)
      PROVE  /\ ~more /\ retCode' /\ ~loop'
             /\ unread' = <<>> => pc' = "end"
  BY <1>1, <1>2, <1>3, <1>8 DEF Turn
<1>9. ASSUME ~Final(f)
      PROVE  /\ retCode' = retCode /\ loop' = loop /\ Waiting'
             /\ pc' = IF unread' = <<>> THEN "send" ELSE "decode"
             /\ InProcess'
  <2>1. retCode' = retCode /\ loop' = loop
    BY <1>2, <1>3, <1>9
  <2>2. Waiting'
    BY <1>5, <2>1, Zenon DEF Waiting
  <2>3. pc' = IF unread' = <<>> THEN "send" ELSE "decode"
    BY <1>2, <2>2 DEF Turn, Waiting
  <2>4. InProcess'
    BY <2>3 DEF InProcess
  <2> QED
    BY <2>1, <2>2, <2>3, <2>4
<1>10. f.poll_final = 0 => ~more
  <2>1. f.poll_final = 0 => f.poll_final # 1
    BY SMT
  <2> QED
    BY <1>1, <2>1, Zenon
<1> QED
  BY <1>1, <1>2, <1>4, <1>5, <1>6, <1>7, <1>8, <1>9, <1>10, Zenon

\* The UA ends the exchange of ConnectHdlc, and nothing is behind it.
LEMMA GreetsDecodes ==
  ASSUME TypeInv, TypeInv', Steady, DecodeFrame, exchange = 0
  PROVE  Greets' /\ exchange' = 0
<1>1. pc = "decode" /\ HeadDecodes
  BY Zenon DEF DecodeFrame
<1>2. InProcess /\ pc # "failed"
  BY <1>1 DEF InProcess
<1>3. /\ meter = Connected /\ hdlc = [type |-> "SNRM", sss |-> 0, rrr |-> 0]
      /\ Waiting /\ rcv = <<>>
      /\ OneThing(send[1], 0, HalvesPerFrame)
  BY <1>2, Zenon DEF Steady, Greets
<1>4. PartsIn(Stream) /\ Answered
  <2>1. PICK f : f = send[1]
    OBVIOUS
  <2> QED
    BY <1>1, <1>3, <2>1, OnlyAnswered, Zenon
<1>5. PICK f : f = unread[1].frame
  OBVIOUS
<1>6. /\ Part(unread[1])
      /\ unread[1].frame.poll_final = 1 => Len(Stream) <= 2
  BY <1>1, <1>4, HeadIsPart, Zenon
<1>7. f = UaFrame
  BY <1>5, <1>6, Zenon DEF Part
<1>8. Final(f) /\ f.type # "I" /\ f.info = <<0, 1>> /\ f.poll_final = 1
  BY <1>7, UaBytes DEF Final
<1>9. unread' = <<>> /\ mData = <<>> /\ toClient = <<>>
  <2>1. PICK t \in Seq(Half) :
          /\ Len(Stream) = 2 + Len(t)
          /\ t = <<>> => unread' = <<>> /\ mData = <<>> /\ toClient = <<>>
    BY FrameTaken, Zenon
  <2>2. Len(t) \in Nat /\ Len(Stream) <= 2
    BY <1>5, <1>6, <1>8, LenProperties
  <2>3. Len(t) = 0
    BY <2>1, <2>2, SMT
  <2> QED
    BY <2>1, <2>3, EmptySeq
<1>10. /\ UNCHANGED <<exchange, send, mData, toClient, toMeter, meter>>
       /\ rcv' = Append(rcv, f.info) /\ retCode' /\ ~loop' /\ pc' = "end"
       /\ hdlc'.type = hdlc.type /\ hdlc'.sss = hdlc.sss /\ hdlc'.rrr = hdlc.rrr
  BY <1>3, <1>5, <1>8, <1>9, DecodeDoes, Zenon
<1>11. hdlc' = hdlc
  <2>1. hdlc \in [type : {"SNRM", "I", "RR"}, sss : 0..LastSeq, rrr : 0..LastSeq]
        /\ hdlc' \in [type : {"SNRM", "I", "RR"}, sss : 0..LastSeq, rrr : 0..LastSeq]
    BY Zenon DEF TypeInv, Counters
  <2> QED
    BY <1>10, <2>1
<1>12. rcv' = <<<<0, 1>>>>
  <2>1. rcv' = Append(<<>>, <<0, 1>>)
    BY <1>3, <1>8, <1>10, Zenon
  <2>2. Append(<<>>, <<0, 1>>) = <<<<0, 1>>>>
    BY SMT
  <2> QED
    BY <2>1, <2>2, Zenon
<1>13. Silent'
  BY <1>4, <1>9, <1>10, Zenon DEF Silent, Answered
<1>14. ~InProcess' /\ pc' # "idle"
  BY <1>10 DEF InProcess
<1> QED
  BY <1>3, <1>10, <1>11, <1>12, <1>13, <1>14, Zenon DEF Greets

\* The number of the halves of the frame at the head.
LEMMA HeadNumbers ==
  \A k, got \in Int : \A l \in 0..1 :
    /\ (2 * (k - 1) + 1) - 2 * got \in 1..l + 1 => k = got + 1
    /\ 2 * (k - 1) + 2 = 2 * k
BY SMT

\* With one half lost at most, the frame at the head is the one expected, and
\* what is behind it is as whole.
LEMMA WholeBehindHead ==
  ASSUME NEW a \in Seq(Half), NEW t \in Seq(Half), Len(a) = 2,
         a[1].frame.from # "client", a[1].half = 1,
         a[2] = [a[1] EXCEPT !.half = 2], NEW k \in Int, k = a[1].frame.info[2],
         NEW got \in Int, NearlyWhole(a \o t, got), losses \in 0..1
  PROVE  k = got + 1 /\ NearlyWhole(t, k)
<1>1. PICK s \in Seq(Half), n \in Nat : s = a \o t /\ n = Len(t)
  BY ConcatProperties, LenProperties
<1>2. /\ Len(s) = 2 + n /\ s[1] = a[1] /\ s[2] = a[2]
      /\ \A p \in 1..n : s[2 + p] = t[p]
  <2>1. /\ a \o t \in Seq(Half) /\ Len(a \o t) = Len(a) + Len(t)
        /\ \A p \in 1..Len(a) : (a \o t)[p] = a[p]
        /\ \A p \in 1..Len(t) : (a \o t)[Len(a) + p] = t[p]
    BY Concatenated
  <2>2. 1 \in 1..2 /\ 2 \in 1..2
    BY SMT
  <2> QED
    BY <1>1, <2>1, <2>2, Zenon
<1>3. /\ a[1] \in Half /\ a[2].frame = a[1].frame /\ a[2].half = 2
  <2>1. 1 \in 1..Len(a)
    BY SMT
  <2>2. a[1] \in Half
    BY <2>1, ElementOfSeq, Zenon
  <2> QED
    BY <2>2 DEF Half
<1>4. Number(a[1]) = 2 * (k - 1) + 1 /\ Number(a[2]) = 2 * k
  <2>1. Number(a[1]) = 2 * (k - 1) + 1 /\ Number(a[2]) = 2 * (k - 1) + 2
    BY <1>3, Zenon DEF Number
  <2> QED
    BY <2>1, HeadNumbers, Zenon
<1>5. \A p \in 1..2 + n : s[p].frame.from # "client" =>
        /\ \A r \in p..2 + n : s[r].frame.from # "client"
        /\ Number(s[p]) - NumberBefore(s, p, got) \in 1..losses + 1
  BY <1>1, <1>2, Zenon DEF NearlyWhole
<1>6. /\ 1 \in 1..2 + n /\ \A p \in 1..n : 2 + p \in 1..2 + n
      /\ \A p \in 1..n : (2 + p) - 1 \in 1..2 + n /\ 2 + p # 1
      /\ \A p \in 1..n : p = 1 => (2 + p) - 1 = 2
      /\ \A p \in 1..n : p # 1 => p - 1 \in 1..n /\ (2 + p) - 1 = 2 + (p - 1)
      /\ \A p \in 1..n : \A r \in p..n : 2 + r \in 2 + p..2 + n /\ r \in 1..n
  BY SMT
<1>7. k = got + 1
  <2>1. NumberBefore(s, 1, got) = 2 * got
    BY Zenon DEF NumberBefore
  <2>2. (2 * (k - 1) + 1) - 2 * got \in 1..losses + 1
    BY <1>2, <1>4, <1>5, <1>6, <2>1, Zenon
  <2> QED
    BY <2>2, HeadNumbers, Zenon
<1>8. \A p \in 1..2 + n : s[p].frame.from # "client"
  BY <1>2, <1>5, <1>6, Zenon
<1>9. ASSUME NEW p \in 1..n
      PROVE  /\ \A r \in p..n : t[r].frame.from # "client"
             /\ Number(t[p]) - NumberBefore(t, p, k) \in 1..losses + 1
  <2>1. ASSUME NEW r \in p..n PROVE t[r].frame.from # "client"
    <3>1. r \in 1..n /\ 2 + r \in 1..2 + n
      BY <1>6
    <3>2. s[2 + r] = t[r]
      BY <1>2, <3>1, Zenon
    <3> QED
      BY <1>8, <3>1, <3>2, Zenon
  <2>2. PICK q : q = 2 + p
    OBVIOUS
  <2>3. Number(s[q]) - NumberBefore(s, q, got) \in 1..losses + 1
    BY <1>5, <1>6, <1>8, <2>2, Zenon
  <2>4. q # 1 /\ s[q - 1].frame.from # "client" /\ s[q] = t[p]
    BY <1>2, <1>6, <1>8, <2>2, Zenon
  <2>5. NumberBefore(s, q, got) = Number(s[q - 1])
    BY <2>4, Zenon DEF NumberBefore
  <2>6. NumberBefore(t, p, k) = Number(s[q - 1])
    <3>1. CASE p = 1
      <4>1. s[q - 1] = a[2]
        BY <1>2, <1>6, <2>2, <3>1, Zenon
      <4> QED
        BY <1>4, <3>1, <4>1, Zenon DEF NumberBefore
    <3>2. CASE p # 1
      <4>1. s[q - 1] = t[p - 1]
        BY <1>2, <1>6, <2>2, <3>2, Zenon
      <4> QED
        BY <2>4, <3>2, <4>1, Zenon DEF NumberBefore
    <3> QED
      BY <3>1, <3>2
  <2> QED
    BY <2>1, <2>3, <2>4, <2>5, <2>6, Zenon
<1> QED
  BY <1>1, <1>7, <1>9, Zenon DEF NearlyWhole

\* The next segment is the last one received.
LEMMA LastAppended ==
  ASSUME NEW got \in Int, NEW segments \in Seq(UserData), NEW part \in UserData
  PROVE  /\ LastOf(segments, got) /\ part[2] = got + 1
              => LastOf(Append(segments, part), got + 1)
         /\ (\A i \in 1..Len(segments) : segments[i][1] = exchange)
                /\ part[1] = exchange
              => \A i \in 1..Len(Append(segments, part)) :
                   Append(segments, part)[i][1] = exchange
<1>1. PICK n \in Nat, s \in Seq(UserData) :
        n = Len(segments) /\ s = Append(segments, part)
  BY AppendProperties, LenProperties
<1>2. Len(s) = n + 1 /\ s[n + 1] = part /\ \A i \in 1..n : s[i] = segments[i]
  BY <1>1, AppendProperties
<1>3. \A i \in 1..n + 1 : i \in 1..n \/ i = n + 1
  BY SMT
<1>4. ASSUME LastOf(segments, got), part[2] = got + 1
      PROVE  LastOf(s, got + 1)
  <2>1. \A i \in 1..n : segments[i][2] = got - n + i
    BY <1>1, <1>4, Zenon DEF LastOf
  <2>2. \A i \in 1..n + 1 : s[i][2] = (got + 1) - (n + 1) + i
    <3> SUFFICES ASSUME NEW i \in 1..n + 1
                 PROVE  s[i][2] = (got + 1) - (n + 1) + i
      OBVIOUS
    <3>1. CASE i \in 1..n
      <4>1. s[i][2] = got - n + i
        BY <1>2, <2>1, <3>1, Zenon
      <4>2. got - n + i = (got + 1) - (n + 1) + i
        BY SMT
      <4> QED
        BY <4>1, <4>2, Zenon
    <3>2. CASE i = n + 1
      <4>1. s[i][2] = got + 1
        BY <1>2, <1>4, <3>2, Zenon
      <4>2. got + 1 = (got + 1) - (n + 1) + i
        BY <3>2, SMT
      <4> QED
        BY <4>1, <4>2, Zenon
    <3> QED
      BY <1>3, <3>1, <3>2
  <2> QED
    BY <1>2, <2>2, Zenon DEF LastOf
<1>5. ASSUME \A i \in 1..n : segments[i][1] = exchange, part[1] = exchange
      PROVE  \A i \in 1..n + 1 : s[i][1] = exchange
  BY <1>2, <1>3, <1>5, Zenon
<1> QED
  BY <1>1, <1>2, <1>4, <1>5, Zenon

\* A segment that is decoded is received; the last one ends the exchange, and
\* the last one of a window asks for the next.
LEMMA SeenDecodes ==
  ASSUME TypeInv, TypeInv', NEW got, Seen(got), DecodeFrame,
         meter.answering = exchange, exchange > 0
  PROVE  \E k \in 0..Segments : Seen(k)' /\ meter'.answering = exchange'
<1>1. pc = "decode" /\ HeadDecodes /\ InProcess
  <2>1. pc = "decode" /\ HeadDecodes
    BY Zenon DEF DecodeFrame
  <2> QED
    BY <2>1 DEF InProcess
<1>2. /\ Repetition(send[1]) /\ hdlc.sss = meter.vr
      /\ got \in meter.acked..Sent(meter)
      /\ \A i \in 1..Len(rcv) : rcv[i][1] = exchange
      /\ MaxLosses <= 1 => LastOf(rcv, got)
      /\ Waiting /\ (hdlc.type = "RR" \/ (hdlc.type = "I" /\ retries = 0))
      /\ Resuming(got)
  BY <1>1, Zenon DEF Seen
<1>3. PICK a \in Seq(Half), t \in Seq(Half), f \in Frame :
        /\ Stream = a \o t /\ t = unread' \o (mData \o toClient)
        /\ Len(a) = 2 /\ Len(Stream) = 2 + Len(t)
        /\ a[1] = unread[1] /\ a[2] = [unread[1] EXCEPT !.half = 2]
        /\ unread[1].frame = f /\ f.from = "meter" /\ f.type # "RR"
        /\ t = <<>> => unread' = <<>> /\ mData = <<>> /\ toClient = <<>>
  BY FrameTaken, Zenon
<1>4. ~Repetitions
  <2>1. a[1] \notin Others /\ 1 \in 1..Len(a)
    BY <1>3 DEF Others
  <2>2. a \notin Seq(Others)
    BY <2>1, ElementOfSeq, Zenon
  <2> QED
    BY <1>3, <2>2, OthersConcat, Zenon DEF Repetitions
<1>5. /\ OneThing(ReceiveReady(hdlc.rrr), HalvesPerFrame * got,
                  HalvesPerFrame * Sent(meter))
      /\ MaxLosses <= 1 => NearlyWhole(Stream, got)
  BY <1>2, <1>4, Zenon DEF Resuming
<1>6. PartsIn(Stream) /\ Answered /\ Load <= HalvesPerFrame * Sent(meter)
  <2>1. PICK g, before, after :
          /\ g = ReceiveReady(hdlc.rrr) /\ before = HalvesPerFrame * got
          /\ after = HalvesPerFrame * Sent(meter)
    OBVIOUS
  <2>2. OneThing(g, before, after)
    BY <1>5, <2>1, Zenon
  <2> QED
    BY <1>1, <2>1, <2>2, OnlyAnswered, Zenon
<1>7. /\ Part(unread[1]) /\ unread[1].half = 1
      /\ f.poll_final = 1 => Len(Stream) <= 2
  BY <1>1, <1>3, <1>6, HeadIsPart, Zenon
<1>8. PICK k \in meter.acked + 1..Sent(meter) :
        /\ k = f.info[2] /\ f.info[1] = exchange /\ f.type = "I"
        /\ f.sss = SeqAfter(meter.base, k - 1)
        /\ f.segmentation = IF k < Segments THEN 1 ELSE 0
        /\ f.poll_final = IF k = Sent(meter) THEN 1 ELSE 0
  <2>1. exchange # 0
    BY SizeAssumption, SMT DEF TypeInv, Counters
  <2> QED
    BY <1>3, <1>7, <2>1, Zenon DEF Part
<1>9. /\ k \in Nat \ {0} /\ k \in Int /\ k <= Segments /\ k \in 0..Segments
      /\ k \in meter.acked..Sent(meter)
      /\ k = Segments => k = Sent(meter)
      /\ got \in Int /\ meter.base \in Nat
  <2>1. /\ meter.acked \in Nat /\ Sent(meter) \in Nat /\ Sent(meter) <= Segments
        /\ got \in Int /\ meter.base \in 0..LastSeq
    BY <1>2, GotType
  <2>2. PICK c \in Nat, d \in Nat, S \in Nat :
          c = meter.acked /\ d = Sent(meter) /\ S = Segments /\ d <= S
    BY <2>1, SizeAssumption
  <2>3. k \in c + 1..d
    BY <2>2
  <2>4. /\ k \in Nat \ {0} /\ k \in Int /\ k <= S /\ k \in 0..S /\ k \in c..d
        /\ k = S => k = d
    BY <2>2, <2>3, SMT
  <2>5. meter.base \in Nat
    BY <2>1, SizeAssumption, SMT
  <2> QED
    BY <2>1, <2>2, <2>4, <2>5, Zenon
<1>10. Final(f) <=> k = Segments
  <2>1. PICK S \in Nat, d \in Nat : S = Segments /\ d = Sent(meter)
    BY GotType, SizeAssumption
  <2>2. k < S <=> k # S
    BY <1>9, <2>1, SMT
  <2>3. CASE k = S
    BY <1>8, <1>9, <2>1, <2>2, <2>3 DEF Final
  <2>4. CASE k # S
    BY <1>8, <2>1, <2>2, <2>4 DEF Final
  <2> QED
    BY <2>1, <2>3, <2>4, Zenon
<1>11. f.poll_final = 1 => t = <<>>
  <2> SUFFICES ASSUME f.poll_final = 1 PROVE t = <<>>
    OBVIOUS
  <2>1. PICK n \in Nat : n = Len(t)
    BY LenProperties
  <2>2. 2 + n <= 2
    BY <1>3, <1>7, <2>1, Zenon
  <2>3. n = 0
    BY <2>2, SMT
  <2> QED
    BY <2>1, <2>3, EmptySeq
<1>12. /\ UNCHANGED <<exchange, send, retries, mData, toClient, toMeter, meter, losses>>
       /\ rcv' = Append(rcv, f.info) /\ Load' = Load
       /\ hdlc'.sss = hdlc.sss
       /\ hdlc'.rrr = IF f.type = "I" THEN NextSeq(f.sss) ELSE hdlc.rrr
       /\ Final(f) =>
            /\ retCode' /\ ~loop'
            /\ unread' = <<>> => pc' = "end"
       /\ ~Final(f) =>
            /\ retCode' = retCode /\ Waiting'
            /\ pc' = IF unread' = <<>> THEN "send" ELSE "decode"
            /\ InProcess'
       /\ ~Final(f) /\ f.segmentation = 1 /\ f.poll_final = 1 =>
            hdlc'.type = "RR" /\ dataToSend' = <<ReceiveReady(hdlc'.rrr)>>
       /\ f.poll_final = 0 =>
            hdlc'.type = hdlc.type /\ dataToSend' = dataToSend
  BY <1>2, <1>3, DecodeDoes, Zenon
<1>13. hdlc'.rrr = SeqAfter(meter.base, k)
  BY <1>8, <1>9, <1>12, NextInWindow, Zenon
<1>14. rcv \in Seq(UserData) /\ f.info \in UserData
  BY DEF TypeInv, Streams, Frame
<1>15. \A i \in 1..Len(rcv') : rcv'[i][1] = exchange'
  <2>1. (\A i \in 1..Len(rcv) : rcv[i][1] = exchange) /\ f.info[1] = exchange
    BY <1>2, <1>8
  <2>2. \A i \in 1..Len(Append(rcv, f.info)) : Append(rcv, f.info)[i][1] = exchange
    BY <1>9, <1>14, <2>1, LastAppended
  <2> QED
    BY <1>12, <2>2, Zenon
<1>16. ASSUME MaxLosses <= 1
       PROVE  LastOf(rcv, k)' /\ NearlyWhole(t, k)'
  <2>1. losses \in 0..1
    <3>1. losses \in 0..MaxLosses
      BY Zenon DEF TypeInv, Counters
    <3> QED
      BY <1>16, <3>1, SizeAssumption, SMT
  <2>2. k = got + 1 /\ NearlyWhole(t, k)
    <3>1. /\ a[1].frame.from # "client" /\ a[1].half = 1
          /\ a[2] = [a[1] EXCEPT !.half = 2] /\ k = a[1].frame.info[2]
          /\ NearlyWhole(a \o t, got)
      BY <1>3, <1>5, <1>7, <1>8, <1>16
    <3> QED
      BY <1>3, <1>9, <2>1, <3>1, WholeBehindHead, Zenon
  <2>3. LastOf(rcv', k)
    <3>1. LastOf(rcv, got) /\ f.info[2] = got + 1
      BY <1>2, <1>8, <1>16, <2>2
    <3>2. LastOf(Append(rcv, f.info), got + 1)
      BY <1>9, <1>14, <3>1, LastAppended
    <3> QED
      BY <1>12, <2>2, <3>2, Zenon
  <2>4. NearlyWhole(t, k)'
    BY <1>12, <2>2, Zenon DEF NearlyWhole, NumberBefore, Number
  <2> QED
    BY <2>3, <2>4, Zenon DEF LastOf
<1>17. retCode' <=> k = Segments
  <2>1. ~retCode
    BY <1>2, Zenon DEF Waiting
  <2> QED
    BY <1>10, <1>12, <2>1, Zenon
<1>18. ASSUME Final(f) PROVE pc' = "end" /\ Silent'
  <2>1. t = <<>>
    BY <1>11, <1>18, Zenon DEF Final
  <2> QED
    BY <1>3, <1>6, <1>12, <1>18, <2>1, Zenon DEF Silent, Answered
<1>19. pc' # "idle" /\ (pc' = "end" => Final(f)) /\ (InProcess' => ~Final(f))
  <2>1. CASE Final(f)
    BY <1>18, <2>1 DEF InProcess
  <2>2. CASE ~Final(f)
    BY <1>12, <2>2
  <2> QED
    BY <2>1, <2>2
<1>20. Sent(meter)' = Sent(meter)
  BY <1>12, Zenon DEF Sent
<1>21. ASSUME ~Final(f)
       PROVE  /\ Waiting' /\ (hdlc'.type = "RR" \/ (hdlc'.type = "I" /\ retries' = 0))
              /\ Resuming(k)'
  <2>1. /\ Waiting' /\ InProcess' /\ f.segmentation = 1
        /\ pc' = IF unread' = <<>> THEN "send" ELSE "decode"
    <3>1. k # Segments
      BY <1>10, <1>21
    <3>2. k < Segments
      BY <1>9, <3>1, SizeAssumption, SMT
    <3> QED
      BY <1>8, <1>12, <1>21, <3>2, Zenon
  <2>2. Stream' = t
    BY <1>3, <1>12, <2>1, Zenon DEF Stream
  <2>3. MaxLosses <= 1 => NearlyWhole(Stream, k)'
    BY <1>16, <2>2, Zenon DEF NearlyWhole, NumberBefore, Number
  <2>4. CASE f.poll_final = 1
    <3>1. hdlc'.type = "RR" /\ dataToSend' = <<ReceiveReady(hdlc'.rrr)>>
      BY <1>12, <1>21, <2>1, <2>4, Zenon
    <3>2. t = <<>> /\ unread' = <<>>
      BY <1>3, <1>11, <2>4
    <3>3. k = Sent(meter)
      BY <1>8, <2>4
    <3>4. ToBeSent(ReceiveReady(hdlc.rrr))'
      <4>1. dataToSend' = <<ReceiveReady(hdlc.rrr)>>'
        BY <1>12, <3>1, Zenon DEF ReceiveReady
      <4> QED
        BY <1>6, <1>12, <2>1, <2>2, <3>2, <4>1, Zenon DEF ToBeSent, Answered
    <3>5. Load' <= (HalvesPerFrame * k)'
      BY <1>6, <1>12, <3>3, Zenon DEF HalvesPerFrame
    <3>6. OneThing(ReceiveReady(hdlc.rrr), HalvesPerFrame * k,
                   HalvesPerFrame * Sent(meter))'
      BY <3>4, <3>5, Zenon DEF OneThing, HalvesPerFrame
    <3> QED
      BY <2>1, <2>3, <3>1, <3>6, Zenon DEF Resuming
  <2>5. CASE f.poll_final # 1
    <3>1. f.poll_final = 0
      BY <1>8, <2>5
    <3>2. hdlc'.type = hdlc.type /\ dataToSend' = <<>> /\ toMeter' = <<>>
      BY <1>6, <1>12, <3>1, Zenon DEF Answered
    <3>3. PartsIn(Stream)'
      <4>1. PartsIn(t)
        <5>1. Within(t, a \o t)
          BY WithinSuffix
        <5>2. a \o t \in Seq(Half)
          BY ConcatProperties
        <5> QED
          BY <1>3, <1>6, <5>1, <5>2, WithinKeeps, Zenon
      <4>2. PartsIn(t)'
        BY <1>12, <4>1, SamePlace, Zenon
      <4> QED
        BY <2>2, <4>2, Zenon DEF PartsIn
    <3>4. Answered'
      BY <3>2, <3>3, Zenon DEF Answered
    <3>5. Load' <= (HalvesPerFrame * Sent(meter))'
      BY <1>6, <1>12, <1>20, Zenon DEF HalvesPerFrame
    <3>6. OneThing(ReceiveReady(hdlc.rrr), HalvesPerFrame * k,
                   HalvesPerFrame * Sent(meter))'
      BY <3>4, <3>5, Zenon DEF OneThing
    <3>7. hdlc'.type = "RR" \/ (hdlc'.type = "I" /\ retries' = 0)
      BY <1>2, <1>12, <3>2, Zenon
    <3> QED
      BY <2>1, <2>3, <3>2, <3>6, <3>7, Zenon DEF Resuming
  <2> QED
    BY <2>4, <2>5
<1>22. Repetition(send[1])'
  BY <1>2, <1>12, Zenon DEF Repetition, Requested, Current
<1>23. /\ hdlc'.sss = meter'.vr /\ k \in meter'.acked..Sent(meter)'
       /\ hdlc'.rrr = SeqAfter(meter'.base, k)
       /\ meter'.answering = exchange'
  BY <1>2, <1>9, <1>12, <1>13, <1>20, Zenon
<1>24. Seen(k)'
  <2>1. MaxLosses <= 1 => LastOf(rcv, k)'
    BY <1>16, Zenon
  <2>2. pc' = "end" => retCode' /\ Silent'
    BY <1>12, <1>18, <1>19, Zenon
  <2>3. InProcess' =>
          /\ Waiting' /\ (hdlc'.type = "RR" \/ (hdlc'.type = "I" /\ retries' = 0))
          /\ Resuming(k)'
    BY <1>19, <1>21, Zenon
  <2> QED
    BY <1>15, <1>17, <1>19, <1>22, <1>23, <2>1, <2>2, <2>3, Zenon DEF Seen
<1> QED
  BY <1>9, <1>23, <1>24, Zenon

\* All of it together.
LEMMA SteadyDecodes ==
  ASSUME TypeInv, TypeInv', Steady, DecodeFrame
  PROVE  Greets' /\ Pacing'
<1>1. pc = "decode" /\ HeadDecodes
  BY Zenon DEF DecodeFrame
<1>2. InProcess /\ pc # "failed"
  BY <1>1 DEF InProcess
<1>3. exchange \in Nat
  BY SizeAssumption, SMT DEF TypeInv, Counters
<1>4. CASE exchange = 0
  <2>1. Greets' /\ exchange' = 0
    BY <1>4, GreetsDecodes
  <2>2. ~(exchange' > 0)
    BY <2>1
  <2> QED
    BY <2>1, <2>2, Zenon DEF Pacing
<1>5. CASE exchange > 0
  <2>1. ~Unseen
    <3>1. ASSUME Unseen PROVE FALSE
      <4>1. OneThing(send[1], 0, 0) /\ (dataToSend # <<>> \/ toMeter # <<>>)
        BY <1>2, <3>1, Zenon DEF Unseen
      <4>2. PICK f : f = send[1]
        OBVIOUS
      <4>3. Answered
        BY <1>1, <4>1, <4>2, OnlyAnswered, Zenon
      <4> QED
        BY <4>1, <4>3, Zenon DEF Answered
    <3> QED
      BY <3>1
  <2>2. PICK got \in 0..Segments : Seen(got) /\ meter.answering = exchange
    BY <1>2, <1>5, <2>1, Zenon DEF Steady, Pacing
  <2>3. \E k \in 0..Segments : Seen(k)' /\ meter'.answering = exchange'
    BY <1>5, <2>2, SeenDecodes, Zenon
  <2>4. exchange' = exchange /\ exchange # 0
    BY <1>3, <1>5, SMT DEF DecodeFrame, caller
  <2> QED
    BY <2>3, <2>4, Zenon DEF Greets, Pacing
<1> QED
  BY <1>3, <1>4, <1>5, SMT

-----------------------------------------------------------------------------
(* The invariant                                                           *)

\* At the start nothing is under way.
LEMMA SteadyInit == Init => Steady
<1> SUFFICES ASSUME Init PROVE Steady
  OBVIOUS
<1>1. /\ pc = "idle" /\ exchange = 0 /\ attempts = 0 /\ meter = Connected
      /\ hdlc = [type |-> "SNRM", sss |-> 0, rrr |-> 0]
      /\ toMeter = <<>> /\ toClient = <<>> /\ mData = <<>>
  BY DEF Init, Mail!Init, Connected
<1>2. 0 <= Retries /\ ~(exchange > 0) /\ ~InProcess
  BY <1>1, CounterAssumption, SMT DEF InProcess
<1>3. Retried
  BY <1>1, <1>2, Zenon DEF Retried
<1>4. pc # "end"
  BY <1>1
<1> QED
  BY <1>1, <1>2, <1>3, <1>4, Zenon DEF Steady, Greets, Pacing, Silent

\* Every step keeps the invariant.
LEMMA SteadyStep ==
  ASSUME Recoverable, TypeInv, TypeInv', OnTime, Steady, [Next]_vars
  PROVE  Steady'
<1>1. Retried'
  BY RetriedStep, Zenon DEF Steady
<1>2. ASSUME Moving PROVE Greets' /\ Pacing'
  BY <1>2, SteadyMoves
<1>3. Finished => UNCHANGED vars
  BY Zenon DEF Finished
<1>4. Greets' /\ Pacing'
  BY <1>2, <1>3, NothingLost, SteadyEntry, SteadyCalls, SteadyTransmits,
     SteadyTimeouts, SteadyOverflows, SteadyRepeats, SteadyDecodes, SteadyAnswers,
     Zenon DEF Next, Main, Moving
<1> QED
  BY <1>1, <1>4, Zenon DEF Steady

\* ... of every behaviour of a line that can be recovered from.
LEMMA Recovering == Recoverable => (Spec => [](TypeInv /\ Steady))
<1> SUFFICES ASSUME Recoverable PROVE Spec => [](TypeInv /\ Steady)
  OBVIOUS
<1>1. Timely
  BY Zenon DEF Recoverable
<1>2. TypeInv /\ OnTime /\ [Next]_vars => OnTime'
  BY <1>1, OnTimeStep
<1>3. TypeInv /\ TypeInv' /\ OnTime /\ Steady /\ [Next]_vars => Steady'
  BY SteadyStep
<1> QED
  BY <1>2, <1>3, TypeInit, TypeStep, OnTimeInit, SteadyInit, PTL DEF Spec

-----------------------------------------------------------------------------
(* The answer a caller goes on with after losses                           *)

\* What an accepted exchange after the SNRM leaves behind.
LEMMA SteadyEnd ==
  ASSUME TypeInv, Steady, pc = "end", retCode, exchange > 0
  PROVE  /\ hdlc.sss = meter.vr /\ hdlc.rrr = SeqAfter(meter.base, Segments)
         /\ \A i \in 1..Len(rcv) : rcv[i][1] = exchange
         /\ MaxLosses <= 1 => LastOf(rcv, Segments)
<1>1. pc # "failed" /\ ~Unseen
  BY Zenon DEF Unseen
<1>2. PICK got : Seen(got)
  BY <1>1, Zenon DEF Steady, Pacing
<1>3. got = Segments
  BY <1>2, Zenon DEF Seen
<1> QED
  BY <1>2, <1>3, Zenon DEF Seen

\* ... and the SNRM.
LEMMA SteadyGreeted ==
  ASSUME TypeInv, Steady, pc = "end", retCode, exchange = 0
  PROVE  rcv = <<<<0, 1>>>>
BY Zenon DEF Steady, Greets

\* Segments that end with the last one and start with the first one are all.
LEMMA FirstToLast ==
  ASSUME NEW s \in Seq(UserData), s # <<>>, LastOf(s, Segments), s[1][2] = 1,
         \A i \in 1..Len(s) : s[i][1] = exchange, exchange # 0
  PROVE  s = Answer(exchange)
<1>1. PICK n \in Nat : n = Len(s) /\ n # 0
  BY LenProperties, EmptySeq
<1>2. PICK S \in Nat : S = Segments
  BY SizeAssumption
<1>3. \A i \in 1..n : s[i][2] = S - n + i
  BY <1>1, <1>2, Zenon DEF LastOf
<1>4. S = n
  <2>1. 1 \in 1..n
    BY <1>1, SMT
  <2>2. S - n + 1 = 1
    BY <1>3, <2>1, Zenon
  <2> QED
    BY <2>2, SMT
<1>5. ASSUME NEW i \in 1..S PROVE s[i] = <<exchange, i>>
  <2>1. s[i][1] = exchange /\ s[i][2] = S - S + i
    BY <1>1, <1>3, <1>4
  <2>2. s[i][2] = i
    BY <2>1, SMT
  <2>3. s[i] \in UserData
    BY <1>1, <1>4, ElementOfSeq
  <2> QED
    BY <2>1, <2>2, <2>3 DEF UserData
<1>6. s \in [1..S -> UserData]
  BY <1>1, <1>4, LenProperties
<1>7. Answer(exchange) = [i \in 1..S |-> <<exchange, i>>]
  BY <1>2 DEF Answer
<1> QED
  BY <1>5, <1>6, <1>7

\* The first part of what a caller accepts is a first part.
LEMMA AcceptsFirst ==
  ASSUME TypeInv, CallerAccepts, exchange # 0
  PROVE  rcv # <<>> /\ retCode /\ rcv[1][2] = 1
<1>1. /\ retCode /\ rcv # <<>>
      /\ rcv[1] \in IF exchange = 1 THEN {<<1, 1>>} ELSE (2..Exchanges) \X {1}
  BY DEF CallerAccepts
<1> QED
  BY <1>1

\* Where requests reach the meter, Send writes what it is given, a timeout is
\* longer than the line takes and the buffer holds an answer with its echoes,
\* the sequence numbers of both ends agree after every answer a caller goes on
\* with: however many halves of answers are lost, however they are cut into
\* chunks, for every window, number of segments, retries and exchanges, and
\* whether or not the meter answers a repeated request with an RR
\* (lib/CosemClient.cpp:102-283, the resends of 228-236 and 268-277).
THEOREM InStepAfterLosses == Recoverable => (Spec => []InStep)
<1>1. TypeInv /\ Steady => InStep
  BY SteadyEnd, Zenon DEF InStep, Accepted, CallerAccepts
<1> QED
  BY <1>1, Recovering, PTL

\* Under the same conditions no part of what a caller goes on with answers an
\* earlier request: "We have the data, copy it to the application buffer and
\* stop" (lib/CosemClient.cpp:968) holds as long as no answer is late.
THEOREM OwnAnswerAfterLosses == Recoverable => (Spec => []OwnAnswer)
<1>1. ASSUME TypeInv, Steady, pc = "end", CallerAccepts, NEW i \in DOMAIN rcv
      PROVE  rcv[i][1] = exchange
  <2>1. retCode /\ exchange \in Nat
    BY <1>1, SizeAssumption, SMT DEF CallerAccepts, TypeInv, Counters
  <2>2. i \in 1..Len(rcv)
    BY <1>1, LenProperties DEF TypeInv, Streams
  <2>3. CASE exchange > 0
    BY <1>1, <2>1, <2>2, <2>3, SteadyEnd, Zenon
  <2>4. CASE exchange = 0
    <3>1. rcv = <<<<0, 1>>>>
      BY <1>1, <2>1, <2>4, SteadyGreeted, Zenon
    <3> QED
      BY <1>1, <2>4, <3>1
  <2> QED
    BY <2>1, <2>3, <2>4, SMT
<1>2. TypeInv /\ Steady => OwnAnswer
  BY <1>1, Zenon DEF OwnAnswer, Accepted
<1> QED
  BY <1>2, Recovering, PTL

\* With one lost half at most, what a caller goes on with is the answer to its
\* request, every segment of it, in order and once: the timeout, the RR and the
\* repetition recover it without a gap and without a segment twice
\* (lib/CosemClient.cpp:102-283).
THEOREM RightAnswerAfterLoss ==
  Recoverable /\ MaxLosses <= 1 => (Spec => []RightAnswer)
<1> SUFFICES ASSUME Recoverable, MaxLosses <= 1 PROVE Spec => []RightAnswer
  OBVIOUS
<1>1. ASSUME TypeInv, Steady, pc = "end", CallerAccepts
      PROVE  rcv = Answer(exchange)
  <2>1. retCode /\ exchange \in Nat /\ rcv \in Seq(UserData)
    BY <1>1, SizeAssumption, SMT DEF CallerAccepts, TypeInv, Counters, Streams
  <2>2. CASE exchange = 0
    <3>1. rcv = <<<<0, 1>>>>
      BY <1>1, <2>1, <2>2, SteadyGreeted, Zenon
    <3> QED
      BY <2>2, <3>1 DEF Answer
  <2>3. CASE exchange # 0
    <3>1. exchange > 0
      BY <2>1, <2>3, SMT
    <3>2. LastOf(rcv, Segments) /\ \A i \in 1..Len(rcv) : rcv[i][1] = exchange
      BY <1>1, <2>1, <3>1, SteadyEnd, Zenon
    <3> QED
      BY <1>1, <2>1, <2>3, <3>2, AcceptsFirst, FirstToLast, Zenon
  <2> QED
    BY <2>2, <2>3
<1>2. TypeInv /\ Steady => RightAnswer
  BY <1>1, Zenon DEF RightAnswer, Accepted
<1> QED
  BY <1>2, Recovering, PTL
=============================================================================
