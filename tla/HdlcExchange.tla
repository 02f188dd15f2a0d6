---------------------------- MODULE HdlcExchange ----------------------------
(***************************************************************************)
(* CosemClient::HdlcProcess (lib/CosemClient.cpp:102-283): one request, its *)
(* answer frame by frame, timeouts, resynchronisation with RR frames, over  *)
(* the mailbox that Transport implements.  The callers are modelled as far  *)
(* as they decide what is sent next: exchange 0 is the SNRM of ConnectHdlc, *)
(* exchange 1 the AARQ of ConnectAarq, the others are GETs of AccessObject. *)
(*                                                                          *)
(* The meter, the line and hdlc_encode/hdlc_decode are not part of src/:    *)
(* they are modelled from what HdlcProcess expects of them.  A frame is     *)
(* carried as two halves, so that partial, joined and damaged frames exist. *)
(***************************************************************************)
EXTENDS Integers, Sequences

CONSTANTS
  Retries,       \* Configuration::retries
  LastCount,     \* the largest value of the uint32_t counters (2^32 - 1)
  LastSeq,       \* the largest HDLC sequence number (7)
  BufferSize,    \* cBufferSize, in half frames
  Exchanges,     \* bound: the client's last exchange
  Segments,      \* I frames in the meter's answer to an I frame
  Window,        \* I frames the meter sends before it wants an RR
  Echo,          \* TRUE: an optical head echoes what the client sends
  AnswersRepeats,\* TRUE: the meter answers a repeated request, with an RR
  Timely,        \* TRUE: no timeout while a frame is on its way
  Losses,        \* what the line may lose: subset of {"request", "answer"}
  MaxLosses,     \* bound: how often it does
  SendResults    \* of Transport::Send: "written", "error" (-1), "nothing" (0)

ASSUME CounterAssumption ==
  LastCount \in Nat /\ Retries \in 0..LastCount
ASSUME SizeAssumption ==
  /\ LastSeq \in Nat \ {0} /\ BufferSize \in Nat /\ Exchanges \in Nat
  /\ Segments \in Nat \ {0} /\ Window \in 1..LastSeq /\ MaxLosses \in Nat
ASSUME EnvironmentAssumption ==
  /\ {Echo, AnswersRepeats, Timely} \subseteq BOOLEAN
  /\ Losses \subseteq {"request", "answer"}
  /\ SendResults \subseteq {"written", "error", "nothing"}

VARIABLES
  mData, mSem, ringing, call, data,  \* the mailbox
  pc,          \* where the main thread is
  exchange,    \* the caller: which exchange is next or running
  attempts,    \* the caller: failed calls of HdlcProcess for it
  send, dataToSend, dataSent,        \* HdlcProcess: <<>> or one frame
  retries, loop, retCode,            \* HdlcProcess
  rcv,         \* HdlcProcess: the information fields appended so far
  unread,      \* mRcvArray: the half frames not yet jumped over
  written,     \* mRcvArray: half frames written since csm_array_init
  hdlc,        \* meter.hdlc: type, sss, rrr
  toMeter,     \* frames on their way to the meter
  toClient,    \* half frames on their way to serial_read
  meter,       \* the meter: its counters and the answer it can repeat
  losses       \* how often the line lost something

mailbox == <<mData, mSem, ringing, call, data>>
caller == <<exchange, attempts>>
process == <<send, dataToSend, dataSent, retries, loop, retCode, rcv, unread,
             written>>
line == <<toMeter, toClient, meter, losses>>
vars == <<mailbox, pc, caller, process, hdlc, line>>

-----------------------------------------------------------------------------
(* Frames                                                                  *)

NextSeq(n) == IF n = LastSeq THEN 0 ELSE n + 1
SeqAfter(n, k) == (n + k) % (LastSeq + 1)

\* An information field: the exchange and the part of its answer.
UserData == (0..Exchanges) \X (0..Segments)

Frame == [from : {"client", "meter"}, type : {"SNRM", "UA", "I", "RR"},
          sss : 0..LastSeq, rrr : 0..LastSeq, segmentation : {0, 1},
          poll_final : {0, 1}, info : UserData]

Command(type, ex) ==
  [from |-> "client", type |-> type, sss |-> hdlc.sss, rrr |-> hdlc.rrr,
   segmentation |-> 0, poll_final |-> 1, info |-> <<ex, 0>>]

\* hdlc_encode_rr(&meter.hdlc, ...): the client asks for what follows rrr.
ReceiveReady(rrr) ==
  [from |-> "client", type |-> "RR", sss |-> 0, rrr |-> rrr,
   segmentation |-> 0, poll_final |-> 1, info |-> <<exchange, 0>>]

Half == [frame : Frame, half : {1, 2}]

\* The bytes of a sequence of frames.
Bytes(frames) ==
  [i \in 1..2 * Len(frames) |->
     [frame |-> frames[(i + 1) \div 2], half |-> IF i % 2 = 1 THEN 1 ELSE 2]]

\* hdlc_decode, told that the sender is the server, returns HDLC_OK: a whole
\* frame of the meter is at the head.
HeadDecodes ==
  /\ Len(unread) >= 2
  /\ unread[1].half = 1 /\ unread[2] = [unread[1] EXCEPT !.half = 2]
  /\ unread[1].frame.from = "meter"

Mail == INSTANCE Mailbox WITH Chunks <- Seq(Half)

\* The whole answer of the meter to an exchange.
Answer(ex) ==
  IF ex = 0 THEN <<<<0, 1>>>> ELSE [i \in 1..Segments |-> <<ex, i>>]

\* The mailbox is empty: what a modem's last reply may have left in it is in
\* CosemClient.
Init ==
  /\ Mail!Init
  /\ pc = "idle" /\ exchange = 0 /\ attempts = 0
  /\ send = <<>> /\ dataToSend = <<>> /\ dataSent = <<>>
  /\ retries = 0 /\ loop = FALSE /\ retCode = FALSE
  /\ rcv = <<>> /\ unread = <<>> /\ written = 0
  /\ hdlc = [type |-> "SNRM", sss |-> 0, rrr |-> 0]
  /\ toMeter = <<>> /\ toClient = <<>>
  /\ meter = [vr |-> 0, base |-> 0, answering |-> 0, acked |-> 0]
  /\ losses = 0

-----------------------------------------------------------------------------
(* The callers of HdlcProcess                                              *)

\* Variant: a failed attempt is not counted.
CountNothing(n) == n

\* retries++ on a uint32_t
Count(n) == (n + 1) % (LastCount + 1)

\* Variant: enableRetries is ignored.
RetriesAtEntryAlwaysZero == 0

\* "Disable retries by saturate the counter": ConnectHdlc disables them.
RetriesAtEntry == IF exchange = 0 THEN Retries ELSE 0

\* HdlcProcess from its first line to its first turn of the loop.
EnterHdlcProcess(frame) ==
  /\ unread' = <<>> /\ written' = 0
  /\ send' = <<frame>> /\ dataToSend' = <<frame>> /\ dataSent' = <<>>
  /\ retries' = RetriesAtEntry
  /\ loop' = TRUE /\ retCode' = FALSE /\ rcv' = <<>>
  /\ pc' = "send"

\* ConnectHdlc and EncapsulateRequest: a frame is encoded, once.
StartExchange ==
  /\ pc = "idle" /\ exchange <= Exchanges
  /\ LET type == IF exchange = 0 THEN "SNRM" ELSE "I"
     IN  EnterHdlcProcess(Command(type, exchange))
         /\ hdlc' = [hdlc EXCEPT !.type = type]
  /\ UNCHANGED <<mailbox, caller, line>>

\* What the caller can tell of rcv: a UA; a server LLC before an AARE; a
\* server LLC before any GET response.
CallerAccepts ==
  /\ retCode /\ rcv # <<>>
  /\ rcv[1] \in CASE exchange = 0 -> {<<0, 1>>}
                  [] exchange = 1 -> {<<1, 1>>}
                  [] OTHER -> (2..Exchanges) \X {1}

\* PerformCosemRead retries the SNRM, AccessObject a GET without an answer.
CallerRetries ==
  /\ \/ exchange = 0 /\ ~CallerAccepts
     \/ exchange >= 2 /\ ~retCode
  /\ Count(attempts) <= Retries

NextExchange ==
  /\ pc = "end" /\ CallerAccepts
  /\ pc' = "idle" /\ exchange' = exchange + 1 /\ attempts' = 0
  /\ UNCHANGED <<mailbox, process, hdlc, line>>

\* The SNRM is encoded again, the GET is the same string.
RetryExchange ==
  /\ pc = "end" /\ CallerRetries
  /\ attempts' = Count(attempts)
  /\ IF exchange = 0
       THEN /\ EnterHdlcProcess(Command("SNRM", 0))
            /\ hdlc' = [hdlc EXCEPT !.type = "SNRM"]
       ELSE EnterHdlcProcess(send[1]) /\ UNCHANGED hdlc
  /\ UNCHANGED <<mailbox, exchange, line>>

\* "stop at first failure"
GiveUp ==
  /\ pc = "end" /\ ~CallerAccepts /\ ~CallerRetries
  /\ pc' = "failed"
  /\ UNCHANGED <<mailbox, caller, process, hdlc, line>>

-----------------------------------------------------------------------------
(* HdlcProcess                                                             *)

\* while (loop)
Turn(again) == IF again THEN "send" ELSE "end"

\* Variant: an RR takes a sequence number too.
NumberedLikeI(type) == type # "SNRM"

\* if (meter.hdlc.type == HDLC_PACKET_TYPE_I)
Numbered(type) == type = "I"

\* A nonzero result of Send, an error (-1) included, counts as sent.
Transmit ==
  /\ pc = "send" /\ dataToSend # <<>>
  /\ \E result \in SendResults \ {"nothing"} :
       /\ toMeter' = IF result = "written" THEN toMeter \o dataToSend ELSE toMeter
       /\ toClient' = IF result = "written" /\ Echo
                        THEN toClient \o Bytes(dataToSend) ELSE toClient
  /\ hdlc' = IF Numbered(hdlc.type)
               THEN [hdlc EXCEPT !.sss = NextSeq(@)] ELSE hdlc
  /\ dataSent' = dataToSend /\ dataToSend' = <<>>
  /\ Mail!Call /\ pc' = "wait"
  /\ UNCHANGED <<caller, send, retries, loop, retCode, rcv, unread, written,
                 meter, losses>>

\* Send returned 0: the loop will end, after one more WaitForData.
TransmitNothing ==
  /\ pc = "send" /\ dataToSend # <<>> /\ "nothing" \in SendResults
  /\ loop' = FALSE /\ retCode' = FALSE
  /\ Mail!Call /\ pc' = "wait"
  /\ UNCHANGED <<caller, send, dataToSend, dataSent, retries, rcv, unread,
                 written, hdlc, line>>

NothingToTransmit ==
  /\ pc = "send" /\ dataToSend = <<>>
  /\ Mail!Call /\ pc' = "wait"
  /\ UNCHANGED <<caller, process, hdlc, line>>

Notified == Mail!Take /\ UNCHANGED <<pc, caller, process, hdlc, line>>

\* timeout seconds without an announcement.
Expires ==
  /\ Mail!Expire
  /\ Timely => toMeter = <<>> /\ toClient = <<>> /\ ~ringing
  /\ UNCHANGED <<pc, caller, process, hdlc, line>>

\* "check echo": only when nothing else has been received with it.
WithoutEcho(bytes) ==
  IF bytes = Bytes(dataSent) THEN <<>> ELSE bytes

\* Variant: mRcvArray is written without looking at its size.
ReceiveUnchecked ==
  /\ pc = "wait" /\ call = "notified" /\ Mail!Drain
  /\ written' = written + Len(mData)
  /\ unread' = IF loop THEN WithoutEcho(unread \o mData) ELSE unread \o mData
  /\ pc' = IF loop THEN "decode" ELSE "end"
  /\ UNCHANGED <<caller, send, dataToSend, dataSent, retries, loop, retCode,
                 rcv, hdlc, line>>

\* WaitForData returned TRUE and the bytes fit into mRcvArray.
Receive ==
  /\ pc = "wait" /\ call = "notified" /\ Mail!Drain
  /\ written + Len(mData) <= BufferSize
  /\ written' = written + Len(mData)
  /\ unread' = IF loop THEN WithoutEcho(unread \o mData) ELSE unread \o mData
  /\ pc' = IF loop THEN "decode" ELSE "end"
  /\ UNCHANGED <<caller, send, dataToSend, dataSent, retries, loop, retCode,
                 rcv, hdlc, line>>

\* csm_array_write_buff has no room.
ReceiveOverflows ==
  /\ pc = "wait" /\ call = "notified" /\ Mail!Drain
  /\ written + Len(mData) > BufferSize
  /\ loop' = FALSE /\ retCode' = FALSE /\ pc' = "end"
  /\ UNCHANGED <<caller, send, dataToSend, dataSent, retries, rcv, unread,
                 written, hdlc, line>>

\* "Maybe a partial packet, re-try later", or all frames decoded.
DecodeNothing ==
  /\ pc = "decode" /\ ~HeadDecodes
  /\ pc' = Turn(loop)
  /\ UNCHANGED <<mailbox, caller, process, hdlc, line>>

\* "RR sync, send again": the RR itself stays at the head of mRcvArray.
DecodeReceiveReady ==
  /\ pc = "decode" /\ HeadDecodes /\ unread[1].frame.type = "RR"
  /\ dataToSend' = send
  /\ pc' = Turn(loop)
  /\ UNCHANGED <<mailbox, caller, send, dataSent, retries, loop, retCode, rcv,
                 unread, written, hdlc, line>>

\* Variant: the segmentation bit is not looked at.
FinalByPoll(f) == f.poll_final = 1

\* "Test if it is a last HDLC packet"
Final(f) == f.segmentation = 0 /\ f.poll_final = 1

\* "God packet": append its information field, go to the next one if any.
DecodeFrame ==
  /\ pc = "decode" /\ HeadDecodes /\ unread[1].frame.type # "RR"
  /\ LET f == unread[1].frame
         more == ~Final(f) /\ f.segmentation = 1 /\ f.poll_final = 1
         rrr == IF f.type = "I" THEN NextSeq(f.sss) ELSE hdlc.rrr
     IN  /\ rcv' = Append(rcv, f.info)
         /\ unread' = SubSeq(unread, 3, Len(unread))
         /\ hdlc' = [hdlc EXCEPT !.rrr = rrr, !.type = IF more THEN "RR" ELSE @]
         /\ dataToSend' = IF more THEN <<ReceiveReady(rrr)>> ELSE dataToSend
         /\ retCode' = (retCode \/ Final(f)) /\ loop' = (loop /\ ~Final(f))
         /\ pc' = IF unread' = <<>> THEN Turn(loop') ELSE "decode"
  /\ UNCHANGED <<mailbox, caller, send, dataSent, retries, written, line>>

TimeoutFails ==
  /\ pc = "wait" /\ call = "expired" /\ Mail!Drain
  /\ Count(retries) > Retries
  /\ retries' = Count(retries) /\ loop' = FALSE /\ retCode' = FALSE
  /\ pc' = "end"
  /\ UNCHANGED <<caller, send, dataToSend, dataSent, rcv, unread, written, hdlc,
                 line>>

\* Variant: the bytes before the timeout are kept.
KeptOnTimeout == unread

\* csm_array_init: what was not decoded is dropped.
LeftOnTimeout == <<>>

\* "Try to resync": an RR asks for the frame the client is waiting for.
TimeoutResyncs ==
  /\ pc = "wait" /\ call = "expired" /\ Mail!Drain
  /\ Count(retries) <= Retries
  /\ retries' = Count(retries)
  /\ unread' = LeftOnTimeout /\ written' = 0
  /\ dataToSend' = <<ReceiveReady(hdlc.rrr)>>
  /\ hdlc' = [hdlc EXCEPT !.type = "RR"]
  /\ pc' = Turn(loop)
  /\ UNCHANGED <<caller, send, dataSent, loop, retCode, rcv, line>>

-----------------------------------------------------------------------------
(* The line and the meter                                                  *)

\* serial_read finds some of the bytes; Reader appends, then signals.
Arrive ==
  /\ \E n \in 1..Len(toClient) :
       /\ Mail!Put(SubSeq(toClient, 1, n))
       /\ toClient' = SubSeq(toClient, n + 1, Len(toClient))
  /\ UNCHANGED <<pc, caller, process, hdlc, toMeter, meter, losses>>

Announce == Mail!Ring /\ UNCHANGED <<pc, caller, process, hdlc, line>>

LoseRequest ==
  /\ "request" \in Losses /\ losses < MaxLosses /\ toMeter # <<>>
  /\ toMeter' = Tail(toMeter) /\ losses' = losses + 1
  /\ UNCHANGED <<mailbox, pc, caller, process, hdlc, toClient, meter>>

\* Half a frame: the other half arrives alone.
LoseAnswer ==
  /\ "answer" \in Losses /\ losses < MaxLosses /\ toClient # <<>>
  /\ toClient' = Tail(toClient) /\ losses' = losses + 1
  /\ UNCHANGED <<mailbox, pc, caller, process, hdlc, toMeter, meter>>

Reply(m, type, segment, final) ==
  [from |-> "meter", type |-> type,
   sss |-> IF type = "I" THEN SeqAfter(m.base, segment - 1) ELSE 0,
   rrr |-> m.vr, poll_final |-> IF final THEN 1 ELSE 0,
   segmentation |-> IF type = "I" /\ segment < Segments THEN 1 ELSE 0,
   info |-> <<m.answering, segment>>]

\* The next Window segments the client has not acknowledged.
Burst(m) ==
  LET left == Segments - m.acked
      size == IF left < Window THEN left ELSE Window
  IN  [k \in 1..size |-> Reply(m, "I", m.acked + k, k = size)]

\* The meter afterwards and its answer, by the type of the frame.
Connected == [vr |-> 0, base |-> 0, answering |-> 0, acked |-> 0]
Answering(f) ==
  [vr |-> NextSeq(meter.vr), answering |-> f.info[1], acked |-> 0,
   base |-> IF meter.answering = 0 THEN meter.base
            ELSE SeqAfter(meter.base, Segments)]
AckedBy(f) ==
  [meter EXCEPT !.acked =
     LET sent == IF @ + Window < Segments THEN @ + Window ELSE Segments
         fits == {k \in @..sent : SeqAfter(meter.base, k) = f.rrr}
     IN  IF fits = {} THEN @ ELSE CHOOSE k \in fits : TRUE]

MeterReceives ==
  /\ toMeter # <<>> /\ toMeter' = Tail(toMeter)
  /\ LET f == Head(toMeter)
         repeated == f.type = "I" /\ f.sss # meter.vr
         m == CASE f.type = "SNRM" -> Connected
                [] f.type = "I" /\ ~repeated -> Answering(f)
                [] f.type = "RR" -> AckedBy(f)
                [] OTHER -> meter
         answer == CASE f.type = "SNRM" -> <<Reply(m, "UA", 1, TRUE)>>
                     [] repeated /\ ~AnswersRepeats -> <<>>
                     [] ~repeated /\ m.answering # 0 /\ m.acked < Segments ->
                          Burst(m)
                     [] OTHER -> <<Reply(m, "RR", 0, TRUE)>>
     IN  meter' = m /\ toClient' = toClient \o Bytes(answer)
  /\ UNCHANGED <<mailbox, pc, caller, process, hdlc, losses>>

-----------------------------------------------------------------------------

Main ==
  \/ StartExchange \/ NextExchange \/ RetryExchange \/ GiveUp
  \/ Transmit \/ TransmitNothing \/ NothingToTransmit
  \/ Notified \/ Expires
  \/ Receive \/ ReceiveOverflows
  \/ DecodeNothing \/ DecodeReceiveReady \/ DecodeFrame
  \/ TimeoutFails \/ TimeoutResyncs

\* The client is done: all exchanges made, or one failed.
Done == pc = "failed" \/ (pc = "idle" /\ exchange > Exchanges)
Finished == Done /\ UNCHANGED vars

Next == Main \/ Arrive \/ Announce \/ MeterReceives \/ LoseRequest \/ LoseAnswer
        \/ Finished

\* The main thread runs, the reader reads and signals, the meter answers.
\* Nothing is promised of the losses.
Fairness ==
  WF_vars(Main) /\ WF_vars(Arrive) /\ WF_vars(Announce) /\ WF_vars(MeterReceives)

Spec == Init /\ [][Next]_vars
FairSpec == Spec /\ Fairness

-----------------------------------------------------------------------------
(* Properties                                                              *)

\* The type of every variable; mRcvArray is never written past its end.
TypeOK ==
  /\ mSem \in Nat /\ ringing \in BOOLEAN /\ call \in Mail!CallStates
  /\ \A bytes \in {mData, data, unread, toClient} :
       \A i \in DOMAIN bytes : bytes[i] \in Half
  /\ pc \in {"idle", "send", "wait", "decode", "end", "failed"}
  /\ exchange \in 0..Exchanges + 1 /\ attempts \in 0..LastCount
  /\ \A frames \in {send, dataToSend, dataSent, toMeter} :
       \A i \in DOMAIN frames : frames[i] \in Frame
  /\ retries \in 0..LastCount /\ loop \in BOOLEAN /\ retCode \in BOOLEAN
  /\ \A i \in DOMAIN rcv : rcv[i] \in UserData
  /\ Len(unread) <= written /\ written <= BufferSize
  /\ hdlc \in [type : {"SNRM", "I", "RR"}, sss : 0..LastSeq, rrr : 0..LastSeq]
  /\ meter \in [vr : 0..LastSeq, base : 0..LastSeq, answering : 0..Exchanges,
                acked : 0..Segments]
  /\ losses \in 0..MaxLosses

Accepted == pc = "end" /\ CallerAccepts

\* What a caller goes on with is the answer to ITS request, every segment of
\* it, in order and once, whatever was lost, repeated or split on the way.
RightAnswer == Accepted => rcv = Answer(exchange)

\* After an accepted answer both ends agree on the next sequence numbers:
\* no resend and no RR has made the client count twice.
InStep ==
  Accepted /\ exchange > 0 =>
    /\ hdlc.sss = meter.vr
    /\ hdlc.rrr = SeqAfter(meter.base, Segments)

\* "We have the data, copy it to the application buffer and stop"
\* (lib/CosemClient.cpp:968): no part of what a caller goes on with answers an
\* earlier request.
OwnAnswer == Accepted => \A i \in DOMAIN rcv : rcv[i][1] = exchange

\* "Disable retries by saturate the counter" (lib/CosemClient.cpp:116): the
\* exchange of ConnectHdlc never falls back on an RR.
ConnectNeverResyncs == exchange = 0 => hdlc.type # "RR"

\* HdlcProcess returns, and so do its callers' retries: neither an RR that is
\* found again and again nor an endless answer keeps the client in the loop.
ExchangeReturns == pc # "idle" ~> pc \in {"idle", "failed"}

\* "try to re-sync with server, send RR frame" (lib/CosemClient.cpp:272): what
\* the line loses is recovered, and the client gets all its answers.
AllAnswered == <>(pc = "idle" /\ exchange > Exchanges)
=============================================================================
