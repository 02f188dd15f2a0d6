----------------------------- MODULE AccessObject -----------------------------
(***************************************************************************)
(* CosemClient::AccessObject (lib/CosemClient.cpp:786-1124): one attribute  *)
(* read in one response or block by block, with retries, the application    *)
(* buffer and the dump file.  HdlcProcess appears as HdlcExchange shows it: *)
(* it returns the meter's answer to the frame it was given, or fails, the   *)
(* frame having reached the meter or not; the meter answers a frame that is *)
(* sent to it again as it did the first time.                               *)
(***************************************************************************)
EXTENDS Integers, Sequences

CONSTANTS
  Retries,        \* Configuration::retries
  LastCount,      \* the largest value of a uint32_t
  AppBufferSize,  \* cAppBufferSize, in pieces of a value
  Lengths,        \* bound: how many pieces the meter's values may have
  Faults,         \* the answers without data a meter may give
  Encodes         \* results of svc_request_encoder

\* No answer with data: an error code or an exception; a datablock
\* that does not decode; a type of response the client does not know; an APDU
\* that does not decode; no server LLC in front.
FaultKinds == {"refused", "noblock", "unsupported", "undecodable", "nollc"}

ASSUME CounterAssumption == LastCount \in Nat /\ Retries \in 0..LastCount
ASSUME SizeAssumption == AppBufferSize \in Nat /\ Lengths \subseteq Nat
ASSUME FaultAssumption == Faults \subseteq FaultKinds
ASSUME EncodesAssumption == Encodes \subseteq BOOLEAN

Dates == {"none", "bad", "good"}

\* An object of the list, as far as AccessObject looks at it: attribute 2 of
\* class 7, six numbers in its logical name, to be dumped.
Object == [profile : BOOLEAN, sixNumbers : BOOLEAN, dump : BOOLEAN]

VARIABLES
  obj, start_date, end_date,   \* arguments and configuration
  length,     \* the meter: how many pieces the value has
  pc,         \* where AccessObject is
  request,    \* csm_request: type, block_number, selection
  sent,       \* request_data: which of the encoded requests it holds
  encoded,    \* and whether it does, or what a failing encoder left
  retries, dump,
  success,    \* result.success
  response,   \* the answer in hand
  app_array,  \* the application buffer
  file,       \* the dump file: <<>>, or the one value written to it
  meter       \* the meter: the last request it answered, its answer, the block

arguments == <<obj, start_date, end_date, length>>
locals == <<request, sent, encoded, retries, dump, success, response,
            app_array>>
vars == <<arguments, pc, locals, file, meter>>

-----------------------------------------------------------------------------

\* What the meter has to give for a selection.
Value(selection) == [i \in 1..length |-> <<selection, i>>]

Selections == {"all", "from", "between"}

\* Variant: the dates are used for any object.
SelectionForAnyObject ==
  CASE start_date = "good" /\ end_date = "good" -> "between"
    [] start_date = "good" /\ end_date = "none" -> "from"
    [] OTHER -> "all"

\* "Allow selective access only on profile get buffer attribute"; a date that
\* does not parse disables it.
Selection ==
  CASE obj.profile /\ start_date = "good" /\ end_date = "good" -> "between"
    [] obj.profile /\ start_date = "good" /\ end_date = "none" -> "from"
    [] OTHER -> "all"

NoResponse == [kind |-> "none", block_number |-> 0, data |-> <<>>]

Init ==
  /\ obj \in Object /\ start_date \in Dates /\ end_date \in Dates
  /\ length \in Lengths
  /\ pc = "entry"
  /\ request = [type |-> "NORMAL", block_number |-> 0, selection |-> "all"]
  /\ sent = 0 /\ encoded = TRUE /\ retries = 0 /\ dump = FALSE /\ success = TRUE
  /\ response = NoResponse /\ app_array = <<>> /\ file = <<>>
  /\ meter = [answered |-> 0, answer |-> NoResponse, block |-> 0, served |-> 0]

-----------------------------------------------------------------------------
(* Before the loop                                                         *)

\* "Bad Cosem OBIS code format"
BadLogicalName ==
  /\ pc = "entry" /\ ~obj.sixNumbers
  /\ success' = FALSE /\ pc' = "done"
  /\ UNCHANGED <<arguments, request, sent, encoded, retries, dump, response,
                 app_array, file, meter>>

EncodeRequest ==
  /\ pc = "entry" /\ obj.sixNumbers /\ TRUE \in Encodes
  /\ request' = [request EXCEPT !.selection = Selection]
  /\ sent' = 1 /\ pc' = "exchange"
  /\ UNCHANGED <<arguments, encoded, retries, dump, success, response,
                 app_array, file, meter>>

\* The function ends, and result is what it was.
EncodeRequestFails ==
  /\ pc = "entry" /\ obj.sixNumbers /\ FALSE \in Encodes
  /\ request' = [request EXCEPT !.selection = Selection]
  /\ pc' = "done"
  /\ UNCHANGED <<arguments, sent, encoded, retries, dump, success, response,
                 app_array, file, meter>>

-----------------------------------------------------------------------------
(* HdlcProcess and the meter                                               *)

\* A block of one or more of the pieces that follow.
Blocks(from, block) ==
  {[kind |-> IF to = length THEN "last" ELSE "block", block_number |-> block,
    data |-> SubSeq(Value(request.selection), from + 1, to)] :
     to \in from + 1..length}

\* What the meter may answer to the request in hand; to half a request, no data.
Answers ==
  [kind : Faults, block_number : {0}, data : {<<>>}]
    \cup CASE ~encoded -> {}
           [] encoded /\ request.type = "NORMAL" ->
                Blocks(0, 1)
                  \cup {[kind |-> "normal", block_number |-> 0,
                         data |-> Value(request.selection)]}
           [] OTHER -> Blocks(meter.served, meter.block + 1)

\* The meter handles the request it is sent: for the first time ...
MeterAnswers(answer) ==
  /\ meter.answered # sent /\ answer \in Answers
  /\ meter' = [answered |-> sent, answer |-> answer,
               block |-> answer.block_number,
               served |-> IF request.type = "NORMAL" THEN Len(answer.data)
                          ELSE meter.served + Len(answer.data)]

\* ... or again.
MeterRepeats(answer) ==
  meter.answered = sent /\ answer = meter.answer /\ UNCHANGED meter

\* HdlcProcess returns true.
ExchangeSucceeds ==
  /\ pc = "exchange"
  /\ \E answer \in Answers \cup {meter.answer} :
       /\ MeterAnswers(answer) \/ MeterRepeats(answer)
       /\ response' = answer
  /\ pc' = "response"
  /\ UNCHANGED <<arguments, request, sent, encoded, retries, dump, success,
                 app_array, file>>

\* After a failure in the middle of a segmented answer, HdlcProcess returns the
\* segments it had not acknowledged yet, and the LLC was in the first.
ExchangeReturnsRest ==
  /\ pc = "exchange" /\ retries > 0 /\ meter.answered = sent
  /\ response' = [kind |-> "nollc", block_number |-> 0, data |-> <<>>]
  /\ pc' = "response"
  /\ UNCHANGED <<arguments, request, sent, encoded, retries, dump, success,
                 app_array, file, meter>>

\* Variant: the counter starts again at its limit.
CountAround(n) == (n + 1) % (Retries + 1)

\* retries++ on a uint32_t
Count(n) == (n + 1) % (LastCount + 1)

\* Variant: a retry starts the transfer again.
RequestAfterFailureRestarts == [request EXCEPT !.type = "NORMAL"]

\* request_data is what it was.
RequestAfterFailure == request

\* HdlcProcess returns false, the request lost or only its answer: the same
\* frame is tried again, unless that was once too often in this transfer.
ExchangeFails ==
  /\ pc = "exchange"
  /\ \/ UNCHANGED meter
     \/ \E answer \in Answers : MeterAnswers(answer)
  /\ retries' = Count(retries)
  /\ request' = RequestAfterFailure
  /\ IF Count(retries) > Retries
       THEN success' = FALSE /\ pc' = "done"
       ELSE UNCHANGED <<success, pc>>
  /\ UNCHANGED <<arguments, sent, encoded, dump, response, app_array, file>>

-----------------------------------------------------------------------------
(* The response                                                            *)

\* Variant: the buffer is written without looking at its size.
StoreUnchecked(data) == app_array \o data

\* csm_array_write_buff writes all of it or nothing; nobody looks at which.
Store(data) ==
  IF Len(app_array) + Len(data) <= AppBufferSize
    THEN app_array \o data ELSE app_array

\* No LLC, no APDU, an error, an exception: SetError and stop.
ResponseIsBad ==
  /\ pc = "response" /\ response.kind \in {"refused", "undecodable", "nollc"}
  /\ success' = FALSE /\ pc' = "done"
  /\ UNCHANGED <<arguments, request, sent, encoded, retries, dump, response,
                 app_array, file, meter>>

\* Variant: whatever ends the loop without an error is dumped.
ResponseIsUnknownDumps ==
  /\ pc = "response" /\ response.kind \in {"noblock", "unsupported"}
  /\ dump' = TRUE /\ pc' = "dump"
  /\ UNCHANGED <<arguments, request, sent, encoded, retries, success, response,
                 app_array, file, meter>>

\* "ERROR: must be a block of data", "Service not supported": stop.
ResponseIsUnknown ==
  /\ pc = "response" /\ response.kind \in {"noblock", "unsupported"}
  /\ pc' = "done"
  /\ UNCHANGED <<arguments, locals, file, meter>>

\* "We have the data", or "No more data".
ResponseIsLast ==
  /\ pc = "response" /\ response.kind \in {"normal", "last"}
  /\ app_array' = Store(response.data)
  /\ dump' = TRUE /\ pc' = "dump"
  /\ UNCHANGED <<arguments, request, sent, encoded, retries, success, response,
                 file, meter>>

\* "Send next block": what the encoder returns is not looked at.
ResponseHasMoreData ==
  /\ pc = "response" /\ response.kind = "block"
  /\ app_array' = Store(response.data)
  /\ request' = [request EXCEPT !.type = "NEXT",
                                !.block_number = response.block_number]
  /\ sent' = sent + 1 /\ encoded' \in Encodes /\ pc' = "exchange"
  /\ UNCHANGED <<arguments, retries, dump, success, response, file, meter>>

\* The dump file, which may not open.
DumpObject ==
  /\ pc = "dump"
  /\ IF obj.dump THEN file' \in {<<>>, <<app_array>>} ELSE UNCHANGED file
  /\ pc' = "done"
  /\ UNCHANGED <<arguments, locals, meter>>

Returned == pc = "done" /\ UNCHANGED vars

AccessObject ==
  \/ BadLogicalName \/ EncodeRequest \/ EncodeRequestFails
  \/ ExchangeSucceeds \/ ExchangeReturnsRest \/ ExchangeFails
  \/ ResponseIsBad \/ ResponseIsUnknown \/ ResponseIsLast
  \/ ResponseHasMoreData \/ DumpObject

Next == AccessObject \/ Returned

\* HdlcExchange!ExchangeReturns: every step of the function is taken.
Spec == Init /\ [][Next]_vars
FairSpec == Spec /\ WF_vars(AccessObject)

-----------------------------------------------------------------------------
(* Properties                                                              *)

Piece == Selections \X Nat
Response == [kind : FaultKinds \cup {"none", "normal", "block", "last"},
             block_number : Nat, data : Seq(Piece)]

\* The type of every variable; the buffer is never written past its end.
TypeOK ==
  /\ obj \in Object /\ start_date \in Dates /\ end_date \in Dates
  /\ length \in Lengths
  /\ pc \in {"entry", "exchange", "response", "dump", "done"}
  /\ request \in [type : {"NORMAL", "NEXT"}, block_number : Nat,
                  selection : Selections]
  /\ sent \in Nat /\ encoded \in BOOLEAN /\ retries \in 0..LastCount
  /\ dump \in BOOLEAN /\ success \in BOOLEAN
  /\ response \in Response
  /\ app_array \in Seq(Piece) /\ Len(app_array) <= AppBufferSize
  /\ meter \in [answered : Nat, answer : Response, block : Nat, served : Nat]

Fits == length <= AppBufferSize

\* "Start date only is supported (means until now), no any date means getting
\* all the data" (src/main.cpp:60), for a profile; any other attribute is read
\* as a whole.
Asked ==
  IF obj.profile /\ start_date = "good"
    THEN IF end_date = "good" THEN "between" ELSE "from"
    ELSE "all"

\* A file that is written holds the whole value that was asked for, every
\* block of it once and in its place, whatever was sent again on the way.
DumpedIsWhole ==
  Fits /\ end_date # "bad" /\ file # <<>> => file = <<Value(Asked)>>

\* Between two exchanges the buffer holds exactly the blocks up to the one
\* the next request acknowledges, and the meter is there or one block on: a
\* retry can always be taken up where the transfer was interrupted.
Resumable ==
  Fits /\ pc = "exchange" =>
    /\ request.block_number <= length
    /\ meter.answered = sent - 1 =>
         /\ meter.block = request.block_number
         /\ app_array = SubSeq(Value(request.selection), 1, meter.served)
    /\ meter.answered \in {sent - 1, sent}

\* Seen from the caller, who looks at result.success and finds a file or none:
\* the value is collected in order, and a file comes with a success and all of
\* the value.
Whole == INSTANCE Download WITH
  wanted <- Value(Selection),
  got    <- app_array,
  status <- CASE pc # "done" -> "reading"
              [] pc = "done" /\ success -> "success"
              [] OTHER -> "failed"
ImplementsDownload ==
  Whole!Init /\ [][Whole!Next \/ ~Fits]_(Whole!downloadVars)

\* AccessObject returns: the retries over all the blocks are bounded, and
\* every block brings the end of the value closer.
AccessReturns == <>(pc = "done")

\* "** ERROR: must be a block of data" (lib/CosemClient.cpp:1010): an object
\* whose access is a success has been read, all of it.
SuccessMeansRead == pc = "done" /\ success => app_array = Value(Selection)
==============================================================================
