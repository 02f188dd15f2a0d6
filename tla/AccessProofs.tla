---------------------------- MODULE AccessProofs ----------------------------
(***************************************************************************)
(* Proofs about AccessObject, for values and buffers of every size, every   *)
(* number of retries and every set of faults.                               *)
(***************************************************************************)
EXTENDS AccessObject, SequenceTheorems, TLAPS

\* What has been read of the value the request in hand asks for.
Prefix(n) == SubSeq(Value(request.selection), 1, n)

\* Nothing has been asked for yet.
Untouched ==
  pc = "entry" =>
    /\ request = [type |-> "NORMAL", block_number |-> 0, selection |-> "all"]
    /\ sent = 0 /\ dump = FALSE /\ app_array = <<>> /\ file = <<>>
    /\ meter.answered = 0 /\ meter.block = 0 /\ meter.served = 0

\* The meter has answered the request in hand or the one before it, and is
\* never past the end of the value.
Asking ==
  /\ pc \in {"exchange", "response"} =>
       /\ request.selection = Selection
       /\ sent > 0 /\ meter.answered \in {sent - 1, sent}
       /\ meter.served <= length /\ meter.block <= meter.served
  /\ pc = "response" =>
       /\ meter.answered = sent
       /\ response = meter.answer \/ response.kind = "nollc"

\* The request in hand has not been answered: it asks for the block after
\* those that are in the buffer.
Waiting ==
  pc = "exchange" /\ meter.answered = sent - 1 =>
    /\ request.block_number = meter.block
    /\ request.type = "NORMAL" => meter.served = 0
    /\ Fits => app_array = Prefix(meter.served)

\* It has: the answer is what follows in the value.
Answered ==
  pc \in {"exchange", "response"} /\ meter.answered = sent =>
    /\ request.block_number <= length
    /\ meter.answer.kind = "block" => meter.answer.block_number = meter.block
    /\ Fits /\ meter.answer.kind \in {"normal", "block", "last"} =>
         app_array \o meter.answer.data = Prefix(meter.served)
    /\ meter.answer.kind \in {"normal", "last"} => meter.served = length

\* The whole value is in the buffer exactly when it is, or has been, dumped;
\* an error ends the function.
Complete ==
  /\ pc = "dump" => dump
  /\ dump => pc \in {"dump", "done"}
  /\ Fits /\ dump => app_array = Value(Selection)
  /\ file # <<>> => pc = "done" /\ dump /\ file = <<app_array>>
  /\ pc # "done" => success

Transfer == Untouched /\ Asking /\ Waiting /\ Answered /\ Complete

IInv == TypeOK /\ Transfer

-----------------------------------------------------------------------------
(* Lemmas about values and answers                                         *)

LEMMA ValueIsSeq ==
  ASSUME TypeOK, NEW selection \in Selections
  PROVE  /\ length \in Nat
         /\ Value(selection) \in Seq(Piece) /\ Len(Value(selection)) = length
<1>1. length \in Nat
  BY SizeAssumption DEF TypeOK
<1>2. \A i \in 1..length : <<selection, i>> \in Piece
  BY <1>1 DEF Piece
<1> QED
  BY <1>1, <1>2 DEF Value

LEMMA Prefixes ==
  ASSUME TypeOK, NEW m \in 0..length, NEW n \in m..length
  PROVE  /\ Prefix(0) = <<>> /\ Prefix(length) = Value(request.selection)
         /\ Prefix(m) \in Seq(Piece) /\ Len(Prefix(m)) = m
         /\ SubSeq(Value(request.selection), m + 1, n) \in Seq(Piece)
         /\ Len(SubSeq(Value(request.selection), m + 1, n)) = n - m
         /\ Prefix(m) \o SubSeq(Value(request.selection), m + 1, n) = Prefix(n)
<1> DEFINE v == Value(request.selection)
<1>1. v \in Seq(Piece) /\ Len(v) = length /\ length \in Nat
  BY ValueIsSeq DEF TypeOK
<1> HIDE DEF v
<1>2. Prefix(0) = <<>> /\ Prefix(length) = v
  BY <1>1, SubSeqEmpty, SubSeqFull DEF Prefix, v
<1>3. \A i \in 1..length : v[i] \in Piece
  BY <1>1
<1>4. SubSeq(v, 1, m) \in Seq(Piece) /\ Len(SubSeq(v, 1, m)) = m
  BY <1>1, <1>3, SubSeqProperties
<1>5. SubSeq(v, m + 1, n) \in Seq(Piece) /\ Len(SubSeq(v, m + 1, n)) = n - m
  BY <1>1, <1>3, SubSeqProperties
<1>6. SubSeq(v, 1, m) \o SubSeq(v, m + 1, n) = SubSeq(v, 1, n)
  BY <1>1, ConcatAdjacentSubSeq
<1> QED
  BY <1>2, <1>4, <1>5, <1>6 DEF Prefix, v

\* A block is the value from one piece to another.
LEMMA BlockGoesOn ==
  ASSUME TypeOK, NEW from \in 0..length, NEW block \in 0..from + 1,
         NEW answer \in Blocks(from, block)
  PROVE  /\ answer \in Response /\ answer.kind \in {"last", "block"}
         /\ from + Len(answer.data) \in from + 1..length
         /\ answer.block_number = block
         /\ Prefix(from) \o answer.data = Prefix(from + Len(answer.data))
         /\ answer.kind = "last" => from + Len(answer.data) = length
<1>1. /\ length \in Nat /\ from \in Nat /\ block \in Nat
  BY SizeAssumption DEF TypeOK
<1>2. PICK to \in from + 1..length :
        answer = [kind |-> IF to = length THEN "last" ELSE "block",
                  block_number |-> block,
                  data |-> SubSeq(Value(request.selection), from + 1, to)]
  BY Zenon DEF Blocks
<1>3. /\ answer.kind = IF to = length THEN "last" ELSE "block"
      /\ answer.block_number = block
      /\ answer.data = SubSeq(Value(request.selection), from + 1, to)
      /\ answer = [kind |-> answer.kind, block_number |-> answer.block_number,
                   data |-> answer.data]
  BY <1>2, Zenon
<1>4. to \in from..length /\ to \in Nat
  BY <1>1
<1>5. /\ answer.data \in Seq(Piece) /\ Len(answer.data) = to - from
      /\ Prefix(from) \o answer.data = Prefix(to)
  BY <1>1, <1>3, <1>4, Prefixes
<1>6. answer.kind \in {"last", "block"} /\ (answer.kind = "last" => to = length)
  BY <1>3
<1>7. answer \in Response
  BY <1>1, <1>3, <1>5, <1>6 DEF Response
<1>8. from + Len(answer.data) = to
  BY <1>1, <1>4, <1>5
<1> QED
  BY <1>2, <1>3, <1>5, <1>6, <1>7, <1>8

\* The meter's answer to a request that it has not answered yet goes on
\* where the meter stands.
LEMMA AnswerGoesOn ==
  ASSUME TypeOK, meter.served <= length, meter.block <= meter.served,
         request.type = "NORMAL" => meter.served = 0,
         NEW answer \in Answers
  PROVE  /\ answer \in Response
         /\ meter.served + Len(answer.data) \in 0..length
         /\ answer.block_number <= meter.served + Len(answer.data)
         /\ answer.kind \in {"normal", "block", "last"} =>
              Prefix(meter.served) \o answer.data
                = Prefix(meter.served + Len(answer.data))
         /\ answer.kind \in {"normal", "last"} =>
              meter.served + Len(answer.data) = length
<1>1. /\ length \in Nat /\ meter.served \in 0..length /\ meter.block \in Nat
      /\ request.selection \in Selections
  BY SizeAssumption DEF TypeOK
<1>2. CASE answer \in [kind : Faults, block_number : {0}, data : {<<>>}]
  <2>1. answer.kind \in FaultKinds /\ answer.block_number = 0 /\ answer.data = <<>>
    BY <1>2, FaultAssumption
  <2>2. Len(answer.data) = 0
    BY <2>1
  <2>3. answer \in Response
    <3>1. <<>> \in Seq(Piece)
      BY EmptySeq
    <3>2. PICK k \in Faults : answer = [kind |-> k, block_number |-> 0, data |-> <<>>]
      BY <1>2, <2>1
    <3> QED
      BY <3>1, <3>2, FaultAssumption DEF Response
  <2> QED
    BY <1>1, <2>1, <2>2, <2>3 DEF FaultKinds
<1>3. CASE encoded /\ request.type = "NORMAL" /\ answer \in
             {[kind |-> "normal", block_number |-> 0,
               data |-> Value(request.selection)]}
  <2>1. Value(request.selection) \in Seq(Piece) /\ Len(Value(request.selection)) = length
    BY <1>1, ValueIsSeq
  <2>2. Prefix(0) = <<>> /\ Prefix(length) = Value(request.selection)
    BY <1>1, Prefixes
  <2>3. <<>> \o Value(request.selection) = Value(request.selection)
    BY <2>1, ConcatEmptySeq
  <2> QED
    BY <1>1, <1>3, <2>1, <2>2, <2>3 DEF Response
<1>4. CASE request.type = "NORMAL" /\ answer \in Blocks(0, 1)
  <2>1. meter.served = 0 /\ 0 \in 0..length /\ 1 \in 0..0 + 1
    BY <1>1, <1>4
  <2>2. /\ answer \in Response /\ answer.kind \in {"last", "block"}
        /\ 0 + Len(answer.data) \in 0 + 1..length /\ answer.block_number = 1
        /\ Prefix(0) \o answer.data = Prefix(0 + Len(answer.data))
        /\ answer.kind = "last" => 0 + Len(answer.data) = length
    BY <1>4, <2>1, BlockGoesOn
  <2> QED
    BY <1>1, <2>1, <2>2
<1>5. CASE answer \in Blocks(meter.served, meter.block + 1)
  <2>1. meter.block + 1 \in 0..meter.served + 1
    BY <1>1
  <2>2. /\ answer \in Response /\ answer.kind \in {"last", "block"}
        /\ meter.served + Len(answer.data) \in meter.served + 1..length
        /\ answer.block_number = meter.block + 1
        /\ Prefix(meter.served) \o answer.data
             = Prefix(meter.served + Len(answer.data))
        /\ answer.kind = "last" => meter.served + Len(answer.data) = length
    BY <1>1, <1>5, <2>1, BlockGoesOn
  <2> QED
    BY <1>1, <2>2
<1> QED
  BY <1>2, <1>3, <1>4, <1>5 DEF Answers

\* Writing to the buffer never leaves its bounds, and loses nothing that fits.
LEMMA Stored ==
  ASSUME TypeOK, NEW bytes \in Seq(Piece)
  PROVE  /\ Store(bytes) \in Seq(Piece) /\ Len(Store(bytes)) <= AppBufferSize
         /\ Len(app_array \o bytes) <= AppBufferSize =>
              Store(bytes) = app_array \o bytes
<1>1. /\ app_array \in Seq(Piece) /\ Len(app_array) <= AppBufferSize
      /\ app_array \o bytes \in Seq(Piece)
      /\ Len(app_array \o bytes) = Len(app_array) + Len(bytes)
  BY ConcatProperties DEF TypeOK
<1> QED
  BY <1>1 DEF Store

-----------------------------------------------------------------------------
(* The invariant at the start                                              *)

LEMMA InvInit == Init => IInv
<1> SUFFICES ASSUME Init
             PROVE  IInv
  OBVIOUS
<1>1. NoResponse \in Response /\ <<>> \in Seq(Piece) /\ Len(<<>>) = 0
  BY EmptySeq DEF NoResponse, Response
<1>2. length \in Nat
  BY SizeAssumption DEF Init
<1>3. TypeOK
  <2>1. request \in [type : {"NORMAL", "NEXT"}, block_number : Nat,
                     selection : Selections]
    BY DEF Init, Selections
  <2>2. meter \in [answered : Nat, answer : Response, block : Nat, served : Nat]
    BY <1>1 DEF Init
  <2>3. Len(app_array) <= AppBufferSize /\ retries \in 0..LastCount
    BY <1>1, CounterAssumption, SizeAssumption DEF Init
  <2> QED
    BY <1>1, <2>1, <2>2, <2>3 DEF Init, TypeOK
<1>4. Transfer
  BY <1>2
  DEF Init, Transfer, Untouched, Asking, Waiting, Answered, Complete
<1> QED
  BY <1>3, <1>4 DEF IInv

-----------------------------------------------------------------------------
(* The meter's answer                                                      *)

\* Whichever way the exchange ends for the client, the meter has answered the
\* request in hand with what follows.
LEMMA MeterStep ==
  ASSUME IInv, pc = "exchange", NEW answer, MeterAnswers(answer)
  PROVE  /\ answer \in Response
         /\ meter' \in [answered : Nat, answer : Response, block : Nat, served : Nat]
         /\ meter'.answered = sent /\ meter'.answer = answer
         /\ meter'.served <= length /\ meter'.block <= meter'.served
         /\ answer.block_number = meter'.block
         /\ request.block_number <= length
         /\ Fits /\ answer.kind \in {"normal", "block", "last"} =>
              app_array \o answer.data = Prefix(meter'.served)
         /\ answer.kind \in {"normal", "last"} => meter'.served = length
<1>1. /\ TypeOK /\ answer \in Answers
      /\ meter.served <= length /\ meter.block <= meter.served
      /\ meter.answered = sent - 1 /\ sent \in Nat
      /\ request.block_number = meter.block
      /\ request.type = "NORMAL" => meter.served = 0
      /\ Fits => app_array = Prefix(meter.served)
  BY DEF IInv, Transfer, Asking, Waiting, MeterAnswers, TypeOK
<1>2. /\ length \in Nat /\ meter.served \in Nat /\ meter.block \in Nat
  BY <1>1, SizeAssumption DEF TypeOK
<1>3. /\ answer \in Response
      /\ meter.served + Len(answer.data) \in 0..length
      /\ answer.block_number <= meter.served + Len(answer.data)
      /\ answer.kind \in {"normal", "block", "last"} =>
           Prefix(meter.served) \o answer.data
             = Prefix(meter.served + Len(answer.data))
      /\ answer.kind \in {"normal", "last"} =>
           meter.served + Len(answer.data) = length
  BY <1>1, AnswerGoesOn
<1>4. /\ answer.block_number \in Nat /\ answer.data \in Seq(Piece)
      /\ Len(answer.data) \in Nat
  BY <1>3 DEF Response
<1>5. meter' = [answered |-> sent, answer |-> answer,
                block |-> answer.block_number,
                served |-> meter.served + Len(answer.data)]
  <2>1. CASE request.type = "NORMAL"
    BY <1>1, <1>2, <1>4, <2>1 DEF MeterAnswers
  <2>2. CASE request.type # "NORMAL"
    BY <2>2 DEF MeterAnswers
  <2> QED
    BY <2>1, <2>2
<1>6. /\ meter'.answered = sent /\ meter'.answer = answer
      /\ meter'.block = answer.block_number
      /\ meter'.served = meter.served + Len(answer.data)
  BY <1>5
<1>7. meter' \in [answered : Nat, answer : Response, block : Nat, served : Nat]
  BY <1>1, <1>2, <1>3, <1>4, <1>5
<1>8. meter'.served <= length /\ meter'.block <= meter'.served
      /\ request.block_number <= length
  BY <1>1, <1>2, <1>3, <1>4, <1>6
<1> QED
  BY <1>1, <1>3, <1>6, <1>7, <1>8

-----------------------------------------------------------------------------
(* Types                                                                   *)

LEMMA SelectionType == Selection \in Selections
  BY DEF Selection, Selections

LEMMA TypeStep == IInv /\ [Next]_vars => TypeOK'
<1> SUFFICES ASSUME IInv, [Next]_vars
             PROVE  TypeOK'
  OBVIOUS
<1> USE DEF arguments, locals
<1>0. TypeOK
  BY DEF IInv
<1>1. CASE BadLogicalName \/ DumpObject \/ Returned \/ UNCHANGED vars
  BY <1>0, <1>1 DEF BadLogicalName, DumpObject, Returned, vars, TypeOK
<1>2. CASE EncodeRequest \/ EncodeRequestFails
  <2>1. /\ request' = [request EXCEPT !.selection = Selection]
        /\ pc' \in {"exchange", "done"} /\ sent' \in {1, sent}
        /\ UNCHANGED <<obj, start_date, end_date, length, encoded, retries, dump,
                       success, response, app_array, meter>>
    BY <1>2 DEF EncodeRequest, EncodeRequestFails
  <2>2. request' \in [type : {"NORMAL", "NEXT"}, block_number : Nat,
                      selection : Selections]
    BY <1>0, <2>1, SelectionType DEF TypeOK
  <2> QED
    BY <1>0, <2>1, <2>2 DEF TypeOK
<1>3. CASE ExchangeSucceeds
  <2>1. pc = "exchange" /\ pc' = "response"
        /\ UNCHANGED <<obj, start_date, end_date, length, request, sent, encoded,
                       retries, dump, success, app_array>>
    BY <1>3 DEF ExchangeSucceeds
  <2>2. PICK answer \in Answers \cup {meter.answer} :
          /\ MeterAnswers(answer) \/ MeterRepeats(answer)
          /\ response' = answer
    BY <1>3 DEF ExchangeSucceeds
  <2>3. CASE MeterAnswers(answer)
    <3>1. /\ answer \in Response
          /\ meter' \in [answered : Nat, answer : Response, block : Nat, served : Nat]
      BY <2>1, <2>3, MeterStep
    <3> QED
      BY <1>0, <2>1, <2>2, <3>1 DEF TypeOK
  <2>4. CASE MeterRepeats(answer)
    BY <1>0, <2>1, <2>2, <2>4 DEF MeterRepeats, TypeOK
  <2> QED
    BY <2>2, <2>3, <2>4
<1>4. CASE ExchangeReturnsRest
  <2>1. response' \in Response
    <3>1. <<>> \in Seq(Piece)
      BY EmptySeq
    <3> QED
      BY <1>4, <3>1 DEF ExchangeReturnsRest, Response, FaultKinds
  <2> QED
    BY <1>0, <1>4, <2>1 DEF ExchangeReturnsRest, TypeOK
<1>5. CASE ExchangeFails
  <2>1. pc = "exchange" /\ retries' = Count(retries) /\ pc' \in {"exchange", "done"}
        /\ success' \in {success, FALSE} /\ request' = request
        /\ UNCHANGED <<obj, start_date, end_date, length, sent, encoded, dump,
                       response, app_array>>
    BY <1>5, Zenon DEF ExchangeFails, RequestAfterFailure
  <2>2. Count(retries) \in 0..LastCount
    BY <1>0, CounterAssumption DEF Count, TypeOK
  <2>3. meter' \in [answered : Nat, answer : Response, block : Nat, served : Nat]
    <3>1. CASE UNCHANGED meter
      BY <1>0, <3>1 DEF TypeOK
    <3>2. CASE \E answer \in Answers : MeterAnswers(answer)
      BY <2>1, <3>2, MeterStep
    <3> QED
      BY <1>5, <3>1, <3>2 DEF ExchangeFails
  <2> QED
    BY <1>0, <2>1, <2>2, <2>3 DEF TypeOK
<1>6. CASE ResponseIsBad \/ ResponseIsUnknown
  BY <1>0, <1>6 DEF ResponseIsBad, ResponseIsUnknown, TypeOK
<1>7. CASE ResponseIsLast \/ ResponseHasMoreData
  <2>1. app_array' \in Seq(Piece) /\ Len(app_array') <= AppBufferSize
    BY <1>0, <1>7, Stored
    DEF ResponseIsLast, ResponseHasMoreData, TypeOK, Response
  <2>2. request' \in [type : {"NORMAL", "NEXT"}, block_number : Nat,
                      selection : Selections]
    <3>1. response.block_number \in Nat
      BY <1>0 DEF TypeOK, Response
    <3>2. \/ UNCHANGED request
          \/ request' = [request EXCEPT !.type = "NEXT",
                                        !.block_number = response.block_number]
      BY <1>7 DEF ResponseIsLast, ResponseHasMoreData
    <3> QED
      BY <1>0, <3>1, <3>2 DEF TypeOK
  <2>3. /\ pc' \in {"dump", "exchange"} /\ dump' \in {dump, TRUE}
        /\ sent' \in {sent, sent + 1} /\ encoded' \in {encoded} \cup Encodes
        /\ UNCHANGED <<obj, start_date, end_date, length, retries, success,
                       response, meter>>
    BY <1>7 DEF ResponseIsLast, ResponseHasMoreData
  <2>4. dump' \in BOOLEAN
    BY <1>0, <2>3, Zenon DEF TypeOK
  <2>5. sent' \in Nat /\ encoded' \in BOOLEAN
    BY <1>0, <2>3, EncodesAssumption DEF TypeOK
  <2> QED
    BY <1>0, <2>1, <2>2, <2>3, <2>4, <2>5 DEF TypeOK
<1> QED
  BY <1>1, <1>2, <1>3, <1>4, <1>5, <1>6, <1>7 DEF Next, AccessObject

-----------------------------------------------------------------------------
(* The transfer                                                            *)

\* A step that does not touch what Prefix looks at does not change it.
LEMMA SamePrefix ==
  ASSUME UNCHANGED <<length, request.selection>>, NEW n
  PROVE  Prefix(n)' = Prefix(n)
  BY DEF Prefix, Value

LEMMA TransferStep == IInv /\ [Next]_vars => Transfer'
<1> SUFFICES ASSUME IInv, [Next]_vars
             PROVE  Transfer'
  OBVIOUS
<1> USE DEF arguments, locals, Fits
<1>0. /\ TypeOK /\ Untouched /\ Asking /\ Waiting /\ Answered /\ Complete
      /\ length \in Nat /\ sent \in Nat /\ AppBufferSize \in Nat
  BY SizeAssumption DEF IInv, Transfer, TypeOK
<1>1. CASE BadLogicalName \/ EncodeRequestFails
  <2>1. pc' = "done" /\ dump' = dump /\ file' = file /\ pc = "entry"
    BY <1>1 DEF BadLogicalName, EncodeRequestFails
  <2>2. ~dump' /\ file' = <<>>
    BY <1>0, <2>1, Zenon DEF Untouched
  <2> QED
    BY <2>1, <2>2 DEF Transfer, Untouched, Asking, Waiting, Answered, Complete
<1>2. CASE EncodeRequest
  <2>1. /\ pc' = "exchange" /\ sent' = 1 /\ meter.answered = 0 /\ meter.block = 0
        /\ meter.served = 0 /\ app_array = <<>> /\ file = <<>> /\ dump = FALSE
        /\ request'.type = "NORMAL" /\ request'.block_number = 0
        /\ request'.selection = Selection
        /\ pc = "entry"
        /\ UNCHANGED <<obj, start_date, end_date, length, dump, success, app_array,
                       file, meter>>
    BY <1>0, <1>2 DEF EncodeRequest, Untouched
  <2>2. Prefix(0)' = <<>>
    BY <1>0, SubSeqEmpty DEF Prefix
  <2>3. UNCHANGED Selection
    BY <2>1 DEF Selection
  <2> QED
    BY <1>0, <2>1, <2>2, <2>3
    DEF Transfer, Untouched, Asking, Waiting, Answered, Complete
<1>3. CASE ExchangeSucceeds \/ ExchangeReturnsRest \/ ExchangeFails
  <2>1. /\ pc = "exchange" /\ pc' \in {"exchange", "response", "done"}
        /\ UNCHANGED <<obj, start_date, end_date, length, request, sent, dump,
                       app_array, file>>
    BY <1>3, Zenon
    DEF ExchangeSucceeds, ExchangeReturnsRest, ExchangeFails, RequestAfterFailure
  <2>2. (\A n : Prefix(n)' = Prefix(n)) /\ UNCHANGED Selection
    BY <2>1, SamePrefix DEF Selection
  <2>3. UNCHANGED meter \/ \E answer : MeterAnswers(answer)
    BY <1>3, Zenon
    DEF ExchangeSucceeds, ExchangeReturnsRest, ExchangeFails, MeterRepeats
  <2>4. pc' = "response" =>
          /\ meter'.answered = sent
          /\ response' = meter'.answer \/ response'.kind = "nollc"
    <3>1. CASE ExchangeSucceeds
      <4>1. PICK answer : /\ MeterAnswers(answer) \/ MeterRepeats(answer)
                          /\ response' = answer
        BY <3>1, Zenon DEF ExchangeSucceeds
      <4>2. CASE MeterAnswers(answer)
        BY <2>1, <4>1, <4>2, MeterStep
      <4>3. CASE MeterRepeats(answer)
        BY <4>1, <4>3 DEF MeterRepeats
      <4> QED
        BY <4>1, <4>2, <4>3
    <3>2. CASE ExchangeReturnsRest
      BY <3>2 DEF ExchangeReturnsRest
    <3>3. CASE ExchangeFails
      BY <2>1, <3>3, Zenon DEF ExchangeFails
    <3> QED
      BY <1>3, <3>1, <3>2, <3>3
  <2>5. Complete' /\ Untouched'
    <3>1. pc' # "done" => success'
      BY <1>0, <1>3, <2>1, Zenon
      DEF ExchangeSucceeds, ExchangeReturnsRest, ExchangeFails, Complete
    <3> QED
      BY <1>0, <2>1, <3>1 DEF Complete, Untouched
  <2>6. CASE UNCHANGED meter
    BY <1>0, <2>1, <2>2, <2>4, <2>5, <2>6 DEF Transfer, Asking, Waiting, Answered
  <2>7. ASSUME NEW answer, MeterAnswers(answer)
        PROVE  Transfer'
    <3>1. Asking' /\ Waiting'
      BY <1>0, <2>1, <2>2, <2>4, <2>7, MeterStep DEF Asking, Waiting
    <3>2. Answered'
      BY <2>1, <2>2, <2>7, MeterStep DEF Answered
    <3> QED
      BY <2>5, <3>1, <3>2 DEF Transfer
  <2> QED
    BY <2>3, <2>6, <2>7
<1>4. CASE ResponseIsBad \/ ResponseIsUnknown
  BY <1>0, <1>4
  DEF ResponseIsBad, ResponseIsUnknown, Transfer, Untouched, Asking, Waiting,
      Answered, Complete
<1>5. CASE ResponseIsLast \/ ResponseHasMoreData
  <2>1. /\ pc = "response" /\ response.kind \in {"normal", "last", "block"}
        /\ app_array' = Store(response.data)
        /\ UNCHANGED <<obj, start_date, end_date, length, file, meter>>
        /\ request'.selection = request.selection
    BY <1>0, <1>5 DEF ResponseIsLast, ResponseHasMoreData, TypeOK
  <2>2. /\ response = meter.answer /\ meter.answered = sent
        /\ meter.served \in 0..length /\ meter.block \in Nat
        /\ meter.block <= meter.served
        /\ request.selection = Selection /\ response.data \in Seq(Piece)
        /\ ~dump /\ file = <<>>
    BY <1>0, <2>1 DEF Asking, Complete, TypeOK, Response
  <2>e. success'
    BY <1>0, <1>5, Zenon DEF ResponseIsLast, ResponseHasMoreData, Complete
  <2>3. (\A n : Prefix(n)' = Prefix(n)) /\ UNCHANGED Selection
    BY <2>1, SamePrefix DEF Selection
  <2>4. Fits => app_array' = Prefix(meter.served)
    <3>1. Fits => app_array \o response.data = Prefix(meter.served)
      BY <1>0, <2>1, <2>2 DEF Answered
    <3>2. Len(Prefix(meter.served)) = meter.served
      BY <1>0, <2>2, Prefixes
    <3>3. length <= AppBufferSize =>
            Len(app_array \o response.data) <= AppBufferSize
      BY <1>0, <2>2, <3>1, <3>2
    <3>4. Len(app_array \o response.data) <= AppBufferSize =>
            Store(response.data) = app_array \o response.data
      BY <1>0, <2>2, Stored
    <3> QED
      BY <2>1, <3>1, <3>3, <3>4
  <2>5. CASE ResponseIsLast
    <3>1. pc' = "dump" /\ dump' /\ meter.served = length
      BY <1>0, <2>1, <2>2, <2>5 DEF ResponseIsLast, Answered
    <3>2. Prefix(length) = Value(Selection)
      <4>1. length \in 0..length /\ length \in length..length
        BY <1>0
      <4>2. Prefix(length) = Value(request.selection)
        BY <1>0, <4>1, Prefixes
      <4> QED
        BY <2>2, <4>2
    <3>3. Value(Selection)' = Value(Selection)
      BY <2>1, <2>3 DEF Value
    <3> QED
      BY <2>1, <2>2, <2>e, <2>4, <3>1, <3>2, <3>3
      DEF Transfer, Untouched, Asking, Waiting, Answered, Complete
  <2>6. CASE ResponseHasMoreData
    <3>1. /\ pc' = "exchange" /\ sent' = sent + 1 /\ ~dump'
          /\ request'.type = "NEXT" /\ request'.block_number = meter.block
      <4>1. /\ pc' = "exchange" /\ sent' = sent + 1 /\ dump' = dump
            /\ response.kind = "block"
            /\ request' = [request EXCEPT !.type = "NEXT",
                                          !.block_number = response.block_number]
        BY <2>6, Zenon DEF ResponseHasMoreData
      <4>2. response.block_number = meter.block
        BY <1>0, <2>1, <2>2, <4>1 DEF Answered
      <4>3. request'.type = "NEXT" /\ request'.block_number = response.block_number
        BY <1>0, <4>1 DEF TypeOK
      <4> QED
        BY <2>2, <4>1, <4>2, <4>3, Zenon
    <3>2. sent' > 0 /\ meter'.answered = sent' - 1 /\ sent' # sent
      BY <1>0, <2>1, <2>2, <3>1
    <3>3. Asking'
      BY <2>1, <2>2, <2>3, <3>1, <3>2 DEF Asking
    <3>4. Waiting' /\ Answered'
      BY <1>0, <2>1, <2>2, <2>3, <2>4, <3>1, <3>2 DEF Waiting, Answered
    <3>5. Untouched' /\ Complete'
      BY <2>1, <2>2, <2>e, <3>1 DEF Untouched, Complete
    <3> QED
      BY <3>3, <3>4, <3>5 DEF Transfer
  <2> QED
    BY <1>5, <2>5, <2>6
<1>6. CASE DumpObject
  <2>1. /\ pc = "dump" /\ pc' = "done" /\ file' \in {file, <<>>, <<app_array>>}
        /\ UNCHANGED <<obj, start_date, end_date, length, dump, app_array>>
    BY <1>6, Zenon DEF DumpObject
  <2>2. Value(Selection)' = Value(Selection)
    BY <2>1 DEF Value, Selection
  <2> QED
    BY <1>0, <2>1, <2>2
    DEF Transfer, Untouched, Asking, Waiting, Answered, Complete
<1>7. CASE Returned \/ UNCHANGED vars
  <2>1. UNCHANGED <<obj, start_date, end_date, length, pc, request, sent, dump,
                    success, response, app_array, file, meter>>
    BY <1>7, Zenon DEF Returned, vars
  <2>2. (\A n : Prefix(n)' = Prefix(n)) /\ UNCHANGED Selection
        /\ Value(Selection)' = Value(Selection)
    BY <2>1, SamePrefix DEF Selection, Value
  <2> QED
    BY <1>0, <2>1, <2>2
    DEF Transfer, Untouched, Asking, Waiting, Answered, Complete
<1> QED
  BY <1>1, <1>2, <1>3, <1>4, <1>5, <1>6, <1>7 DEF Next, AccessObject

-----------------------------------------------------------------------------
(* The theorems                                                            *)

LEMMA Inductive == Spec => []IInv
<1>1. IInv /\ [Next]_vars => IInv'
  BY TypeStep, TransferStep DEF IInv
<1> QED
  BY <1>1, InvInit, PTL DEF Spec

(* The type invariant: the application buffer is never written past its    *)
(* end, whatever the meter sends and however often (lib/CosemClient.cpp:969, *)
(* 982).                                                                   *)
THEOREM TypeCorrect == Spec => []TypeOK
<1>1. IInv => TypeOK
  BY DEF IInv
<1> QED
  BY <1>1, Inductive, PTL

(* A retry goes on with the transfer where it was interrupted, for every   *)
(* number of blocks and of failed exchanges (lib/CosemClient.cpp:926-1000). *)
THEOREM Retry == Spec => []Resumable
<1>1. IInv => Resumable
  <2> SUFFICES ASSUME IInv, Fits, pc = "exchange"
               PROVE  /\ request.block_number <= length
                      /\ meter.answered = sent - 1 =>
                           /\ meter.block = request.block_number
                           /\ app_array = SubSeq(Value(request.selection), 1, meter.served)
                      /\ meter.answered \in {sent - 1, sent}
    BY DEF Resumable
  <2>1. Asking /\ Waiting /\ Answered
    BY DEF IInv, Transfer
  <2>2. meter.block \in Nat /\ meter.served \in Nat /\ length \in Nat
    BY SizeAssumption DEF IInv, TypeOK
  <2>3. CASE meter.answered = sent - 1
    BY <2>1, <2>2, <2>3 DEF Asking, Waiting, Prefix
  <2>4. CASE meter.answered = sent /\ meter.answered # sent - 1
    BY <2>1, <2>4 DEF Answered
  <2> QED
    BY <2>1, <2>3, <2>4 DEF Asking
<1> QED
  BY <1>1, Inductive, PTL

(* What is written to the dump file is the value that was asked for, whole *)
(* and in order (lib/CosemClient.cpp:798-1124).                            *)
THEOREM Dump == Spec => []DumpedIsWhole
<1>1. IInv => DumpedIsWhole
  <2> SUFFICES ASSUME IInv, Fits, end_date # "bad", file # <<>>
               PROVE  file = <<Value(Asked)>>
    BY DEF DumpedIsWhole
  <2>1. file = <<app_array>> /\ app_array = Value(Selection)
    BY DEF IInv, Transfer, Complete
  <2>2. start_date \in Dates /\ end_date \in {"none", "good"} /\ obj.profile \in BOOLEAN
    BY DEF IInv, TypeOK, Dates, Object
  <2>3. Selection = Asked
    BY <2>2 DEF Selection, Asked
  <2> QED
    BY <2>1, <2>3
<1> QED
  BY <1>1, Inductive, PTL

-----------------------------------------------------------------------------
(* AccessObject implements Download                                        *)

LEMMA RefineInit == Init => Whole!Init
  BY DEF Init, Whole!Init

\* A step with data collects, the dump completes; what ends the function
\* otherwise is a failure or, when nobody calls SetError, passes for a success.
LEMMA RefineStep ==
  IInv /\ [Next]_vars => [Whole!Next \/ ~Fits]_(Whole!downloadVars)
<1> SUFFICES ASSUME IInv, [Next]_vars, Fits
             PROVE  Whole!Next \/ UNCHANGED Whole!downloadVars
  OBVIOUS
<1> USE DEF arguments, locals
<1>0. TypeOK /\ Untouched /\ Asking /\ Answered /\ Complete
  BY DEF IInv, Transfer
<1>a. ASSUME UNCHANGED <<obj, start_date, end_date, length>>
      PROVE  Value(Selection)' = Value(Selection)
  BY <1>a DEF Value, Selection
<1>b. ASSUME pc # "done", pc' = "done",
             UNCHANGED <<obj, start_date, end_date, length, app_array, file>>
      PROVE  IF success' THEN Whole!Abandon ELSE Whole!Fail
  BY <1>a, <1>b DEF Whole!Abandon, Whole!Fail
<1>c. ASSUME pc' # "done", pc # "done",
             UNCHANGED <<obj, start_date, end_date, length, app_array, file>>
      PROVE  UNCHANGED Whole!downloadVars
  BY <1>a, <1>c DEF Whole!downloadVars
<1>1. CASE BadLogicalName \/ EncodeRequestFails \/ ResponseIsBad \/ ResponseIsUnknown
  <2>1. /\ pc # "done" /\ pc' = "done"
        /\ UNCHANGED <<obj, start_date, end_date, length, app_array, file>>
    BY <1>1
    DEF BadLogicalName, EncodeRequestFails, ResponseIsBad, ResponseIsUnknown
  <2> QED
    BY <2>1, <1>b, Zenon DEF Whole!Next
<1>2. CASE EncodeRequest \/ ExchangeSucceeds \/ ExchangeReturnsRest
  BY <1>2, <1>c DEF EncodeRequest, ExchangeSucceeds, ExchangeReturnsRest
<1>3. CASE ExchangeFails
  <2>1. /\ pc = "exchange" /\ pc' \in {"exchange", "done"}
        /\ UNCHANGED <<obj, start_date, end_date, length, app_array, file>>
    BY <1>3, Zenon DEF ExchangeFails
  <2> QED
    BY <2>1, <1>b, <1>c DEF Whole!Next
<1>4. CASE ResponseIsLast \/ ResponseHasMoreData
  <2>1. /\ pc = "response" /\ pc' # "done"
        /\ app_array' = Store(response.data)
        /\ UNCHANGED <<obj, start_date, end_date, length, file, meter>>
        /\ response.kind \in {"normal", "last", "block"}
    BY <1>4 DEF ResponseIsLast, ResponseHasMoreData
  <2>2. /\ request.selection = Selection /\ meter.answered = sent
        /\ response = meter.answer
        /\ app_array \in Seq(Piece) /\ response.data \in Seq(Piece)
        /\ meter.served \in 0..length
    BY <1>0, <2>1, SizeAssumption DEF Asking, TypeOK, Response
  <2>3. app_array \o response.data = Prefix(meter.served)
    BY <1>0, <2>1, <2>2 DEF Answered
  <2>4. Len(Prefix(meter.served)) = meter.served
    BY <1>0, <2>2, Prefixes
  <2>5. Len(app_array \o response.data) = Len(app_array) + Len(response.data)
    BY <2>2, ConcatProperties
  <2>6. /\ Len(app_array \o response.data) <= AppBufferSize
        /\ meter.served \in Len(app_array)..length
    BY <1>0, <2>2, <2>3, <2>4, <2>5, SizeAssumption DEF Fits, TypeOK
  <2>7. app_array' = SubSeq(Value(Selection), 1, meter.served)
    BY <1>0, <2>1, <2>2, <2>3, <2>6, Stored DEF Prefix
  <2>8. Selection \in Selections /\ Len(Value(Selection)) = length
    BY <1>0, SelectionType, ValueIsSeq
  <2>9. Whole!Collect
    BY <1>a, <2>1, <2>6, <2>7, <2>8 DEF Whole!Collect
  <2> QED
    BY <2>9 DEF Whole!Next
<1>5. CASE DumpObject
  <2>1. /\ pc = "dump" /\ pc' = "done" /\ success /\ success' = success
        /\ app_array = Value(Selection) /\ file = <<>>
        /\ file' \in {<<>>, <<app_array>>}
        /\ UNCHANGED <<obj, start_date, end_date, length, app_array>>
    BY <1>0, <1>5, Zenon DEF DumpObject, Complete
  <2>2. Whole!Complete
    BY <1>a, <2>1 DEF Whole!Complete
  <2> QED
    BY <2>2 DEF Whole!Next
<1>6. CASE Returned \/ UNCHANGED vars
  <2>1. UNCHANGED <<obj, start_date, end_date, length, pc, success, app_array,
                    file>>
    BY <1>6 DEF Returned, vars
  <2> QED
    BY <1>a, <2>1 DEF Whole!downloadVars
<1> QED
  BY <1>1, <1>2, <1>3, <1>4, <1>5, <1>6 DEF Next, AccessObject

(* Seen from the caller, AccessObject collects the value in order, and what *)
(* it writes to a file it reports as a success and is all of the value     *)
(* (lib/CosemClient.cpp:926-1088), for every value that fits into the      *)
(* application buffer.                                                     *)
THEOREM Refinement == Spec => ImplementsDownload
  BY RefineInit, RefineStep, Inductive, PTL DEF Spec, ImplementsDownload
=============================================================================
