# cosem_client in TLA+

A model of `cosem_client`, the DLMS/COSEM command line client of this
repository: a program that opens a serial port, optionally dials a modem,
connects to an electricity meter over HDLC, associates, reads a list of
objects, dumps them as XML and writes a result file. The modules describe what
the code under `src/` does, TLC checks them on small instances, and TLAPS
proves the theorems about them for every value of their constants.

## 1. Inventory

| component | code | state it keeps | operations |
|---|---|---|---|
| Transport | `lib/Transport.cpp`, `.h` | `mData`, `mMutex`, `mSem`, `mStarted`, `mTerminate`, the reader thread | `Open`, `Start`, `Send`, `WaitForData`, `WaitForStop`, `Reader` |
| HDLC exchange | `CosemClient::HdlcProcess` and its helpers | `mRcvArray`, `meter.hdlc` (type, N(S), N(R)), the retry counter | send, receive, decode, acknowledge, resynchronise |
| AccessObject | `CosemClient::AccessObject` | request, block number, `app_array`, retry counter | one read, in one response or block by block, and its dump |
| Session | `main`, `Initialize`, `PerformTask`, `PerformCosemRead`, `PrintResult` | `mModemState`, `mCosemState`, `mReadIndex`, `mMeterIndex`, `mResults` | state charts of the modem and of the association, loops over meters and objects |
| Association | `ConnectAarq`, `Pass3And4` | `mAssoState` | AARQ/AARE, HLS passes 3 and 4 |
| Modem | `SendModem` | none | command and expected reply |
| AxdrPrinter | `lib/AxdrPrinter.cpp` | `mLevels`, `mStream` | `Start`, `Append`, `End`, `Get` |
| Configuration | `lib/Configuration.cpp`, `.h` | the values of three JSON files | three parsers |
| Util, library hooks | `lib/Util.cpp`, `src/cosem_client_hal.c` | none of interest | dates, strings, hashes |

How they interact. Two threads exist. The reader thread loops over
`serial_read`, appends what it got to `mData` under `mMutex` and raises `mSem`;
the main thread is a tower of calls, `main` > `PerformTask` >
`PerformCosemRead` > `ConnectHdlc` / `ConnectAarq` / `AccessObject` >
`HdlcProcess` > `Transport::Send` and `Transport::WaitForData`. A failed read
makes the reader call `exit(1)`, whatever the main thread is doing. The Cosem,
JSON and serial libraries are submodules that are not in the tree: what they do
is modelled from how the code uses it and marked external.

What is hard here, and what makes each component correct:

* **Transport**: two threads, a lock, a semaphore whose count and whose data
  are not changed together, two unsynchronised flags. Correct means: no byte
  lost, doubled or reordered; nobody sleeps on bytes that are there;
  `WaitForStop` returns, and returns only after the reader.
* **HDLC exchange**: partial, joined, lost, late and repeated frames, two
  sequence numbers, timeouts, a resynchronisation by RR, a buffer that fills.
  Correct means: what a caller accepts is the answer to its request, whole and
  in order; both ends agree afterwards; it returns; what is lost is recovered.
* **AccessObject**: a transfer of many blocks with retries in the middle, a
  finite buffer, six kinds of bad answer. Correct means: what is dumped is the
  whole value, and success means read.
* **Session**: state that outlives the meter it belongs to, early exits at
  every level. Correct means: nothing is read before an association, nothing
  after a failure, everything otherwise; the report says what happened.
* **Association**: four passes, a digest chosen by level, locals that outlive a
  failed ACTION. Correct means: associated for the client is associated for the
  meter, and at a high level both have the secret; a meter that the session file
  fits is associated with.
* **Modem**: a reply put together from two waits, over a mailbox that may hold
  what is left of the command before. Correct means: CONNECT is seen when the
  modem said it, and only then.
* **AxdrPrinter**: a stack of open elements that survives an aborted dump, and
  integers of eight types. Correct means: the XML is well nested, its sizes are
  true, and every number can be told from its text.
* **Configuration**: arrays of objects with members left out, of the wrong kind
  or out of range. Correct means: what the client works with is what the file
  says, and nothing of one element stays for the next.

`PROJECT.json` lists the components with their status and, under `hazards`,
every place of the code where one of these difficulties bites, with the
property that covers it.

## 2. Modules

| module | models | proofs |
|---|---|---|
| `Mailbox` | abstract: what a caller of `WaitForData` may rely on | |
| `Transport`, `MCTransport` | the two threads, one action per access to shared state | `TransportProofs` |
| `HdlcExchange` | `HdlcProcess` over the mailbox, its callers' retries, the line and the meter | `ExchangeProofs` |
| `Download` | abstract: what a caller of `AccessObject` may rely on | |
| `AccessObject` | `AccessObject` over the outcome of exchanges | `AccessProofs` |
| `CosemSession`, `MCCosemSession` | the program around the exchanges | `SessionProofs` |
| `ConfigurationFiles` | the parsers of the three JSON files | `ClientProofs` |
| `Modem` | `SendModem` and the reader thread over the mailbox | `ModemProofs` |
| `Association` | `ConnectAarq` and `Pass3And4`, the meter at the other end | `AssociationProofs` |
| `AxdrPrinter` | the printer of all dumps and its stack of open elements | `PrinterProofs` |
| `CosemClient`, `MCCosemClient` | the session with the four modules above in place of the outcomes of its calls | `ClientProofs` |

They are stacked rather than multiplied. `Transport` is shown to implement
`Mailbox` (checked and proved), and `HdlcExchange` uses the actions of `Mailbox`
in place of the threads. `AccessObject` takes from `HdlcExchange` that an
exchange returns the answer to its frame or fails. `CosemSession` takes from
both that an exchange or an access succeeds or fails, and returns. `CosemClient`
puts four calls back under the session: parsing, the modem, the association and
the dumps; it is shown to implement `CosemSession` in turn.

### Mailbox and Transport

`Mailbox` has the bytes not yet taken, the count of the semaphore, a chunk that
has arrived and is not announced yet (`ringing`), and the state of the one call.
A call first learns whether it was notified, and drains everything afterwards,
so a notified call may come back empty: a token whose bytes an earlier call
took is still there.

`Transport` has a program counter per thread. `client` walks through `Open`,
`WaitForData` (wait, lock, copy, clear and unlock) and `WaitForStop` (set the
flag, look at `mStarted`, join); `reader` through `Reader` (start, test, read,
lock, append and unlock, signal). `data += mData` and `mData.clear()` are two
steps, so that a missing lock shows. `mStarted` and `mTerminate` are plain
bools: `TestStarted` may see the old value of `mStarted` as long as no lock or
semaphore operation has ordered the threads. `received` and `returned` are
history variables.

### HdlcExchange

A frame travels as two halves, so that partial, joined and damaged frames
exist; its information field is the pair of exchange and segment it belongs to,
which is what the properties tell apart. One behaviour is a session: the SNRM
(exchange 0), the AARQ (1), then GETs. `Transmit`, `Receive`, the three
`Decode` actions and the two `Timeout` actions are the branches of the loop of
`HdlcProcess`, in its order; `StartExchange` to `GiveUp` are its callers as far
as they choose the next frame. `CallerAccepts` is what a caller can tell of the
bytes it gets: a UA, or an LLC and an AARE or GET response, never which request
it answers.

`unread` is what `mRcvArray` has left to read, `written` what was written since
its start: a jump over a frame gives no room back. `hdlc` is the part of
`meter.hdlc` that matters; `hdlc_encode_rr` sets its type to RR, which is how a
resent request comes not to be counted.

The meter acknowledges, answers an I frame with `Segments` segments in windows
of `Window`, goes on at the N(R) of an RR, and meets a repeated I frame or an RR
with nothing to send with an RR. The line may lose frames and halves. `Timely`
says that a timeout only happens when nothing is under way: the normal relation
between seconds of timeout and milliseconds of line.

### Download and AccessObject

`AccessObject` starts from every object and pair of dates, encodes a request,
and alternates between an exchange and a response. `ExchangeSucceeds` lets the
meter answer, for the first time or again; `ExchangeFails` is a failed
`HdlcProcess`, the request lost or only its answer; `ExchangeReturnsRest` is a
case that `HdlcExchange` has: a failure in the middle of a segmented answer
leaves the acknowledged segments behind, and the next call returns the others
alone, without LLC. A value is a sequence of pieces and the meter chooses the
size of each block. `Store` is `csm_array_write_buff`: all or nothing, with its
result ignored. `encoded` is what the encoder of the request for the next block
returned, which nobody looks at either: half a request is sent like a whole one,
again and again, and brings no data.

`Download` is what the caller sees: the buffer, the file and `result.success`.
The value is collected in order and without a repetition; `Complete` ends with
all of it, a success and, if the object is to be dumped, a file; `Fail` ends with
an error. `Abandon` is the third way, a success with a part of the value or none:
the code has it three times, and `SuccessMeansRead` is violated for it. What
remains is that a file is written once, with all of the value, and is reported
as a success.

### CosemSession

`pc` is where `main` is; the other variables are the members of `CosemClient`
by their names. `Task(again)` and `LeaveRead` carry the return values that
decide the loop of `main`. The reader thread appears as `ReaderExits`, which may
end the process at any point once the port is open. `mConf` is any
configuration of the constant `Configurations`.

### ConfigurationFiles

A file is readable JSON or not, and its root is an object or something else. In
the last case `Json::Value::get` throws and nobody catches it (`ParseThrows`
ends the process). An object is a function from the members it gives to
values with a kind, as jsoncpp tells them apart. Each of the three parsers is
a table of fields (name, kind, default, C type) and the loops over the arrays:
`Member` tests the kind as the code does, `Cast` reduces a number to the C type,
`ParsedArray` starts every element from its defaults and skips what is no
object. `ParseFiles` calls them in the order of `Initialize`, each after the success
of the one before.

### Modem

`WriteCommand`, two waits over the actions of `Mailbox`, and the sleep that ends
the call. The modem answers a written command with any reply it has for it, in
chunks of any size at any time; bytes that come after a call stay in the mailbox
for the next one. `SecondReply` has what `WaitForData` does to its argument: it
appends, and `SendModem` passes the string of the first wait, so the first part of a
reply is there twice.

### Association

A digest is the record of its algorithm, challenge and key; equal bytes are
equal records. The meter chooses its challenge `stoc` and may choose the client's
own, as the code never compares the two. What a meter answers with it has
computed with its own key; one that sends back bytes it was sent is outside the
model, and `SameSecret` says nothing of it. `client` is what the session file
says, `server` the level and key of the meter and whether it verifies pass 3 at
all. The actions are the branches of `ConnectAarq` and `Pass3And4`; the ACTION of pass 3 is the outcome of
`AccessObject`, with the ways in which that returns a success without a value.
`Pass3NotWritten` is "Internal error, code 42". `AlgorithmUsed` keeps the `else`
that belongs to the test for SHA1 only.

### AxdrPrinter

`mLevels` is the stack, `mStream` a sequence of lines with their indent. `AppendTag`
is the whole of `Append`: the line of the tag, the count of the element around it, the
levels that are finished by it and their closing tags. `left`, `tags` and `cut` are
history: how many elements of the value are still to come, the tags since `Start`, and
whether an earlier dump ended before its value did. The environment
(`csm_axdr_decode_tags`) sends the tags of any tree, up to its end or fewer.

### CosemClient

The state of the session and of the four modules side by side. A step of the
session that stands for a call is conjoined with the return of that call:
`ModemReturns` advances `mModemState` exactly if `SendModem` found the text,
`ConnectAarqReturns` follows `result`, `AccessObjectReturns` comes after the dump,
`InitializeReturns` takes the configuration that the parsers left. In between,
the steps of the call leave the session as it is. Locals are reset when their call
is over. The mailbox lives on from one modem command to the next, and what is left in it,
or still on the line, is there when the first meter is connected to: `LeaveModem`
resets the locals of `SendModem` only. `TakeMailbox` is where `HdlcProcess` takes
it for the beginning of an answer; what comes of it is part of the outcome of
`ConnectHdlc`. `HdlcExchange` itself begins with an empty mailbox, so its
properties are those of a session without a modem, or with one that has fallen
silent. `gPrinter` lives on from dump to dump.
`dialled` and `genuine` are history.

## 3. Runs

| run | configuration | result |
|---|---|---|
| transport | two byte values, chunks of one or two, four bytes | the five properties hold |
| transport_join | one byte | **violation**: `WaitForStop` returns with the reader alive |
| exchange | one GET of two segments, every result of `Send`, one lost request, a buffer of four halves | holds, liveness included |
| exchange_recovery | two GETs of three segments, window two, half a frame lost, two retries | everything is recovered |
| exchange_lost_request | one lost request | **violation**: never recovered |
| exchange_late | timeouts at any time, answers of one frame | **violation**: an old answer is accepted |
| access | values of one to four pieces, buffer of three, two retries, every fault, encoders that fail | holds (74 thousand states) |
| access_success | a response that is no block of data | **violation**: counted as success |
| session | up to two meters, two objects, modem or not, one retry | holds |
| session_status | the same | **violation**: failure without a problem |
| session_meters | the same | **violation**: second meter not read |
| client | three files, one modem, every kind of meter, dumps of three tags | holds: the invariants of the parts and of the whole, and `CosemSession` with its fairness (1.4 million states, two minutes) |

What the properties say is stated before each of them in the modules. The deep
ones: `FifoDelivery`, `NoLostWakeup`, `StopReturns` and `ImplementsMailbox` for
the threads; `RightAnswer` (what is accepted is the whole answer to the own
request), `InStep` (both ends count alike after resends and RRs),
`ExchangeReturns` and `AllAnswered` for the exchange; `DumpedIsWhole`,
`Resumable` and `ImplementsDownload` for an access; `StopAtFirstFailure`,
`NothingSkipped`, `AccessOnlyAssociated` and `Ends` for the session;
`ConfiguredAsWritten`; `TwoChunksSuffice` and `AnswerWasSent` for the modem;
`BothAssociated`, `SameSecret` and `SuitedAssociates` for the association;
`ClosesMatch`, `OpensMatch`, `SizesTrue`, `CompleteMeansClosed` and
`TextTellsTags` for the dumps; `ReadOnlyWhenAssociated`, `ReadOnlyWhenDialled` and
`ImplementsSession` for the client as a whole. Each
property of a passing run has a mutant, a variant of one action or helper as a
plausible bug would have it (named "Variant" in the modules), for which TLC
finds it violated.

### Bounds

* Four bytes in chunks of at most two let two chunks be pending, one be in the
  reader's hands and one call be half way: every overlap of the two threads is
  within three chunks.
* `LastSeq` = 2 makes both sequence numbers wrap within a session (the code's
  modulus of 8 needs longer ones for the same comparison); `LastCount` = 7
  stands for 2^32 - 1 and keeps `Retries` away from the top, see below.
* Two and three segments give a first, a middle and a last one; windows of one
  and two give both values of poll/final on a middle segment.
* A buffer of four halves overflows on repeated frames; of six it just holds
  an answer of three segments, so overflow does not hide recovery.
* One loss at a time in the passing runs. With a window of three and two halves
  of one segment lost in the same burst, `RightAnswer` fails: the gap is not
  noticed, as N(S) is not compared. That is the same defect as `exchange_late`.
* Values of up to four pieces over a buffer of three reach an overflow by the
  last block, by a middle one and by a single one.
* Two meters and two objects are enough for "the next one", "the last one" and
  "none"; every combination of named, unnamed and address-scanning meters is
  an initial state.
* `client`: the C types have two bits (`Span`), and the files hold numbers on
  both sides of their limits, negative ones included; arrays of up to two
  elements, so that one can leave something for the next. The expected texts
  have two letters, and the replies begin with a byte that is not in them, so
  that every cut of a reply into two chunks is different; one reply has the
  letters in the wrong order. Two keys tell "the same" from "another", `Retries` = 1
  (`ActionTries` = 2) has a first and a last try. Three tags are an element in an
  element with a value in it, an empty one, or two values side by side; a
  byte has four values, and two objects make a second dump after a
  complete or a cut one. `FilesFit` keeps the file's configuration and retries
  among those of the session, which are bounded.

### Fairness

`Transport`: weak fairness of the steps of a call the main thread has made and
of the reader: the operating system schedules both threads, and `serial_read` is
given a timeout (10), so it always returns. Making a call is not fair: the main
thread need not. `HdlcExchange`: weak fairness of the main thread, of the
reader's two steps and of the meter's answer; nothing of the losses, which are
bounded by `MaxLosses`. `AccessObject` and `CosemSession`: weak fairness of the
one thread, justified by `ExchangeReturns` below it. `CosemClient`: weak fairness
of `ClientMain`, the steps of the main thread, and of nothing else: neither the
reader thread nor the modem need do anything, as every wait has a timeout.
`ImplementsSession` has the fairness of the session as a consequence.

### What the violations show

Six statements of the code's own comments and messages do not hold; each has a
finding in `PROJECT.json` with the lines. In short: `mStarted` is set by the
thread it describes (`Transport.cpp:113`); an RR is not consumed
(`CosemClient.cpp:193`); N(S) and invoke id are not compared (`:209`); three
ways out of `AccessObject` without an error (`:916`, `:1010`, `:1016`); the
status of the result file depends on there being results (`:1262`); only the
first meter is read (`:1374`).

Found with the models and not given a run of their own: an echo that is read
together with the start of the answer is never removed (`:172`; set `Echo` to
TRUE); `Retries` = `LastCount`, which a `"retries": -1` in the session file gives
(`Configuration.cpp:99`), wraps the saturated counter at once, and
`ConnectNeverResyncs` and `ExchangeReturns` fail; an I frame for which
`Send` returned 0, followed by a resynchronisation, leaves the client's N(S)
behind, and `InStep` fails with `SendResults` containing "nothing"; a file that
does not parse gives a result file with status success, and one whose root is no
object none at all; a value larger than the application buffer is dumped with a block
missing, as a success (`:982`; `SuccessMeansRead` fails for it too, as it does
for a request that cannot be encoded); MD5 never associates, because its digest
is overwritten by SHA256 (`:441`; with MD5 among the levels of
`SuitedAssociates` TLC finds it violated); the levels of a
dump that was cut short reach the next dump (`AxdrPrinter.cpp:319`; without `~cut`
the nesting properties fail); a negative integer of 8, 32 or 64 bits is printed as
a positive one (`AxdrPrinter.cpp:213`; `TextTellsTags` therefore speaks of what
can be told from the text together with the type); a late chunk of the answer to the
first modem command ends the first wait of the dial at once, which leaves the
modem 2 seconds to connect (`CosemClient.cpp:295`).

## 4. Proofs

TLAPS checks the theorems of eight modules to the last leaf; they hold for every
value of the constants under the named assumptions of the modules they are
about.

**TransportProofs.** `TypeCorrect`, `Fifo` (`FifoDelivery`), `Wakeup`
(`NoLostWakeup`) and `Refinement` (`ImplementsMailbox`), for any set of bytes,
any chunks and any number of bytes. The inductive invariant is `TypeOK`, the two
properties and `Control`: `NoThreadYet` (before `Open` nothing has been
received), `Locking` (the lock is held by exactly the thread whose program
counter is inside a critical section), `ChunkInHand` (only the reader between
`serial_read` and the append holds a chunk) and `NothingCopied` (the string of a
call is empty until the copy). FIFO alone is not inductive: without `Locking` an
append could fall between the copy and the clear, without `NothingCopied` and
`ChunkInHand` bytes could be counted twice. `Refinement` is a step simulation
from the same invariant: the copy is the step in which the mailbox is drained,
the append the one in which a chunk arrives, all others leave it as it is.

**AccessProofs.** `TypeCorrect`, `Retry` (`Resumable`), `Dump` (`DumpedIsWhole`)
and `Refinement` (`ImplementsDownload`), for values, blocks and buffers of any
size, any number of retries and any set of faults; all but the first for values
that fit into the buffer. The invariant follows the transfer: `Untouched` before
it, `Waiting` while the meter has not answered the request in hand (the buffer is
the value up to where the meter stands), `Answered` once it has (the buffer and
the answer together are), `Complete` at the end (which also says that the result
is a success until the function ends), and `Asking` for what holds all
along. `Resumable` alone is not inductive: it says nothing of a meter that has
answered a request whose answer was lost, and that is the state a retry starts
from. `AnswerGoesOn` is the one lemma about the meter, `Stored` the one about
the buffer. The assumption about `HdlcProcess` (it returns the answer to its
frame, or fails) is built into the module and checked in `HdlcExchange`, where
`exchange_late` shows when it does not hold.

**ExchangeProofs.** `ExchangeTypeCorrect` (`TypeOK`), for all constants;
`ConnectIsPlain` (`ConnectNeverResyncs`), when `Retries < LastCount`;
`RightAnswerOnTime` (`RightAnswer`), when in addition `Timely` holds, no byte of an
answer is lost and the buffer has room for the echo of an SNRM and a UA. The
hypotheses are those of the run `exchange`, and what the code is used under:
`LastCount` is 2^32 - 1, the buffer has kilobytes, and a timeout of seconds is longer
than a line of milliseconds; requests may be lost, `Send` may fail or write nothing,
the meter may or may not answer repeats. That they are needed is shown by
`exchange_late` (without `Timely`), by the gap of lost halves under "Bounds", and by
`Retries` = `LastCount` above. `RightAnswer` is not inductive: it says nothing of what
is still on its way. The invariant follows the *stream*, the bytes `HdlcProcess` has not
decoded yet (`mRcvArray`, then the mailbox, then the line): either nothing of it is
part of an answer (`Quiet`), or from some byte number on it holds the meter's last
burst, without a gap and to the end (`From`). `OneAtATime` says that of a request the
meter has not seen, an RR and such a stream there is never more than one; `Received`
that N(R) is within what the meter has sent; `InOrder` that what was appended so far
is the beginning of the answer and that the stream goes on right behind it. As a window
has at most `LastSeq` frames, a number names one frame only. Exchange 0 has an
invariant of its own (`Greeting`): nothing but one SNRM, its echo and the UA is ever in
`mRcvArray`; `Connects` is the part of it that needs no hypothesis about time.

`InStepAfterLosses` (`InStep`), `OwnAnswerAfterLosses` (`OwnAnswer`) and
`RightAnswerAfterLoss` (`RightAnswer`, with one lost half at most) are about the
other loss, of halves of an answer, under `Recoverable`: `Timely`, `Retries <
LastCount`, requests reach the meter, `Send` writes what it is given, and the
buffer has room for an answer, with echoes if there are any, in windows of one.
These are the hypotheses of the run `exchange_recovery`. With lost halves the
stream is no suffix of a burst any more, so this is a second invariant,
`Steady`. What makes it inductive is that there is always *one thing* under way
(`OneThing`): a frame of the client is about to be sent (`ToBeSent`), or is on
its way with nothing but echoes behind it (`OnItsWay`), or the meter has
answered it and what is in the stream are halves of that answer (`Answered`,
`PartsIn`). `Load`, what `mRcvArray` holds once everything has arrived, is
bounded along with it, by the segments received so far: the buffer overflows on
repetitions only. `Unseen` and `Seen(got)` relate the counters of the two ends:
a request the meter has not seen is counted by the client exactly when it has
been sent; of one that it has seen, the client has acknowledged the first `got`
segments. A timeout turns the one thing into an RR; if the meter has nothing
more to send it answers with an RR, on which the client repeats the request,
which the meter in turn meets with an RR or with silence: `Repetitions`, the one
state in which more than one thing is under way, and one that nothing is decoded
from. `RightAnswer` needs more, that the segments appended are the last ones
received (`LastOf`), hence that the next frame to be decoded has the next
number. The halves of an answer are numbered for that: behind the segments
received at most as many are missing, between any two, as were lost
(`NearlyWhole`). One missing half leaves the other half of its frame in front,
which stops the decoding until the next timeout; two may be a whole frame, and
`RightAnswer` is then false (see "Bounds"). Of the hypotheses, `Timely` and that
`Send` never returns 0 are needed for `InStep`: without either TLC finds a
violation. For lost requests,
failing sends and a smaller buffer it found none in instances of two segments; the
proof does not cover them.

**ModemProofs.** `ModemTypeCorrect` and `ModemRecognises` (`TwoChunksSuffice`), for all
texts, replies and cuts. The text that is searched is the first part of the reply,
twice, and then the second; `ContainedBehind` and `Split` say that an occurrence that
the cut goes through is still there. `TwoChunksSuffice` speaks of the end only; the
invariant has, for each of the two waits, that no byte of the reply is missing and that
every chunk has an announcement of its own, which the wait has taken or will take.
`Heard` is the invariant behind `AnswerWasSent`: what a call has before it is bytes from
before the command, the *leftover*, and then what has arrived of the reply. An
occurrence of the expected text cannot lie across the seam of two replies, nor across
that of the part put in twice, as each reply begins with a byte that is in no
expected text (`NotInTheSeam`), and cannot lie in the leftover (`NotInForeign`); so it
lies in one reply, and that one was sent (`FoundWasSent`).

**SessionProofs.** `TypeCorrect`, `Associated` (`AccessOnlyAssociated`),
`FailureIsLast` (`StopAtFirstFailure`) and `WholeListRead` (`NothingSkipped`), for any set of configurations, any
number of meters, objects, retries and arguments. The properties are not
inductive by themselves: `mCosemState` outlives the meter, so `Associated` needs
`Fresh` (whenever a meter is started the state is `CONNECT_HDLC`, because `main`
leaves its loop after one) and `OwnAssociation` (in `ASSOCIATED` the association
is with the meter at `mMeterIndex`); `FailureIsLast` needs `NoFailureYet` (as
long as something can still be done nothing has failed), `WholeListRead` needs
`ReadSoFar` (of the meter in hand exactly the objects before `mReadIndex` have been
read, in their order) and `ReadToTheEnd`, and the types need
`Reading` (`PerformCosemRead` only runs for a meter that exists). `ResultStep`
reduces every action to one of three things that can happen to the results.

**PrinterProofs.** `PrinterTypeCorrect`, `PrinterComplete`
(`CompleteMeansClosed`), `PrinterNesting` (`ClosesMatch`, `OpensMatch`), `PrinterSizes`
(`SizesTrue`) and `PrinterTells` (`TextTellsTags`, the one that holds after cut dumps
too), for values of every depth and size and any number of dumps. `Remaining` is a `CHOOSE`:
that the loop at the end of `Append` finds its level rests on `Smallest`, the
least element of a set of numbers, from the well-foundedness theorems of
the library. The invariant has two parts. `Counts` says that the levels
wait for exactly the elements still to come: a function `g` sums what the
outermost levels wait for, and is constant over finished ones. Stating that
constancy in the invariant is what makes the step that closes many levels at once
provable without an induction. `Nested` says that a function `pos` gives every
level the line that opened it, that all lines after it are further inside, and
that every other opening line is closed. `NestedTag` is the main step: each
of the lines that `Append` adds at the end closes the line of the level it
removes.

**AssociationProofs.** `AssociationTypeCorrect`, `AssociationMutual` (`BothAssociated`),
`AssociationCorrect` (`SameSecret`) and `SuitedMeterAssociates` (`SuitedAssociates`), for all keys, levels, faults and tries. What makes
them inductive is `Answered`: a value in `app_array` is the answer of a meter that said
yes to pass 3, whatever came after it; `Concluded` ties the result to the way there.
The types need it too: the tries stay within their limit because
`ConnectAarq` is over with the last one. `SuitedAssociates` is about the end of a
`ConnectAarq`; `OnItsWay` is what holds before it: the meter waits for pass 3 with the
client's key, or has already said yes to a pass 3 whose answer was lost.

**ClientProofs.** `ClientIsSession`: the client implements the safety part of
`CosemSession`, so the theorems of `SessionProofs` are theorems about it.
`ClientPrints`: the client implements `PrinterSpec`, hence all of the printer's theorems
hold of the dumps of a run. `ClientDials`: so do those of the modem
(`ModemTypeOK`, `TwoChunksSuffice`), although the mailbox lives on from one command to the
next. `ClientHears` (`AnswerWasSent`) and `ClientReadsWhenDialled`
(`ReadOnlyWhenDialled`) have one hypothesis more, `RepliesApart` of `Modem`: every reply
begins with a byte that is in no expected text (a modem frames its result codes in CR
LF), and what follows an answer to the init command has no byte of the text expected
of the dial. The run checks it as an assumption on its own values. It is needed: of a
reply that begins with the end of the expected text and ends with its beginning, such
as "CTCONNE", the first part, put in twice, contains the text. The invariant
`Dialling` says which command's answer may be in the mailbox at which state of the modem.
`ClientConfigurationTypes` (`ConfigurationTypeOK`) and `ClientConfigures`
(`ConfiguredAsWritten`): for all files and all widths of the C types, from
`FilesAssumption` (what jsoncpp's `isInt` and `isBool` accept is a number, a
truth value) and `SpanAssumption`; `CastFits` is the arithmetic of the casts, and
`ParsedSoFar` says for each stage which files are parsed. It says nothing about which entries
of an array are objects, which property and model take from the same `Objects`.
`ClientAssociates`: `BothAssociated`,
`SameSecret` and `SuitedAssociates` in the client, where the meter is chosen when its reading starts and the locals
go with the call, and `ReadOnlyWhenAssociated`. The invariant `Linked` says that `ConnectAarq` is under way
only while `mCosemState` is `ASSOCIATION_PENDING`, and that `ASSOCIATED` means
that the meter is.

**Only model-checked.**

* Liveness (`StopReturns`, `ExchangeReturns`, `AllAnswered`, `AccessReturns`, `Ends`,
  the fairness in `ImplementsSession`): TLAPS handles neither fairness nor ENABLED.

**Neither proved nor a run.** `InStep` and `RightAnswer` when requests *and* bytes of
answers may be lost, and `InStep` when requests are, or when the buffer is too small for
an answer: the two invariants of `ExchangeProofs` cover one kind of loss each.

## 5. What is not modelled

* The bytes of HDLC, of the APDUs, of XML and JSON, and everything printed.
* Of `AxdrPrinter` the layout of `DataToString`: strings (which are not
  escaped), bit strings, dates, hints and the names of units.
* In `CosemClient`, the frames of an exchange and the blocks of an access, which have
  modules of their own; a product of all of them is out of TLC's reach.
* `Util`, `cosem_client_hal.c`: no state, or only the library's.
* Real time: a timeout is an action that may happen, under `Timely` only when
  nothing is under way.

## 6. Plan

Done, in this order because each rests on the one before: Transport and
Mailbox; HdlcExchange; CosemSession; AccessObject and Download; AxdrPrinter,
Modem, Association and ConfigurationFiles; their composition CosemClient; the
proofs of every module (those of `ConfigurationFiles` are in `ClientProofs`).

Next, proofs: one invariant of `HdlcExchange` for both kinds of loss, in which the one
thing under way may vanish with the request and the N(R) of the next RR names what
is missing.
