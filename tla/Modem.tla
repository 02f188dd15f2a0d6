--------------------------------- MODULE Modem ---------------------------------
(***************************************************************************)
(* CosemClient::SendModem (lib/CosemClient.cpp:286-325) over the mailbox    *)
(* that Transport implements: a command is written, one wait with the       *)
(* timeout of the command, a second one of 2 seconds, and the expected text *)
(* is looked for in what has been put together.  The modem and the line are *)
(* not part of src/: the modem answers a command with one of the replies it *)
(* has for it, in chunks of any size, at any time.                          *)
(***************************************************************************)
EXTENDS Integers, Sequences

CONSTANTS
  Expected,     \* command -> the text that is looked for
  ModemReplies, \* command -> what the modem may answer, sequences of bytes
  WriteResults  \* of Transport::Send: "written", "error" (-1), "nothing" (0)

Commands == {"init", "dial"}

ASSUME ExpectedAssumption ==
  \A c \in Commands : Expected[c] \in Seq(STRING) /\ Expected[c] # <<>>
ASSUME ReplyAssumption == \A c \in Commands : ModemReplies[c] \subseteq Seq(STRING)
ASSUME WriteAssumption == WriteResults \subseteq {"written", "error", "nothing"}

VARIABLES
  mData, mSem, ringing, call, data,  \* the mailbox
  mpc,          \* where SendModem is
  command,      \* its argument
  modemReply, retCode,
  underWay,     \* bytes on their way to serial_read
  replied,      \* history: what the modem answered to the command
  chunks,       \* history: the chunks read since the command was written
  undisturbed   \* history: the call began with nothing left in the mailbox, and
                \* no wait of it ended while bytes were under way

modemMailbox == <<mData, mSem, ringing, call, data>>
modemCall == <<mpc, command, modemReply, retCode>>
modemHistory == <<replied, chunks, undisturbed>>
modemVars == <<modemMailbox, modemCall, underWay, modemHistory>>

Inbox == INSTANCE Mailbox WITH Chunks <- Seq(STRING)

\* Variant: one byte of the text is enough.
ContainsOneOf(s, part) == \E i \in DOMAIN s, j \in DOMAIN part : s[i] = part[j]

\* modemReply.find(expected)
Contains(s, part) ==
  \E i \in 0..Len(s) - Len(part) : SubSeq(s, i + 1, i + Len(part)) = part

ModemInit ==
  /\ Inbox!Init
  /\ mpc = "idle" /\ command = "init"
  /\ modemReply = <<>> /\ retCode = FALSE
  /\ underWay = <<>> /\ replied = <<>> /\ chunks = 0 /\ undisturbed = TRUE

-----------------------------------------------------------------------------
(* The reader thread and the line                                          *)

\* serial_read returns some of the bytes that have come.
ReaderGets ==
  /\ underWay # <<>>
  /\ \E n \in 1..Len(underWay) :
       /\ Inbox!Put(SubSeq(underWay, 1, n))
       /\ underWay' = SubSeq(underWay, n + 1, Len(underWay))
  /\ chunks' = chunks + 1
  /\ UNCHANGED <<modemCall, replied, undisturbed>>

ReaderSignals ==
  Inbox!Ring /\ UNCHANGED <<modemCall, underWay, modemHistory>>

-----------------------------------------------------------------------------
(* SendModem                                                               *)

Quiet == mData = <<>> /\ mSem = 0 /\ ~ringing /\ underWay = <<>>

\* The command is written, and the modem answers it.  A result of -1 is taken
\* as success, only 0 is not.
WriteCommand(c) ==
  /\ mpc = "idle"
  /\ command' = c /\ modemReply' = <<>> /\ retCode' = FALSE
  /\ \E result \in WriteResults :
       /\ mpc' = IF result = "nothing" THEN "sleep" ELSE "first"
       /\ \E reply \in IF result = "written" THEN ModemReplies[c] ELSE {<<>>} :
            underWay' = underWay \o reply /\ replied' = reply
  /\ chunks' = 0 /\ undisturbed' = Quiet
  /\ UNCHANGED modemMailbox

\* Variant: the count of the semaphore is not looked at.
WaitUnguarded ==
  /\ mpc \in {"first", "second"}
  /\ \/ Inbox!Call
     \/ /\ call = "waiting" /\ call' = "notified" /\ mSem' = mSem - 1
        /\ UNCHANGED <<mData, ringing, data>>
  /\ UNCHANGED <<modemCall, underWay, modemHistory>>

\* WaitForData is called, and its semaphore taken or not.
Wait ==
  /\ mpc \in {"first", "second"}
  /\ Inbox!Call \/ Inbox!Take
  /\ UNCHANGED <<modemCall, underWay, modemHistory>>

WaitExpires ==
  /\ mpc \in {"first", "second"}
  /\ Inbox!Expire
  /\ undisturbed' = (undisturbed /\ ~ringing /\ underWay = <<>>)
  /\ UNCHANGED <<modemCall, underWay, replied, chunks>>

\* Variant: without an answer the loop goes on.
FirstWaitReturnsLoops ==
  /\ mpc = "first" /\ Inbox!Drain
  /\ IF call = "notified"
       THEN modemReply' = mData /\ mpc' = "second"
       ELSE UNCHANGED <<modemReply, mpc>>
  /\ UNCHANGED <<command, retCode, underWay, modemHistory>>

\* The first wait returns: "Wait again", or give up, the bytes that came with
\* the timeout lost.
FirstWaitReturns ==
  /\ mpc = "first" /\ Inbox!Drain
  /\ IF call = "notified"
       THEN modemReply' = mData /\ mpc' = "second"
       ELSE UNCHANGED modemReply /\ mpc' = "sleep"
  /\ UNCHANGED <<command, retCode, underWay, modemHistory>>

\* Variant: what the second wait returns is all there is to look at.
SecondReplyAlone == mData

\* WaitForData appends to the string it is given, and that one still holds
\* what the first wait returned: it goes into modemReply a second time.
SecondReply == modemReply \o (modemReply \o mData)

\* Variant: find_first_of in place of find.
SecondWaitReturnsFirstOf ==
  /\ mpc = "second" /\ Inbox!Drain
  /\ LET all == IF call = "notified" THEN SecondReply ELSE modemReply
     IN modemReply' = all /\ retCode' = ContainsOneOf(all, Expected[command])
  /\ mpc' = "sleep"
  /\ UNCHANGED <<command, underWay, modemHistory>>

\* The second wait returns: its bytes are lost if it timed out.
SecondWaitReturns ==
  /\ mpc = "second" /\ Inbox!Drain
  /\ LET all == IF call = "notified" THEN SecondReply ELSE modemReply
     IN modemReply' = all /\ retCode' = Contains(all, Expected[command])
  /\ mpc' = "sleep"
  /\ UNCHANGED <<command, underWay, modemHistory>>

\* "sleep_for(seconds(2))": the line goes on.
SleepEnds ==
  /\ mpc = "sleep" /\ mpc' = "done"
  /\ UNCHANGED <<modemMailbox, command, modemReply, retCode, underWay, modemHistory>>

SendModem == Wait \/ WaitExpires \/ FirstWaitReturns \/ SecondWaitReturns \/ SleepEnds
ModemReader == ReaderGets \/ ReaderSignals

\* The caller goes on with another command.
CallerTakesReply ==
  /\ mpc = "done" /\ mpc' = "idle"
  /\ UNCHANGED <<modemMailbox, command, modemReply, retCode, underWay, modemHistory>>

ModemNext ==
  \/ \E c \in Commands : WriteCommand(c)
  \/ SendModem \/ ModemReader \/ CallerTakesReply

ModemSpec == ModemInit /\ [][ModemNext]_modemVars

-----------------------------------------------------------------------------
(* Properties                                                              *)

\* The type of every variable.
ModemTypeOK ==
  /\ mData \in Seq(STRING) /\ mSem \in Nat /\ ringing \in BOOLEAN
  /\ call \in Inbox!CallStates /\ data \in Seq(STRING)
  /\ mpc \in {"idle", "first", "second", "sleep", "done"}
  /\ command \in Commands /\ modemReply \in Seq(STRING) /\ retCode \in BOOLEAN
  /\ underWay \in Seq(STRING) /\ replied \in Seq(STRING)
  /\ chunks \in Nat /\ undisturbed \in BOOLEAN

Expects == Contains(replied, Expected[command])

\* A command counts as answered only if the modem has answered it with the
\* expected text, although the text that is searched is not what the modem
\* sent: its first part is there twice, and an earlier reply may be in it.
AnswerWasSent == mpc = "done" /\ retCode => Expects

\* What AnswerWasSent needs of the replies: each begins with a byte that is in no
\* expected text (a modem frames its result codes in CR LF), and behind the answer
\* to the initialisation comes no byte of the answer to the dial.
Letters(c) == {Expected[c][i] : i \in DOMAIN Expected[c]}
Foreign(s, c) == \A i \in DOMAIN s : s[i] \notin Letters(c)
RepliesApart ==
  /\ \A c \in Commands : \A reply \in ModemReplies[c] :
       reply # <<>> => reply[1] \notin Letters(c)
  /\ \A reply \in ModemReplies["init"] : \A n \in 0..Len(reply) :
       Contains(SubSeq(reply, 1, n), Expected["init"]) =>
         Foreign(SubSeq(reply, n + 1, Len(reply)), "dial")

\* A reply that is not cut by a timeout and has come in at most two chunks is
\* recognised, wherever it is cut and however its chunks, their announcements
\* and the two waits overlap.
TwoChunksSuffice ==
  mpc = "done" /\ undisturbed /\ underWay = <<>> /\ chunks <= 2 /\ Expects => retCode
================================================================================
