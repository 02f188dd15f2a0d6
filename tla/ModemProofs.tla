------------------------------ MODULE ModemProofs ------------------------------
(***************************************************************************)
(* Proofs about Modem, for all commands, expected texts and replies, and    *)
(* however the bytes of a reply are cut into chunks.                        *)
(***************************************************************************)
EXTENDS Modem, SequenceTheorems, TLAPS

\* Announcements made, or about to be made, that no wait has taken.
Pending == mSem + (IF ringing THEN 1 ELSE 0)

\* The announcement that ended the running wait.
Taken == IF call = "notified" THEN 1 ELSE 0

\* SendModem waits in its two waits only, and an undisturbed wait expires only
\* with nothing announced and nothing on its way.
Waits ==
  /\ mpc \notin {"first", "second"} => call = "none"
  /\ undisturbed /\ call = "expired" => Pending = 0 /\ underWay = <<>>

\* In the first wait no byte of the reply is missing, and every chunk has an
\* announcement of its own.
InFirstWait ==
  undisturbed /\ mpc = "first" =>
    /\ mData \o underWay = replied
    /\ chunks = Pending + Taken
    /\ chunks = 0 => mData = <<>>

\* In the second one the first announcement is used up, and so is its chunk.
InSecondWait ==
  undisturbed /\ mpc = "second" =>
    /\ (modemReply \o mData) \o underWay = replied
    /\ chunks = Pending + Taken + 1
    /\ chunks = 1 => mData = <<>>

\* If the text was sent and has not been found, it is in more than two chunks.
AfterWaits ==
  undisturbed /\ mpc \in {"sleep", "done"} /\ Expects /\ ~retCode =>
    chunks >= 2 /\ (underWay = <<>> => chunks >= 3)

ModemInv == ModemTypeOK /\ Waits /\ InFirstWait /\ InSecondWait /\ AfterWaits

-----------------------------------------------------------------------------
(* The text that is looked for                                             *)

\* No empty reply holds an expected text.
LEMMA NothingExpected == \A c \in Commands : ~Contains(<<>>, Expected[c])
<1> SUFFICES ASSUME NEW c \in Commands PROVE ~Contains(<<>>, Expected[c])
  OBVIOUS
<1>1. Expected[c] \in Seq(STRING) /\ Expected[c] # <<>>
  BY ExpectedAssumption
<1>2. Len(Expected[c]) \in Nat /\ Len(Expected[c]) # 0
  BY <1>1, LenProperties, EmptySeq
<1> QED
  BY <1>2 DEF Contains

\* What a text contains it still contains with another text before it.
LEMMA ContainedBehind ==
  ASSUME NEW S, NEW before \in Seq(S), NEW s \in Seq(S), NEW part \in Seq(S),
         Contains(s, part)
  PROVE  Contains(before \o s, part)
<1> DEFINE n == Len(before)
           all == before \o s
<1>1. n \in Nat /\ Len(s) \in Nat /\ Len(part) \in Nat
  BY LenProperties
<1>2. PICK i \in 0..Len(s) - Len(part) : SubSeq(s, i + 1, i + Len(part)) = part
  BY DEF Contains
<1>3. /\ all \in Seq(S) /\ Len(all) = n + Len(s)
      /\ \A k \in 1..Len(s) : all[n + k] = s[k]
  BY <1>1, ConcatProperties
<1>4. /\ n + i \in 0..Len(all) - Len(part) /\ i \in Nat
      /\ 1 <= i + 1 /\ i + Len(part) <= Len(s) /\ i + 1 <= i + Len(part) + 1
  BY <1>1, <1>2, <1>3
<1> HIDE DEF n, all
<1>5. /\ SubSeq(s, i + 1, i + Len(part)) \in Seq(S)
      /\ \A k \in 1..Len(part) : SubSeq(s, i + 1, i + Len(part))[k] = s[i + k]
  BY <1>1, <1>4
<1>6. /\ SubSeq(all, n + i + 1, n + i + Len(part)) \in Seq(S)
      /\ Len(SubSeq(all, n + i + 1, n + i + Len(part))) = Len(part)
      /\ \A k \in 1..Len(part) :
           SubSeq(all, n + i + 1, n + i + Len(part))[k] = all[n + i + k]
  BY <1>1, <1>3, <1>4
<1>7. \A k \in 1..Len(part) : all[n + i + k] = part[k]
  <2> SUFFICES ASSUME NEW k \in 1..Len(part) PROVE all[n + i + k] = part[k]
    OBVIOUS
  <2>1. i + k \in 1..Len(s) /\ n + (i + k) = n + i + k
    BY <1>1, <1>4
  <2>2. all[n + i + k] = s[i + k]
    BY <1>3, <2>1
  <2> QED
    BY <1>2, <1>5, <2>2
<1>8. SubSeq(all, n + i + 1, n + i + Len(part)) = part
  BY <1>1, <1>6, <1>7, SeqEqual
<1>9. Contains(all, part)
  BY <1>4, <1>8 DEF Contains
<1> QED
  BY <1>9 DEF all
-----------------------------------------------------------------------------
(* The steps                                                               *)

\* Splitting what is under way loses nothing.
LEMMA Split ==
  ASSUME NEW S, NEW s \in Seq(S), NEW n \in 1..Len(s)
  PROVE  /\ SubSeq(s, 1, n) \in Seq(S) /\ SubSeq(s, n + 1, Len(s)) \in Seq(S)
         /\ SubSeq(s, 1, n) \o SubSeq(s, n + 1, Len(s)) = s
<1> DEFINE front == SubSeq(s, 1, n)
           back == SubSeq(s, n + 1, Len(s))
<1>1. Len(s) \in Nat
  BY LenProperties
<1>2. /\ front \in Seq(S) /\ Len(front) = n
      /\ \A i \in 1..n : front[i] = s[i]
  BY <1>1
<1>3. /\ back \in Seq(S) /\ Len(back) = Len(s) - n
      /\ \A i \in 1..Len(s) - n : back[i] = s[n + i]
  BY <1>1
<1> HIDE DEF front, back
<1>4. /\ front \o back \in Seq(S) /\ Len(front \o back) = Len(s)
      /\ \A i \in 1..Len(s) : (front \o back)[i] = s[i]
  <2>1. /\ front \o back \in Seq(S) /\ Len(front \o back) = n + (Len(s) - n)
        /\ \A i \in 1..n + (Len(s) - n) :
             (front \o back)[i] = IF i <= n THEN front[i] ELSE back[i - n]
    <3>1. /\ front \o back \in Seq(S) /\ Len(front \o back) = Len(front) + Len(back)
          /\ \A i \in 1..Len(front) + Len(back) :
               (front \o back)[i] = IF i <= Len(front) THEN front[i] ELSE back[i - Len(front)]
      BY <1>2, <1>3, ConcatProperties, Zenon
    <3> QED
      BY <1>2, <1>3, <3>1, Zenon
  <2>2. ASSUME NEW i \in 1..Len(s)
        PROVE  (front \o back)[i] = s[i]
    <3>1. CASE i <= n
      BY <1>1, <1>2, <2>1, <3>1
    <3>2. CASE ~(i <= n)
      <4>1. i - n \in 1..Len(s) - n /\ n + (i - n) = i
        BY <1>1, <3>2
      <4>2. back[i - n] = s[i]
        BY <1>3, <4>1
      <4> QED
        BY <1>1, <2>1, <3>2, <4>2
    <3> QED
      BY <3>1, <3>2
  <2> QED
    BY <1>1, <2>1, <2>2
<1>5. front \o back = s
  BY <1>4, SeqEqual
<1> QED
  BY <1>2, <1>3, <1>5 DEF front, back

\* What the reader and the modem do to the types.
LEMMA ModemTypes ==
  ASSUME ModemTypeOK, [ModemNext]_modemVars
  PROVE  ModemTypeOK'
<1> USE DEF ModemTypeOK, modemMailbox, modemCall, modemHistory, Inbox!CallStates
<1>1. ASSUME NEW c \in Commands, WriteCommand(c) PROVE ModemTypeOK'
  <2>1. PICK sent \in WriteResults :
          /\ mpc' = IF sent = "nothing" THEN "sleep" ELSE "first"
          /\ \E reply \in IF sent = "written" THEN ModemReplies[c] ELSE {<<>>} :
               underWay' = underWay \o reply /\ replied' = reply
    BY <1>1 DEF WriteCommand
  <2>2. replied' \in Seq(STRING) /\ underWay' = underWay \o replied'
    BY <2>1, ReplyAssumption, EmptySeq
  <2>3. underWay' \in Seq(STRING)
    BY <2>2, ConcatProperties
  <2>4. undisturbed' \in BOOLEAN
    BY <1>1 DEF WriteCommand, Quiet
  <2>5. command' = c /\ modemReply' = <<>> /\ retCode' = FALSE /\ chunks' = 0
        /\ UNCHANGED <<mData, mSem, ringing, call, data>>
    BY <1>1 DEF WriteCommand
  <2> QED
    BY <2>1, <2>2, <2>3, <2>4, <2>5, EmptySeq
<1>2. CASE ReaderGets
  <2>1. PICK n \in 1..Len(underWay) :
          /\ Inbox!Put(SubSeq(underWay, 1, n))
          /\ underWay' = SubSeq(underWay, n + 1, Len(underWay))
    BY <1>2 DEF ReaderGets
  <2>2. /\ underWay' \in Seq(STRING) /\ mData' \in Seq(STRING) /\ ringing' = TRUE
        /\ UNCHANGED <<mSem, call, data>>
    BY <2>1, Split, ConcatProperties DEF Inbox!Put
  <2> QED
    BY <1>2, <2>2 DEF ReaderGets
<1>3. CASE ReaderSignals
  <2>1. /\ mSem' = mSem + 1 /\ ringing' = FALSE
        /\ UNCHANGED <<mData, call, data, modemCall, underWay, modemHistory>>
    BY <1>3, Zenon DEF ReaderSignals, Inbox!Ring
  <2>2. mSem' \in Nat
    BY <2>1
  <2>3. ringing' \in BOOLEAN
    BY <2>1, Zenon
  <2> QED
    BY <2>1, <2>2, <2>3, Zenon
<1>4. CASE Wait
  <2>1. CASE Inbox!Call
    BY <1>4, <2>1, EmptySeq DEF Wait, Inbox!Call
  <2>2. CASE Inbox!Take
    BY <1>4, <2>2 DEF Wait, Inbox!Take
  <2> QED
    BY <1>4, <2>1, <2>2 DEF Wait
<1>5. CASE WaitExpires
  <2>1. undisturbed' \in BOOLEAN
    BY <1>5, Zenon DEF WaitExpires
  <2> QED
    BY <1>5, <2>1 DEF WaitExpires, Inbox!Expire
<1>6. CASE FirstWaitReturns
  <2>1. modemReply' \in Seq(STRING) /\ mpc' \in {"second", "sleep"}
    BY <1>6 DEF FirstWaitReturns
  <2> QED
    BY <1>6, <2>1, EmptySeq DEF FirstWaitReturns, Inbox!Drain
<1>7. CASE SecondWaitReturns
  <2>1. SecondReply \in Seq(STRING)
    BY ConcatProperties DEF SecondReply
  <2>2. modemReply' \in Seq(STRING) /\ retCode' \in BOOLEAN
    BY <1>7, <2>1 DEF SecondWaitReturns, Contains
  <2> QED
    BY <1>7, <2>2, EmptySeq DEF SecondWaitReturns, Inbox!Drain
<1>8. CASE SleepEnds \/ CallerTakesReply
  BY <1>8 DEF SleepEnds, CallerTakesReply
<1>9. CASE UNCHANGED modemVars
  BY <1>9 DEF modemVars
<1> QED
  BY <1>1, <1>2, <1>3, <1>4, <1>5, <1>6, <1>7, <1>8, <1>9 DEF ModemNext, SendModem, ModemReader

\* A wait that expires with bytes about to come is a disturbance.
LEMMA WaitsKept ==
  ASSUME ModemInv, [ModemNext]_modemVars
  PROVE  Waits'
<1> USE DEF Waits, Pending, modemMailbox, modemCall, modemHistory
<1>0. Waits /\ ModemTypeOK
  BY DEF ModemInv
<1>1. ASSUME NEW c \in Commands, WriteCommand(c) PROVE Waits'
  BY <1>0, <1>1 DEF WriteCommand
<1>2. CASE ReaderGets
  BY <1>0, <1>2 DEF ReaderGets, Inbox!Put, ModemTypeOK
<1>3. CASE ReaderSignals
  BY <1>0, <1>3 DEF ReaderSignals, Inbox!Ring, ModemTypeOK
<1>4. CASE Wait
  BY <1>0, <1>4 DEF Wait, Inbox!Call, Inbox!Take
<1>5. CASE WaitExpires
  <2>1. undisturbed' => ~ringing /\ underWay = <<>>
    BY <1>5 DEF WaitExpires
  <2> QED
    BY <1>0, <1>5, <2>1 DEF WaitExpires, Inbox!Expire, ModemTypeOK
<1>6. CASE FirstWaitReturns \/ SecondWaitReturns
  BY <1>6 DEF FirstWaitReturns, SecondWaitReturns, Inbox!Drain
<1>7. CASE SleepEnds \/ CallerTakesReply
  BY <1>0, <1>7 DEF SleepEnds, CallerTakesReply
<1>8. CASE UNCHANGED modemVars
  BY <1>0, <1>8 DEF modemVars
<1> QED
  BY <1>1, <1>2, <1>3, <1>4, <1>5, <1>6, <1>7, <1>8 DEF ModemNext, SendModem, ModemReader

\* What goes on during a wait.
Waiting == ReaderGets \/ ReaderSignals \/ Wait \/ WaitExpires

\* No chunk without its announcement, and no announcement without its chunk.
LEMMA ChunksAnnounced ==
  ASSUME ModemTypeOK, Waiting
  PROVE  /\ Pending + Taken \in Nat /\ Pending' + Taken' \in Nat
         /\ chunks' - (Pending' + Taken') = chunks - (Pending + Taken)
         /\ UNCHANGED <<mpc, modemReply, retCode, command, replied>>
         /\ undisturbed' => undisturbed
<1> USE DEF Pending, Taken, modemMailbox, modemCall, modemHistory, ModemTypeOK
<1>1. CASE ReaderGets
  <2>1. /\ ~ringing /\ ringing' /\ chunks' = chunks + 1 /\ UNCHANGED <<mSem, call>>
        /\ UNCHANGED <<mpc, modemReply, retCode, command, replied, undisturbed>>
    BY <1>1, Zenon DEF ReaderGets, Inbox!Put
  <2> QED
    BY <2>1
<1>2. CASE ReaderSignals
  <2>1. /\ ringing /\ ~ringing' /\ mSem' = mSem + 1 /\ UNCHANGED <<chunks, call>>
        /\ UNCHANGED <<mpc, modemReply, retCode, command, replied, undisturbed>>
    BY <1>2, Zenon DEF ReaderSignals, Inbox!Ring
  <2> QED
    BY <2>1
<1>3. CASE Wait
  <2>1. UNCHANGED <<mpc, modemReply, retCode, command, replied, undisturbed, chunks, ringing>>
    BY <1>3, Zenon DEF Wait, Inbox!Call, Inbox!Take
  <2>2. CASE Inbox!Call
    <3>1. call = "none" /\ call' = "waiting" /\ UNCHANGED mSem
      BY <2>2, Zenon DEF Inbox!Call
    <3> QED
      BY <2>1, <3>1
  <2>3. CASE Inbox!Take
    <3>1. call = "waiting" /\ call' = "notified" /\ mSem > 0 /\ mSem' = mSem - 1
      BY <2>3, Zenon DEF Inbox!Take
    <3> QED
      BY <2>1, <3>1
  <2> QED
    BY <1>3, <2>2, <2>3 DEF Wait
<1>4. CASE WaitExpires
  <2>1. /\ call = "waiting" /\ call' = "expired" /\ UNCHANGED <<mSem, ringing, chunks>>
        /\ UNCHANGED <<mpc, modemReply, retCode, command, replied>>
        /\ undisturbed' => undisturbed
    BY <1>4, Zenon DEF WaitExpires, Inbox!Expire
  <2> QED
    BY <2>1
<1> QED
  BY <1>1, <1>2, <1>3, <1>4 DEF Waiting

\* Nor does a byte get lost between the line and the mailbox.
LEMMA BytesKept ==
  ASSUME ModemTypeOK, Waiting
  PROVE  \/ UNCHANGED <<mData, underWay, chunks>>
         \/ /\ chunks' = chunks + 1 /\ mData' \o underWay' = mData \o underWay
            /\ (modemReply \o mData') \o underWay' = (modemReply \o mData) \o underWay
            /\ underWay # <<>>
<1> USE DEF modemMailbox, modemCall, modemHistory
<1>1. CASE ReaderGets
  <2>1. PICK n \in 1..Len(underWay) :
          /\ Inbox!Put(SubSeq(underWay, 1, n))
          /\ underWay' = SubSeq(underWay, n + 1, Len(underWay))
    BY <1>1 DEF ReaderGets
  <2>2. PICK front : front = SubSeq(underWay, 1, n)
    OBVIOUS
  <2>3. mData' = mData \o front /\ chunks' = chunks + 1 /\ underWay # <<>>
    BY <1>1, <2>1, <2>2 DEF Inbox!Put, ReaderGets
  <2>4. /\ front \in Seq(STRING) /\ underWay' \in Seq(STRING) /\ front \o underWay' = underWay
        /\ mData \in Seq(STRING) /\ modemReply \in Seq(STRING) /\ mData' \in Seq(STRING)
        /\ underWay \in Seq(STRING)
    BY <2>1, <2>2, <2>3, Split, ConcatProperties DEF ModemTypeOK
  <2>5. \A a, b, c \in Seq(STRING) : (a \o b) \o c = a \o (b \o c)
    BY ConcatAssociative
  <2>6. mData' \o underWay' = mData \o underWay
    BY <2>3, <2>4, <2>5, ZenonT(60)
  <2>7. (modemReply \o mData') \o underWay' = modemReply \o (mData' \o underWay')
    BY <2>4, <2>5, ZenonT(60)
  <2>8. (modemReply \o mData) \o underWay = modemReply \o (mData \o underWay)
    BY <2>4, <2>5, ZenonT(60)
  <2> QED
    BY <2>3, <2>6, <2>7, <2>8, Zenon
<1>2. CASE ReaderSignals
  BY <1>2, Zenon DEF ReaderSignals, Inbox!Ring
<1>3. CASE Wait
  BY <1>3, Zenon DEF Wait, Inbox!Call, Inbox!Take
<1>4. CASE WaitExpires
  BY <1>4, Zenon DEF WaitExpires, Inbox!Expire
<1> QED
  BY <1>1, <1>2, <1>3, <1>4 DEF Waiting

\* The first wait is as good as its beginning.
LEMMA FirstWaitKept ==
  ASSUME ModemInv, [ModemNext]_modemVars
  PROVE  InFirstWait'
<1> USE DEF modemMailbox, modemCall, modemHistory
<1>0. Waits /\ InFirstWait /\ ModemTypeOK /\ ModemTypeOK'
  BY ModemTypes DEF ModemInv
<1> SUFFICES ASSUME undisturbed', mpc' = "first"
             PROVE  /\ mData' \o underWay' = replied'
                    /\ chunks' = Pending' + Taken'
                    /\ chunks' = 0 => mData' = <<>>
  BY DEF InFirstWait
<1>1. ASSUME NEW c \in Commands, WriteCommand(c)
      PROVE  mData' \o underWay' = replied' /\ chunks' = Pending' + Taken' /\ mData' = <<>>
  <2>1. /\ mData' = <<>> /\ mSem' = 0 /\ ~ringing' /\ underWay = <<>>
    BY <1>1, Zenon DEF WriteCommand, Quiet
  <2>2. underWay' = underWay \o replied'
    BY <1>1 DEF WriteCommand
  <2>3. <<>> \o (<<>> \o replied') = replied'
    BY <1>0, ConcatEmptySeq DEF ModemTypeOK
  <2>4. mData' \o underWay' = replied'
    BY <2>1, <2>2, <2>3, Zenon
  <2>5. call' # "notified" /\ chunks' = 0
    BY <1>0, <1>1 DEF WriteCommand, Waits
  <2>6. chunks' = Pending' + Taken'
    BY <2>1, <2>5 DEF Pending, Taken
  <2> QED
    BY <2>1, <2>4, <2>6
<1>2. CASE Waiting
  <2>1. /\ mData \o underWay = replied /\ UNCHANGED replied
        /\ chunks = Pending + Taken
        /\ chunks = 0 => mData = <<>>
    BY <1>0, <1>2, ChunksAnnounced, Zenon DEF InFirstWait
  <2>2. chunks' = Pending' + Taken' /\ chunks' \in Nat /\ chunks \in Nat
    BY <1>0, <1>2, <2>1, ChunksAnnounced DEF ModemTypeOK
  <2>3. CASE UNCHANGED <<mData, underWay, chunks>>
    BY <2>1, <2>2, <2>3, Zenon
  <2>4. CASE chunks' = chunks + 1 /\ mData' \o underWay' = mData \o underWay
    <3>1. chunks' # 0
      BY <2>2, <2>4
    <3> QED
      BY <2>1, <2>2, <2>4, <3>1, Zenon
  <2> QED
    BY <1>0, <1>2, <2>3, <2>4, BytesKept, Zenon
<1>3. CASE FirstWaitReturns \/ SecondWaitReturns \/ SleepEnds \/ CallerTakesReply
  BY <1>3 DEF FirstWaitReturns, SecondWaitReturns, SleepEnds, CallerTakesReply
<1>4. CASE UNCHANGED modemVars
  <2>1. /\ UNCHANGED <<mData, underWay, replied, chunks, mSem, ringing, call>>
        /\ undisturbed /\ mpc = "first"
    BY <1>4, Zenon DEF modemVars
  <2> QED
    BY <1>0, <2>1, Zenon DEF InFirstWait, Pending, Taken
<1> QED
  BY <1>1, <1>2, <1>3, <1>4 DEF ModemNext, SendModem, ModemReader, Waiting

\* The first wait hands over what it took, and its announcement is used up.
LEMMA SecondWaitKept ==
  ASSUME ModemInv, [ModemNext]_modemVars
  PROVE  InSecondWait'
<1> USE DEF modemMailbox, modemCall, modemHistory
<1>0. Waits /\ InFirstWait /\ InSecondWait /\ ModemTypeOK /\ ModemTypeOK'
  BY ModemTypes DEF ModemInv
<1> SUFFICES ASSUME undisturbed', mpc' = "second"
             PROVE  /\ (modemReply' \o mData') \o underWay' = replied'
                    /\ chunks' = Pending' + Taken' + 1
                    /\ chunks' = 1 => mData' = <<>>
  BY DEF InSecondWait
<1>1. ASSUME NEW c \in Commands, WriteCommand(c) PROVE FALSE
  BY <1>1 DEF WriteCommand
<1>2. CASE Waiting
  <2>1. /\ (modemReply \o mData) \o underWay = replied /\ UNCHANGED <<replied, modemReply>>
        /\ chunks = Pending + Taken + 1
        /\ chunks = 1 => mData = <<>>
    BY <1>0, <1>2, ChunksAnnounced, Zenon DEF InSecondWait
  <2>2. chunks' = Pending' + Taken' + 1 /\ chunks \in Nat /\ chunks >= 1
    BY <1>0, <1>2, <2>1, ChunksAnnounced, SMTT(30) DEF ModemTypeOK
  <2>3. CASE UNCHANGED <<mData, underWay, chunks>>
    BY <2>1, <2>2, <2>3, Zenon
  <2>4. CASE /\ chunks' = chunks + 1
             /\ (modemReply \o mData') \o underWay' = (modemReply \o mData) \o underWay
    <3>1. chunks' # 1
      BY <2>2, <2>4
    <3> QED
      BY <2>1, <2>2, <2>4, <3>1, Zenon
  <2> QED
    BY <1>0, <1>2, <2>3, <2>4, BytesKept, Zenon
<1>3. CASE FirstWaitReturns
  <2>1. /\ call = "notified" /\ call' = "none" /\ mData' = <<>> /\ modemReply' = mData
        /\ UNCHANGED <<mSem, ringing, underWay, replied, chunks>>
        /\ undisturbed /\ mpc = "first"
    BY <1>3 DEF FirstWaitReturns, Inbox!Drain
  <2>2. modemReply' \o mData' = mData
    BY <1>0, <2>1, ConcatEmptySeq DEF ModemTypeOK
  <2>3. mData \o underWay = replied /\ chunks = Pending + Taken
    BY <1>0, <2>1, Zenon DEF InFirstWait
  <2>4. chunks' = Pending' + Taken' + 1
    BY <1>0, <2>1, <2>3 DEF Pending, Taken, ModemTypeOK
  <2> QED
    BY <2>1, <2>2, <2>3, <2>4, Zenon
<1>4. CASE SecondWaitReturns \/ SleepEnds \/ CallerTakesReply
  BY <1>4 DEF SecondWaitReturns, SleepEnds, CallerTakesReply
<1>5. CASE UNCHANGED modemVars
  <2>1. /\ UNCHANGED <<mData, underWay, replied, chunks, mSem, ringing, call, modemReply>>
        /\ undisturbed /\ mpc = "second"
    BY <1>5, Zenon DEF modemVars
  <2> QED
    BY <1>0, <2>1, Zenon DEF InSecondWait, Pending, Taken
<1> QED
  BY <1>1, <1>2, <1>3, <1>4, <1>5 DEF ModemNext, SendModem, ModemReader, Waiting

\* A text in one or two chunks has been found when the second wait returns.
LEMMA SecondWaitFinds ==
  ASSUME ModemInv, SecondWaitReturns, undisturbed, Expects, ~retCode'
  PROVE  chunks >= 2 /\ (underWay = <<>> => chunks >= 3)
<1>0. /\ ModemTypeOK /\ Waits /\ mpc = "second"
      /\ (modemReply \o mData) \o underWay = replied
      /\ chunks = Pending + Taken + 1
      /\ chunks = 1 => mData = <<>>
  BY DEF ModemInv, InSecondWait, SecondWaitReturns
<1>1. Expected[command] \in Seq(STRING)
  BY <1>0, ExpectedAssumption DEF ModemTypeOK
<1>2. modemReply \o mData \in Seq(STRING)
  BY <1>0, ConcatProperties DEF ModemTypeOK
<1>3. CASE call = "notified"
  <2>1. Pending \in Nat /\ Taken = 1
    BY <1>0, <1>3 DEF Pending, Taken, ModemTypeOK
  <2>2. chunks >= 2
    BY <1>0, <2>1
  <2>3. ~Contains(SecondReply, Expected[command])
    BY <1>3, Zenon DEF SecondWaitReturns
  <2>4. ~Contains(modemReply \o mData, Expected[command])
    BY <1>0, <1>1, <1>2, <2>3, ContainedBehind DEF SecondReply, ModemTypeOK
  <2>5. underWay # <<>>
    <3>1. (modemReply \o mData) \o <<>> = modemReply \o mData
      BY <1>2, ConcatEmptySeq
    <3> QED
      BY <1>0, <2>4, <3>1, Zenon DEF Expects
  <2> QED
    BY <2>2, <2>5
<1>4. CASE call # "notified"
  <2>1. call = "expired" /\ ~Contains(modemReply, Expected[command])
    BY <1>4, Zenon DEF SecondWaitReturns, Inbox!Drain
  <2>2. underWay = <<>> /\ Pending = 0 /\ Taken = 0
    BY <1>0, <1>4, <2>1 DEF Waits, Taken
  <2>3. mData = <<>>
    BY <1>0, <2>2
  <2>4. (modemReply \o <<>>) \o <<>> = modemReply
    BY <1>0, ConcatEmptySeq DEF ModemTypeOK
  <2>5. replied = modemReply
    BY <1>0, <2>2, <2>3, <2>4, Zenon
  <2> QED
    BY <2>1, <2>5, Zenon DEF Expects
<1> QED
  BY <1>3, <1>4

\* Chunks that come later only add to their number.
LEMMA AfterWaitsKept ==
  ASSUME ModemInv, [ModemNext]_modemVars
  PROVE  AfterWaits'
<1> USE DEF modemMailbox, modemCall, modemHistory
<1>0. Waits /\ InFirstWait /\ AfterWaits /\ ModemTypeOK /\ ModemTypeOK'
  BY ModemTypes DEF ModemInv
<1> SUFFICES ASSUME undisturbed', mpc' \in {"sleep", "done"}, Expects', ~retCode'
             PROVE  chunks' >= 2 /\ (underWay' = <<>> => chunks' >= 3)
  BY DEF AfterWaits
<1>1. ASSUME NEW c \in Commands, WriteCommand(c) PROVE FALSE
  <2>1. replied' = <<>> /\ command' \in Commands
    BY <1>1 DEF WriteCommand
  <2>2. Contains(replied', Expected[command'])
    BY Zenon DEF Expects
  <2> QED
    BY <2>1, <2>2, NothingExpected
<1>2. CASE Waiting
  <2>1. /\ UNCHANGED <<mpc, retCode, command, replied>> /\ undisturbed
    BY <1>0, <1>2, ChunksAnnounced, Zenon
  <2>2. Expects
    BY <2>1, Zenon DEF Expects
  <2>3. chunks >= 2 /\ (underWay = <<>> => chunks >= 3)
    BY <1>0, <2>1, <2>2, Zenon DEF AfterWaits
  <2>4. \/ UNCHANGED <<underWay, chunks>>
        \/ chunks' = chunks + 1
    BY <1>0, <1>2, BytesKept, Zenon
  <2> QED
    BY <1>0, <2>3, <2>4 DEF ModemTypeOK
<1>3. CASE FirstWaitReturns
  <2>1. /\ call = "expired" /\ undisturbed /\ mpc = "first"
        /\ UNCHANGED <<command, replied>>
    BY <1>3 DEF FirstWaitReturns, Inbox!Drain
  <2>2. underWay = <<>> /\ chunks = 0
    BY <1>0, <2>1 DEF Waits, InFirstWait, Taken
  <2>3. mData = <<>> /\ mData \o underWay = replied
    BY <1>0, <2>1, <2>2, Zenon DEF InFirstWait
  <2>4. replied = <<>>
    BY <2>2, <2>3, EmptySeq, ConcatEmptySeq
  <2>5. Contains(<<>>, Expected[command])
    BY <2>1, <2>4, Zenon DEF Expects
  <2> QED
    BY <1>0, <2>5, NothingExpected DEF ModemTypeOK
<1>4. CASE SecondWaitReturns
  <2>1. UNCHANGED <<command, replied, chunks, underWay, undisturbed>>
    BY <1>4, Zenon DEF SecondWaitReturns
  <2>2. Expects
    BY <2>1, Zenon DEF Expects
  <2>3. chunks >= 2 /\ (underWay = <<>> => chunks >= 3)
    BY <1>4, <2>1, <2>2, SecondWaitFinds
  <2> QED
    BY <2>1, <2>3
<1>5. CASE SleepEnds \/ CallerTakesReply \/ UNCHANGED modemVars
  <2>1. /\ UNCHANGED <<command, replied, retCode, chunks, underWay, undisturbed>>
        /\ mpc \in {"sleep", "done"}
    BY <1>5 DEF SleepEnds, CallerTakesReply, modemVars
  <2>2. Expects
    BY <2>1, Zenon DEF Expects
  <2>3. chunks >= 2 /\ (underWay = <<>> => chunks >= 3)
    BY <1>0, <2>1, <2>2, Zenon DEF AfterWaits
  <2> QED
    BY <2>1, <2>3
<1> QED
  BY <1>1, <1>2, <1>3, <1>4, <1>5 DEF ModemNext, SendModem, ModemReader, Waiting

\* The invariant holds along any call of SendModem.
LEMMA ModemKept == ModemInv /\ [ModemNext]_modemVars => ModemInv'
  BY ModemTypes, WaitsKept, FirstWaitKept, SecondWaitKept, AfterWaitsKept DEF ModemInv

\* It holds before the first one ...
LEMMA ModemInitially == ModemInit => ModemInv
<1> SUFFICES ASSUME ModemInit PROVE ModemInv
  OBVIOUS
<1>1. /\ mpc = "idle" /\ call = "none" /\ command = "init" /\ chunks = 0 /\ mSem = 0
      /\ mData = <<>> /\ data = <<>> /\ modemReply = <<>> /\ underWay = <<>> /\ replied = <<>>
      /\ ringing = FALSE /\ retCode = FALSE /\ undisturbed = TRUE
  BY Zenon DEF ModemInit, Inbox!Init
<1>2. <<>> \in Seq(STRING)
  BY EmptySeq
<1>3. ModemTypeOK
  BY <1>1, <1>2 DEF ModemTypeOK, Commands, Inbox!CallStates
<1>4. Waits /\ InFirstWait /\ InSecondWait /\ AfterWaits
  BY <1>1 DEF Waits, InFirstWait, InSecondWait, AfterWaits
<1> QED
  BY <1>3, <1>4 DEF ModemInv

\* ... and gives what is promised of one.
LEMMA ModemSafe == ModemInv => TwoChunksSuffice
<1> SUFFICES ASSUME ModemInv, mpc = "done", undisturbed, underWay = <<>>, chunks <= 2,
                    Expects, ~retCode
             PROVE  FALSE
  BY DEF TwoChunksSuffice
<1>1. chunks >= 3 /\ chunks \in Nat
  BY DEF ModemInv, AfterWaits, ModemTypeOK
<1> QED
  BY <1>1

\* The types of SendModem and its mailbox (lib/CosemClient.cpp:286-325).
THEOREM ModemTypeCorrect == ModemSpec => []ModemTypeOK
<1>1. ModemInv => ModemTypeOK
  BY DEF ModemInv
<1> QED
  BY ModemInitially, ModemKept, <1>1, PTL DEF ModemSpec

\* A reply that comes in at most two chunks is recognised: for every reply, every
\* expected text, wherever the cut is and however the arrivals, their announcements
\* and the two waits overlap (lib/CosemClient.cpp:294-314, lib/Transport.cpp:91-106).
THEOREM ModemRecognises == ModemSpec => []TwoChunksSuffice
<1> QED
  BY ModemInitially, ModemKept, ModemSafe, PTL DEF ModemSpec

-----------------------------------------------------------------------------
(* What is found was sent                                                  *)

\* The text is in s behind its first i bytes.
OccursAt(s, part, i) == \A k \in 1..Len(part) : s[i + k] = part[k]

\* Contains, byte by byte.
LEMMA ContainsAt ==
  ASSUME NEW S, NEW s \in Seq(S), NEW part \in Seq(S)
  PROVE  Contains(s, part) <=> \E i \in 0..Len(s) - Len(part) : OccursAt(s, part, i)
<1>1. Len(s) \in Nat /\ Len(part) \in Nat
  BY LenProperties
<1>2. ASSUME NEW i \in 0..Len(s) - Len(part)
      PROVE  SubSeq(s, i + 1, i + Len(part)) = part
               <=> OccursAt(s, part, i)
  <2>1. /\ i \in Nat /\ 1 <= i + 1 /\ i + Len(part) <= Len(s)
        /\ i + 1 <= i + Len(part) + 1
    BY <1>1
  <2>2. /\ SubSeq(s, i + 1, i + Len(part)) \in Seq(S)
        /\ Len(SubSeq(s, i + 1, i + Len(part))) = Len(part)
        /\ \A k \in 1..Len(part) : SubSeq(s, i + 1, i + Len(part))[k] = s[i + k]
    BY <1>1, <2>1
  <2> QED
    BY <1>1, <2>2, SeqEqual DEF OccursAt
<1> QED
  BY <1>2, Zenon DEF Contains

\* A text goes on containing what its beginning contains.
LEMMA ContainedBefore ==
  ASSUME NEW S, NEW s \in Seq(S), NEW after \in Seq(S), NEW part \in Seq(S),
         Contains(s, part)
  PROVE  Contains(s \o after, part)
<1>1. /\ Len(s) \in Nat /\ Len(after) \in Nat /\ Len(part) \in Nat
      /\ s \o after \in Seq(S) /\ Len(s \o after) = Len(s) + Len(after)
      /\ \A k \in 1..Len(s) : (s \o after)[k] = s[k]
  BY LenProperties, ConcatProperties
<1>2. PICK i \in 0..Len(s) - Len(part) : OccursAt(s, part, i)
  BY ContainsAt, Zenon
<1>3. i \in 0..Len(s \o after) - Len(part)
  BY <1>1
<1>4. \A k \in 1..Len(part) : i + k \in 1..Len(s)
  BY <1>1
<1>5. \A k \in 1..Len(part) : (s \o after)[i + k] = part[k]
  BY <1>1, <1>2, <1>4 DEF OccursAt
<1> QED
  BY <1>1, <1>3, <1>5, ContainsAt DEF OccursAt

\* A first part that is there twice adds nothing, if its first byte is foreign: the
\* text cannot go through the place where the two copies meet.
LEMMA NotInTheSeam ==
  ASSUME NEW S, NEW p \in Seq(S), NEW q \in Seq(S), NEW part \in Seq(S),
         p # <<>> => \A k \in DOMAIN part : part[k] # p[1],
         Contains(p \o (p \o q), part)
  PROVE  Contains(p \o q, part)
<1> DEFINE n == Len(p)
           once == p \o q
           twice == p \o once
<1>1. n \in Nat /\ Len(q) \in Nat /\ Len(part) \in Nat /\ DOMAIN part = 1..Len(part)
  BY LenProperties
<1>2. /\ once \in Seq(S) /\ Len(once) = n + Len(q)
      /\ \A k \in 1..n : once[k] = p[k]
  BY <1>1, ConcatProperties
<1>3. /\ twice \in Seq(S) /\ Len(twice) = n + Len(once)
      /\ \A k \in 1..n : twice[k] = p[k]
      /\ \A k \in 1..Len(once) : twice[n + k] = once[k]
  BY <1>1, <1>2, ConcatProperties
<1>0. Contains(twice, part)
  OBVIOUS
<1> HIDE DEF once, twice
<1>4. PICK i \in 0..Len(twice) - Len(part) : OccursAt(twice, part, i)
  BY <1>0, <1>3, ContainsAt, Zenon
<1>5. CASE i >= n
  <2>1. i - n \in 0..Len(once) - Len(part)
    BY <1>1, <1>2, <1>3, <1>5
  <2>2. ASSUME NEW k \in 1..Len(part) PROVE once[(i - n) + k] = part[k]
    <3>1. (i - n) + k \in 1..Len(once) /\ n + ((i - n) + k) = i + k
      BY <1>1, <1>2, <1>3, <1>5
    <3> QED
      BY <1>3, <1>4, <3>1 DEF OccursAt
  <2> QED
    BY <1>2, <2>1, <2>2, ContainsAt DEF once, OccursAt
<1>6. CASE i < n /\ i + Len(part) <= n
  <2>1. i \in 0..Len(once) - Len(part)
    BY <1>1, <1>2, <1>6
  <2>2. ASSUME NEW k \in 1..Len(part) PROVE once[i + k] = part[k]
    <3>1. i + k \in 1..n
      BY <1>1, <1>6
    <3> QED
      BY <1>2, <1>3, <1>4, <3>1 DEF OccursAt
  <2> QED
    BY <1>2, <2>1, <2>2, ContainsAt DEF once, OccursAt
<1>7. CASE i < n /\ n < i + Len(part)
  <2>1. /\ n + 1 - i \in 1..Len(part) /\ i + (n + 1 - i) = n + 1
        /\ 1 \in 1..n /\ 1 \in 1..Len(once)
    BY <1>1, <1>2, <1>7
  <2>2. twice[n + 1] = p[1]
    BY <1>2, <1>3, <2>1
  <2>3. part[n + 1 - i] = p[1]
    BY <1>4, <2>1, <2>2 DEF OccursAt
  <2>4. p # <<>>
    BY <2>1, EmptySeq
  <2> QED
    BY <1>1, <2>1, <2>3, <2>4
<1> QED
  BY <1>1, <1>5, <1>6, <1>7

\* Nor do foreign bytes from before the reply.
LEMMA NotInForeign ==
  ASSUME NEW S, NEW before \in Seq(S), NEW s \in Seq(S), NEW part \in Seq(S), part # <<>>,
         \A i \in DOMAIN before : \A k \in DOMAIN part : before[i] # part[k],
         Contains(before \o s, part)
  PROVE  Contains(s, part)
<1> DEFINE n == Len(before)
           all == before \o s
<1>1. /\ n \in Nat /\ Len(s) \in Nat /\ Len(part) \in Nat
      /\ DOMAIN part = 1..Len(part) /\ DOMAIN before = 1..n
  BY LenProperties
<1>2. Len(part) # 0
  BY EmptySeq
<1>3. /\ all \in Seq(S) /\ Len(all) = n + Len(s)
      /\ \A k \in 1..n : all[k] = before[k]
      /\ \A k \in 1..Len(s) : all[n + k] = s[k]
  BY <1>1, ConcatProperties
<1>0. Contains(all, part)
  OBVIOUS
<1> HIDE DEF all
<1>4. PICK i \in 0..Len(all) - Len(part) : OccursAt(all, part, i)
  BY <1>0, <1>3, ContainsAt, Zenon
<1>5. i >= n
  <2> SUFFICES ASSUME i < n PROVE FALSE
    BY <1>1
  <2>1. i + 1 \in 1..n /\ 1 \in 1..Len(part)
    BY <1>1, <1>2
  <2>2. before[i + 1] = part[1]
    BY <1>3, <1>4, <2>1 DEF OccursAt
  <2> QED
    BY <1>1, <2>1, <2>2
<1>6. i - n \in 0..Len(s) - Len(part)
  BY <1>1, <1>3, <1>5
<1>7. ASSUME NEW k \in 1..Len(part) PROVE s[(i - n) + k] = part[k]
  <2>1. (i - n) + k \in 1..Len(s) /\ n + ((i - n) + k) = i + k
    BY <1>1, <1>3, <1>5
  <2> QED
    BY <1>3, <1>4, <2>1 DEF OccursAt
<1> QED
  BY <1>6, <1>7, ContainsAt DEF OccursAt

\* What may be left in the mailbox when a command is written.
Leftover(old) ==
  old \in Seq(STRING) /\ Foreign(old, command) /\ (command = "init" => old = <<>>)

\* The bytes of the call are those left over and then the reply, whatever a timeout
\* loses; and once the text has been found, it was in the reply.
Heard ==
  /\ replied \in ModemReplies[command] \cup {<<>>}
  /\ mpc \in {"first", "second"} => ~retCode
  /\ mpc = "first" =>
       \E old : Leftover(old) /\ mData \o underWay = old \o replied
  /\ mpc = "second" =>
       \E old : Leftover(old) /\ (modemReply \o mData) \o underWay = old \o replied
  /\ retCode =>
       Expects /\ (command = "init" => Foreign(mData \o underWay, "dial"))

\* A command is written with nothing of the answer to it in the mailbox.
Undisturbing(c) ==
  IF c = "init" THEN mData = <<>> /\ underWay = <<>>
                ELSE Foreign(mData \o underWay, c)

\* The text is in what was taken, hence in the reply.
LEMMA FoundWasSent ==
  ASSUME RepliesApart, ModemTypeOK, Heard, SecondWaitReturns, retCode'
  PROVE  Expects /\ (command = "init" => Foreign(underWay, "dial"))
<1> DEFINE part == Expected[command]
           taken == modemReply \o mData
<1>1. /\ mpc = "second" /\ command \in Commands
      /\ modemReply \in Seq(STRING) /\ mData \in Seq(STRING) /\ underWay \in Seq(STRING)
      /\ replied \in Seq(STRING) /\ replied \in ModemReplies[command] \cup {<<>>}
  BY DEF SecondWaitReturns, Heard, ModemTypeOK
<1>2. part \in Seq(STRING) /\ part # <<>> /\ taken \in Seq(STRING)
  BY <1>1, ExpectedAssumption, ConcatProperties
<1>3. PICK old : Leftover(old) /\ taken \o underWay = old \o replied
  BY <1>1, Zenon DEF Heard
<1>4. old \in Seq(STRING)
  BY <1>3 DEF Leftover
<1>5. \A i \in DOMAIN old : \A k \in DOMAIN part : old[i] # part[k]
  BY <1>3, Zenon DEF Leftover, Foreign, Letters
<1>6. replied # <<>> => \A k \in DOMAIN part : part[k] # replied[1]
  BY <1>1, Zenon DEF RepliesApart, Letters
<1>7. modemReply # <<>> => \A k \in DOMAIN part : part[k] # modemReply[1]
  <2> SUFFICES ASSUME modemReply # <<>> PROVE \A k \in DOMAIN part : part[k] # modemReply[1]
    OBVIOUS
  <2>1. /\ Len(modemReply) \in Nat /\ Len(modemReply) # 0 /\ Len(mData) \in Nat
        /\ Len(underWay) \in Nat /\ Len(old) \in Nat /\ Len(replied) \in Nat
    BY <1>1, <1>4, LenProperties, EmptySeq
  <2>2. Len(taken) = Len(modemReply) + Len(mData) /\ taken[1] = modemReply[1]
    BY <1>1, <2>1, ConcatProperties
  <2>3. /\ (taken \o underWay)[1] = taken[1]
        /\ Len(taken \o underWay) = Len(taken) + Len(underWay)
    BY <1>1, <1>2, <2>1, <2>2, ConcatProperties
  <2>4. /\ Len(old \o replied) = Len(old) + Len(replied)
        /\ Len(old) # 0 => (old \o replied)[1] = old[1]
        /\ Len(old) = 0 /\ Len(replied) # 0 => (old \o replied)[1] = replied[1]
    BY <1>1, <1>4, <2>1, ConcatProperties
  <2>5. CASE Len(old) # 0
    <3>1. 1 \in DOMAIN old
      BY <1>4, <2>1, <2>5, LenProperties
    <3>2. modemReply[1] = old[1]
      BY <1>3, <2>2, <2>3, <2>4, <2>5, Zenon
    <3> QED
      BY <1>5, <3>1, <3>2, Zenon
  <2>6. CASE Len(old) = 0
    <3>1. Len(replied) # 0
      BY <1>3, <2>1, <2>2, <2>3, <2>4, <2>6
    <3>2. replied # <<>>
      BY <3>1, EmptySeq
    <3>3. modemReply[1] = replied[1]
      BY <1>3, <2>2, <2>3, <2>4, <2>6, <3>1, Zenon
    <3> QED
      BY <1>6, <3>2, <3>3, Zenon
  <2> QED
    BY <2>5, <2>6
<1>8. Contains(taken, part)
  <2>1. CASE call = "notified"
    <3>1. Contains(SecondReply, part)
      BY <2>1, Zenon DEF SecondWaitReturns
    <3>2. Contains(modemReply \o (modemReply \o mData), part)
      BY <3>1, Zenon DEF SecondReply
    <3> QED
      BY <1>1, <1>2, <1>7, <3>2, NotInTheSeam
  <2>2. CASE call # "notified"
    <3>1. Contains(modemReply, part)
      BY <2>2, Zenon DEF SecondWaitReturns
    <3> QED
      BY <1>1, <1>2, <3>1, ContainedBefore
  <2> QED
    BY <2>1, <2>2
<1> HIDE DEF part, taken
<1>9. Contains(old \o replied, part)
  <2>1. Contains(taken \o underWay, part)
    BY <1>1, <1>2, <1>8, ContainedBefore
  <2> QED
    BY <1>3, <2>1, Zenon
<1>10. Contains(replied, part)
  BY <1>1, <1>2, <1>4, <1>5, <1>9, NotInForeign
<1>11. ASSUME command = "init" PROVE Foreign(underWay, "dial")
  <2>1. <<>> \o replied = replied
    BY <1>1, ConcatEmptySeq
  <2>2. taken \o underWay = replied
    BY <1>3, <1>11, <2>1, Zenon DEF Leftover
  <2>3. /\ Len(taken) \in Nat /\ Len(underWay) \in Nat
        /\ Len(replied) = Len(taken) + Len(underWay)
        /\ \A k \in 1..Len(taken) : replied[k] = taken[k]
        /\ \A k \in 1..Len(underWay) : replied[Len(taken) + k] = underWay[k]
    BY <1>1, <1>2, <2>2, LenProperties, ConcatProperties
  <2>4. SubSeq(replied, 1, Len(taken)) = taken
    <3>1. /\ SubSeq(replied, 1, Len(taken)) \in Seq(STRING)
          /\ Len(SubSeq(replied, 1, Len(taken))) = Len(taken)
          /\ \A k \in 1..Len(taken) : SubSeq(replied, 1, Len(taken))[k] = replied[k]
      BY <1>1, <2>3
    <3> QED
      BY <1>2, <2>3, <3>1, SeqEqual
  <2>5. SubSeq(replied, Len(taken) + 1, Len(replied)) = underWay
    <3>1. /\ SubSeq(replied, Len(taken) + 1, Len(replied)) \in Seq(STRING)
          /\ Len(SubSeq(replied, Len(taken) + 1, Len(replied))) = Len(underWay)
          /\ \A k \in 1..Len(underWay) :
               SubSeq(replied, Len(taken) + 1, Len(replied))[k] = replied[Len(taken) + k]
      BY <1>1, <2>3
    <3> QED
      BY <1>1, <2>3, <3>1, SeqEqual
  <2>6. replied \in ModemReplies["init"]
    <3>1. ~Contains(<<>>, part)
      BY <1>1, NothingExpected DEF part
    <3> QED
      BY <1>1, <1>10, <1>11, <3>1
  <2>7. Len(taken) \in 0..Len(replied) /\ Contains(taken, Expected["init"])
    BY <1>8, <1>11, <2>3 DEF part
  <2> QED
    BY <2>4, <2>5, <2>6, <2>7, Zenon DEF RepliesApart
<1> QED
  BY <1>10, <1>11 DEF Expects, part

\* Any step of SendModem, of the line, or a command that is not disturbed.
LEMMA HeardKept ==
  ASSUME RepliesApart, ModemTypeOK, Heard,
         \/ \E c \in Commands : WriteCommand(c) /\ Undisturbing(c)
         \/ SendModem \/ ModemReader \/ CallerTakesReply \/ UNCHANGED modemVars
  PROVE  Heard'
<1> USE DEF modemMailbox, modemCall, modemHistory
<1>0. ModemTypeOK'
  BY ModemTypes DEF ModemNext
<1>1. ASSUME NEW c \in Commands, WriteCommand(c), Undisturbing(c) PROVE Heard'
  <2>1. PICK sent \in WriteResults :
          /\ mpc' = IF sent = "nothing" THEN "sleep" ELSE "first"
          /\ \E reply \in IF sent = "written" THEN ModemReplies[c] ELSE {<<>>} :
               underWay' = underWay \o reply /\ replied' = reply
    BY <1>1 DEF WriteCommand
  <2>2. /\ replied' \in ModemReplies[c] \cup {<<>>} /\ underWay' = underWay \o replied'
        /\ mpc' \in {"sleep", "first"}
    BY <2>1
  <2>3. command' = c /\ retCode' = FALSE /\ mData' = mData
    BY <1>1, Zenon DEF WriteCommand
  <2>4. mData \in Seq(STRING) /\ underWay \in Seq(STRING) /\ replied' \in Seq(STRING)
    BY <1>0 DEF ModemTypeOK
  <2>5. mData' \o underWay' = (mData \o underWay) \o replied'
    <3>1. \A a, b, d \in Seq(STRING) : (a \o b) \o d = a \o (b \o d)
      BY ConcatAssociative
    <3> QED
      BY <2>2, <2>3, <2>4, <3>1, ZenonT(60)
  <2>6. mData \o underWay \in Seq(STRING)
    BY <2>4, ConcatProperties
  <2>7. /\ Foreign(mData \o underWay, c)
        /\ c = "init" => mData \o underWay = <<>>
    <3>1. <<>> \o <<>> = <<>> /\ DOMAIN <<>> = {}
      OBVIOUS
    <3>2. CASE c = "init"
      BY <1>1, <3>1, <3>2, Zenon DEF Undisturbing, Foreign
    <3>3. CASE c # "init"
      BY <1>1, <3>3, Zenon DEF Undisturbing
    <3> QED
      BY <3>2, <3>3
  <2>8. Foreign(mData \o underWay, c)'
        <=> \A i \in DOMAIN (mData' \o underWay') : (mData' \o underWay')[i] \notin Letters(c)
    BY DEF Foreign, Letters
  <2>9. \E old : /\ old \in Seq(STRING) /\ Foreign(old, command')
                 /\ command' = "init" => old = <<>>
                 /\ mData' \o underWay' = old \o replied'
    BY <2>3, <2>5, <2>6, <2>7, Zenon
  <2> QED
    BY <2>2, <2>3, <2>9 DEF Heard, Leftover, Foreign, Letters
<1>2. CASE Waiting
  <2>1. UNCHANGED <<mpc, modemReply, retCode, command, replied>>
    BY <1>2, ChunksAnnounced, Zenon
  <2>2. mData' \o underWay' = mData \o underWay
    BY <1>2, BytesKept, Zenon
  <2>3. (modemReply \o mData') \o underWay' = (modemReply \o mData) \o underWay
    BY <1>2, BytesKept, Zenon
  <2>4. \A old : Leftover(old) => Leftover(old)'
    BY <2>1, Zenon DEF Leftover, Foreign, Letters
  <2>5. Expects => Expects'
    BY <2>1, Zenon DEF Expects
  <2>6. Foreign(mData \o underWay, "dial") => Foreign(mData \o underWay, "dial")'
    BY <2>2, Zenon DEF Foreign, Letters
  <2> QED
    BY <2>1, <2>2, <2>3, <2>4, <2>5, <2>6, Zenon DEF Heard
<1>3. CASE FirstWaitReturns
  <2>1. /\ mpc = "first" /\ ~retCode
        /\ UNCHANGED <<retCode, command, replied, underWay>> /\ mData' = <<>>
        /\ \/ mpc' = "sleep"
           \/ mpc' = "second" /\ modemReply' = mData
    BY <1>3 DEF FirstWaitReturns, Inbox!Drain, Heard
  <2>2. PICK old : Leftover(old) /\ mData \o underWay = old \o replied
    BY <2>1, Zenon DEF Heard
  <2>3. Leftover(old)'
    BY <2>1, <2>2, Zenon DEF Leftover, Foreign, Letters
  <2>4. mData \o <<>> = mData
    BY ConcatEmptySeq DEF ModemTypeOK
  <2>5. mpc' = "second" => (modemReply' \o mData') \o underWay' = old \o replied'
    BY <2>1, <2>2, <2>4
  <2> QED
    BY <2>1, <2>3, <2>5, Zenon DEF Heard
<1>4. CASE SecondWaitReturns
  <2>1. /\ mpc' = "sleep" /\ UNCHANGED <<command, replied, underWay>> /\ mData' = <<>>
    BY <1>4, Zenon DEF SecondWaitReturns, Inbox!Drain
  <2>2. <<>> \o underWay = underWay
    BY ConcatEmptySeq DEF ModemTypeOK
  <2>3. retCode' => Expects' /\ (command' = "init" => Foreign(mData \o underWay, "dial")')
    <3>1. Expects => Expects'
      BY <2>1, Zenon DEF Expects
    <3>2. Foreign(underWay, "dial") => Foreign(mData \o underWay, "dial")'
      BY <2>1, <2>2, Zenon DEF Foreign, Letters
    <3> QED
      BY <1>4, <2>1, <3>1, <3>2, FoundWasSent
  <2> QED
    BY <2>1, <2>3, Zenon DEF Heard
<1>5. CASE SleepEnds \/ CallerTakesReply
  <2>1. /\ UNCHANGED <<command, replied, underWay, mData, retCode>>
        /\ mpc' \in {"done", "idle"}
    BY <1>5 DEF SleepEnds, CallerTakesReply
  <2>2. Expects => Expects'
    BY <2>1, Zenon DEF Expects
  <2>3. Foreign(mData \o underWay, "dial") => Foreign(mData \o underWay, "dial")'
    BY <2>1, Zenon DEF Foreign, Letters
  <2> QED
    BY <2>1, <2>2, <2>3, Zenon DEF Heard
<1>6. CASE UNCHANGED modemVars
  <2>1. UNCHANGED <<command, replied, underWay, mData, retCode, mpc, modemReply>>
    BY <1>6, Zenon DEF modemVars
  <2>2. \A old : Leftover(old) => Leftover(old)'
    BY <2>1, Zenon DEF Leftover, Foreign, Letters
  <2>3. Expects => Expects'
    BY <2>1, Zenon DEF Expects
  <2>4. Foreign(mData \o underWay, "dial") => Foreign(mData \o underWay, "dial")'
    BY <2>1, Zenon DEF Foreign, Letters
  <2> QED
    BY <2>1, <2>2, <2>3, <2>4, Zenon DEF Heard
<1> QED
  BY <1>1, <1>2, <1>3, <1>4, <1>5, <1>6 DEF SendModem, ModemReader, Waiting
================================================================================
