---------------------------- MODULE SessionProofs ----------------------------
(***************************************************************************)
(* Proofs about CosemSession, for every configuration, every number of     *)
(* retries and every number of arguments.                                  *)
(***************************************************************************)
EXTENDS CosemSession, SequenceTheorems, TLAPS

\* Result::subject: an object, or the name of a step.
Subjects ==
  Nat \cup {"OPEN COM PORT", "MODEM TEST", "MODEM DIAL", "CONNECT HDLC",
            "CONNECT COSEM (AARQ)"}
ResultSet == [subject : Subjects, success : BOOLEAN]

\* What the histories and the results are made of.
Records ==
  /\ mResults \in Seq(ResultSet)
  /\ associated \subseteq Nat /\ accessed \in Seq(Nat \X Nat)

\* PerformCosemRead works on a meter that exists.
Reading == pc = "read" => mMeterIndex < Len(mConf.meters)

\* main leaves its loop after the first meter: nobody has touched mCosemState
\* before PerformCosemRead starts.
Fresh == pc \in {"start", "task"} => mCosemState = "CONNECT_HDLC"

\* ASSOCIATED, while a meter is read, is about that meter.
OwnAssociation ==
  pc = "read" /\ mCosemState = "ASSOCIATED" => mMeterIndex \in associated

\* Nothing has failed as long as something is still to be done.
NoFailureYet == pc \in {"start", "task", "read"} => ~Failed

Control == Reading /\ Fresh /\ OwnAssociation /\ NoFailureYet

\* What has been read is the list of objects up to mReadIndex, of the one meter
\* there has been an association with.
ReadSoFar ==
  /\ mCosemState # "ASSOCIATED" => associated = {} /\ accessed = <<>>
  /\ mCosemState = "ASSOCIATED" =>
       /\ Len(accessed) = mReadIndex
       /\ \A m \in associated :
            /\ pc = "read" => m = mMeterIndex
            /\ \A i \in DOMAIN accessed : accessed[i] = <<m, i - 1>>

\* The reading of an associated meter ends with the list or with a failure.
ReadToTheEnd ==
  pc = "report" /\ associated # {} /\ ~Failed => ~HasObject

IInv ==
  /\ TypeOK /\ Records /\ Control /\ AccessOnlyAssociated /\ StopAtFirstFailure
  /\ ReadSoFar /\ ReadToTheEnd

-----------------------------------------------------------------------------
(* Lemmas about the counters and the results.                              *)

\* A counter that did not go over the limit is within it.
LEMMA CountBounds ==
  ASSUME NEW n \in 0..Retries
  PROVE  /\ Count(n) \in 0..LastCount
         /\ Count(n) <= Retries => Count(n) \in 0..Retries
  BY RetriesAssumption DEF Count

\* A result that is added is the last one; the others stay what they were.
LEMMA Added ==
  ASSUME NEW results \in Seq(ResultSet), NEW r \in ResultSet
  PROVE  /\ Append(results, r) \in Seq(ResultSet)
         /\ DOMAIN Append(results, r) = 1..Len(results) + 1
         /\ Len(Append(results, r)) = Len(results) + 1
         /\ Append(results, r)[Len(results) + 1] = r
         /\ DOMAIN results = 1..Len(results)
         /\ \A i \in 1..Len(results) : Append(results, r)[i] = results[i]
  BY AppendProperties

LEMMA ResultsTyped ==
  ASSUME NEW s \in Subjects
  PROVE  /\ Success(s) \in ResultSet /\ Success(s).success
         /\ Failure(s) \in ResultSet /\ ~Failure(s).success
  BY DEF Success, Failure, ResultSet

(* After a first failure has been added, it is the only one and the last.  *)
LEMMA FirstFailure ==
  ASSUME Records, ~Failed, NEW s \in Subjects,
         mResults' = Append(mResults, Failure(s))
  PROVE  StopAtFirstFailure' /\ mResults' \in Seq(ResultSet)
<1>1. Failure(s) \in ResultSet
  BY ResultsTyped
<1>2. \A i \in 1..Len(mResults) : mResults[i].success
  BY Added, <1>1 DEF Failed, Records
<1>3. \A i \in 1..Len(mResults) : mResults'[i].success
  BY Added, <1>1, <1>2 DEF Records
<1>4. DOMAIN mResults' = 1..Len(mResults) + 1 /\ Len(mResults') = Len(mResults) + 1
  BY Added, <1>1 DEF Records
<1>5. Len(mResults) \in Nat
  BY DEF Records
<1> QED
  BY <1>1, <1>3, <1>4, <1>5, Added DEF StopAtFirstFailure, Records

(* After a success has been added there is still no failure.               *)
LEMMA AnotherSuccess ==
  ASSUME Records, ~Failed, NEW s \in Subjects,
         mResults' = Append(mResults, Success(s))
  PROVE  ~Failed' /\ StopAtFirstFailure' /\ mResults' \in Seq(ResultSet)
<1>1. Success(s) \in ResultSet /\ Success(s).success
  BY ResultsTyped
<1>2. \A i \in 1..Len(mResults) : mResults[i].success
  BY Added, <1>1 DEF Failed, Records
<1>3. Len(mResults) \in Nat
  BY DEF Records
<1>4. \A i \in 1..Len(mResults) + 1 : mResults'[i].success
  BY Added, <1>1, <1>2, <1>3 DEF Records
<1>5. DOMAIN mResults' = 1..Len(mResults) + 1
  BY Added, <1>1 DEF Records
<1> QED
  BY <1>1, <1>4, <1>5, Added DEF Failed, StopAtFirstFailure, Records

-----------------------------------------------------------------------------
(* The invariant at the start                                              *)

LEMMA InvInit == Init => IInv
<1> SUFFICES ASSUME Init
             PROVE  IInv
  OBVIOUS
<1>1. mConf \in Configuration /\ argc \in ArgumentCounts /\ mConf \in Configurations
  BY ConfigurationAssumption DEF Init
<1>2. mConf.objects \in Nat /\ Len(mConf.meters) \in Nat
  BY <1>1 DEF Configuration
<1>3. mResults = <<>> /\ <<>> \in Seq(ResultSet) /\ <<>> \in Seq(Nat \X Nat)
  BY EmptySeq DEF Init
<1>4. opened \in BOOLEAN
  BY Zenon DEF Init
<1>5. TypeOK
  BY <1>1, <1>2, <1>3, <1>4, RetriesAssumption, AddressAssumption DEF Init, TypeOK
<1>6. Records
  BY <1>3 DEF Init, Records
<1>7. Control
  BY <1>3 DEF Init, Control, Reading, Fresh, OwnAssociation, NoFailureYet, Failed
<1>8. AccessOnlyAssociated /\ StopAtFirstFailure
  BY <1>3 DEF Init, AccessOnlyAssociated, StopAtFirstFailure
<1>9. ReadSoFar /\ ReadToTheEnd
  BY DEF Init, ReadSoFar, ReadToTheEnd
<1> QED
  BY <1>5, <1>6, <1>7, <1>8, <1>9 DEF IInv

-----------------------------------------------------------------------------
(* Types                                                                   *)

(* Every action keeps the type of every variable.  A new result is a       *)
(* record, the index of the meter only moves past one that exists.         *)
LEMMA TypeStep == IInv /\ [Next]_vars => TypeOK' /\ Records'
<1> SUFFICES ASSUME IInv, [Next]_vars
             PROVE  TypeOK' /\ Records'
  OBVIOUS
<1> USE DEF indices, local, history
<1>0. /\ TypeOK /\ Records /\ Reading
      /\ mConf \in Configuration /\ mConf.objects \in Nat
      /\ Len(mConf.meters) \in Nat
      /\ mReadIndex \in Nat /\ mMeterIndex \in Nat
  BY ConfigurationAssumption DEF IInv, Control, TypeOK, Configuration
<1>a. ASSUME UNCHANGED mResults
      PROVE  \A i \in DOMAIN mResults' : mResults'[i].success \in BOOLEAN
  BY <1>0, <1>a DEF TypeOK
<1>b. ASSUME NEW r \in ResultSet, mResults' = Append(mResults, r)
      PROVE  /\ mResults' \in Seq(ResultSet)
             /\ \A i \in DOMAIN mResults' : mResults'[i].success \in BOOLEAN
  <2>1. mResults' \in Seq(ResultSet)
    BY <1>0, <1>b, Added DEF Records
  <2>2. \A i \in DOMAIN mResults' : mResults'[i] \in ResultSet
    BY <2>1
  <2> QED
    BY <2>1, <2>2 DEF ResultSet
<1>c. \A s \in Subjects : Success(s) \in ResultSet /\ Failure(s) \in ResultSet
  BY ResultsTyped
<1>d. Nat \subseteq Subjects /\ {"OPEN COM PORT", "MODEM TEST", "MODEM DIAL",
         "CONNECT HDLC", "CONNECT COSEM (AARQ)"} \subseteq Subjects
  BY DEF Subjects
<1>e. ASSUME LeaveRead, pc = "read"
      PROVE  mMeterIndex' \in 0..Len(mConf.meters) /\ pc' = "report"
  BY <1>0, <1>e DEF LeaveRead, Task, Reading
<1>1. CASE PrintUsage \/ MissingCommFile \/ ParseFails \/ ParseThrows \/ OpenSucceeds
  BY <1>0, <1>1, <1>a
  DEF PrintUsage, MissingCommFile, ParseFails, ParseThrows, OpenSucceeds, ModemStateAtStart,
      TypeOK, Records
<1>2. CASE OpenFails
  <2>1. Failure("OPEN COM PORT") \in ResultSet
    BY <1>c, <1>d
  <2> QED
    BY <1>0, <1>2, <1>b, <2>1 DEF OpenFails, ModemStateAtStart, TypeOK, Records
<1>3. CASE ModemTest \/ ModemDial
  <2>1. ASSUME NEW state \in {"DISCONNECTED", "DIAL"}, NEW subject \in {"MODEM TEST", "MODEM DIAL"},
               NEW next \in {"DIAL", "CONNECTED"}, ModemStep(state, subject, next)
        PROVE  TypeOK' /\ Records'
    <3>1. CASE mResults' = mResults
      BY <1>0, <1>a, <2>1, <3>1 DEF ModemStep, Task, TypeOK, Records
    <3>2. CASE mResults' = Append(mResults, Failure(subject))
      BY <1>0, <1>b, <1>c, <1>d, <2>1, <3>2 DEF ModemStep, Task, TypeOK, Records
    <3> QED
      BY <2>1, <3>1, <3>2 DEF ModemStep
  <2> QED
    BY <1>3, <2>1 DEF ModemTest, ModemDial
<1>4. CASE StartMeter \/ SkipMeter \/ NoMoreMeter
  <2>1. CASE StartMeter
    BY <1>0, <2>1, <1>a, RetriesAssumption, AddressAssumption
    DEF StartMeter, TypeOK, Records
  <2>2. CASE SkipMeter
    <3>1. mMeterIndex' \in 0..Len(mConf.meters) /\ pc' = "report"
      BY <1>0, <2>2 DEF SkipMeter, HasMeter, Task, TypeOK
    <3> QED
      BY <1>0, <2>2, <3>1, <1>a DEF SkipMeter, TypeOK, Records
  <2>3. CASE NoMoreMeter
    BY <1>0, <2>3, <1>a DEF NoMoreMeter, Task, TypeOK, Records
  <2> QED
    BY <1>4, <2>1, <2>2, <2>3
<1>5. CASE ConnectHdlcSucceeds
  BY <1>0, <1>5, <1>a DEF ConnectHdlcSucceeds, TypeOK, Records
<1>6. CASE ConnectHdlcFails
  <2>1. /\ retries' \in 0..Retries /\ phy_address' \in 0..LastAddress
    <3>1. retries \in 0..Retries /\ phy_address \in 0..LastAddress
      BY <1>0 DEF TypeOK
    <3>2. /\ (phy_address + 1) % (LastAddress + 1) \in 0..LastAddress
          /\ 0 \in 0..Retries
      BY <3>1, AddressAssumption, RetriesAssumption
    <3>3. retries' = IF Count(retries) > Retries THEN 0 ELSE Count(retries)
      BY <1>6, Zenon DEF ConnectHdlcFails
    <3>5. Count(retries) \in 0..LastCount
      BY <3>1, CountBounds
    <3>4. phy_address' \in {phy_address, (phy_address + 1) % (LastAddress + 1)}
      BY <1>6, Zenon DEF ConnectHdlcFails
    <3> QED
      BY <3>1, <3>2, <3>3, <3>4, <3>5, RetriesAssumption
  <2>2. CASE UNCHANGED <<mResults, mMeterIndex, pc>>
    BY <1>0, <1>6, <1>a, <2>1, <2>2 DEF ConnectHdlcFails, TypeOK, Records
  <2>3. CASE mResults' = Append(mResults, Failure("CONNECT HDLC")) /\ LeaveRead
    <3>1. Failure("CONNECT HDLC") \in ResultSet
      BY <1>c, <1>d
    <3> QED
      BY <1>0, <1>6, <1>b, <1>e, <2>1, <2>3, <3>1
      DEF ConnectHdlcFails, TypeOK, Records
  <2> QED
    BY <1>6, <2>2, <2>3 DEF ConnectHdlcFails
<1>7. CASE ConnectAarqSucceeds
  <2>1. associated' \subseteq Nat
    BY <1>0, <1>7, Zenon DEF ConnectAarqSucceeds, Records
  <2>2. mReadIndex' \in 0..mConf.objects
    BY <1>0, <1>7 DEF ConnectAarqSucceeds
  <2> QED
    BY <1>0, <1>7, <1>a, <2>1, <2>2 DEF ConnectAarqSucceeds, TypeOK, Records
<1>8. CASE ConnectAarqFails
  <2>1. Failure("CONNECT COSEM (AARQ)") \in ResultSet
    BY <1>c, <1>d
  <2> QED
    BY <1>0, <1>8, <1>b, <1>e, <2>1 DEF ConnectAarqFails, TypeOK, Records
<1>9. CASE AccessObjectSucceeds
  <2>1. Success(mReadIndex) \in ResultSet
    BY <1>0, <1>c, <1>d
  <2>2. Append(accessed, <<mMeterIndex, mReadIndex>>) \in Seq(Nat \X Nat)
    BY <1>0, AppendProperties DEF Records
  <2> QED
    BY <1>0, <1>9, <1>b, <2>1, <2>2
    DEF AccessObjectSucceeds, HasObject, TypeOK, Records
<1>10. CASE AccessObjectFails
  <2>1. Failure(mReadIndex) \in ResultSet
    BY <1>0, <1>c, <1>d
  <2> QED
    BY <1>0, <1>10, <1>b, <1>e, <2>1 DEF AccessObjectFails, TypeOK, Records
<1>11. CASE NoMoreObject
  BY <1>0, <1>11, <1>a, <1>e DEF NoMoreObject, TypeOK, Records
<1>12. CASE PrintResult \/ Exit \/ ReaderExits
  BY <1>0, <1>12, <1>a DEF PrintResult, Exit, ReaderExits, TypeOK, Records
<1>13. CASE UNCHANGED vars
  BY <1>0, <1>13, <1>a DEF vars, TypeOK, Records
<1> QED
  BY <1>1, <1>2, <1>3, <1>4, <1>5, <1>6, <1>7, <1>8, <1>9, <1>10, <1>11, <1>12,
     <1>13
  DEF Next, Main, Initialize, PerformTask, PerformCosemRead

-----------------------------------------------------------------------------
(* Which meter is read                                                     *)

LEMMA MeterStep == IInv /\ [Next]_vars => Reading' /\ Fresh' /\ OwnAssociation'
<1> SUFFICES ASSUME IInv, [Next]_vars
             PROVE  Reading' /\ Fresh' /\ OwnAssociation'
  OBVIOUS
<1> USE DEF indices, local, history, Reading, Fresh, OwnAssociation
<1>0. Reading /\ Fresh /\ OwnAssociation
  BY DEF IInv, Control
<1>1. CASE PrintUsage \/ MissingCommFile \/ ParseFails \/ ParseThrows \/ OpenSucceeds \/ OpenFails
  BY <1>0, <1>1 DEF PrintUsage, MissingCommFile, ParseFails, ParseThrows, OpenSucceeds, OpenFails
<1>2. CASE ModemTest \/ ModemDial
  BY <1>0, <1>2 DEF ModemTest, ModemDial, ModemStep, Task
<1>3. CASE StartMeter \/ SkipMeter \/ NoMoreMeter
  BY <1>0, <1>3 DEF StartMeter, SkipMeter, NoMoreMeter, HasMeter, Task
<1>4. CASE ConnectHdlcSucceeds \/ ConnectAarqSucceeds
  BY <1>0, <1>4 DEF ConnectHdlcSucceeds, ConnectAarqSucceeds
<1>5. CASE ConnectHdlcFails
  <2>1. pc' = "report" \/ UNCHANGED <<mMeterIndex, pc>>
    BY <1>5, Zenon DEF ConnectHdlcFails, LeaveRead, Task
  <2>2. UNCHANGED <<mConf, mCosemState, associated>> /\ pc = "read"
    BY <1>5, Zenon DEF ConnectHdlcFails
  <2> QED
    BY <1>0, <2>1, <2>2
<1>6. CASE ConnectAarqFails \/ AccessObjectFails \/ NoMoreObject
  BY <1>6 DEF ConnectAarqFails, AccessObjectFails, NoMoreObject, LeaveRead, Task
<1>7. CASE AccessObjectSucceeds
  BY <1>0, <1>7 DEF AccessObjectSucceeds
<1>8. CASE PrintResult \/ Exit \/ ReaderExits \/ UNCHANGED vars
  BY <1>0, <1>8 DEF PrintResult, Exit, ReaderExits, vars
<1> QED
  BY <1>1, <1>2, <1>3, <1>4, <1>5, <1>6, <1>7, <1>8
  DEF Next, Main, Initialize, PerformTask, PerformCosemRead

(* The history of the objects read grows only by AccessObject, with the    *)
(* meter that OwnAssociation is about.                                     *)
LEMMA AccessStep == IInv /\ [Next]_vars => AccessOnlyAssociated'
<1> SUFFICES ASSUME IInv, [Next]_vars
             PROVE  AccessOnlyAssociated'
  OBVIOUS
<1> USE DEF indices, local, history
<1>0. AccessOnlyAssociated /\ OwnAssociation /\ Records /\ mMeterIndex \in Nat
      /\ mReadIndex \in Nat
  <2>1. mConf.objects \in Nat /\ Len(mConf.meters) \in Nat
    BY ConfigurationAssumption DEF IInv, TypeOK, Configuration
  <2> QED
    BY <2>1 DEF IInv, Control, TypeOK
<1>1. CASE AccessObjectSucceeds
  <2>1. mMeterIndex \in associated /\ associated' = associated
    BY <1>0, <1>1 DEF AccessObjectSucceeds, OwnAssociation
  <2>2. /\ accessed' = Append(accessed, <<mMeterIndex, mReadIndex>>)
        /\ <<mMeterIndex, mReadIndex>> \in Nat \X Nat
        /\ accessed \in Seq(Nat \X Nat)
    BY <1>0, <1>1 DEF AccessObjectSucceeds, Records
  <2>3. \A i \in DOMAIN accessed' :
          \/ i \in DOMAIN accessed /\ accessed'[i] = accessed[i]
          \/ accessed'[i] = <<mMeterIndex, mReadIndex>>
    BY <2>2, AppendProperties
  <2> QED
    BY <1>0, <2>1, <2>3 DEF AccessOnlyAssociated
<1>2. CASE ~AccessObjectSucceeds
  <2>1. accessed' = accessed /\ associated \subseteq associated'
    <3>1. CASE PrintUsage \/ MissingCommFile \/ Initialize
      BY <3>1, Zenon
      DEF PrintUsage, MissingCommFile, Initialize, ParseFails, ParseThrows, OpenFails, OpenSucceeds
    <3>2. CASE ModemTest \/ ModemDial \/ StartMeter \/ SkipMeter \/ NoMoreMeter
      BY <3>2, Zenon
      DEF ModemTest, ModemDial, ModemStep, StartMeter, SkipMeter, NoMoreMeter
    <3>3. CASE PerformCosemRead
      BY <1>2, <3>3, Zenon
      DEF PerformCosemRead, ConnectHdlcSucceeds, ConnectHdlcFails,
          ConnectAarqSucceeds, ConnectAarqFails, AccessObjectFails, NoMoreObject
    <3>4. CASE PrintResult \/ Exit \/ ReaderExits \/ UNCHANGED vars
      BY <3>4, Zenon DEF PrintResult, Exit, ReaderExits, vars
    <3> QED
      BY <3>1, <3>2, <3>3, <3>4, Zenon DEF Next, Main, PerformTask
  <2> QED
    BY <1>0, <2>1 DEF AccessOnlyAssociated
<1> QED
  BY <1>1, <1>2

-----------------------------------------------------------------------------
(* Failures                                                                *)

Busy == pc \in {"start", "task", "read"}

(* What a step may do to the results: nothing, with no way back to work; a *)
(* success; or a failure, with which the work is over.                     *)
LEMMA ResultStep ==
  ASSUME IInv, [Next]_vars
  PROVE  \/ UNCHANGED mResults /\ (Busy' => Busy)
         \/ Busy /\ \E s \in Subjects : mResults' = Append(mResults, Success(s))
         \/ Busy /\ ~Busy' /\ \E s \in Subjects : mResults' = Append(mResults, Failure(s))
<1> USE DEF indices, local, history, Busy
<1>0. mReadIndex \in Nat
  <2>1. mConf.objects \in Nat
    BY ConfigurationAssumption DEF IInv, TypeOK, Configuration
  <2> QED
    BY <2>1 DEF IInv, TypeOK
<1>d. /\ mReadIndex \in Subjects
      /\ {"OPEN COM PORT", "MODEM TEST", "MODEM DIAL", "CONNECT HDLC",
          "CONNECT COSEM (AARQ)"} \subseteq Subjects
  BY <1>0 DEF Subjects
<1>1. CASE PrintUsage \/ MissingCommFile \/ ParseFails \/ ParseThrows \/ OpenSucceeds
  BY <1>1 DEF PrintUsage, MissingCommFile, ParseFails, ParseThrows, OpenSucceeds
<1>2. CASE OpenFails
  BY <1>2, <1>d DEF OpenFails
<1>3. CASE ModemTest \/ ModemDial
  BY <1>3, <1>d DEF ModemTest, ModemDial, ModemStep, Task
<1>4. CASE StartMeter \/ SkipMeter \/ NoMoreMeter
  BY <1>4 DEF StartMeter, SkipMeter, NoMoreMeter, Task
<1>5. CASE ConnectHdlcSucceeds \/ ConnectAarqSucceeds \/ NoMoreObject
  BY <1>5 DEF ConnectHdlcSucceeds, ConnectAarqSucceeds, NoMoreObject, LeaveRead, Task
<1>6. CASE ConnectHdlcFails
  <2>1. \/ UNCHANGED <<mResults, pc>>
        \/ mResults' = Append(mResults, Failure("CONNECT HDLC")) /\ pc' = "report"
    BY <1>6, Zenon DEF ConnectHdlcFails, LeaveRead, Task
  <2>2. pc = "read"
    BY <1>6, Zenon DEF ConnectHdlcFails
  <2> QED
    BY <1>d, <2>1, <2>2
<1>7. CASE ConnectAarqFails
  BY <1>7, <1>d DEF ConnectAarqFails, LeaveRead, Task
<1>8. CASE AccessObjectSucceeds
  BY <1>8, <1>d DEF AccessObjectSucceeds
<1>9. CASE AccessObjectFails
  BY <1>9, <1>d DEF AccessObjectFails, LeaveRead, Task
<1>10. CASE PrintResult \/ Exit \/ ReaderExits \/ UNCHANGED vars
  BY <1>10 DEF PrintResult, Exit, ReaderExits, Ended, vars
<1> QED
  BY <1>1, <1>2, <1>3, <1>4, <1>5, <1>6, <1>7, <1>8, <1>9, <1>10
  DEF Next, Main, Initialize, PerformTask, PerformCosemRead

LEMMA FailureStep == IInv /\ [Next]_vars => NoFailureYet' /\ StopAtFirstFailure'
<1> SUFFICES ASSUME IInv, [Next]_vars
             PROVE  NoFailureYet' /\ StopAtFirstFailure'
  OBVIOUS
<1>0. Records /\ NoFailureYet /\ StopAtFirstFailure
  BY DEF IInv, Control
<1>1. CASE UNCHANGED mResults /\ (Busy' => Busy)
  BY <1>0, <1>1 DEF NoFailureYet, StopAtFirstFailure, Failed, Busy
<1>2. ASSUME Busy, NEW s \in Subjects, mResults' = Append(mResults, Success(s))
      PROVE  NoFailureYet' /\ StopAtFirstFailure'
  <2>1. ~Failed
    BY <1>0, <1>2 DEF NoFailureYet, Busy
  <2> QED
    BY <1>0, <1>2, <2>1, AnotherSuccess DEF NoFailureYet
<1>3. ASSUME Busy, ~Busy', NEW s \in Subjects, mResults' = Append(mResults, Failure(s))
      PROVE  NoFailureYet' /\ StopAtFirstFailure'
  <2>1. ~Failed
    BY <1>0, <1>3 DEF NoFailureYet, Busy
  <2> QED
    BY <1>0, <1>3, <2>1, FirstFailure DEF NoFailureYet, Busy
<1> QED
  BY <1>1, <1>2, <1>3, ResultStep

-----------------------------------------------------------------------------
(* The objects                                                             *)

(* Only an accepted AARE and the reading of an object change what has been *)
(* read: the first begins the list, the second goes on in it.              *)
LEMMA ReadingStep == IInv /\ [Next]_vars => ReadSoFar'
<1> SUFFICES ASSUME IInv, [Next]_vars PROVE ReadSoFar'
  OBVIOUS
<1> USE DEF indices, local, history
<1>0. /\ ReadSoFar /\ Records /\ Fresh
      /\ mReadIndex \in Nat /\ mMeterIndex \in Nat
      /\ accessed \in Seq(Nat \X Nat)
  <2>1. mConf.objects \in Nat /\ Len(mConf.meters) \in Nat
    BY ConfigurationAssumption DEF IInv, TypeOK, Configuration
  <2> QED
    BY <2>1 DEF IInv, Control, TypeOK, Records
<1>1. CASE UNCHANGED <<mReadIndex, mMeterIndex, mCosemState, associated, accessed>>
           /\ (pc' = "read" => pc = "read" \/ mCosemState # "ASSOCIATED")
  BY <1>0, <1>1 DEF ReadSoFar
<1>2. CASE UNCHANGED <<mReadIndex, mCosemState, associated, accessed>> /\ pc' # "read"
  BY <1>0, <1>2 DEF ReadSoFar
<1>3. CASE PrintUsage \/ MissingCommFile \/ Initialize \/ ModemTest \/ ModemDial
  BY <1>2, <1>3, Zenon
  DEF PrintUsage, MissingCommFile, Initialize, ParseFails, ParseThrows, OpenFails, OpenSucceeds,
      ModemTest, ModemDial, ModemStep, Task
<1>4. CASE StartMeter
  BY <1>0, <1>1, <1>4 DEF StartMeter, Fresh
<1>5. CASE SkipMeter \/ NoMoreMeter
  BY <1>2, <1>5 DEF SkipMeter, NoMoreMeter, Task
<1>6. CASE ConnectHdlcSucceeds
  BY <1>0, <1>6 DEF ConnectHdlcSucceeds, ReadSoFar
<1>7. CASE ConnectHdlcFails
  <2>1. /\ pc = "read" /\ UNCHANGED <<mReadIndex, mCosemState, associated, accessed>>
        /\ pc' = "report" \/ UNCHANGED mMeterIndex
    BY <1>7, Zenon DEF ConnectHdlcFails, LeaveRead, Task
  <2> QED
    BY <1>1, <1>2, <2>1
<1>8. CASE ConnectAarqSucceeds
  <2>1. /\ associated = {} /\ accessed = <<>> /\ UNCHANGED <<accessed, mMeterIndex>>
        /\ mReadIndex' = 0 /\ mCosemState' = "ASSOCIATED" /\ associated' = {mMeterIndex}
    BY <1>0, <1>8 DEF ConnectAarqSucceeds, ReadSoFar
  <2> QED
    BY <2>1 DEF ReadSoFar
<1>9. CASE ConnectAarqFails \/ AccessObjectFails \/ NoMoreObject
  BY <1>2, <1>9 DEF ConnectAarqFails, AccessObjectFails, NoMoreObject, LeaveRead, Task
<1>10. CASE AccessObjectSucceeds
  <2>1. /\ mCosemState = "ASSOCIATED" /\ pc = "read" /\ mReadIndex' = mReadIndex + 1
        /\ accessed' = Append(accessed, <<mMeterIndex, mReadIndex>>)
        /\ UNCHANGED <<mCosemState, associated, mMeterIndex, pc>>
    BY <1>10 DEF AccessObjectSucceeds
  <2>2. /\ Len(accessed) = mReadIndex /\ Len(accessed') = mReadIndex + 1
        /\ DOMAIN accessed = 1..mReadIndex /\ DOMAIN accessed' = 1..mReadIndex + 1
        /\ \A i \in 1..mReadIndex : accessed'[i] = accessed[i]
        /\ accessed'[mReadIndex + 1] = <<mMeterIndex, mReadIndex>>
    BY <1>0, <2>1, AppendProperties DEF ReadSoFar
  <2>3. ASSUME NEW m \in associated, NEW i \in DOMAIN accessed'
        PROVE  accessed'[i] = <<m, i - 1>>
    <3>1. m = mMeterIndex
      BY <1>0, <2>1 DEF ReadSoFar
    <3>2. CASE i \in 1..mReadIndex
      BY <1>0, <2>1, <2>2, <3>2 DEF ReadSoFar
    <3>3. CASE i = mReadIndex + 1
      <4>1. i - 1 = mReadIndex
        BY <1>0, <3>3
      <4> QED
        BY <2>2, <3>1, <3>3, <4>1
    <3> QED
      BY <1>0, <2>2, <3>2, <3>3
  <2> QED
    BY <1>0, <2>1, <2>2, <2>3 DEF ReadSoFar
<1>11. CASE PrintResult \/ Exit \/ ReaderExits
  BY <1>2, <1>11 DEF PrintResult, Exit, ReaderExits
<1>12. CASE UNCHANGED vars
  BY <1>1, <1>12 DEF vars
<1> QED
  BY <1>3, <1>4, <1>5, <1>6, <1>7, <1>8, <1>9, <1>10, <1>11, <1>12
  DEF Next, Main, PerformTask, PerformCosemRead

(* The loop of PerformTask is left from a meter that is not associated, at *)
(* the end of the list, or with a failure among the results.               *)
LEMMA EndStep == IInv /\ [Next]_vars => ReadToTheEnd'
<1> SUFFICES ASSUME IInv, [Next]_vars, pc' = "report", associated' # {}, ~Failed'
             PROVE  ~HasObject'
  BY DEF ReadToTheEnd
<1> USE DEF indices, local, history
<1>0. ReadSoFar /\ ReadToTheEnd /\ Records /\ Fresh
  BY DEF IInv, Control
<1>a. ASSUME NEW s \in Subjects, mResults' = Append(mResults, Failure(s)) PROVE FALSE
  <2>1. Failure(s) \in ResultSet /\ ~Failure(s).success
    BY ResultsTyped
  <2>2. /\ Len(mResults) + 1 \in DOMAIN mResults'
        /\ mResults'[Len(mResults) + 1] = Failure(s)
    BY <1>0, <1>a, <2>1, Added DEF Records
  <2> QED
    BY <2>1, <2>2 DEF Failed
<1>b. mReadIndex \in Subjects /\
      {"OPEN COM PORT", "MODEM TEST", "MODEM DIAL", "CONNECT HDLC",
       "CONNECT COSEM (AARQ)"} \subseteq Subjects
  <2>1. mReadIndex \in Nat
    BY ConfigurationAssumption DEF IInv, TypeOK, Configuration
  <2> QED
    BY <2>1 DEF Subjects
<1>1. ASSUME mCosemState = "CONNECT_HDLC", UNCHANGED associated PROVE FALSE
  BY <1>0, <1>1 DEF ReadSoFar
<1>2. CASE PrintUsage \/ MissingCommFile \/ Initialize
  <2>1. pc = "start" /\ UNCHANGED associated
    BY <1>2 DEF PrintUsage, MissingCommFile, Initialize, ParseFails, ParseThrows, OpenFails, OpenSucceeds
  <2> QED
    BY <1>0, <1>1, <2>1 DEF Fresh
<1>3. CASE ModemTest \/ ModemDial \/ StartMeter \/ SkipMeter \/ NoMoreMeter
  <2>1. pc = "task" /\ UNCHANGED associated
    BY <1>3 DEF ModemTest, ModemDial, ModemStep, StartMeter, SkipMeter, NoMoreMeter
  <2> QED
    BY <1>0, <1>1, <2>1 DEF Fresh
<1>4. CASE ConnectHdlcSucceeds \/ ConnectHdlcFails
  <2>1. mCosemState = "CONNECT_HDLC" /\ UNCHANGED associated
    BY <1>4, Zenon DEF ConnectHdlcSucceeds, ConnectHdlcFails
  <2> QED
    BY <1>1, <2>1
<1>5. CASE ConnectAarqSucceeds \/ AccessObjectSucceeds
  BY <1>5 DEF ConnectAarqSucceeds, AccessObjectSucceeds
<1>6. CASE ConnectAarqFails \/ AccessObjectFails
  BY <1>6, <1>a, <1>b DEF ConnectAarqFails, AccessObjectFails
<1>7. CASE NoMoreObject
  BY <1>7 DEF NoMoreObject, HasObject
<1>8. CASE PrintResult \/ Exit \/ ReaderExits
  BY <1>8 DEF PrintResult, Exit, ReaderExits
<1>9. CASE UNCHANGED vars
  BY <1>0, <1>9 DEF vars, ReadToTheEnd, HasObject, Failed
<1> QED
  BY <1>2, <1>3, <1>4, <1>5, <1>6, <1>7, <1>8, <1>9
  DEF Next, Main, PerformTask, PerformCosemRead

(* mReadIndex is then the length of the list.                              *)
LEMMA ReadIsAll == IInv => NothingSkipped
<1> SUFFICES ASSUME IInv, pc = "report", ~Failed, NEW m \in associated
             PROVE  /\ {accessed[i][2] : i \in {k \in DOMAIN accessed : accessed[k][1] = m}}
                         = 0..mConf.objects - 1
                    /\ \A i, j \in {k \in DOMAIN accessed : accessed[k][1] = m} :
                         i < j => accessed[i][2] < accessed[j][2]
  BY DEF NothingSkipped
<1>1. mConf.objects \in Nat /\ mReadIndex \in 0..mConf.objects /\ accessed \in Seq(Nat \X Nat)
  BY ConfigurationAssumption DEF IInv, TypeOK, Configuration, Records
<1>2. /\ Len(accessed) = mReadIndex
      /\ \A i \in DOMAIN accessed : accessed[i] = <<m, i - 1>>
  BY DEF IInv, ReadSoFar
<1>3. mReadIndex = mConf.objects
  BY <1>1 DEF IInv, ReadToTheEnd, HasObject
<1>4. DOMAIN accessed = 1..mConf.objects
  BY <1>1, <1>2, <1>3
<1>5. \A i \in 1..mConf.objects : accessed[i][1] = m /\ accessed[i][2] = i - 1
  BY <1>2, <1>4
<1>6. {k \in DOMAIN accessed : accessed[k][1] = m} = 1..mConf.objects
  BY <1>4, <1>5
<1>7. {accessed[i][2] : i \in 1..mConf.objects} = 0..mConf.objects - 1
  <2>1. \A o \in 0..mConf.objects - 1 : o + 1 \in 1..mConf.objects /\ (o + 1) - 1 = o
    BY <1>1
  <2>2. \A o \in 0..mConf.objects - 1 : accessed[o + 1][2] = o
    BY <1>5, <2>1
  <2>3. \A i \in 1..mConf.objects : accessed[i][2] \in 0..mConf.objects - 1
    BY <1>1, <1>5
  <2> QED
    BY <2>1, <2>2, <2>3
<1>8. \A i, j \in 1..mConf.objects : i < j => accessed[i][2] < accessed[j][2]
  BY <1>1, <1>5
<1> QED
  BY <1>6, <1>7, <1>8, Zenon

-----------------------------------------------------------------------------
(* The theorems                                                            *)

LEMMA Inductive == IInv /\ [Next]_vars => IInv'
  BY TypeStep, MeterStep, AccessStep, FailureStep, ReadingStep, EndStep DEF IInv, Control

(* The type invariant: mMeterIndex and mReadIndex stay within their lists, *)
(* phy_address and the retry counter within their ranges                   *)
(* (lib/CosemClient.cpp:1126-1394).                                        *)
THEOREM TypeCorrect == Spec => []TypeOK
<1>1. IInv => TypeOK
  BY DEF IInv
<1> QED
  BY InvInit, Inductive, <1>1, PTL DEF Spec

(* No object is read from a meter without an association with that meter,  *)
(* although mCosemState is the client's and not the meter's                *)
(* (lib/CosemClient.cpp:1134).                                             *)
THEOREM Associated == Spec => []AccessOnlyAssociated
<1>1. IInv => AccessOnlyAssociated
  BY DEF IInv
<1> QED
  BY InvInit, Inductive, <1>1, PTL DEF Spec

(* "stop at first failure" (lib/CosemClient.cpp:1217): for every list of   *)
(* meters and objects, a failure is the last thing that is tried.          *)
THEOREM FailureIsLast == Spec => []StopAtFirstFailure
<1>1. IInv => StopAtFirstFailure
  BY DEF IInv
<1> QED
  BY InvInit, Inductive, <1>1, PTL DEF Spec

(* Without a failure, the objects read from a meter are the list of the    *)
(* session, each once and in its order, for lists of any length            *)
(* (lib/CosemClient.cpp:1193-1221).                                        *)
THEOREM WholeListRead == Spec => []NothingSkipped
<1> QED
  BY InvInit, Inductive, ReadIsAll, PTL DEF Spec
=============================================================================
