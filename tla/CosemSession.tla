---------------------------- MODULE CosemSession ----------------------------
(***************************************************************************)
(* The program around the exchanges: main (src/main.cpp:26-69), Initialize, *)
(* PerformTask, PerformCosemRead and PrintResult (lib/CosemClient.cpp:44-84,*)
(* 1126-1394).  What HdlcExchange shows of one exchange appears here as its *)
(* outcome; the serial reader only as the thread that may end the process.  *)
(***************************************************************************)
EXTENDS Integers, Sequences

CONSTANTS
  Configurations,  \* what the three files may hold, see Configuration
  Retries,         \* Configuration::retries
  LastCount,       \* the largest value of a uint32_t
  LastAddress,     \* the largest HDLC physical address
  ArgumentCounts   \* values of argc

\* meterId may be empty, testHdlcAddr scans addresses, mConf.list is objects
\* long (lib/Configuration.h:135-168).
Meter == [named : BOOLEAN, testHdlcAddr : BOOLEAN]
Configuration == [meters : Seq(Meter), objects : Nat, useModem : BOOLEAN]

ASSUME ConfigurationAssumption == Configurations \subseteq Configuration
ASSUME RetriesAssumption == LastCount \in Nat /\ Retries \in 0..LastCount
ASSUME AddressAssumption == LastAddress \in Nat
ASSUME ArgumentAssumption == ArgumentCounts \subseteq Nat \ {0}

VARIABLES
  argc, mConf,
  pc,            \* where main is
  opened,        \* TRUE once the port is open and the reader started
  mModemState, mCosemState, mReadIndex, mMeterIndex, mResults,
  retries, phy_address,   \* PerformCosemRead, for the meter at mMeterIndex
  report,        \* the result file: "none", or the status it states
  associated,    \* history: the meters whose AARE was accepted
  accessed       \* history: the objects read, with their meter

indices == <<mReadIndex, mMeterIndex>>
local == <<retries, phy_address>>
history == <<associated, accessed>>
vars == <<argc, mConf, pc, opened, mModemState, mCosemState, indices, mResults,
          local, report, history>>

Init ==
  /\ argc \in ArgumentCounts /\ mConf \in Configurations
  /\ pc = "start" /\ opened = FALSE
  /\ mModemState = "DISCONNECTED" /\ mCosemState = "CONNECT_HDLC"
  /\ mReadIndex = 0 /\ mMeterIndex = 0 /\ mResults = <<>>
  /\ retries = 0 /\ phy_address = 0
  /\ report = "none" /\ associated = {} /\ accessed = <<>>

Success(subject) == [subject |-> subject, success |-> TRUE]
Failure(subject) == [subject |-> subject, success |-> FALSE]

-----------------------------------------------------------------------------
(* main and Initialize                                                     *)

\* Too few arguments: the usage is printed.
PrintUsage ==
  /\ pc = "start" /\ argc < 3
  /\ pc' = "stop"
  /\ UNCHANGED <<argc, mConf, opened, mModemState, mCosemState, indices,
                 mResults, local, report, history>>

\* argc = 3 passes the test, and std::string(argv[3]) throws on a null.
MissingCommFile ==
  /\ pc = "start" /\ argc = 3
  /\ pc' = "aborted"
  /\ UNCHANGED <<argc, mConf, opened, mModemState, mCosemState, indices,
                 mResults, local, report, history>>

\* One of the three files cannot be read or parsed.
ParseFails ==
  /\ pc = "start" /\ argc > 3
  /\ pc' = "report"
  /\ UNCHANGED <<argc, mConf, opened, mModemState, mCosemState, indices,
                 mResults, local, report, history>>

\* One of them is JSON, but no object: jsoncpp throws, and nobody catches it.
ParseThrows ==
  /\ pc = "start" /\ argc > 3
  /\ pc' = "aborted"
  /\ UNCHANGED <<argc, mConf, opened, mModemState, mCosemState, indices,
                 mResults, local, report, history>>

ModemStateAtStart == IF mConf.useModem THEN "DISCONNECTED" ELSE "CONNECTED"

OpenFails ==
  /\ pc = "start" /\ argc > 3
  /\ mModemState' = ModemStateAtStart
  /\ mResults' = Append(mResults, Failure("OPEN COM PORT"))
  /\ pc' = "report"
  /\ UNCHANGED <<argc, mConf, opened, mCosemState, indices, local, report,
                 history>>

OpenSucceeds ==
  /\ pc = "start" /\ argc > 3
  /\ mModemState' = ModemStateAtStart
  /\ opened' = TRUE /\ pc' = "task"
  /\ UNCHANGED <<argc, mConf, mCosemState, indices, mResults, local, report,
                 history>>

-----------------------------------------------------------------------------
(* PerformTask                                                             *)

\* Its return value: while (client.PerformTask()).
Task(again) == IF again THEN "task" ELSE "report"

\* MODEM TEST and MODEM DIAL, by the answer SendModem found or not.
ModemStep(state, subject, next) ==
  /\ pc = "task" /\ mModemState = state
  /\ \E answered \in BOOLEAN :
       /\ mModemState' = IF answered THEN next ELSE state
       /\ mResults' = IF answered THEN mResults
                      ELSE Append(mResults, Failure(subject))
       /\ pc' = Task(answered)
  /\ UNCHANGED <<argc, mConf, opened, mCosemState, indices, local, report,
                 history>>

ModemTest == ModemStep("DISCONNECTED", "MODEM TEST", "DIAL")
ModemDial == ModemStep("DIAL", "MODEM DIAL", "CONNECTED")

HasMeter == mMeterIndex < Len(mConf.meters)
meter == mConf.meters[mMeterIndex + 1]

\* PerformCosemRead begins with a copy of the next meter ...
StartMeter ==
  /\ pc = "task" /\ mModemState = "CONNECTED" /\ HasMeter /\ meter.named
  /\ retries' = 0 /\ phy_address' = 0 /\ pc' = "read"
  /\ UNCHANGED <<argc, mConf, opened, mModemState, mCosemState, indices,
                 mResults, report, history>>

\* ... unless that meter has no identifier ...
SkipMeter ==
  /\ pc = "task" /\ mModemState = "CONNECTED" /\ HasMeter /\ ~meter.named
  /\ mMeterIndex' = mMeterIndex + 1 /\ pc' = Task(FALSE)
  /\ UNCHANGED <<argc, mConf, opened, mModemState, mCosemState, mReadIndex,
                 mResults, local, report, history>>

\* ... or there is none: "No more meter to read, exiting".
NoMoreMeter ==
  /\ pc = "task" /\ mModemState = "CONNECTED" /\ ~HasMeter
  /\ pc' = Task(FALSE)
  /\ UNCHANGED <<argc, mConf, opened, mModemState, mCosemState, indices,
                 mResults, local, report, history>>

-----------------------------------------------------------------------------
(* PerformCosemRead                                                        *)

\* Variant: PerformCosemRead tells PerformTask to come back.
LeaveReadForNextMeter ==
  mMeterIndex' = mMeterIndex + 1 /\ pc' = Task(TRUE)

\* The loop is left with ret = false, PerformTask's return value.
LeaveRead == mMeterIndex' = mMeterIndex + 1 /\ pc' = Task(FALSE)

ConnectHdlcSucceeds ==
  /\ pc = "read" /\ mCosemState = "CONNECT_HDLC"
  /\ mCosemState' = "ASSOCIATION_PENDING"
  /\ UNCHANGED <<argc, mConf, pc, opened, mModemState, indices, mResults, local,
                 report, history>>

\* Variant: the counter starts again at its limit.
CountAround(n) == (n + 1) % (Retries + 1)

\* retries++ on a uint32_t
Count(n) == (n + 1) % (LastCount + 1)

\* Another try, the next address, or the end.
ConnectHdlcFails ==
  /\ pc = "read" /\ mCosemState = "CONNECT_HDLC"
  /\ LET out == Count(retries) > Retries
     IN  /\ retries' = IF out THEN 0 ELSE Count(retries)
         /\ IF out /\ meter.testHdlcAddr
              THEN phy_address' = (phy_address + 1) % (LastAddress + 1)
              ELSE UNCHANGED phy_address
         /\ IF out /\ ~meter.testHdlcAddr
              THEN mResults' = Append(mResults, Failure("CONNECT HDLC")) /\ LeaveRead
              ELSE UNCHANGED <<mResults, mMeterIndex, pc>>
  /\ UNCHANGED <<argc, mConf, opened, mModemState, mCosemState, mReadIndex,
                 report, history>>

ConnectAarqSucceeds ==
  /\ pc = "read" /\ mCosemState = "ASSOCIATION_PENDING"
  /\ mReadIndex' = 0 /\ mCosemState' = "ASSOCIATED"
  /\ associated' = associated \cup {mMeterIndex}
  /\ UNCHANGED <<argc, mConf, pc, opened, mModemState, mMeterIndex, mResults,
                 local, report, accessed>>

ConnectAarqFails ==
  /\ pc = "read" /\ mCosemState = "ASSOCIATION_PENDING"
  /\ mResults' = Append(mResults, Failure("CONNECT COSEM (AARQ)"))
  /\ LeaveRead
  /\ UNCHANGED <<argc, mConf, opened, mModemState, mCosemState, mReadIndex,
                 local, report, history>>

\* Variant: one object past the end of the list is asked for.
HasObjectOnePast == mReadIndex <= mConf.objects

\* Variant: the last object of the list is left out.
HasObjectOffByOne == mReadIndex + 1 < mConf.objects

HasObject == mReadIndex < mConf.objects

\* Its result is kept, good or bad.
AccessObjectSucceeds ==
  /\ pc = "read" /\ mCosemState = "ASSOCIATED" /\ HasObject
  /\ mResults' = Append(mResults, Success(mReadIndex))
  /\ accessed' = Append(accessed, <<mMeterIndex, mReadIndex>>)
  /\ mReadIndex' = mReadIndex + 1
  /\ UNCHANGED <<argc, mConf, pc, opened, mModemState, mCosemState, mMeterIndex,
                 local, report, associated>>

\* Variant: a failure does not end the reading of the meter.
AccessObjectFailsGoesOn ==
  /\ pc = "read" /\ mCosemState = "ASSOCIATED" /\ HasObject
  /\ mResults' = Append(mResults, Failure(mReadIndex))
  /\ mReadIndex' = mReadIndex + 1
  /\ UNCHANGED <<argc, mConf, pc, opened, mModemState, mCosemState, mMeterIndex,
                 local, report, history>>

\* "stop at first failure"
AccessObjectFails ==
  /\ pc = "read" /\ mCosemState = "ASSOCIATED" /\ HasObject
  /\ mResults' = Append(mResults, Failure(mReadIndex))
  /\ LeaveRead
  /\ UNCHANGED <<argc, mConf, opened, mModemState, mCosemState, mReadIndex,
                 local, report, history>>

NoMoreObject ==
  /\ pc = "read" /\ mCosemState = "ASSOCIATED" /\ ~HasObject
  /\ LeaveRead
  /\ UNCHANGED <<argc, mConf, opened, mModemState, mCosemState, mReadIndex,
                 mResults, local, report, history>>

-----------------------------------------------------------------------------
(* PrintResult and the end                                                 *)

\* The status is about mResults being empty; the file may not open.
PrintResult ==
  /\ pc = "report"
  /\ report' \in {"unwritten", IF mResults = <<>> THEN "success" ELSE "failure"}
  /\ pc' = "stop"
  /\ UNCHANGED <<argc, mConf, opened, mModemState, mCosemState, indices,
                 mResults, local, history>>

\* WaitForStop: Transport!StopReturns.
Exit ==
  /\ pc = "stop" /\ pc' = "exited"
  /\ UNCHANGED <<argc, mConf, opened, mModemState, mCosemState, indices,
                 mResults, local, report, history>>

Ended == pc \in {"exited", "aborted", "killed"}

\* serial_read failed: the reader thread calls exit(1) at any point.
ReaderExits ==
  /\ opened /\ ~Ended /\ pc' = "killed"
  /\ UNCHANGED <<argc, mConf, opened, mModemState, mCosemState, indices,
                 mResults, local, report, history>>

Initialize == ParseFails \/ ParseThrows \/ OpenFails \/ OpenSucceeds

PerformCosemRead ==
  \/ ConnectHdlcSucceeds \/ ConnectHdlcFails
  \/ ConnectAarqSucceeds \/ ConnectAarqFails
  \/ AccessObjectSucceeds \/ AccessObjectFails \/ NoMoreObject

PerformTask ==
  \/ ModemTest \/ ModemDial
  \/ StartMeter \/ SkipMeter \/ NoMoreMeter
  \/ PerformCosemRead

Main == PrintUsage \/ MissingCommFile \/ Initialize \/ PerformTask \/ PrintResult
        \/ Exit

Next == Main \/ ReaderExits \/ (Ended /\ UNCHANGED vars)

\* Every exchange returns (HdlcExchange!ExchangeReturns), so main goes on.
Spec == Init /\ [][Next]_vars
FairSpec == Spec /\ WF_vars(Main)

-----------------------------------------------------------------------------
(* Properties                                                              *)

\* The type of every variable.
TypeOK ==
  /\ argc \in ArgumentCounts /\ mConf \in Configurations
  /\ pc \in {"start", "task", "read", "report", "stop", "exited", "aborted",
             "killed"}
  /\ opened \in BOOLEAN
  /\ mModemState \in {"DISCONNECTED", "DIAL", "CONNECTED"}
  /\ mCosemState \in {"CONNECT_HDLC", "ASSOCIATION_PENDING", "ASSOCIATED"}
  /\ mReadIndex \in 0..mConf.objects /\ mMeterIndex \in 0..Len(mConf.meters)
  /\ \A i \in DOMAIN mResults : mResults[i].success \in BOOLEAN
  /\ retries \in 0..Retries /\ phy_address \in 0..LastAddress
  /\ report \in {"none", "unwritten", "success", "failure"}

\* A GET is only sent to a meter that accepted an AARQ of its own, although
\* mCosemState outlives the meter it was reached for.
AccessOnlyAssociated == \A i \in DOMAIN accessed : accessed[i][1] \in associated

\* "stop at first failure" (lib/CosemClient.cpp:1217): nothing is tried after
\* a failure, so a failure is the last result and there is one at most.
StopAtFirstFailure ==
  \A i \in DOMAIN mResults : ~mResults[i].success => i = Len(mResults)

Failed == \E i \in DOMAIN mResults : ~mResults[i].success

\* A meter whose reading ended without a failure had every object of the list
\* read, once and in the order of the list.
NothingSkipped ==
  pc = "report" /\ ~Failed =>
    \A m \in associated :
      LET readFrom == {i \in DOMAIN accessed : accessed[i][1] = m}
      IN  /\ {accessed[i][2] : i \in readFrom} = 0..mConf.objects - 1
          /\ \A i, j \in readFrom : i < j => accessed[i][2] < accessed[j][2]

\* The program ends by itself, unless it was asked to scan HDLC addresses.
Ends == (\A i \in DOMAIN mConf.meters : ~mConf.meters[i].testHdlcAddr) ~> Ended

\* "One or more problem was found." (lib/CosemClient.cpp:1265): the failure
\* status is kept for runs in which something failed.
FailureMeansProblem == report = "failure" => Failed

\* "No more meter to read, exiting." (lib/CosemClient.cpp:1384): unless
\* something failed, all the meters of the file have been read.
EveryMeterRead ==
  pc = "report" /\ opened /\ ~Failed /\ (\A i \in DOMAIN mConf.meters : mConf.meters[i].named)
    => mMeterIndex = Len(mConf.meters)
=============================================================================
