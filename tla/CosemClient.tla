------------------------------ MODULE CosemClient ------------------------------
(***************************************************************************)
(* The client put together: the session of CosemSession with the functions  *)
(* it calls, the three parsers (ConfigurationFiles), SendModem (Modem),     *)
(* ConnectAarq (Association) and the dumps of AccessObject (AxdrPrinter),   *)
(* each step by step.  A step of the session that stands for a call is      *)
(* taken when the call returns, with its result.  HdlcProcess and the       *)
(* blocks of AccessObject are seen as their outcome, see HdlcExchange and   *)
(* AccessObject.                                                            *)
(***************************************************************************)
EXTENDS CosemSession, ConfigurationFiles, Modem, Association, AxdrPrinter

ASSUME RetriesAreTheSame == ActionTries = Retries + 1

VARIABLES
  dumped,    \* the object at mReadIndex has been dumped
  dialled,   \* history: the modem answered the dial with CONNECT
  genuine    \* history: the meter takes itself for associated as well

clientHistory == <<dialled, genuine>>
clientVars == <<vars, configurationVars, modemVars, associationVars, printerVars,
                dumped, clientHistory>>

\* There is no meter before StartMeter, and no configuration without its files.
AnyClient == CHOOSE c \in Client : TRUE
AnyServer == CHOOSE s \in Server : TRUE

AnyConfiguration == CHOOSE c \in Configurations : TRUE

\* What the session uses of the files.
SessionConfiguration(objects, metersRead, values) ==
  [meters |-> [i \in DOMAIN metersRead |->
                 [named |-> metersRead[i].id # "", testHdlcAddr |-> metersRead[i].test_addr]],
   objects |-> Len(objects), useModem |-> values.enable]

\* Configurations and Retries bound what the files hold.
FilesFit ==
  IF Reads(files.objects) /\ Reads(files.session)
    THEN LET values == Parsed(SessionFields, files.session.session)
         IN  /\ values.retries = Retries
             /\ mConf = SessionConfiguration(
                          ParsedArray(ObjectFields, files.objects.objects),
                          ParsedArray(MeterFields, files.session.meters), values)
    ELSE mConf = AnyConfiguration

ClientInit ==
  /\ Init /\ ConfigurationInit /\ FilesFit
  /\ ModemInit /\ AssociationInit /\ PrinterInit
  /\ client = AnyClient /\ server = AnyServer
  /\ dumped = FALSE /\ dialled = FALSE /\ genuine = FALSE

-----------------------------------------------------------------------------
(* Initialize                                                              *)

InitializeRuns ==
  /\ pc = "start" /\ argc > 3 /\ ParseFiles
  /\ UNCHANGED <<vars, modemVars, associationVars, printerVars, dumped, clientHistory>>

\* From here on what was parsed is mConf.
LeaveFiles ==
  /\ files' = CHOOSE f \in Files : TRUE
  /\ stage' = "over" /\ params' = Parsed(CommFields, NoObject)
  /\ settings' = Parsed(SessionFields, NoObject) /\ list' = <<>> /\ meters' = <<>>

\* A file is missing, or is no object, or the port is opened with what they gave.
InitializeReturns ==
  /\ \/ stage = "failed" /\ ParseFails
     \/ stage = "thrown" /\ ParseThrows
     \/ /\ stage = "parsed" /\ mConf = SessionConfiguration(list, meters, settings)
        /\ OpenFails \/ OpenSucceeds
  /\ LeaveFiles
  /\ UNCHANGED <<modemVars, associationVars, printerVars, dumped, clientHistory>>

-----------------------------------------------------------------------------
(* The modem                                                               *)

\* PerformTask calls SendModem with the command of its state.
CallSendModem ==
  /\ pc = "task"
  /\ \/ mModemState = "DISCONNECTED" /\ WriteCommand("init")
     \/ mModemState = "DIAL" /\ WriteCommand("dial")
  /\ UNCHANGED <<vars, configurationVars, associationVars, printerVars, dumped,
                 clientHistory>>

SendModemRuns ==
  /\ pc = "task" /\ SendModem
  /\ UNCHANGED <<vars, configurationVars, associationVars, printerVars, dumped,
                 clientHistory>>

\* Variant: only an answer that is not there is a failure.
ModemAnsweredAnything == modemReply # <<>>

ModemAnswered == retCode

ModemReturns ==
  /\ ModemTest \/ ModemDial
  /\ (mModemState' # mModemState) <=> ModemAnswered
  /\ CallerTakesReply
  /\ dialled' = (dialled \/ (mModemState' = "CONNECTED" /\ Expects))
  /\ UNCHANGED <<configurationVars, associationVars, printerVars, dumped, genuine>>

\* The reader thread, as long as the mailbox is that of SendModem.
ReaderRuns ==
  /\ pc = "task" /\ mModemState # "CONNECTED" /\ ModemReader
  /\ UNCHANGED <<vars, configurationVars, associationVars, printerVars, dumped,
                 clientHistory>>

\* SendModem is over.  What it left in the mailbox and on the line stays there,
\* for the first WaitForData of ConnectHdlc.
LeaveModem ==
  /\ mpc = "idle" /\ command' = "init" /\ modemReply' = <<>> /\ retCode' = FALSE
  /\ replied' = <<>> /\ chunks' = 0 /\ undisturbed' = TRUE
  /\ UNCHANGED <<modemMailbox, mpc, underWay>>

-----------------------------------------------------------------------------
(* One meter                                                               *)

\* The meter of the configuration file and the one at the other end.
ClientStartMeter ==
  /\ StartMeter /\ LeaveModem
  /\ client' \in Client /\ server' \in Server /\ key' = client'.secret
  /\ UNCHANGED <<apc, auth_level, stoc, result, tries, app_array, response,
                 serverState, disturbed, configurationVars, printerVars, dumped, clientHistory>>

NoMeter ==
  /\ SkipMeter \/ NoMoreMeter
  /\ LeaveModem
  /\ UNCHANGED <<configurationVars, associationVars, printerVars, dumped,
                 clientHistory>>

\* HdlcProcess takes what is there for the beginning of an answer; what comes of it
\* is part of its outcome.  No step here looks at the mailbox after that.
TakeMailbox ==
  /\ mpc = "idle"
  /\ mData' = <<>> /\ mSem' = 0 /\ ringing' = FALSE /\ data' = <<>> /\ underWay' = <<>>
  /\ UNCHANGED <<call, modemCall, modemHistory>>

ConnectHdlc ==
  /\ ConnectHdlcSucceeds \/ ConnectHdlcFails
  /\ TakeMailbox
  /\ UNCHANGED <<configurationVars, associationVars, printerVars, dumped, clientHistory>>

ConnectAarqRuns ==
  /\ pc = "read" /\ mCosemState = "ASSOCIATION_PENDING" /\ ConnectAarq
  /\ UNCHANGED <<vars, configurationVars, modemVars, printerVars, dumped,
                 clientHistory>>

\* The locals of Pass3And4 are gone.
LeaveConnectAarq ==
  /\ apc' = "off" /\ client' = AnyClient /\ server' = AnyServer
  /\ auth_level' = "LOWEST" /\ stoc' = "none" /\ key' = AnyClient.secret
  /\ result' = "running"
  /\ tries' = 0 /\ app_array' = Nothing /\ response' = FALSE
  /\ serverState' = "idle" /\ disturbed' = FALSE

ConnectAarqReturns ==
  /\ apc = "done"
  /\ \/ result = "success" /\ ConnectAarqSucceeds
     \/ result = "failure" /\ ConnectAarqFails
  /\ genuine' = (serverState = "associated")
  /\ LeaveConnectAarq
  /\ UNCHANGED <<configurationVars, modemVars, printerVars, dumped, dialled>>

-----------------------------------------------------------------------------
(* The objects                                                             *)

\* AccessObject has the value, or as much as the buffer took, and prints it.
BeginDump ==
  /\ pc = "read" /\ mCosemState = "ASSOCIATED" /\ HasObject /\ ~dumped
  /\ Start
  /\ UNCHANGED <<vars, configurationVars, modemVars, associationVars, dumped,
                 clientHistory>>

PrintTag ==
  /\ pc = "read" /\ Len(tags) < MaxTags /\ \E tag \in Tag : AxdrData(tag)
  /\ UNCHANGED <<vars, configurationVars, modemVars, associationVars, dumped,
                 clientHistory>>

EndDump ==
  /\ pc = "read" /\ End /\ dumped' = TRUE
  /\ UNCHANGED <<vars, configurationVars, modemVars, associationVars, clientHistory>>

\* An object that is a success without having been read comes here without a
\* dump.
AccessObjectReturns ==
  /\ ~printing /\ dumped' = FALSE
  /\ AccessObjectSucceeds \/ (~dumped /\ AccessObjectFails)
  /\ UNCHANGED <<configurationVars, modemVars, associationVars, printerVars, clientHistory>>

Otherwise ==
  /\ \/ PrintUsage \/ MissingCommFile \/ NoMoreObject \/ PrintResult
     \/ Exit
  /\ UNCHANGED <<configurationVars, modemVars, associationVars, printerVars, dumped,
                 clientHistory>>

\* exit(1) in the reader thread, at any point of any call.
ClientReaderExits ==
  /\ ReaderExits
  /\ UNCHANGED <<configurationVars, modemVars, associationVars, printerVars, dumped,
                 clientHistory>>

ClientMain ==
  \/ InitializeRuns \/ InitializeReturns
  \/ CallSendModem \/ SendModemRuns \/ ModemReturns
  \/ ClientStartMeter \/ NoMeter \/ ConnectHdlc
  \/ ConnectAarqRuns \/ ConnectAarqReturns
  \/ BeginDump \/ PrintTag \/ EndDump \/ AccessObjectReturns
  \/ Otherwise

ClientNext ==
  ClientMain \/ ReaderRuns \/ ClientReaderExits \/ (Ended /\ UNCHANGED clientVars)

ClientSpec == ClientInit /\ [][ClientNext]_clientVars
FairClientSpec == ClientSpec /\ WF_clientVars(ClientMain)

-----------------------------------------------------------------------------
(* Properties                                                              *)

\* An object is only read from a meter that takes itself for associated, whatever
\* was lost, sent again or answered without a value while the client connected.
ReadOnlyWhenAssociated == accessed # <<>> => genuine

\* Over a modem, only after the modem said CONNECT to the dial, whatever was
\* left over from the command before.
ReadOnlyWhenDialled == accessed # <<>> /\ mConf.useModem => dialled

\* Seen from the session every call is one step, and it returns: the two waits
\* of SendModem, the exchanges of pass 3 and a dump all come to an end.
ImplementsSession == FairSpec
================================================================================
