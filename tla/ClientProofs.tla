----------------------------- MODULE ClientProofs -----------------------------
(***************************************************************************)
(* Proofs about CosemClient: what its parts were shown to do alone they do  *)
(* together, for every configuration, reply of a modem, meter and value.    *)
(***************************************************************************)
EXTENDS CosemClient, AssociationProofs, PrinterProofs, ModemProofs

-----------------------------------------------------------------------------
(* The session                                                             *)

\* A call that goes on is a stutter of the session, one that returns a step.
LEMMA SessionStep == [ClientNext]_clientVars => [Next]_vars
<1> SUFFICES ASSUME [ClientNext]_clientVars PROVE [Next]_vars
  OBVIOUS
<1>1. CASE InitializeRuns
  BY <1>1 DEF InitializeRuns
<1>2. CASE InitializeReturns
  BY <1>2 DEF InitializeReturns, Next, Main, Initialize
<1>3. CASE CallSendModem \/ SendModemRuns \/ ReaderRuns
  BY <1>3 DEF CallSendModem, SendModemRuns, ReaderRuns
<1>4. CASE ModemReturns
  BY <1>4 DEF ModemReturns, Next, Main, PerformTask
<1>5. CASE ClientStartMeter \/ NoMeter
  BY <1>5 DEF ClientStartMeter, NoMeter, Next, Main, PerformTask
<1>6. CASE ConnectHdlc
  BY <1>6 DEF ConnectHdlc, Next, Main, PerformTask, PerformCosemRead
<1>7. CASE ConnectAarqRuns \/ BeginDump \/ PrintTag \/ EndDump
  BY <1>7 DEF ConnectAarqRuns, BeginDump, PrintTag, EndDump
<1>8. CASE ConnectAarqReturns
  BY <1>8 DEF ConnectAarqReturns, Next, Main, PerformTask, PerformCosemRead
<1>9. CASE AccessObjectReturns
  BY <1>9 DEF AccessObjectReturns, Next, Main, PerformTask, PerformCosemRead
<1>10. CASE Otherwise
  BY <1>10 DEF Otherwise, Next, Main, PerformTask, PerformCosemRead
<1>11. CASE ClientReaderExits
  BY <1>11 DEF ClientReaderExits, Next
<1>12. CASE UNCHANGED clientVars
  BY <1>12 DEF clientVars
<1> QED
  BY <1>1, <1>2, <1>3, <1>4, <1>5, <1>6, <1>7, <1>8, <1>9, <1>10, <1>11, <1>12
  DEF ClientNext, ClientMain

\* The client, with its calls step by step, is a session: what SessionProofs
\* shows of a session holds of it (lib/CosemClient.cpp:1126-1394).
THEOREM ClientIsSession == ClientSpec => Spec
<1>1. ClientInit => Init
  BY DEF ClientInit
<1> QED
  BY <1>1, SessionStep, PTL DEF ClientSpec, Spec

-----------------------------------------------------------------------------
(* The printer                                                             *)

\* Nothing but a dump touches gPrinter.
LEMMA PrinterStep == [ClientNext]_clientVars => [PrinterNext]_printerVars
<1> SUFFICES ASSUME [ClientNext]_clientVars PROVE [PrinterNext]_printerVars
  OBVIOUS
<1>1. CASE BeginDump \/ PrintTag \/ EndDump
  BY <1>1 DEF BeginDump, PrintTag, EndDump, PrinterNext
<1>2. CASE InitializeRuns \/ InitializeReturns
  BY <1>2 DEF InitializeRuns, InitializeReturns
<1>3. CASE CallSendModem \/ SendModemRuns \/ ReaderRuns \/ ModemReturns
  BY <1>3 DEF CallSendModem, SendModemRuns, ReaderRuns, ModemReturns
<1>4. CASE ClientStartMeter \/ NoMeter \/ ConnectHdlc
  BY <1>4 DEF ClientStartMeter, NoMeter, ConnectHdlc
<1>5. CASE ConnectAarqRuns \/ ConnectAarqReturns
  BY <1>5 DEF ConnectAarqRuns, ConnectAarqReturns
<1>6. CASE AccessObjectReturns \/ Otherwise \/ ClientReaderExits
  BY <1>6 DEF AccessObjectReturns, Otherwise, ClientReaderExits
<1>7. CASE UNCHANGED clientVars
  BY <1>7 DEF clientVars
<1> QED
  BY <1>1, <1>2, <1>3, <1>4, <1>5, <1>6, <1>7 DEF ClientNext, ClientMain

\* The dumps of all the objects of all the meters, cut short or not, go through
\* one printer, which the rest of the client does not disturb: what is proved of
\* the printer holds of the text of a whole run (lib/CosemClient.cpp:40, 813-829).
THEOREM ClientPrints ==
  ClientSpec => [](/\ PrinterTypeOK /\ CompleteMeansClosed /\ ClosesMatch /\ OpensMatch
                   /\ SizesTrue /\ TextTellsTags)
<1>1. ClientInit => PrinterInit
  BY DEF ClientInit
<1>2. ClientSpec => PrinterSpec
  BY <1>1, PrinterStep, PTL DEF ClientSpec, PrinterSpec
<1> QED
  BY <1>2, PrinterTypeCorrect, PrinterComplete, PrinterNesting, PrinterSizes, PrinterTells, PTL

-----------------------------------------------------------------------------
(* The three files                                                         *)

\* A number of the width of a type is its own remainder.
LEMMA SmallRemainder ==
  ASSUME NEW n \in Nat \ {0}, NEW x \in 0..n - 1
  PROVE  x % n = x
<1>0. x \in Int
  OBVIOUS
<1>1. PICK q \in Int, r \in 0..n - 1 : q = x \div n /\ r = x % n
  BY <1>0, DivMod
<1>2. x = n * q + r
  BY <1>0, <1>1, DivMod, Zenon
<1>3. PICK w \in Int : w = n * q
  BY SMT
<1>4. q >= 1 => w >= n
  <2> SUFFICES ASSUME q >= 1 PROVE w >= n
    OBVIOUS
  <2>1. n * q >= n
    BY Z3
  <2> QED
    BY <1>3, <2>1
<1>5. q <= -1 => w <= -n
  <2> SUFFICES ASSUME q <= -1 PROVE w <= -n
    OBVIOUS
  <2>1. n * q <= -n
    BY Z3
  <2> QED
    BY <1>3, <2>1
<1>6. x = w + r
  BY <1>2, <1>3, SMT
<1>7. q = 0
  BY <1>4, <1>5, <1>6, SMT
<1>8. n * 0 = 0
  OBVIOUS
<1>9. w = 0
  BY <1>3, <1>7, <1>8, Zenon
<1> QED
  BY <1>1, <1>6, <1>9, SMT

\* A cast to a C type gives a value of that type, and keeps what fits.
LEMMA CastFits ==
  ASSUME NEW type \in {"uint32", "uint16", "int8"}, NEW value \in Int
  PROVE  /\ type \in {"uint32", "uint16"} => Cast(type, value) \in 0..Span[type] - 1
         /\ type = "int8" => 2 * Cast(type, value) \in -Span[type]..Span[type] - 1
         /\ Fitting(type, value) => Cast(type, value) = value
<1>1. PICK n \in Nat \ {0} : n = Span[type]
  BY SpanAssumption
<1>2. CASE type \in {"uint32", "uint16"}
  <2>1. /\ Cast(type, value) = value % n
        /\ Fitting(type, value) <=> value \in 0..n - 1
    BY <1>1, <1>2, Zenon DEF Cast, Fitting
  <2>2. value % n \in 0..n - 1
    BY DivMod
  <2>3. value \in 0..n - 1 => value % n = value
    BY SmallRemainder
  <2> QED
    BY <1>1, <1>2, <2>1, <2>2, <2>3, Zenon
<1>3. CASE type = "int8"
  <2>1. PICK h \in Int, e \in 0..1 : h = n \div 2 /\ n = 2 * h + e
    <3>1. n \in Int /\ 2 \in Nat \ {0}
      OBVIOUS
    <3>2. n \div 2 \in Int /\ n % 2 \in 0..1 /\ n = 2 * (n \div 2) + (n % 2)
      BY <3>1, DivMod
    <3> QED
      BY <3>2, Zenon
  <2>2. PICK r \in 0..n - 1 : r = (value + h) % n
    BY DivMod
  <2>3. Cast(type, value) = r - h
    BY <1>1, <1>3, <2>1, <2>2, Zenon DEF Cast
  <2>4. Fitting(type, value) <=> 2 * value \in -n..n - 1
    BY <1>1, <1>3, Zenon DEF Fitting
  <2>5. 2 * (r - h) \in -n..n - 1
    BY <2>1, SMT
  <2>6. ASSUME 2 * value \in -n..n - 1 PROVE r - h = value
    <3>1. value + h \in 0..n - 1
      BY <2>1, <2>6, SMT
    <3>2. r = value + h
      BY <2>2, <3>1, SmallRemainder
    <3> QED
      BY <2>1, <3>2, SMT
  <2> QED
    BY <1>1, <1>3, <2>3, <2>4, <2>5, <2>6, Zenon
<1> QED
  BY <1>2, <1>3

\* The kind and the default of a field agree with its type.
SoundField(field) ==
  /\ field.type \in {"uint32", "uint16", "int8"} => field.kind = "int"
  /\ field.type = "int8" => field.default = 0
  /\ field.type = "bool" => field.kind = "bool" /\ field.default \in BOOLEAN
  /\ field.type = "transport" => field.default \in {"HDLC", "TCP_IP", "UDP_IP"}

Sound(fields) == \A name \in DOMAIN fields : SoundField(fields[name])

\* The fields of the tables.
LEMMA FieldsSound ==
  /\ SoundField(Text) /\ SoundField(Flag) /\ SoundField(Field("int", "int8", 0))
  /\ \A n : SoundField(Field("int", "uint32", n)) /\ SoundField(Field("int", "uint16", n))
  /\ SoundField(Field("string", "transport", "HDLC"))
BY DEF SoundField, Field, Text, Flag

\* The tables of the parsers (lib/Configuration.h:47-110).
LEMMA TablesSound ==
  Sound(CommFields) /\ Sound(ObjectFields) /\ Sound(SessionFields) /\ Sound(MeterFields)
<1>1. Sound(CommFields)
  <2>1. DOMAIN CommFields =
             {"port", "baudrate"}
    BY DEF CommFields
  <2>2. /\ CommFields["port"] = Text
        /\ CommFields["baudrate"] = Field("int", "uint32", 9600)
    BY DEF CommFields
  <2>3. SoundField(Text) /\ SoundField(Field("int", "uint32", 9600))
    BY FieldsSound
  <2>4. SoundField(CommFields["port"]) /\ SoundField(CommFields["baudrate"])
    BY <2>2, <2>3
  <2> QED
    BY <2>1, <2>4, Zenon DEF Sound
<1>2. Sound(ObjectFields)
  <2>1. DOMAIN ObjectFields =
             {"name", "logical_name", "class_id", "attribute_id"}
    BY DEF ObjectFields
  <2>2. /\ ObjectFields["name"] = Text
        /\ ObjectFields["logical_name"] = Text
        /\ ObjectFields["class_id"] = Field("int", "uint16", 0)
        /\ ObjectFields["attribute_id"] = Field("int", "int8", 0)
    BY DEF ObjectFields
  <2> QED
    BY <2>1, <2>2, FieldsSound, Zenon DEF Sound
<1>3. Sound(SessionFields)
  <2>1. DOMAIN SessionFields =
             {"retries", "phone", "enable",
              "init", "dial", "connect", "request"}
    BY DEF SessionFields
  <2>2. /\ SessionFields["retries"] = Field("int", "uint32", 0)
        /\ SessionFields["phone"] = Text
        /\ SessionFields["enable"] = Flag
        /\ SessionFields["init"] = Text
        /\ SessionFields["dial"] = Field("int", "uint32", 70)
        /\ SessionFields["connect"] = Field("int", "uint32", 3)
        /\ SessionFields["request"] = Field("int", "uint32", 5)
    BY DEF SessionFields
  <2> QED
    BY <2>1, <2>2, FieldsSound, Zenon DEF Sound
<1>4. Sound(MeterFields)
  <2>1. DOMAIN MeterFields =
             {"id", "transport", "auth_password", "auth_hls_secret", "auth_level",
              "client", "logical_device", "phy_addr", "address_size", "test_addr"}
    BY DEF MeterFields
  <2>2. /\ MeterFields["id"] = Text
        /\ MeterFields["transport"] = Field("string", "transport", "HDLC")
        /\ MeterFields["auth_password"] = Text
        /\ MeterFields["auth_hls_secret"] = Text
        /\ MeterFields["auth_level"] = Text
        /\ MeterFields["client"] = Field("int", "uint16", 1)
        /\ MeterFields["logical_device"] = Field("int", "uint16", 1)
        /\ MeterFields["phy_addr"] = Field("int", "uint32", 0)
        /\ MeterFields["address_size"] = Field("int", "uint32", 0)
        /\ MeterFields["test_addr"] = Flag
    BY DEF MeterFields
  <2> QED
    BY <2>1, <2>2, FieldsSound, Zenon DEF Sound
<1> QED
  BY <1>1, <1>2, <1>3, <1>4

\* Whatever an object gives, what is parsed of it has the types of the members.
LEMMA ParsedHolds ==
  ASSUME NEW fields, Sound(fields), NEW object, Typed(object)
  PROVE  Holds(fields, Parsed(fields, object))
<1> SUFFICES ASSUME NEW name \in DOMAIN fields
             PROVE  LET type == fields[name].type
                        value == Member(fields[name], name, object)
                    IN  /\ type \in {"uint32", "uint16"} =>
                             value = fields[name].default \/ value \in 0..Span[type] - 1
                        /\ type = "int8" => 2 * value \in -Span["int8"]..Span["int8"] - 1
                        /\ type = "transport" => value \in {"HDLC", "TCP_IP", "UDP_IP"}
                        /\ type = "bool" => value \in BOOLEAN
  BY Zenon DEF Holds, Parsed
<1> DEFINE type == fields[name].type
           given == Given(fields[name], name, object)
<1>1. CASE ~given
  <2>1. Member(fields[name], name, object) = fields[name].default
    BY <1>1 DEF Member
  <2>2. 2 * 0 \in -Span["int8"]..Span["int8"] - 1
    BY SpanAssumption
  <2> QED
    BY <2>1, <2>2 DEF Sound, SoundField
<1>2. CASE given
  <2>1. /\ Member(fields[name], name, object) = Cast(type, object[name].value)
        /\ name \in DOMAIN object /\ object[name].kind = fields[name].kind
    BY <1>2 DEF Member, Given
  <2>2. CASE type \in {"uint32", "uint16", "int8"}
    <3>1. object[name].value \in Int
      BY <2>1, <2>2 DEF Sound, SoundField, Typed
    <3> QED
      BY <2>1, <2>2, <3>1, CastFits
  <2>3. CASE type = "transport"
    <3>1. Cast(type, object[name].value) = TransportOf(object[name].value)
      BY <2>3 DEF Cast
    <3>2. TransportOf(object[name].value) \in {"HDLC", "TCP_IP", "UDP_IP"}
      BY Zenon DEF TransportOf
    <3> QED
      BY <2>1, <2>3, <3>1, <3>2
  <2>4. CASE type = "bool"
    <3>1. Cast(type, object[name].value) = object[name].value
      BY <2>4 DEF Cast
    <3>2. object[name].value \in BOOLEAN
      BY <2>1, <2>4 DEF Sound, SoundField, Typed
    <3> QED
      BY <2>1, <2>4, <3>1, <3>2
  <2> QED
    BY <2>2, <2>3, <2>4
<1> QED
  BY <1>1, <1>2

\* A member is what its object gives, or its default.
LEMMA ParsedAsWritten ==
  ASSUME NEW fields, Sound(fields), NEW object, Typed(object)
  PROVE  AsWritten(fields, object, Parsed(fields, object))
<1> SUFFICES ASSUME NEW name \in DOMAIN fields
             PROVE  IF ~Given(fields[name], name, object)
                      THEN Member(fields[name], name, object) = fields[name].default
                    ELSE IF fields[name].type = "transport" THEN TRUE
                    ELSE Fitting(fields[name].type, object[name].value)
                           => Member(fields[name], name, object) = object[name].value
  BY Zenon DEF AsWritten, Parsed
<1> DEFINE type == fields[name].type
<1>1. CASE ~Given(fields[name], name, object)
  BY <1>1, Zenon DEF Member
<1>2. CASE Given(fields[name], name, object)
  <2>1. Member(fields[name], name, object) = Cast(type, object[name].value)
    BY <1>2 DEF Member
  <2>2. CASE type \in {"uint32", "uint16", "int8"}
    <3>1. object[name].value \in Int
      BY <1>2, <2>2 DEF Sound, SoundField, Typed, Given
    <3> QED
      BY <1>2, <2>1, <2>2, <3>1, CastFits
  <2>3. CASE type \notin {"uint32", "uint16", "int8", "transport"}
    <3>1. Cast(type, object[name].value) = object[name].value
      BY <2>3 DEF Cast
    <3> QED
      BY <1>2, <2>1, <3>1
  <2> QED
    BY <1>2, <2>2, <2>3, Zenon
<1> QED
  BY <1>1, <1>2

\* The same of an array: element by element, and of the objects only.
LEMMA ParsedArrayRight ==
  ASSUME NEW fields, Sound(fields), NEW array, EachTyped(array)
  PROVE  /\ \A i \in DOMAIN ParsedArray(fields, array) :
              Holds(fields, ParsedArray(fields, array)[i])
         /\ AllAsWritten(fields, array, ParsedArray(fields, array))
<1>1. /\ DOMAIN ParsedArray(fields, array) = DOMAIN Objects(array)
      /\ \A i \in DOMAIN Objects(array) :
           ParsedArray(fields, array)[i] = Parsed(fields, Objects(array)[i].given)
  BY Zenon DEF ParsedArray
<1>2. \A i \in DOMAIN Objects(array) : Typed(Objects(array)[i].given)
  BY DEF EachTyped
<1> QED
  BY <1>1, <1>2, ParsedHolds, ParsedAsWritten, Zenon DEF AllAsWritten

\* What has been parsed so far is what its file says.
ParsedSoFar ==
  /\ files \in Files
  /\ stage \in {"session", "parsed"} =>
       AllAsWritten(ObjectFields, files.objects.objects, list)
  /\ stage = "parsed" =>
       /\ AsWritten(SessionFields, files.session.session, settings)
       /\ AllAsWritten(MeterFields, files.session.meters, meters)

\* Before anything is parsed there are the defaults.
LEMMA Defaults ==
  /\ Holds(CommFields, Parsed(CommFields, NoObject))
  /\ Holds(SessionFields, Parsed(SessionFields, NoObject))
  /\ DOMAIN <<>> = {}
<1>1. DOMAIN <<>> = {}
  OBVIOUS
<1>2. Typed(NoObject)
  BY <1>1 DEF Typed, NoObject
<1> QED
  BY <1>1, <1>2, TablesSound, ParsedHolds

LEMMA ConfigurationInitially == ConfigurationInit => ConfigurationTypeOK /\ ParsedSoFar
BY Defaults DEF ConfigurationInit, ConfigurationTypeOK, ParsedSoFar

\* Each of the three parsers reads its own file.
LEMMA ConfigurationStep ==
  ASSUME ConfigurationTypeOK, ParsedSoFar, ParseFiles
  PROVE  ConfigurationTypeOK' /\ ParsedSoFar'
<1>1. CASE ParseComFile
  <2>1. /\ stage = "comm" /\ stage' \in {"objects", "failed", "thrown"}
        /\ UNCHANGED <<files, list, meters, settings>>
    BY <1>1, Zenon DEF ParseComFile, Parse
  <2>2. \/ params' = params
        \/ Reads(files.comm) /\ params' = Parsed(CommFields, files.comm.serial)
    BY <1>1, Zenon DEF ParseComFile
  <2>3. Holds(CommFields, params')
    <3>1. Reads(files.comm) => Typed(files.comm.serial)
      BY FilesAssumption DEF ParsedSoFar
    <3>2. CASE params' = params
      BY <3>2, Zenon DEF ConfigurationTypeOK
    <3> QED
      BY <2>2, <3>1, <3>2, TablesSound, ParsedHolds, Zenon
  <2> QED
    BY <2>1, <2>3 DEF ConfigurationTypeOK, ParsedSoFar
<1>2. CASE ParseObjectsFile
  <2>1. /\ stage = "objects" /\ UNCHANGED <<files, params, meters, settings>>
        /\ stage' \in {"session", "failed", "thrown"}
        /\ stage' = "session" => Reads(files.objects)
        /\ list' = IF Reads(files.objects)
                     THEN ParsedArray(ObjectFields, files.objects.objects) ELSE list
    BY <1>2, Zenon DEF ParseObjectsFile, Parse, Reads
  <2>2. CASE Reads(files.objects)
    <3>1. EachTyped(files.objects.objects)
      BY <2>2, FilesAssumption DEF ParsedSoFar
    <3>2. /\ \A i \in DOMAIN list' : Holds(ObjectFields, list'[i])
          /\ AllAsWritten(ObjectFields, files.objects.objects, list')
      BY <2>1, <2>2, <3>1, TablesSound, ParsedArrayRight, Zenon
    <3> QED
      BY <2>1, <2>2, <3>2 DEF ConfigurationTypeOK, ParsedSoFar
  <2>3. CASE ~Reads(files.objects)
    BY <2>1, <2>3 DEF ConfigurationTypeOK, ParsedSoFar
  <2> QED
    BY <2>2, <2>3
<1>3. CASE ParseSessionFile
  <2>1. /\ stage = "session" /\ UNCHANGED <<files, params, list>>
        /\ stage' \in {"parsed", "failed", "thrown"}
        /\ stage' = "parsed" => Reads(files.session)
    BY <1>3, Zenon DEF ParseSessionFile, Parse, Reads
  <2>2. CASE Reads(files.session)
    <3>1. /\ settings' = Parsed(SessionFields, files.session.session)
          /\ meters' = ParsedArray(MeterFields, files.session.meters)
      BY <1>3, <2>2, Zenon DEF ParseSessionFile
    <3>2. Typed(files.session.session) /\ EachTyped(files.session.meters)
      BY <2>2, FilesAssumption DEF ParsedSoFar
    <3>3. Holds(SessionFields, settings') /\ AsWritten(SessionFields, files.session.session, settings')
      BY <3>1, <3>2, TablesSound, ParsedHolds, ParsedAsWritten, Zenon
    <3>4. /\ \A i \in DOMAIN meters' : Holds(MeterFields, meters'[i])
          /\ AllAsWritten(MeterFields, files.session.meters, meters')
      BY <3>1, <3>2, TablesSound, ParsedArrayRight, Zenon
    <3> QED
      BY <2>1, <2>2, <3>3, <3>4 DEF ConfigurationTypeOK, ParsedSoFar
  <2>3. CASE ~Reads(files.session)
    <3>1. UNCHANGED <<settings, meters>>
      BY <1>3, <2>3, Zenon DEF ParseSessionFile
    <3> QED
      BY <2>1, <2>3, <3>1 DEF ConfigurationTypeOK, ParsedSoFar
  <2> QED
    BY <2>2, <2>3
<1> QED
  BY <1>1, <1>2, <1>3 DEF ParseFiles

\* LeaveFiles leaves the defaults.
LEMMA FilesLeft ==
  ASSUME ParsedSoFar, LeaveFiles PROVE ConfigurationTypeOK' /\ ParsedSoFar'
<1>1. files' \in Files
  BY DEF ParsedSoFar, LeaveFiles
<1>2. /\ stage' = "over" /\ params' = Parsed(CommFields, NoObject)
      /\ settings' = Parsed(SessionFields, NoObject) /\ list' = <<>> /\ meters' = <<>>
  BY Zenon DEF LeaveFiles
<1> QED
  BY <1>1, <1>2, Defaults DEF ConfigurationTypeOK, ParsedSoFar

\* What has been parsed is as it should be at every stage.
LEMMA ClientParsed == ClientSpec => [](ConfigurationTypeOK /\ ParsedSoFar)
<1>1. ClientInit => ConfigurationTypeOK /\ ParsedSoFar
  BY ConfigurationInitially DEF ClientInit
<1>2. ConfigurationTypeOK /\ ParsedSoFar /\ [ClientNext]_clientVars
        => ConfigurationTypeOK' /\ ParsedSoFar'
  <2> SUFFICES ASSUME ConfigurationTypeOK, ParsedSoFar, [ClientNext]_clientVars
               PROVE  ConfigurationTypeOK' /\ ParsedSoFar'
    OBVIOUS
  <2>1. CASE UNCHANGED configurationVars
    BY <2>1 DEF configurationVars, ConfigurationTypeOK, ParsedSoFar
  <2>2. CASE InitializeRuns
    BY <2>2, ConfigurationStep DEF InitializeRuns
  <2>3. CASE InitializeReturns
    BY <2>3, FilesLeft DEF InitializeReturns
  <2>4. CASE CallSendModem \/ SendModemRuns \/ ReaderRuns \/ ModemReturns
    BY <2>1, <2>4, Zenon DEF CallSendModem, SendModemRuns, ReaderRuns, ModemReturns
  <2>5. CASE ClientStartMeter \/ NoMeter \/ ConnectHdlc
    BY <2>1, <2>5, Zenon DEF ClientStartMeter, NoMeter, ConnectHdlc
  <2>6. CASE ConnectAarqRuns \/ ConnectAarqReturns
    BY <2>1, <2>6, Zenon DEF ConnectAarqRuns, ConnectAarqReturns
  <2>7. CASE AccessObjectReturns \/ BeginDump \/ PrintTag \/ EndDump
    BY <2>1, <2>7, Zenon DEF AccessObjectReturns, BeginDump, PrintTag, EndDump
  <2>8. CASE Otherwise \/ ClientReaderExits
    BY <2>1, <2>8 DEF Otherwise, ClientReaderExits
  <2>9. CASE UNCHANGED clientVars
    BY <2>1, <2>9, Zenon DEF clientVars
  <2> QED
    BY <2>2, <2>3, <2>4, <2>5, <2>6, <2>7, <2>8, <2>9 DEF ClientNext, ClientMain
<1> QED
  BY <1>1, <1>2, PTL DEF ClientSpec

\* Whatever the three files hold, every member of the configuration has a value of its
\* C type (lib/Configuration.cpp:70-342).
THEOREM ClientConfigurationTypes == ClientSpec => []ConfigurationTypeOK
<1> QED
  BY ClientParsed, PTL

\* When all three are parsed, each member of each element is what its own entry gives,
\* if it gives it with the right kind and as a number that fits, and the default of
\* the class otherwise (lib/Configuration.cpp:70-342, .h).
THEOREM ClientConfigures == ClientSpec => []ConfiguredAsWritten
<1>1. ParsedSoFar => ConfiguredAsWritten
  BY DEF ParsedSoFar, ConfiguredAsWritten
<1> QED
  BY <1>1, ClientParsed, PTL

-----------------------------------------------------------------------------
(* The modem                                                               *)

\* Between two calls of SendModem nothing is waited for; what is left in the mailbox
\* is for ConnectHdlc.
LEMMA ModemLeft == ModemInv /\ (LeaveModem \/ TakeMailbox) => ModemInv'
<1> SUFFICES ASSUME ModemInv, LeaveModem \/ TakeMailbox PROVE ModemInv'
  OBVIOUS
<1> USE DEF modemMailbox, modemCall, modemHistory
<1>1. mpc = "idle" /\ mpc' = "idle" /\ call = "none" /\ call' = "none"
  BY Zenon DEF LeaveModem, TakeMailbox, ModemInv, Waits
<1>2. <<>> \in Seq(STRING)
  BY EmptySeq
<1>3. ModemTypeOK'
  <2>0. ModemTypeOK
    BY DEF ModemInv
  <2>1. CASE LeaveModem
    <3>1. /\ command' = "init" /\ modemReply' = <<>> /\ retCode' = FALSE
          /\ replied' = <<>> /\ chunks' = 0 /\ undisturbed' = TRUE
          /\ UNCHANGED <<mData, mSem, ringing, call, data, mpc, underWay>>
      BY <2>1, Zenon DEF LeaveModem
    <3> QED
      BY <1>2, <2>0, <3>1 DEF ModemTypeOK, Commands, Inbox!CallStates
  <2>2. CASE TakeMailbox
    BY <1>2, <2>0, <2>2 DEF TakeMailbox, ModemTypeOK
  <2> QED
    BY <2>1, <2>2
<1>4. Waits' /\ InFirstWait' /\ InSecondWait' /\ AfterWaits'
  BY <1>1 DEF Waits, InFirstWait, InSecondWait, AfterWaits
<1> QED
  BY <1>3, <1>4 DEF ModemInv

\* PerformTask sends its commands one after the other.
LEMMA ModemSession ==
  [ClientNext]_clientVars => [ModemNext]_modemVars \/ LeaveModem \/ TakeMailbox
<1> SUFFICES ASSUME [ClientNext]_clientVars
             PROVE  [ModemNext]_modemVars \/ LeaveModem \/ TakeMailbox
  OBVIOUS
<1>1. CASE CallSendModem \/ SendModemRuns \/ ReaderRuns \/ ModemReturns
  BY <1>1 DEF CallSendModem, SendModemRuns, ReaderRuns, ModemReturns, ModemNext, Commands
<1>2. CASE ClientStartMeter \/ NoMeter \/ ConnectHdlc
  BY <1>2 DEF ClientStartMeter, NoMeter, ConnectHdlc
<1>3. CASE InitializeRuns \/ InitializeReturns
  BY <1>3 DEF InitializeRuns, InitializeReturns
<1>4. CASE ConnectAarqRuns \/ ConnectAarqReturns
  BY <1>4 DEF ConnectAarqRuns, ConnectAarqReturns
<1>5. CASE BeginDump \/ PrintTag \/ EndDump \/ AccessObjectReturns
  BY <1>5 DEF BeginDump, PrintTag, EndDump, AccessObjectReturns
<1>6. CASE Otherwise \/ ClientReaderExits
  <2>1. UNCHANGED modemVars
    BY <1>6 DEF Otherwise, ClientReaderExits
  <2> QED
    BY <2>1
<1>7. CASE UNCHANGED clientVars
  BY <1>7 DEF clientVars
<1> QED
  BY <1>1, <1>2, <1>3, <1>4, <1>5, <1>6, <1>7 DEF ClientNext, ClientMain

\* In the client, too, an undisturbed reply in at most two chunks is recognised, to
\* the dial as to the initialisation before it (lib/CosemClient.cpp:286-325, 1301-1353).
THEOREM ClientDials == ClientSpec => [](ModemTypeOK /\ TwoChunksSuffice)
<1>1. ClientInit => ModemInv
  BY ModemInitially DEF ClientInit
<1>2. ModemInv /\ [ClientNext]_clientVars => ModemInv'
  BY ModemSession, ModemKept, ModemLeft
<1>3. ModemInv => ModemTypeOK /\ TwoChunksSuffice
  BY ModemSafe DEF ModemInv
<1> QED
  BY <1>1, <1>2, <1>3, PTL DEF ClientSpec

\* SendModem runs for the state of the modem, each command once, and the dial only
\* after the initialisation was answered.
Dialling ==
  /\ mpc # "idle" =>
       /\ pc \in {"task", "killed"}
       /\ mModemState = IF command = "init" THEN "DISCONNECTED" ELSE "DIAL"
  /\ pc = "start" => mModemState = "DISCONNECTED" /\ accessed = <<>>
  /\ pc = "read" \/ accessed # <<>> => mModemState = "CONNECTED"
  /\ mpc = "idle" /\ pc \in {"start", "task"} /\ mModemState = "DISCONNECTED" =>
       mData = <<>> /\ underWay = <<>>
  /\ mpc = "idle" /\ pc = "task" /\ mModemState = "DIAL" => retCode /\ command = "init"
  /\ mModemState = "CONNECTED" /\ mConf.useModem => dialled

\* Neither of them finds anything.
LEMMA HeardLeft == Heard /\ (LeaveModem \/ TakeMailbox) => Heard'
<1>1. ASSUME LeaveModem PROVE Heard'
  <2>1. mpc' = "idle" /\ replied' = <<>> /\ retCode' = FALSE
    BY <1>1, Zenon DEF LeaveModem
  <2> QED
    BY <2>1 DEF Heard
<1>2. ASSUME Heard, TakeMailbox PROVE Heard'
  <2>1. /\ mpc' = "idle" /\ UNCHANGED <<replied, retCode, command>>
        /\ mData' = <<>> /\ underWay' = <<>>
    BY <1>2, Zenon DEF TakeMailbox, modemCall, modemHistory
  <2>2. Foreign(mData \o underWay, "dial")'
    <3>1. DOMAIN (<<>> \o <<>>) = {}
      OBVIOUS
    <3> QED
      BY <2>1, <3>1, Zenon DEF Foreign
  <2>3. Expects => Expects'
    BY <2>1, Zenon DEF Expects
  <2> QED
    BY <1>2, <2>1, <2>2, <2>3, Zenon DEF Heard
<1> QED
  BY <1>1, <1>2

\* The client writes its commands undisturbed.
LEMMA ClientHeardStep ==
  ASSUME RepliesApart, ModemTypeOK, Heard, Dialling, [ClientNext]_clientVars
  PROVE  Heard'
<1>1. CASE CallSendModem
  <2>1. pc = "task"
    BY <1>1 DEF CallSendModem
  <2>2. CASE mModemState = "DISCONNECTED" /\ WriteCommand("init")
    <3>1. Undisturbing("init")
      BY <2>1, <2>2 DEF Dialling, Undisturbing, WriteCommand
    <3> QED
      BY <2>2, <3>1, HeardKept DEF Commands
  <2>3. CASE mModemState = "DIAL" /\ WriteCommand("dial")
    <3>1. retCode /\ command = "init"
      BY <2>1, <2>3 DEF Dialling, WriteCommand
    <3>2. Undisturbing("dial")
      BY <3>1 DEF Heard, Undisturbing
    <3> QED
      BY <2>3, <3>2, HeardKept DEF Commands
  <2> QED
    BY <1>1, <2>2, <2>3 DEF CallSendModem
<1>2. CASE SendModemRuns \/ ReaderRuns \/ ModemReturns
  BY <1>2, HeardKept DEF SendModemRuns, ReaderRuns, ModemReturns
<1>3. CASE ClientStartMeter \/ NoMeter \/ ConnectHdlc
  BY <1>3, HeardLeft DEF ClientStartMeter, NoMeter, ConnectHdlc
<1>4. CASE UNCHANGED modemVars
  BY <1>4, HeardKept
<1>5. CASE InitializeRuns \/ InitializeReturns
  BY <1>4, <1>5 DEF InitializeRuns, InitializeReturns
<1>6. CASE ConnectAarqRuns \/ ConnectAarqReturns
  BY <1>4, <1>6 DEF ConnectAarqRuns, ConnectAarqReturns
<1>7. CASE BeginDump \/ PrintTag \/ EndDump \/ AccessObjectReturns
  BY <1>4, <1>7 DEF BeginDump, PrintTag, EndDump, AccessObjectReturns
<1>8. CASE Otherwise \/ ClientReaderExits
  BY <1>4, <1>8 DEF Otherwise, ClientReaderExits
<1>9. CASE UNCHANGED clientVars
  BY <1>4, <1>9 DEF clientVars
<1> QED
  BY <1>1, <1>2, <1>3, <1>5, <1>6, <1>7, <1>8, <1>9 DEF ClientNext, ClientMain

\* mModemState follows SendModem, and the session follows mModemState.
LEMMA DiallingStep ==
  ASSUME Heard, Dialling, [ClientNext]_clientVars
  PROVE  Dialling'
<1> USE DEF Dialling
<1>1. CASE InitializeReturns
  <2>1. /\ pc = "start" /\ UNCHANGED <<mpc, command, accessed, mData, underWay, dialled, mConf>>
        /\ pc' \in {"report", "task", "aborted"}
        /\ mModemState' \in {mModemState, ModemStateAtStart}
    BY <1>1 DEF InitializeReturns, ParseFails, ParseThrows, OpenFails, OpenSucceeds, modemVars,
                modemMailbox, modemCall, clientHistory, history
  <2>2. /\ mpc = "idle" /\ accessed = <<>>
        /\ mModemState' = "DISCONNECTED" \/ (mModemState' = "CONNECTED" /\ ~mConf.useModem)
    BY <2>1 DEF ModemStateAtStart
  <2> QED
    BY <2>1, <2>2
<1>2. CASE CallSendModem
  <2>1. /\ pc = "task" /\ UNCHANGED <<pc, mModemState, mConf, accessed, dialled>>
        /\ mpc' \in {"sleep", "first"}
        /\ mModemState = IF command' = "init" THEN "DISCONNECTED" ELSE "DIAL"
    BY <1>2 DEF CallSendModem, WriteCommand, vars, history, clientHistory
  <2> QED
    BY <2>1
<1>3. CASE SendModemRuns
  <2>1. /\ UNCHANGED <<pc, mModemState, mConf, accessed, dialled, command>>
        /\ mpc # "idle" /\ mpc' # "idle"
    BY <1>3 DEF SendModemRuns, SendModem, Wait, WaitExpires, FirstWaitReturns,
                SecondWaitReturns, SleepEnds, modemCall, vars, history, clientHistory
  <2> QED
    BY <2>1
<1>4. CASE ReaderRuns
  <2>1. /\ UNCHANGED <<pc, mModemState, mConf, accessed, dialled, command, mpc, retCode>>
        /\ pc = "task" /\ mModemState # "CONNECTED"
    BY <1>4 DEF ReaderRuns, ModemReader, ReaderGets, ReaderSignals, modemCall, vars, history,
                clientHistory
  <2>2. underWay = <<>> => UNCHANGED <<underWay, mData>>
    BY <1>4, Zenon DEF ReaderRuns, ModemReader, ReaderGets, ReaderSignals, Inbox!Ring
  <2> QED
    BY <2>1, <2>2
<1>5. CASE ModemReturns
  <2>1. /\ mpc = "done" /\ mpc' = "idle" /\ UNCHANGED <<command, retCode, mConf, accessed>>
        /\ pc = "task" /\ accessed = <<>>
        /\ dialled' = (dialled \/ (mModemState' = "CONNECTED" /\ Expects))
    BY <1>5 DEF ModemReturns, CallerTakesReply, ModemTest, ModemDial, ModemStep, history
  <2>2. CASE retCode
    <3>1. /\ Expects /\ mModemState' # mModemState
          /\ \/ mModemState = "DISCONNECTED" /\ mModemState' = "DIAL" /\ pc' = "task"
             \/ mModemState = "DIAL" /\ mModemState' = "CONNECTED" /\ pc' = "task"
      BY <1>5, <2>2 DEF ModemReturns, ModemAnswered, ModemTest, ModemDial, ModemStep, Task, Heard
    <3> QED
      BY <2>1, <2>2, <3>1
  <2>3. CASE ~retCode
    <3>1. mModemState' = mModemState /\ pc' = "report" /\ mModemState # "CONNECTED"
      BY <1>5, <2>3 DEF ModemReturns, ModemAnswered, ModemTest, ModemDial, ModemStep, Task
    <3> QED
      BY <2>1, <3>1
  <2> QED
    BY <2>2, <2>3
<1>6. CASE ClientStartMeter \/ NoMeter
  <2>1. /\ mModemState = "CONNECTED" /\ pc' \in {"read", "report"} /\ mpc' = "idle"
        /\ UNCHANGED <<mModemState, mConf, accessed, dialled>>
    BY <1>6 DEF ClientStartMeter, NoMeter, StartMeter, SkipMeter, NoMoreMeter, LeaveModem,
                Task, history, clientHistory
  <2> QED
    BY <2>1
<1>7. CASE ConnectHdlc \/ ConnectAarqReturns \/ AccessObjectReturns
  <2>1. /\ pc = "read" /\ pc' \in {"read", "report"}
        /\ UNCHANGED <<mModemState, mConf, dialled, mpc>>
    BY <1>7 DEF ConnectHdlc, TakeMailbox, ConnectAarqReturns, AccessObjectReturns, ConnectHdlcSucceeds,
                ConnectHdlcFails, ConnectAarqSucceeds, ConnectAarqFails, AccessObjectSucceeds,
                AccessObjectFails, LeaveRead, Task, clientHistory, modemVars, modemCall
  <2> QED
    BY <2>1
<1>8. CASE Otherwise
  <2>1. /\ pc \notin {"task", "killed"} /\ pc' \in {"report", "stop", "exited", "aborted"}
        /\ UNCHANGED <<mModemState, mConf, accessed, dialled, mpc>>
    BY <1>8 DEF Otherwise, PrintUsage, MissingCommFile, NoMoreObject, PrintResult, Exit,
                LeaveRead, Task, history, clientHistory, modemVars, modemCall
  <2> QED
    BY <2>1
<1>9. CASE ClientReaderExits
  <2>1. /\ pc' = "killed" /\ UNCHANGED <<mModemState, mConf, accessed, dialled, mpc, command>>
    BY <1>9 DEF ClientReaderExits, ReaderExits, history, clientHistory, modemVars, modemCall
  <2>2. pc # "killed"
    BY <1>9 DEF ClientReaderExits, ReaderExits, Ended
  <2> QED
    BY <2>1, <2>2
<1>10. CASE UNCHANGED <<vars, modemVars, clientHistory>>
  <2>1. UNCHANGED <<pc, mModemState, mConf, accessed, dialled, mpc, command, retCode, mData,
                    underWay>>
    BY <1>10 DEF vars, history, modemVars, modemMailbox, modemCall, clientHistory
  <2> QED
    BY <2>1
<1>11. CASE InitializeRuns \/ ConnectAarqRuns
  BY <1>10, <1>11 DEF InitializeRuns, ConnectAarqRuns
<1>12. CASE BeginDump \/ PrintTag \/ EndDump
  BY <1>10, <1>12 DEF BeginDump, PrintTag, EndDump
<1>13. CASE UNCHANGED clientVars
  BY <1>10, <1>13 DEF clientVars
<1> QED
  BY <1>1, <1>2, <1>3, <1>4, <1>5, <1>6, <1>7, <1>8, <1>9, <1>11, <1>12, <1>13
  DEF ClientNext, ClientMain

\* Both hold all along.
LEMMA ClientHeard == ASSUME RepliesApart PROVE ClientSpec => [](Heard /\ Dialling)
<1>1. ClientInit => ModemInv /\ Heard /\ Dialling
  <2> SUFFICES ASSUME ClientInit PROVE ModemInv /\ Heard /\ Dialling
    OBVIOUS
  <2>1. /\ mpc = "idle" /\ mData = <<>> /\ underWay = <<>> /\ replied = <<>>
        /\ retCode = FALSE
    BY Zenon DEF ClientInit, ModemInit, Inbox!Init
  <2>2. pc = "start" /\ mModemState = "DISCONNECTED" /\ accessed = <<>>
    BY DEF ClientInit, Init
  <2>3. ModemInv
    BY ModemInitially DEF ClientInit
  <2> QED
    BY <2>1, <2>2, <2>3 DEF Heard, Dialling
<1>2. ModemInv /\ Heard /\ Dialling /\ [ClientNext]_clientVars
        => ModemInv' /\ Heard' /\ Dialling'
  BY ModemSession, ModemKept, ModemLeft, ClientHeardStep, DiallingStep DEF ModemInv
<1> QED
  BY <1>1, <1>2, PTL DEF ClientSpec

\* The modem is heard rightly: with replies that can be told apart, a command counts as
\* answered only if the modem answered it with the expected text, although the first
\* part of a reply is searched twice, a reply to the first command may come during
\* the second, and timeouts take bytes away (lib/CosemClient.cpp:286-325).
THEOREM ClientHears == ASSUME RepliesApart PROVE ClientSpec => []AnswerWasSent
<1>1. Heard => AnswerWasSent
  BY DEF Heard, AnswerWasSent
<1> QED
  BY <1>1, ClientHeard, PTL

\* ... and over a modem no object is read unless it said CONNECT to the dial: the
\* state of the modem only goes on with an answer (lib/CosemClient.cpp:1301-1353).
THEOREM ClientReadsWhenDialled == ASSUME RepliesApart PROVE ClientSpec => []ReadOnlyWhenDialled
<1>1. Dialling => ReadOnlyWhenDialled
  BY DEF Dialling, ReadOnlyWhenDialled
<1> QED
  BY <1>1, ClientHeard, PTL

-----------------------------------------------------------------------------
(* The association                                                         *)

\* ConnectAarq runs while the association is pending; afterwards the meter is
\* associated if the client thinks so, and objects are only read then.
Linked ==
  /\ apc # "off" => pc \in {"read", "killed"} /\ mCosemState = "ASSOCIATION_PENDING"
  /\ mCosemState = "ASSOCIATED" => genuine
  /\ accessed # <<>> => mCosemState = "ASSOCIATED"

\* Between two meters the locals of Pass3And4 do not live on.
LEMMA AssociationReset ==
  ASSUME AssociationInv,
         \/ LeaveConnectAarq
         \/ /\ apc = "off" /\ client' \in Client /\ server' \in Server
            /\ key' = client'.secret
            /\ UNCHANGED <<apc, auth_level, stoc, result, tries, app_array, response,
                           serverState, disturbed>>
  PROVE  AssociationInv'
<1>1. AnyClient \in Client /\ AnyServer \in Server
  BY DEF AssociationInv, AssociationTypeOK, AnyClient, AnyServer
<1>2. client' \in Client /\ server' \in Server /\ key' \in Keys
  BY <1>1 DEF LeaveConnectAarq, Client
<1>3. Nothing \in [alg : Levels \cup {"none"}, challenge : {"ctos", "none"},
                   key : Keys \cup {"none"}]
  BY DEF Nothing, Digest
<1>4. /\ apc' = "off" /\ app_array' = Nothing /\ result' = "running"
      /\ tries' \in 0..ActionTries /\ tries' < ActionTries
  BY TriesAssumption DEF LeaveConnectAarq, AssociationInv, AssociationTypeOK, Concluded
<1>5. AssociationTypeOK'
  BY <1>2, <1>3, <1>4, ZenonT(60) DEF LeaveConnectAarq, AssociationInv, AssociationTypeOK, Levels
<1> QED
  BY <1>4, <1>5 DEF AssociationInv, Answered, Concluded, OnItsWay

\* Every step of the client keeps the invariant of the association.
LEMMA ClientAssociationStep ==
  ASSUME AssociationInv, Linked, [ClientNext]_clientVars
  PROVE  AssociationInv'
<1>1. CASE ClientStartMeter
  <2>1. apc = "off"
    BY <1>1 DEF ClientStartMeter, StartMeter, Linked
  <2> QED
    BY <1>1, <2>1, AssociationReset DEF ClientStartMeter
<1>2. CASE ConnectAarqRuns
  BY <1>2, AssociationKept DEF ConnectAarqRuns
<1>3. CASE ConnectAarqReturns
  BY <1>3, AssociationReset DEF ConnectAarqReturns
<1>4. CASE UNCHANGED associationVars
  BY <1>4, AssociationKept
<1>5. CASE InitializeRuns \/ InitializeReturns
  BY <1>4, <1>5 DEF InitializeRuns, InitializeReturns
<1>6. CASE CallSendModem \/ SendModemRuns \/ ReaderRuns \/ ModemReturns
  BY <1>4, <1>6 DEF CallSendModem, SendModemRuns, ReaderRuns, ModemReturns
<1>7. CASE NoMeter \/ ConnectHdlc
  BY <1>4, <1>7 DEF NoMeter, ConnectHdlc
<1>8. CASE BeginDump \/ PrintTag \/ EndDump \/ AccessObjectReturns
  BY <1>4, <1>8 DEF BeginDump, PrintTag, EndDump, AccessObjectReturns
<1>9. CASE Otherwise \/ ClientReaderExits
  BY <1>4, <1>9 DEF Otherwise, ClientReaderExits
<1>10. CASE UNCHANGED clientVars
  BY <1>4, <1>10 DEF clientVars
<1> QED
  BY <1>1, <1>2, <1>3, <1>5, <1>6, <1>7, <1>8, <1>9, <1>10 DEF ClientNext, ClientMain

\* mCosemState follows ConnectAarq.
LEMMA LinkedStep ==
  ASSUME AssociationInv, Linked, [ClientNext]_clientVars
  PROVE  Linked'
<1> USE DEF Linked
<1>1. CASE InitializeReturns
  <2>1. /\ apc = "off" /\ UNCHANGED <<apc, mCosemState, genuine, accessed>>
    BY <1>1 DEF InitializeReturns, ParseFails, ParseThrows, OpenFails, OpenSucceeds, associationVars,
                clientHistory, history
  <2> QED
    BY <2>1
<1>2. CASE ModemReturns
  <2>1. /\ apc = "off" /\ UNCHANGED <<apc, mCosemState, genuine, accessed>>
    BY <1>2 DEF ModemReturns, ModemTest, ModemDial, ModemStep, associationVars, history
  <2> QED
    BY <2>1
<1>3. CASE ClientStartMeter \/ NoMeter
  <2>1. /\ apc = "off" /\ UNCHANGED <<apc, mCosemState, genuine, accessed>>
    BY <1>3 DEF ClientStartMeter, NoMeter, StartMeter, SkipMeter, NoMoreMeter,
                associationVars, clientHistory, history
  <2> QED
    BY <2>1
<1>4. CASE ConnectHdlc
  <2>1. /\ apc = "off" /\ accessed = <<>> /\ UNCHANGED <<apc, accessed>>
        /\ mCosemState' # "ASSOCIATED"
    BY <1>4 DEF ConnectHdlc, ConnectHdlcSucceeds, ConnectHdlcFails, associationVars, history
  <2> QED
    BY <2>1
<1>5. CASE ConnectAarqRuns
  <2>1. /\ pc = "read" /\ mCosemState = "ASSOCIATION_PENDING"
        /\ UNCHANGED <<pc, mCosemState, genuine, accessed>>
    BY <1>5 DEF ConnectAarqRuns, vars, clientHistory, history
  <2> QED
    BY <2>1
<1>6. CASE ConnectAarqReturns
  <2>1. result = "success" => serverState = "associated"
    BY AssociationSafe DEF BothAssociated
  <2>2. accessed = <<>> /\ accessed' = accessed /\ apc' = "off"
    BY <1>6 DEF ConnectAarqReturns, ConnectAarqSucceeds, ConnectAarqFails,
                LeaveConnectAarq, history
  <2>3. mCosemState' = "ASSOCIATED" => result = "success"
    BY <1>6 DEF ConnectAarqReturns, ConnectAarqFails
  <2>4. genuine' = (serverState = "associated")
    BY <1>6 DEF ConnectAarqReturns
  <2> QED
    BY <2>1, <2>2, <2>3, <2>4
<1>7. CASE AccessObjectReturns
  <2>1. /\ mCosemState = "ASSOCIATED" /\ UNCHANGED <<apc, mCosemState, genuine>>
    BY <1>7 DEF AccessObjectReturns, AccessObjectSucceeds, AccessObjectFails,
                associationVars, clientHistory
  <2> QED
    BY <2>1
<1>8. CASE Otherwise
  <2>1. /\ apc = "off" /\ UNCHANGED <<apc, mCosemState, genuine, accessed>>
    BY <1>8 DEF Otherwise, PrintUsage, MissingCommFile, NoMoreObject, PrintResult, Exit,
                associationVars, clientHistory, history
  <2> QED
    BY <2>1
<1>9. CASE ClientReaderExits
  <2>1. /\ pc' = "killed" /\ UNCHANGED <<apc, mCosemState, genuine, accessed>>
    BY <1>9 DEF ClientReaderExits, ReaderExits, associationVars, clientHistory, history
  <2> QED
    BY <2>1
<1>10. CASE UNCHANGED <<vars, associationVars, clientHistory>>
  BY <1>10 DEF vars, history, associationVars, clientHistory
<1>11. CASE InitializeRuns
  BY <1>10, <1>11 DEF InitializeRuns
<1>12. CASE CallSendModem \/ SendModemRuns \/ ReaderRuns
  BY <1>10, <1>12 DEF CallSendModem, SendModemRuns, ReaderRuns
<1>13. CASE BeginDump \/ PrintTag \/ EndDump
  BY <1>10, <1>13 DEF BeginDump, PrintTag, EndDump
<1>14. CASE UNCHANGED clientVars
  BY <1>10, <1>14 DEF clientVars
<1> QED
  BY <1>1, <1>2, <1>3, <1>4, <1>5, <1>6, <1>7, <1>8, <1>9, <1>11, <1>12, <1>13, <1>14
  DEF ClientNext, ClientMain

\* No object of any meter is read without an association that the meter, too,
\* takes for one; at a high level no association is made with a meter that does not
\* have the secret, and one is made with every meter its session file fits: for all
\* configurations, faults and retries (lib/CosemClient.cpp:373-540, 1126-1222).
THEOREM ClientAssociates ==
  ClientSpec =>
    [](BothAssociated /\ SameSecret /\ SuitedAssociates /\ ReadOnlyWhenAssociated)
<1>1. ClientInit => AssociationInv /\ Linked
  <2> SUFFICES ASSUME ClientInit PROVE AssociationInv /\ Linked
    OBVIOUS
  <2>1. AssociationInit /\ Init
    BY DEF ClientInit
  <2>2. Linked
    BY <2>1 DEF AssociationInit, Init, Linked
  <2> QED
    BY <2>1, <2>2, AssociationInitially
<1>2. AssociationInv /\ Linked /\ [ClientNext]_clientVars => AssociationInv' /\ Linked'
  BY ClientAssociationStep, LinkedStep
<1>3. AssociationInv /\ Linked =>
        BothAssociated /\ SameSecret /\ SuitedAssociates /\ ReadOnlyWhenAssociated
  BY AssociationSafe DEF Linked, ReadOnlyWhenAssociated
<1> QED
  BY <1>1, <1>2, <1>3, PTL DEF ClientSpec
================================================================================
