--------------------------- MODULE ConfigurationFiles ---------------------------
(***************************************************************************)
(* The three files of a session (lib/Configuration.cpp, .h), in the order   *)
(* in which Initialize parses them (lib/CosemClient.cpp:53-58).  jsoncpp is *)
(* not part of src/: an object is the fields it gives, each with the kind   *)
(* isInt, isString or isBool finds; a section that is missing or no object  *)
(* gives none.  The files are "very tolerant": what is missing or of        *)
(* another kind leaves the default of the class.  Only the root has to be   *)
(* an object, or null, which gives nothing: Json::Value::get of an array, a *)
(* number or a text throws, and nobody catches it.                          *)
(***************************************************************************)
EXTENDS Integers, Sequences

CONSTANTS
  Files,   \* what the three files may hold; root: "none", "object" or "other"
  Span     \* how many values the C types have: uint32, uint16, int8

ASSUME SpanAssumption == \A type \in {"uint32", "uint16", "int8"} : Span[type] \in Nat \ {0}

VARIABLES
  files,
  stage,     \* "comm", "objects", "session", "parsed", "failed", "thrown" or "over"
  params, list, meters, settings   \* what has been parsed

configurationVars == <<files, stage, params, list, meters, settings>>

Field(kind, type, default) == [kind |-> kind, type |-> type, default |-> default]
Text == Field("string", "string", "")
Flag == Field("bool", "bool", FALSE)

CommFields ==
  [port |-> Text, baudrate |-> Field("int", "uint32", 9600)]

ObjectFields ==
  [name |-> Text, logical_name |-> Text,
   class_id |-> Field("int", "uint16", 0), attribute_id |-> Field("int", "int8", 0)]

SessionFields ==
  [retries |-> Field("int", "uint32", 0),
   phone |-> Text, enable |-> Flag, init |-> Text,
   dial |-> Field("int", "uint32", 70), connect |-> Field("int", "uint32", 3),
   request |-> Field("int", "uint32", 5)]

\* The defaults of the address are those of hdlc_init.
MeterFields ==
  [id |-> Text, transport |-> Field("string", "transport", "HDLC"),
   auth_password |-> Text, auth_hls_secret |-> Text, auth_level |-> Text,
   client |-> Field("int", "uint16", 1), logical_device |-> Field("int", "uint16", 1),
   phy_addr |-> Field("int", "uint32", 0), address_size |-> Field("int", "uint32", 0),
   test_addr |-> Flag]

Given(field, name, object) ==
  name \in DOMAIN object /\ object[name].kind = field.kind

TransportOf(name) ==
  CASE name = "hdlc" -> "HDLC" [] name = "tcp" -> "TCP_IP" [] OTHER -> "UDP_IP"

\* Variant: the value as it is in the file.
CastNothing(type, value) == IF type = "transport" THEN TransportOf(value) ELSE value

\* static_cast to the type of the member
Cast(type, value) ==
  CASE type = "transport" -> TransportOf(value)
    [] type \in {"uint32", "uint16"} -> value % Span[type]
    [] type = "int8" -> ((value + Span[type] \div 2) % Span[type]) - Span[type] \div 2
    [] OTHER -> value

Member(field, name, object) ==
  IF Given(field, name, object) THEN Cast(field.type, object[name].value)
                                ELSE field.default

Parsed(fields, object) ==
  [name \in DOMAIN fields |-> Member(fields[name], name, object)]

Objects(array) == SelectSeq(array, LAMBDA entry : entry.isObject)

\* Variant: one variable for all the elements.
ParsedArrayKeeping(fields, array) ==
  [i \in DOMAIN Objects(array) |->
     [name \in DOMAIN fields |->
        IF i > 1 /\ ~Given(fields[name], name, Objects(array)[i].given)
          THEN Member(fields[name], name, Objects(array)[i - 1].given)
          ELSE Member(fields[name], name, Objects(array)[i].given)]]

\* A new variable for every element; elements that are no objects are left out.
ParsedArray(fields, array) ==
  [i \in DOMAIN Objects(array) |-> Parsed(fields, Objects(array)[i].given)]

NoObject == <<>>

Typed(object) ==
  \A name \in DOMAIN object :
    /\ object[name].kind = "int" => object[name].value \in Int
    /\ object[name].kind = "bool" => object[name].value \in BOOLEAN

EachTyped(array) ==
  \A i \in DOMAIN Objects(array) : Typed(Objects(array)[i].given)

\* The file is there, is JSON, and its root is an object.
Reads(file) == file.root = "object"

\* What isInt and isBool find are numbers and truth values.
ASSUME FilesAssumption ==
  \A f \in Files :
    /\ Reads(f.comm) => Typed(f.comm.serial)
    /\ Reads(f.objects) => EachTyped(f.objects.objects)
    /\ Reads(f.session) => Typed(f.session.session) /\ EachTyped(f.session.meters)

ConfigurationInit ==
  /\ files \in Files /\ stage = "comm"
  /\ params = Parsed(CommFields, NoObject) /\ settings = Parsed(SessionFields, NoObject)
  /\ list = <<>> /\ meters = <<>>

\* The file cannot be opened or is no JSON: return false.  The root is something
\* else than an object: get throws.
Parse(here, file, next) ==
  /\ stage = here
  /\ stage' = CASE file.root = "none" -> "failed"
                [] file.root = "object" -> next
                [] OTHER -> "thrown"

\* The baud rate is looked for only where there is a port.
ParseComFile ==
  /\ Parse("comm", files.comm, "objects")
  /\ params' = IF Reads(files.comm) /\ Given(Text, "port", files.comm.serial)
                 THEN Parsed(CommFields, files.comm.serial) ELSE params
  /\ UNCHANGED <<files, list, meters, settings>>

ParseObjectsFile ==
  /\ Parse("objects", files.objects, "session")
  /\ list' = IF Reads(files.objects)
               THEN ParsedArray(ObjectFields, files.objects.objects) ELSE list
  /\ UNCHANGED <<files, params, meters, settings>>

ParseSessionFile ==
  /\ Parse("session", files.session, "parsed")
  /\ IF Reads(files.session)
       THEN /\ settings' = Parsed(SessionFields, files.session.session)
            /\ meters' = ParsedArray(MeterFields, files.session.meters)
       ELSE UNCHANGED <<settings, meters>>
  /\ UNCHANGED <<files, params, list>>

ParseFiles == ParseComFile \/ ParseObjectsFile \/ ParseSessionFile

-----------------------------------------------------------------------------
(* Properties                                                              *)

\* A member whose C type is narrower than an int holds a value of that type.
Holds(fields, values) ==
  \A name \in DOMAIN fields :
    CASE fields[name].type \in {"uint32", "uint16"} ->
           values[name] = fields[name].default
             \/ values[name] \in 0..Span[fields[name].type] - 1
      [] fields[name].type = "int8" ->
           2 * values[name] \in -Span["int8"]..Span["int8"] - 1
      [] fields[name].type = "transport" -> values[name] \in {"HDLC", "TCP_IP", "UDP_IP"}
      [] fields[name].type = "bool" -> values[name] \in BOOLEAN
      [] OTHER -> TRUE

\* The type of every variable, whatever the files hold.
ConfigurationTypeOK ==
  /\ stage \in {"comm", "objects", "session", "parsed", "failed", "thrown", "over"}
  /\ Holds(CommFields, params) /\ Holds(SessionFields, settings)
  /\ \A i \in DOMAIN list : Holds(ObjectFields, list[i])
  /\ \A i \in DOMAIN meters : Holds(MeterFields, meters[i])

\* The numbers of a file that the member can hold.
Fitting(type, value) ==
  CASE type \in {"uint32", "uint16"} -> value \in 0..Span[type] - 1
    [] type = "int8" -> 2 * value \in -Span[type]..Span[type] - 1
    [] OTHER -> TRUE

AsWritten(fields, object, values) ==
  \A name \in DOMAIN fields :
    IF ~Given(fields[name], name, object) THEN values[name] = fields[name].default
    ELSE IF fields[name].type = "transport" THEN TRUE
    ELSE Fitting(fields[name].type, object[name].value)
           => values[name] = object[name].value

AllAsWritten(fields, array, values) ==
  /\ DOMAIN values = DOMAIN Objects(array)
  /\ \A i \in DOMAIN values : AsWritten(fields, Objects(array)[i].given, values[i])

\* What the meters and the objects of a session are is what their own entries
\* say: a field that is missing has its default, whatever the entries before
\* it gave, and a number that fits arrives as it is.
ConfiguredAsWritten ==
  stage = "parsed" =>
    /\ AsWritten(SessionFields, files.session.session, settings)
    /\ AllAsWritten(MeterFields, files.session.meters, meters)
    /\ AllAsWritten(ObjectFields, files.objects.objects, list)
================================================================================
