------------------------------ MODULE Association ------------------------------
(***************************************************************************)
(* CosemClient::ConnectAarq and Pass3And4 (lib/CosemClient.cpp:373-540,     *)
(* 574-654): the AARQ, the AARE, and for the high levels the digests of     *)
(* passes 3 and 4, the ACTION that carries them going through AccessObject. *)
(* A digest is the term [alg, challenge, key]; two of them are the same     *)
(* bytes only if they are the same term.  The meter and the Cosem library   *)
(* are not part of src/; what a meter does with a level, a password and a   *)
(* digest is what the client expects of it: the digest it answers with is   *)
(* one it computed itself, with its own key.                                *)
(***************************************************************************)
EXTENDS Integers

CONSTANTS
  Keys,         \* the secrets and passwords there are
  ActionTries,  \* Configuration::retries + 1
  MeterLevels,  \* bound: the levels meters ask for
  AareFaults,   \* what may be wrong with an AARE
  ActionFaults  \* what may be wrong with the response to pass 3

\* mAssoState.auth_level, from the lowest to the highest (csm_auth_level).
Levels == {"LOWEST", "LOW", "HIGH", "MD5", "SHA1", "GMAC", "SHA256"}
HighLevels == Levels \ {"LOWEST", "LOW"}

\* No server LLC, an APDU that does not decode, a meter that does not
\* ask for pass 3.
AareFaultKinds == {"nollc", "undecodable", "notrequired"}

\* Not written, not encoded, no LLC, not decoded: no answer to pass 3; and the
\* answers that AccessObject takes for a success: no data, a type of
\* response or a block it does not know.
ActionFaultKinds ==
  {"unwritten", "unencoded", "nollc", "undecodable", "nodata", "unsupported",
   "noblock"}

ASSUME TriesAssumption == ActionTries \in Nat \ {0}
ASSUME LevelAssumption == MeterLevels \subseteq Levels
ASSUME AssociationFaultAssumption ==
  AareFaults \subseteq AareFaultKinds /\ ActionFaults \subseteq ActionFaultKinds

VARIABLES
  apc,          \* where ConnectAarq is
  client,       \* meter.cosem: the name of the level, password and secret
  server,       \* the meter: its level and key, whether it verifies pass 3
  auth_level,   \* mAssoState.auth_level
  stoc,         \* mAssoState.handshake.stoc
  key,          \* the 16 bytes hex2bin puts behind the challenges
  result,       \* "running", "success" or "failure"
  tries,        \* AccessObject: failed exchanges
  app_array,    \* the digest received, or nothing
  response,     \* has_data of a response that access_result calls a success
  serverState,  \* the meter: "idle", "challenged" or "associated"
  disturbed     \* history: something other than the meter's answer came

associationVars == <<apc, client, server, auth_level, stoc, key, result, tries,
                     app_array, response, serverState, disturbed>>

-----------------------------------------------------------------------------
(* Levels and digests                                                      *)

\* The names that a session file may give, and one it may be expected to.
LevelOf ==
  [NO_SECURITY |-> "LOWEST", LOW_LEVEL_SECURITY |-> "LOW",
   HIGH_LEVEL_SECURITY |-> "HIGH", HIGH_LEVEL_MD55_SECURITY |-> "MD5",
   HIGH_LEVEL_SHA1_SECURITY |-> "SHA1", HIGH_LEVEL_GMAC_SECURITY |-> "GMAC",
   HIGH_LEVEL_SHA256_SECURITY |-> "SHA256"]
LevelNames == DOMAIN LevelOf \cup {"HIGH_LEVEL_MD5_SECURITY"}

\* GetAuthLevelFromString: any other name is the lowest level.
GetAuthLevelFromString(name) ==
  IF name \in DOMAIN LevelOf THEN LevelOf[name] ELSE "LOWEST"

\* What the levels stand for; HIGH is left to the manufacturer.
AlgorithmOf(level) == IF level = "HIGH" THEN "SHA256" ELSE level

Digest(alg, challenge, k) == [alg |-> alg, challenge |-> challenge, key |-> k]
DigestSize(alg) == CASE alg = "MD5" -> 16 [] alg = "SHA1" -> 20 [] OTHER -> 32

\* The levels for which Pass3And4 computes something.
Implemented == {"HIGH", "MD5", "SHA1"}

\* Variant: the SHA1 of the one before is overwritten as well.
AlgorithmUsedSha256 == "SHA256"

\* The else belongs to the test of SHA1: MD5 falls into it after its own digest.
AlgorithmUsed == IF auth_level = "SHA1" THEN "SHA1" ELSE "SHA256"

\* hex2bin reads 32 digits, of a shorter secret whatever follows it.
KeyBytes == IF client.secretWhole THEN {client.secret} ELSE Keys

Client == [name : LevelNames, password : Keys, secret : Keys, secretWhole : BOOLEAN]
Server == [level : MeterLevels, key : Keys, verifies : BOOLEAN]
Nothing == Digest("none", "none", "none")

\* The meter chooses its challenge, and nobody compares it with the client's.
Challenges == {"stoc", "ctos"}

AssociationInit ==
  /\ apc = "off" /\ client \in Client /\ server \in Server
  /\ auth_level = "LOWEST" /\ stoc = "none" /\ key = client.secret
  /\ result = "running" /\ tries = 0
  /\ app_array = Nothing /\ response = FALSE
  /\ serverState = "idle" /\ disturbed = FALSE

Return(value) == result' = value /\ apc' = "done"

-----------------------------------------------------------------------------
(* The meter                                                               *)

ServerAccepts ==
  /\ server.level = auth_level
  /\ auth_level = "LOW" => client.password = server.key

StateAfterAarq ==
  IF ~ServerAccepts THEN "idle"
  ELSE IF auth_level \in HighLevels THEN "challenged" ELSE "associated"

\* The meter's "yes" to pass 3.
ServerVerifies ==
  /\ serverState \in {"challenged", "associated"}
  /\ \/ ~server.verifies
     \/ Digest(AlgorithmUsed, stoc, key)
          = Digest(AlgorithmOf(server.level), stoc, server.key)

StateAfterPass3 == IF ServerVerifies THEN "associated" ELSE serverState

-----------------------------------------------------------------------------
(* ConnectAarq                                                             *)

BeginConnectAarq ==
  /\ apc = "off" /\ apc' = "aarq"
  /\ auth_level' = GetAuthLevelFromString(client.name)
  /\ UNCHANGED <<client, server, stoc, key, result, tries, app_array, response,
                 serverState, disturbed>>

\* The AARQ is not encoded, or HdlcProcess fails: one try, and the meter may
\* have accepted.
AarqFails ==
  /\ apc = "aarq" /\ Return("failure") /\ disturbed' = TRUE
  /\ serverState' \in {serverState, StateAfterAarq}
  /\ UNCHANGED <<client, server, auth_level, stoc, key, tries, app_array, response>>

AareIsBad ==
  /\ apc = "aarq" /\ Return("failure") /\ disturbed' = TRUE
  /\ \/ AareFaults \cap {"nollc", "undecodable"} # {}
     \/ "notrequired" \in AareFaults /\ ServerAccepts /\ auth_level \in HighLevels
  /\ serverState' = StateAfterAarq
  /\ UNCHANGED <<client, server, auth_level, stoc, key, tries, app_array, response>>

AareRefuses ==
  /\ apc = "aarq" /\ ~ServerAccepts /\ Return("failure")
  /\ serverState' = StateAfterAarq
  /\ UNCHANGED <<client, server, auth_level, stoc, key, tries, app_array, response,
                 disturbed>>

\* Variant: pass 3 is for the levels above HIGH.
NeedsPass3AboveHigh == auth_level \notin {"LOWEST", "LOW", "HIGH"}

\* mAssoState.auth_level > CSM_AUTH_LOW_LEVEL
NeedsPass3 == auth_level \notin {"LOWEST", "LOW"}

AareAccepts ==
  /\ apc = "aarq" /\ ServerAccepts
  /\ IF NeedsPass3
       THEN stoc' \in Challenges /\ apc' = "pass3" /\ UNCHANGED result
       ELSE Return("success") /\ UNCHANGED stoc
  /\ serverState' = StateAfterAarq
  /\ UNCHANGED <<client, server, auth_level, key, tries, app_array, response,
                 disturbed>>

-----------------------------------------------------------------------------
(* Pass3And4                                                               *)

\* "HLS5/GMAC not implemented!"
Pass3NotImplemented ==
  /\ apc = "pass3" /\ auth_level \notin Implemented /\ Return("failure")
  /\ UNCHANGED <<client, server, auth_level, stoc, key, tries, app_array, response,
                 serverState, disturbed>>

Pass3 ==
  /\ apc = "pass3" /\ auth_level \in Implemented
  /\ key' \in KeyBytes
  /\ apc' = "action"
  /\ UNCHANGED <<client, server, auth_level, stoc, result, tries, app_array,
                 response, serverState, disturbed>>

\* "Internal error, code 42": the digest is not written into the request.
Pass3NotWritten ==
  /\ apc = "pass3" /\ auth_level \in Implemented /\ "unwritten" \in ActionFaults
  /\ key' \in KeyBytes
  /\ Return("failure") /\ disturbed' = TRUE
  /\ UNCHANGED <<client, server, auth_level, stoc, tries, app_array, response,
                 serverState>>

\* AccessObject comes back with a success and has sent nothing: response is
\* what it was on the stack.
ActionNotEncoded ==
  /\ apc = "action" /\ "unencoded" \in ActionFaults
  /\ response' \in BOOLEAN /\ apc' = "pass4" /\ disturbed' = TRUE
  /\ UNCHANGED <<client, server, auth_level, stoc, key, result, tries, app_array,
                 serverState>>

\* Variant: the limit is passed by one.
TriesSpentLate == tries + 1 > ActionTries

\* retries > mConf.retries, after retries++
TriesSpent == tries + 1 = ActionTries

\* HdlcProcess fails, the ACTION lost or only its answer: the same frame again.
ActionExchangeFails ==
  /\ apc = "action"
  /\ tries' = tries + 1
  /\ serverState' \in {serverState, StateAfterPass3}
  /\ IF TriesSpent
       THEN Return("failure") /\ disturbed' = TRUE
       ELSE UNCHANGED <<apc, result, disturbed>>
  /\ UNCHANGED <<client, server, auth_level, stoc, key, app_array, response>>

\* A response without a value: an error, or a success with nothing in it.
ActionIsBad ==
  /\ apc = "action" /\ disturbed' = TRUE
  /\ \/ /\ ActionFaults \cap {"nollc", "undecodable"} # {}
        /\ Return("failure") /\ UNCHANGED response
     \/ /\ "nodata" \in ActionFaults
        /\ response' = FALSE /\ apc' = "pass4" /\ UNCHANGED result
     \/ /\ ActionFaults \cap {"unsupported", "noblock"} # {}
        /\ response' \in BOOLEAN /\ apc' = "pass4" /\ UNCHANGED result
  /\ serverState' = StateAfterPass3
  /\ UNCHANGED <<client, server, auth_level, stoc, key, tries, app_array>>

\* "maybe a bad authentication key"
ActionIsRefused ==
  /\ apc = "action" /\ ~ServerVerifies /\ Return("failure")
  /\ UNCHANGED <<client, server, auth_level, stoc, key, tries, app_array, response,
                 serverState, disturbed>>

ActionSucceeds ==
  /\ apc = "action" /\ ServerVerifies
  /\ app_array' = Digest(AlgorithmOf(server.level), "ctos", server.key)
  /\ response' = TRUE /\ apc' = "pass4"
  /\ serverState' = StateAfterPass3
  /\ UNCHANGED <<client, server, auth_level, stoc, key, result, tries, disturbed>>

\* Variant: the size of what came back is enough.
GoodCtosBySize == DigestSize(app_array.alg) = DigestSize(AlgorithmUsed)

\* The octet string has the size of the digest computed, and its bytes.
GoodCtos ==
  /\ DigestSize(app_array.alg) = DigestSize(AlgorithmUsed)
  /\ app_array = Digest(AlgorithmUsed, "ctos", key)

Pass4 ==
  /\ apc = "pass4"
  /\ Return(IF response /\ app_array # Nothing /\ GoodCtos THEN "success" ELSE "failure")
  /\ UNCHANGED <<client, server, auth_level, stoc, key, tries, app_array, response,
                 serverState, disturbed>>

ConnectAarq ==
  \/ BeginConnectAarq \/ AarqFails \/ AareIsBad \/ AareRefuses \/ AareAccepts
  \/ Pass3NotImplemented \/ Pass3 \/ Pass3NotWritten
  \/ ActionNotEncoded \/ ActionExchangeFails \/ ActionIsBad \/ ActionIsRefused
  \/ ActionSucceeds \/ Pass4

AssociationSpec == AssociationInit /\ [][ConnectAarq]_associationVars

-----------------------------------------------------------------------------
(* Properties                                                              *)

\* The type of every variable.
AssociationTypeOK ==
  /\ apc \in {"off", "aarq", "pass3", "action", "pass4", "done"}
  /\ client \in Client /\ server \in Server
  /\ auth_level \in Levels /\ key \in Keys /\ stoc \in Challenges \cup {"none"}
  /\ result \in {"running", "success", "failure"} /\ tries \in 0..ActionTries
  /\ app_array \in [alg : Levels \cup {"none"}, challenge : {"ctos", "none"},
                    key : Keys \cup {"none"}]
  /\ response \in BOOLEAN /\ serverState \in {"idle", "challenged", "associated"}
  /\ disturbed \in BOOLEAN

\* The client does not take itself for associated when the meter does not,
\* whatever was lost, sent again or answered without a value on the way.
BothAssociated == result = "success" => serverState = "associated"

\* At a high level, success means that the meter has the secret the client
\* uses, and the same idea of the digest; even a meter that takes any answer
\* to its challenge, or challenges with the client's own, is found out in
\* pass 4.
SameSecret ==
  result = "success" /\ auth_level \in HighLevels =>
    server.key = key /\ AlgorithmOf(server.level) = AlgorithmUsed

\* What the session file has to say for an association with this meter.
Suited ==
  /\ GetAuthLevelFromString(client.name) = server.level
  /\ server.level = "LOW" => client.password = server.key
  /\ server.level \in HighLevels => client.secretWhole /\ client.secret = server.key

\* A meter the session file fits is associated with, failed exchanges of pass 3
\* included, if its level is one that works.
SuitedAssociates ==
  apc = "done" /\ ~disturbed /\ Suited /\ server.level \in {"LOWEST", "LOW", "HIGH", "SHA1"}
    => result = "success"
================================================================================
