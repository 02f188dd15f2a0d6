--------------------------- MODULE AssociationProofs ---------------------------
(***************************************************************************)
(* Proofs about Association, for all keys, levels, faults and numbers of    *)
(* tries.                                                                   *)
(***************************************************************************)
EXTENDS Association, TLAPS

\* app_array is what the meter answered to a pass 3 it said "yes" to.
Answered ==
  app_array # Nothing =>
    /\ apc \in {"pass4", "done"} /\ serverState = "associated"
    /\ app_array = Digest(AlgorithmOf(server.level), "ctos", server.key)

\* There is a result only when ConnectAarq is over, by the last try of pass 3 at
\* the latest; without a pass 3 the meter is associated by then.
Concluded ==
  /\ apc # "done" => tries < ActionTries
  /\ result # "running" => apc = "done"
  /\ apc = "off" => app_array = Nothing
  /\ apc \in {"pass3", "action", "pass4"} => NeedsPass3
  /\ result = "success" =>
       /\ serverState = "associated"
       /\ NeedsPass3 => app_array # Nothing /\ GoodCtos

\* The levels that work, with a meter the session file fits and nothing but its
\* answers: ConnectAarq is on its way to a success.
Hopeful ==
  ~disturbed /\ Suited /\ server.level \in {"LOWEST", "LOW", "HIGH", "SHA1"}

\* There the meter waits for pass 3 with the key that ConnectAarq uses, or has
\* already said "yes" to a pass 3 whose answer was lost.
OnItsWay ==
  Hopeful =>
    /\ apc # "off" => auth_level = server.level
    /\ apc \in {"pass3", "action"} => serverState \in {"challenged", "associated"}
    /\ apc \in {"action", "pass4"} => key = server.key
    /\ apc = "pass4" => response /\ app_array # Nothing
    /\ apc = "done" => result = "success"

AssociationInv == AssociationTypeOK /\ Answered /\ Concluded /\ OnItsWay

\* Every level that a name gives is one.
LEMMA LevelsTyped ==
  /\ \A name : GetAuthLevelFromString(name) \in Levels
  /\ \A level \in Levels : AlgorithmOf(level) \in Levels
<1>1. \A name \in DOMAIN LevelOf : LevelOf[name] \in Levels
  BY DEF LevelOf, Levels
<1> QED
  BY <1>1 DEF GetAuthLevelFromString, AlgorithmOf, Levels

\* The state before ConnectAarq.
LEMMA AssociationInitially == AssociationInit => AssociationInv
<1> SUFFICES ASSUME AssociationInit PROVE AssociationInv
  OBVIOUS
<1>1. key \in Keys /\ Nothing \in [alg : Levels \cup {"none"}, challenge : {"ctos", "none"},
                                     key : Keys \cup {"none"}]
  BY DEF AssociationInit, Client, Nothing, Digest
<1>2. 0 < ActionTries /\ tries \in 0..ActionTries
  BY TriesAssumption DEF AssociationInit
<1>3. AssociationTypeOK
  BY <1>1, <1>2 DEF AssociationInit, AssociationTypeOK, Levels
<1>4. Answered /\ Concluded /\ OnItsWay
  BY <1>2 DEF AssociationInit, Answered, Concluded, OnItsWay
<1> QED
  BY <1>3, <1>4 DEF AssociationInv

\* ConnectAarq keeps the types.
LEMMA AssociationTypes ==
  ASSUME AssociationTypeOK, Concluded, ConnectAarq
  PROVE  AssociationTypeOK'
<1> USE DEF AssociationTypeOK
<1>1. StateAfterAarq \in {"idle", "challenged", "associated"}
  BY DEF StateAfterAarq
<1>2. StateAfterPass3 \in {"idle", "challenged", "associated"}
  BY DEF StateAfterPass3
<1>3. server.level \in Levels /\ server.key \in Keys /\ client.secret \in Keys
  BY LevelAssumption DEF Server, Client
<1>4. CASE BeginConnectAarq
  BY <1>4, LevelsTyped DEF BeginConnectAarq
<1>5. CASE AarqFails \/ AareIsBad \/ AareRefuses \/ AareAccepts
  BY <1>1, <1>5, Zenon DEF AarqFails, AareIsBad, AareRefuses, AareAccepts, Return
<1>6. CASE Pass3NotImplemented
  BY <1>6 DEF Pass3NotImplemented, Return
<1>7. CASE Pass3 \/ Pass3NotWritten
  <2>1. KeyBytes \subseteq Keys
    BY <1>3 DEF KeyBytes
  <2> QED
    BY <1>7, <2>1 DEF Pass3, Pass3NotWritten, Return
<1>8. CASE ActionNotEncoded
  BY <1>8 DEF ActionNotEncoded
<1>9. CASE ActionExchangeFails
  <2>1. serverState' \in {"idle", "challenged", "associated"}
    BY <1>2, <1>9 DEF ActionExchangeFails
  <2>2. tries' \in 0..ActionTries
    BY <1>9, TriesAssumption DEF ActionExchangeFails, Concluded
  <2>3. apc' \in {"action", "done"} /\ result' \in {result, "failure"} /\ disturbed' \in BOOLEAN
    BY <1>9 DEF ActionExchangeFails, Return
  <2> QED
    BY <1>9, <2>1, <2>2, <2>3 DEF ActionExchangeFails
<1>10. CASE ActionIsBad
  BY <1>2, <1>10 DEF ActionIsBad, Return
<1>11. CASE ActionIsRefused
  BY <1>11 DEF ActionIsRefused, Return
<1>12. CASE ActionSucceeds
  BY <1>2, <1>3, <1>12, LevelsTyped DEF ActionSucceeds, Digest
<1>13. CASE Pass4
  BY <1>13 DEF Pass4, Return
<1> QED
  BY <1>4, <1>5, <1>6, <1>7, <1>8, <1>9, <1>10, <1>11, <1>12, <1>13 DEF ConnectAarq

\* What a digest is not.
LEMMA DigestIsSomething ==
  \A alg, k : Digest(alg, "ctos", k) # Nothing
  BY DEF Digest, Nothing

\* The value that came back stays until the end.
LEMMA AssociationStep ==
  ASSUME AssociationInv, ConnectAarq
  PROVE  Answered' /\ Concluded'
<1> USE DEF Answered, Concluded, AssociationInv
<1>1. CASE BeginConnectAarq
  BY <1>1 DEF BeginConnectAarq
<1>2. CASE AarqFails \/ AareIsBad \/ AareRefuses
  BY <1>2, Zenon DEF AarqFails, AareIsBad, AareRefuses, Return
<1>3. CASE AareAccepts
  <2>1. ~NeedsPass3 => serverState' = "associated"
    BY <1>3 DEF AareAccepts, NeedsPass3, StateAfterAarq, HighLevels
  <2>2. NeedsPass3' <=> NeedsPass3
    BY <1>3 DEF AareAccepts, NeedsPass3
  <2> QED
    BY <1>3, <2>1, <2>2 DEF AareAccepts, Return
<1>4. CASE Pass3NotImplemented
  BY <1>4 DEF Pass3NotImplemented, Return
<1>5. CASE Pass3 \/ Pass3NotWritten
  BY <1>5 DEF Pass3, Pass3NotWritten, Return, NeedsPass3
<1>6. CASE ActionNotEncoded
  BY <1>6 DEF ActionNotEncoded, NeedsPass3
<1>7. CASE ActionExchangeFails
  <2>1. apc' # "done" => tries' < ActionTries
    BY <1>7, TriesAssumption DEF ActionExchangeFails, TriesSpent, Return, AssociationTypeOK
  <2> QED
    BY <1>7, <2>1 DEF ActionExchangeFails, NeedsPass3, Return
<1>8. CASE ActionIsBad
  BY <1>8 DEF ActionIsBad, NeedsPass3, Return
<1>9. CASE ActionIsRefused
  BY <1>9 DEF ActionIsRefused, Return
<1>10. CASE ActionSucceeds
  <2>1. serverState' = "associated"
    BY <1>10 DEF ActionSucceeds, StateAfterPass3
  <2> QED
    BY <1>10, <2>1 DEF ActionSucceeds, NeedsPass3
<1>11. CASE Pass4
  <2>1. GoodCtos' <=> GoodCtos
    BY <1>11 DEF Pass4, GoodCtos, AlgorithmUsed
  <2> QED
    BY <1>11, <2>1 DEF Pass4, NeedsPass3, Return
<1> QED
  BY <1>1, <1>2, <1>3, <1>4, <1>5, <1>6, <1>7, <1>8, <1>9, <1>10, <1>11 DEF ConnectAarq

\* What fits stays so: the session file and the meter do not change, and
\* nothing undoes a disturbance.
LEMMA HopefulBefore ==
  ASSUME AssociationInv, ConnectAarq, Hopeful'
  PROVE  Hopeful /\ Suited /\ UNCHANGED <<client, server>>
<1>1. UNCHANGED <<client, server>>
  BY Zenon
  DEF ConnectAarq, BeginConnectAarq, AarqFails, AareIsBad, AareRefuses, AareAccepts,
      Pass3NotImplemented, Pass3, Pass3NotWritten, ActionNotEncoded, ActionExchangeFails,
      ActionIsBad, ActionIsRefused, ActionSucceeds, Pass4
<1>2. disturbed => disturbed'
  BY Zenon
  DEF ConnectAarq, BeginConnectAarq, AarqFails, AareIsBad, AareRefuses, AareAccepts,
      Pass3NotImplemented, Pass3, Pass3NotWritten, ActionNotEncoded, ActionExchangeFails,
      ActionIsBad, ActionIsRefused, ActionSucceeds, Pass4
<1> QED
  BY <1>1, <1>2 DEF Hopeful, Suited

\* A meter that the session file fits takes the password, and the digest of pass 3.
LEMMA SuitedIsAccepted ==
  ASSUME Hopeful, apc # "off", auth_level = server.level
  PROVE  /\ ServerAccepts
         /\ AlgorithmUsed = AlgorithmOf(server.level) \/ ~NeedsPass3
         /\ NeedsPass3 => auth_level \in Implemented
         /\ NeedsPass3 => KeyBytes = {server.key}
<1> USE DEF Hopeful, Suited
<1>1. ServerAccepts
  BY DEF ServerAccepts
<1>2. AlgorithmUsed = AlgorithmOf(server.level) \/ ~NeedsPass3
  BY DEF AlgorithmUsed, AlgorithmOf, NeedsPass3
<1>3. NeedsPass3 => auth_level \in Implemented /\ server.level \in HighLevels
  BY DEF NeedsPass3, Implemented, HighLevels, Levels
<1> QED
  BY <1>1, <1>2, <1>3 DEF KeyBytes

\* Every step on that way succeeds.
LEMMA OnItsWayStep ==
  ASSUME AssociationInv, ConnectAarq
  PROVE  OnItsWay'
<1> SUFFICES ASSUME Hopeful'
             PROVE  /\ apc' # "off" => auth_level' = server'.level
                    /\ apc' \in {"pass3", "action"} => serverState' \in {"challenged", "associated"}
                    /\ apc' \in {"action", "pass4"} => key' = server'.key
                    /\ apc' = "pass4" => response' /\ app_array' # Nothing
                    /\ apc' = "done" => result' = "success"
  BY DEF OnItsWay
<1>0. /\ Hopeful /\ Suited /\ ~disturbed' /\ UNCHANGED <<client, server>>
      /\ Concluded /\ Answered /\ OnItsWay
  BY HopefulBefore DEF AssociationInv, Hopeful
<1>a. ASSUME apc # "off"
      PROVE  /\ auth_level = server.level /\ ServerAccepts
             /\ AlgorithmUsed = AlgorithmOf(server.level) \/ ~NeedsPass3
             /\ NeedsPass3 => auth_level \in Implemented
             /\ NeedsPass3 => KeyBytes = {server.key}
  BY <1>0, <1>a, SuitedIsAccepted DEF OnItsWay
<1>b. ASSUME apc = "action" PROVE ServerVerifies
  BY <1>0, <1>a, <1>b DEF OnItsWay, Concluded, ServerVerifies
<1>1. CASE BeginConnectAarq
  BY <1>0, <1>1 DEF BeginConnectAarq, Suited
<1>2. CASE AarqFails \/ AareIsBad \/ Pass3NotWritten \/ ActionNotEncoded \/ ActionIsBad
  BY <1>0, <1>2 DEF AarqFails, AareIsBad, Pass3NotWritten, ActionNotEncoded, ActionIsBad
<1>3. CASE AareRefuses
  BY <1>3, <1>a DEF AareRefuses
<1>4. CASE AareAccepts
  <2>1. NeedsPass3 => serverState' = "challenged"
    BY <1>0, <1>4, <1>a DEF AareAccepts, NeedsPass3, StateAfterAarq, HighLevels, AssociationInv,
                       AssociationTypeOK
  <2>2. IF NeedsPass3 THEN apc' = "pass3" ELSE apc' = "done" /\ result' = "success"
    BY <1>4 DEF AareAccepts, Return
  <2>3. UNCHANGED auth_level /\ auth_level = server.level
    BY <1>4, <1>a DEF AareAccepts
  <2> QED
    BY <1>0, <2>1, <2>2, <2>3
<1>5. CASE Pass3NotImplemented
  BY <1>0, <1>5, <1>a DEF Pass3NotImplemented, Concluded
<1>6. CASE Pass3
  <2>1. key' = server.key
    BY <1>0, <1>6, <1>a DEF Pass3, Concluded
  <2> QED
    BY <1>0, <1>6, <1>a, <2>1 DEF Pass3, OnItsWay
<1>7. CASE ActionExchangeFails
  <2>1. apc' = "action" /\ UNCHANGED <<auth_level, key>>
    BY <1>0, <1>7 DEF ActionExchangeFails
  <2>2. serverState' \in {"challenged", "associated"}
    BY <1>0, <1>7 DEF ActionExchangeFails, StateAfterPass3, OnItsWay
  <2>3. auth_level = server.level /\ key = server.key
    BY <1>0, <1>7 DEF ActionExchangeFails, OnItsWay
  <2> QED
    BY <1>0, <2>1, <2>2, <2>3
<1>8. CASE ActionIsRefused
  BY <1>8, <1>b DEF ActionIsRefused
<1>9. CASE ActionSucceeds
  <2>1. response' /\ app_array' # Nothing /\ apc' = "pass4" /\ UNCHANGED <<auth_level, key>>
    BY <1>9, DigestIsSomething, Zenon DEF ActionSucceeds
  <2>2. auth_level = server.level /\ key = server.key
    BY <1>0, <1>9 DEF ActionSucceeds, OnItsWay
  <2> QED
    BY <1>0, <2>1, <2>2
<1>10. CASE Pass4
  <2>1. apc = "pass4" /\ auth_level = server.level /\ response /\ app_array # Nothing
        /\ key = server.key /\ NeedsPass3
    BY <1>0, <1>10 DEF Pass4, OnItsWay, Concluded
  <2>2. app_array = Digest(AlgorithmUsed, "ctos", key)
    BY <1>0, <1>a, <2>1 DEF Answered
  <2>3. GoodCtos
    BY <2>2 DEF GoodCtos, Digest
  <2>4. apc' = "done" /\ result' = "success" /\ UNCHANGED auth_level
    BY <1>10, <2>1, <2>3 DEF Pass4, Return
  <2> QED
    BY <1>0, <2>1, <2>4
<1> QED
  BY <1>1, <1>2, <1>3, <1>4, <1>5, <1>6, <1>7, <1>8, <1>9, <1>10 DEF ConnectAarq

\* The invariant holds along ConnectAarq.
LEMMA AssociationKept ==
  AssociationInv /\ [ConnectAarq]_associationVars => AssociationInv'
<1>1. ASSUME AssociationInv, ConnectAarq PROVE AssociationInv'
  BY <1>1, AssociationTypes, AssociationStep, OnItsWayStep DEF AssociationInv
<1>2. ASSUME AssociationInv, UNCHANGED associationVars PROVE AssociationInv'
  BY <1>2 DEF AssociationInv, associationVars, AssociationTypeOK, Answered, Concluded,
              NeedsPass3, GoodCtos, AlgorithmUsed, OnItsWay, Hopeful, Suited
<1> QED
  BY <1>1, <1>2

\* What follows from it about the two ends.
LEMMA AssociationSafe ==
  AssociationInv => BothAssociated /\ SameSecret /\ SuitedAssociates
<1> SUFFICES ASSUME AssociationInv, result = "success"
             PROVE  /\ serverState = "associated"
                    /\ auth_level \in HighLevels =>
                         server.key = key /\ AlgorithmOf(server.level) = AlgorithmUsed
  BY DEF BothAssociated, SameSecret, SuitedAssociates, AssociationInv, OnItsWay, Hopeful
<1>1. serverState = "associated"
  BY DEF AssociationInv, Concluded
<1>2. ASSUME auth_level \in HighLevels
      PROVE  server.key = key /\ AlgorithmOf(server.level) = AlgorithmUsed
  <2>1. app_array # Nothing /\ GoodCtos
    BY <1>2 DEF AssociationInv, Concluded, NeedsPass3, HighLevels
  <2>2. Digest(AlgorithmOf(server.level), "ctos", server.key) = Digest(AlgorithmUsed, "ctos", key)
    BY <2>1 DEF AssociationInv, Answered, GoodCtos
  <2> QED
    BY <2>2 DEF Digest
<1> QED
  BY <1>1, <1>2

\* The types of Pass3And4 and ConnectAarq, the tries of pass 3 among them
\* (lib/CosemClient.cpp:373-540).
THEOREM AssociationTypeCorrect == AssociationSpec => []AssociationTypeOK
<1>1. AssociationInv => AssociationTypeOK
  BY DEF AssociationInv
<1> QED
  BY AssociationInitially, AssociationKept, <1>1, PTL DEF AssociationSpec

\* A client that takes itself for associated talks to a meter that does, whatever
\* was lost, sent again or answered without a value (lib/CosemClient.cpp:373-540).
THEOREM AssociationMutual == AssociationSpec => []BothAssociated
<1> QED
  BY AssociationInitially, AssociationKept, AssociationSafe, PTL DEF AssociationSpec

\* At a high level it talks to a meter that has its secret and computes the same
\* digest, for all secrets (lib/CosemClient.cpp:463-540).
THEOREM AssociationCorrect == AssociationSpec => []SameSecret
<1> QED
  BY AssociationInitially, AssociationKept, AssociationSafe, PTL DEF AssociationSpec

\* A meter the session file fits is associated with, for all passwords and secrets
\* and as many failed exchanges of pass 3 as are allowed, at the levels that work
\* (lib/CosemClient.cpp:373-540, 574-654).
THEOREM SuitedMeterAssociates == AssociationSpec => []SuitedAssociates
<1> QED
  BY AssociationInitially, AssociationKept, AssociationSafe, PTL DEF AssociationSpec
================================================================================
