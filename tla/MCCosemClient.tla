----------------------------- MODULE MCCosemClient -----------------------------
(* Values of the constants of CosemClient for TLC.                           *)
EXTENDS CosemClient

Named == [named |-> TRUE, testHdlcAddr |-> FALSE]
Unnamed == [named |-> FALSE, testHdlcAddr |-> FALSE]
MCConfigurations ==
  {[meters |-> <<Named>>, objects |-> 1, useModem |-> TRUE],
   [meters |-> <<Named>>, objects |-> 2, useModem |-> FALSE],
   [meters |-> <<Named, Unnamed>>, objects |-> 0, useModem |-> FALSE],
   [meters |-> <<Unnamed>>, objects |-> 1, useModem |-> FALSE],
   [meters |-> <<>>, objects |-> 1, useModem |-> TRUE]}

\* Two bits for every C type, and numbers on both sides of their limits.
MCSpan == [uint32 |-> 4, uint16 |-> 4, int8 |-> 4]

Number(n) == [kind |-> "int", value |-> n]
String(s) == [kind |-> "string", value |-> s]
Bool(b) == [kind |-> "bool", value |-> b]
Entry(given) == [isObject |-> TRUE, given |-> given]
Scalar == [isObject |-> FALSE, given |-> NoObject]
Arrays(entries) == {<<>>} \cup [1..1 -> entries] \cup [1..2 -> entries]

Missing == [root |-> "none"]
NoObjectAtAll == [root |-> "other"]
MCComms ==
  {Missing, NoObjectAtAll} \cup
  {[root |-> "object", serial |-> s] :
     s \in {[baudrate |-> Number(2)],
            [port |-> String("tty"), baudrate |-> Number(2)]}}
MCObjects ==
  {Missing, NoObjectAtAll} \cup
  {[root |-> "object", objects |-> a] :
     a \in Arrays({Scalar, Entry(NoObject),
                   Entry([name |-> String("clock"), class_id |-> Number(3),
                          attribute_id |-> Number(-2)]),
                   Entry([name |-> Number(1), class_id |-> Number(5),
                          attribute_id |-> Number(2)])})}
MCSettings ==
  {[retries |-> Number(-3), enable |-> String("yes")],
   [retries |-> Number(1), enable |-> Bool(TRUE), dial |-> Number(2)]}
MCSessions ==
  {Missing, NoObjectAtAll} \cup
  [root : {"object"}, session : MCSettings,
   meters : Arrays({Scalar, Entry(NoObject),
                    Entry([id |-> String("m"), transport |-> String("tcp"),
                           client |-> Number(2), test_addr |-> Bool(FALSE)]),
                    Entry([id |-> Number(1), transport |-> String("x"),
                           client |-> Number(5)])})]
MCFiles == [comm : MCComms, objects : MCObjects, session : MCSessions]

\* "OK" and "CONNECT", cut to two letters that the replies may also have in
\* another order.
MCExpected == [init |-> <<"O", "K">>, dial |-> <<"C", "O">>]
MCReplies ==
  [init |-> {<<>>, <<"n", "O", "K", "n">>, <<"n", "K", "O">>},
   dial |-> {<<>>, <<"n", "C", "O", "n">>, <<"n", "O", "C">>}]

MCNumbers == {-1}

\* The hypothesis of the theorems about what the client hears of the modem.
ASSUME RepliesAreApart == RepliesApart
================================================================================
