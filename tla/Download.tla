------------------------------- MODULE Download -------------------------------
(***************************************************************************)
(* What a caller of CosemClient::AccessObject gets: the value of an         *)
(* attribute is collected from its beginning, nothing is ever put in twice  *)
(* or out of its place, a file is written only when everything is there,    *)
(* once, with what is reported as a success.  A success alone says less: it *)
(* may come with a part of the value, or none, and no file.  AccessObject   *)
(* is shown to implement this module for values that fit into the           *)
(* application buffer.                                                      *)
(***************************************************************************)
EXTENDS Integers, Sequences

VARIABLES
  wanted,   \* the value of the attribute, a sequence of pieces
  got,      \* what has been collected of it
  file,     \* what has been written: nothing, or one value
  status    \* "reading", or what the caller is told: "success" or "failed"

downloadVars == <<wanted, got, file, status>>

Init == got = <<>> /\ file = <<>> /\ status = "reading"

\* Pieces follow the ones collected.
Collect ==
  /\ status = "reading"
  /\ \E n \in Len(got) .. Len(wanted) : got' = SubSeq(wanted, 1, n)
  /\ UNCHANGED <<wanted, file, status>>

\* Everything is there: the read is over, and the value may be in the file.
Complete ==
  /\ status = "reading" /\ got = wanted
  /\ status' = "success" /\ file' \in {<<>>, <<got>>}
  /\ UNCHANGED <<wanted, got>>

\* The read is given up, and nobody is told.
Abandon ==
  /\ status = "reading"
  /\ status' = "success"
  /\ UNCHANGED <<wanted, got, file>>

Fail ==
  /\ status = "reading"
  /\ status' = "failed"
  /\ UNCHANGED <<wanted, got, file>>

Next == Collect \/ Complete \/ Abandon \/ Fail

Spec == Init /\ [][Next]_downloadVars
==============================================================================
