--------------------------- MODULE MCCosemSession ---------------------------
(* Up to two meters and two objects, every kind of meter in either place.   *)
EXTENDS CosemSession

MCMeters == {<<>>} \cup [1..1 -> Meter] \cup [1..2 -> Meter]
MCConfigurations == [meters : MCMeters, objects : 0..2, useModem : BOOLEAN]
=============================================================================
