--------------------------- MODULE MCStrategicAlerts ---------------------------
(* Instances of StrategicAlerts for TLC.                                   *)
EXTENDS StrategicAlerts

\* The request without a key asks for a longer cooldown than the other.
TwoCooldowns == [r \in Requests |-> IF r \in Keyless THEN 2 ELSE 1]
=============================================================================
