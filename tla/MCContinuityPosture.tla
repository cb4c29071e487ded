-------------------------- MODULE MCContinuityPosture --------------------------
(* Instances of ContinuityPosture for TLC: every threshold of the engines has *)
(* a level on each side.                                                      *)
EXTENDS ContinuityPosture

MCNominal == [
    physically_accessible |-> TRUE,      physical_capacity_ratio |-> 100,
    navigation_available |-> TRUE,       navigation_trust |-> 100,
    communications_available |-> TRUE,   communications_trust |-> 100,
    escort_available |-> TRUE,           escort_dependent |-> FALSE,
    weather_safe |-> TRUE,
    insurance_available |-> TRUE,        insurance_coverage |-> 100,
    carrier_capacity_available |-> TRUE, carrier_capacity_ratio |-> 100,
    commercial_viability |-> 100,
    data_integrity |-> 100,              observation_confidence |-> 100,
    source_diversity |-> 2,              recovery_backlog_active |-> FALSE]

MCLevels == [f \in DOMAIN MCNominal |->
    CASE f \in GoodFlags \cup BadFlags -> BOOLEAN
      [] f \in {"physical_capacity_ratio", "commercial_viability"} -> {20, 100}
      [] f \in {"navigation_trust", "communications_trust"} -> {49, 50, 100}
      [] f \in {"insurance_coverage", "carrier_capacity_ratio"} -> {10, 100}
      [] f \in {"data_integrity", "observation_confidence"} -> {29, 49, 100}
      [] f = "source_diversity" -> {1, 2}]

MCDesired == [satcom |-> 2, fuel |-> 30, medical |-> 14, routes |-> 2,
              continuity |-> 95, navigation |-> 3, observation |-> 2, trust |-> 70]

\* The medical reserve meets the rule on reserves, and less would do for its own.
MCTarget == [MCDesired EXCEPT !.medical = 30]

MCReadings == [m \in DOMAIN MCTarget |->
    CASE m \in {"satcom", "routes", "observation"} -> {0, 1, 2}
      [] m = "navigation" -> {1, 2, 3}
      [] m = "fuel" -> {6, 19, 29, 30}
      [] m = "medical" -> {6, 13, 14, 30}
      [] m = "continuity" -> {64, 79, 94, 95}
      [] m = "trust" -> {69, 70}]
=============================================================================
