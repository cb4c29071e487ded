------------------------- MODULE MCDisruptionTimeline --------------------------
(***************************************************************************)
(* The disruption timeline on small stocks.  The thresholds and delays     *)
(* are fixed; the options and rates vary, so that the stock is short and   *)
(* comes back, fills up to its limit, runs out, or is never replenished.   *)
(***************************************************************************)
EXTENDS DisruptionTimeline

MCProfiles == [
    starting_quantity : {2, 6},
    normal_consumption : {1},  degraded_consumption : {Unset, 2},
    emergency_consumption : {Unset, 3},
    replenishment : {0, 3},    replenishment_delay : {2},
    shipment_delay : {1},      route_capacity_factor : {0, 50, 100},
    substitution_factor : {0, 25},
    minimum_reserve : {3},     critical_threshold : {1, 5},
    warning_threshold : {Unset, 2},
    storage_limit : {Unset, 5},
    alternate_rate : {0, 2},   alternate_delay : {4}]

\* One incident that reopens at once, and one in which every phase waits for the
\* slowest of its factors.
MCRecoveries ==
    {[f \in RecoveryFactors |-> 0],
     [f \in RecoveryFactors |->
         IF f \in {"physical_reopening", "carrier_return", "port_backlog"} THEN 1 ELSE 0]}

Route == [route_requires_ice_class |-> TRUE, vessel_ice_class |-> TRUE,
          carrier_available |-> TRUE, insurance_available |-> TRUE,
          port_handling_capacity |-> 10, quantity |-> 40,
          inland_rail_capacity_ratio |-> 100, fuel_bunkering_available |-> TRUE,
          supplier_available |-> TRUE, communications_healthy |-> TRUE,
          navigation_healthy |-> TRUE, storage_capacity_available |-> TRUE,
          alternative_transit_days |-> 1, inland_rail_days |-> 2]

\* Routes that pass, that are degraded, and that are blocked, with two transit times.
MCCandidates ==
    {Route,
     [Route EXCEPT !.alternative_transit_days = 3],
     [Route EXCEPT !.inland_rail_capacity_ratio = 69],
     [Route EXCEPT !.quantity = 51],
     [Route EXCEPT !.inland_rail_capacity_ratio = 20],
     [Route EXCEPT !.vessel_ice_class = FALSE, !.inland_rail_days = 0]}
=============================================================================
