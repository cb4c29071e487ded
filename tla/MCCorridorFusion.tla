---------------------------- MODULE MCCorridorFusion ----------------------------
EXTENDS CorridorFusion

Reported(source, assertion, metric, value, confidence, lifetime) ==
    [source |-> source, trust |-> SOURCES[source].trust, assertion |-> assertion,
     metric |-> metric, unit |-> "ratio", value |-> value, confidence |-> confidence,
     judged |-> FALSE, ahead |-> 0, lifetime |-> lifetime]

Operator(assertion, metric, value, confidence) ==
    Reported("operator-telemetry", assertion, metric, value, confidence, Day)

\* Readings of live, public, analyst and context sources; one expires early, one is from
\* the future, one claims more than its source may.
MCReports ==
    {Operator("live_availability", "port_availability", 90, 90),
     Operator("live_capacity", "port_capacity", 60, 40),
     Operator("live_availability", "satcom_availability", 70, 100),
     Operator("insurance_access", "insurance_availability", 60, 0),
     Reported("eccc-geomet", "weather", "wind_severity", 30, 80, 4),
     Reported("nsidc-sea-ice-index", "ice", "sea_ice_concentration", 20, 90, Day),
     Reported("noaa-swpc", "weather", "satcom_availability", 95, 90, Day),
     [Reported("analyst-assessment", "geopolitical_context", "geopolitical_pressure",
               60, 50, Day) EXCEPT !.judged = TRUE],
     [Operator("cyber_health", "cyber_control_health", 90, 90) EXCEPT !.ahead = 4],
     Reported("nga-world-port-index", "geolocation", "port_geometry", 300, 90, Day)}

MCMessages ==
    {[feed |-> "ais", spoofed |-> TRUE], [feed |-> "swpc", kp |-> 75],
     [feed |-> "usgs", magnitude |-> 50],
     [feed |-> "scada", status |-> "RUNNING", rate |-> 40, errors |-> FALSE]}

MCWorse ==
    [port_availability |-> <<90, 30, 1>>, port_capacity |-> <<60, 10>>,
     satcom_availability |-> <<95, 70, 15>>, insurance_availability |-> <<60, 5>>,
     wind_severity |-> <<30, 100>>, sea_ice_concentration |-> <<20, 100>>,
     geopolitical_pressure |-> <<60, 90>>]

MCObjectives ==
    {[target |-> 6000, budget |-> 10, approval |-> FALSE],
     [target |-> 9900, budget |-> 6, approval |-> TRUE]}

Mitigation(id, cost, gain, reductions, needs, excludes, approval) ==
    [id |-> id, cost |-> cost, gain |-> gain, reductions |-> reductions,
     needs |-> needs, excludes |-> excludes, approval |-> approval]

MCAvailable ==
    {Mitigation(1, 4, 0, [port |-> 60], {}, {3}, FALSE),
     Mitigation(2, 3, 0, [communications |-> 99, ice |-> 50], {1}, {}, TRUE),
     Mitigation(3, 2, 30, << >>, {}, {}, FALSE),
     Mitigation(4, 2, 0, [weather |-> 40, inventory |-> 90], {}, {}, FALSE)}

Detections ==
    <<Absent, [distance |-> 5000, spread |-> FALSE, swarm |-> FALSE],
      [distance |-> 1500, spread |-> FALSE, swarm |-> FALSE],
      [distance |-> 300, spread |-> TRUE, swarm |-> FALSE],
      [distance |-> 300, spread |-> TRUE, swarm |-> TRUE]>>

Contacts ==
    <<Absent, [mmsi |-> 1, distance |-> 80, speed |-> 10],
      [mmsi |-> 1, distance |-> 40, speed |-> 1], [mmsi |-> 2, distance |-> 40, speed |-> 1],
      [mmsi |-> 2, distance |-> 10, speed |-> 1]>>

Passes ==
    <<Absent, [elevation |-> 30, sensor |-> "OPTICAL_HIGH_RES"],
      [elevation |-> 50, sensor |-> "OPTICAL_HIGH_RES"],
      [elevation |-> 50, sensor |-> "SAR_RADAR"], [elevation |-> 85, sensor |-> "SAR_RADAR"]>>

Three(s) == [first |-> s, second |-> s, third |-> s]

TrustScale ==
    [d \in {Dimensions[i] : i \in DOMAIN Dimensions} \cup {"sources"} |->
        IF d = "sources" THEN <<3, 2, 1>> ELSE <<100, 55, 20>>]

MCAggregations == {"minimum", "mean", "weighted"}

\* A component that is stocked, short, single-sourced and without a substitute.
Component(tier) ==
    LET c == [tier |-> tier, criticality |-> 50, single |-> FALSE, substitutable |-> TRUE,
              lead |-> 20, buffer |-> 40]
        short == [c EXCEPT !.buffer = 15]
    IN <<c, short, [short EXCEPT !.single = TRUE],
         [short EXCEPT !.single = TRUE, !.substitutable = FALSE, !.criticality = 90]>>

Holding == <<TRUE, FALSE>>

\* All states of a corridor, by their score with the readiness engine.
MCStates ==
    <<"open", "open_but_service_dependent", "recovery_backlogged", "unknown", "open_degraded",
      "open_capacity_constrained", "open_but_uninsurable", "open_but_no_carrier_capacity",
      "open_but_navigation_untrusted", "open_but_communications_degraded",
      "functionally_closed", "physically_closed">>

MCSupplyScale ==
    [bom |-> [first |-> Component(1), second |-> Component(1), third |-> Component(3),
              days |-> <<0, 10, 30>>],
     loss |-> [days |-> <<0, 7, 30>>, inventory |-> <<5000, 9000>>, vessels |-> <<0, 2>>,
               burn |-> <<150, 300>>],
     reroute |-> [km |-> <<5, 50, 800, 4350>>],
     wargame |-> [day |-> <<30, 60, 90, 180>>, pressure |-> <<0, 30, 70, 100>>,
                  cushion |-> <<100, 50, 0>>],
     warloss |-> [day |-> <<30, 60, 90, 180>>, pressure |-> <<30, 70>>, cushion |-> <<100, 0>>],
     failure |-> [pressure |-> <<0, 30, 70, 100>>, cushion |-> <<100, 50, 0>>],
     insurance |-> [state |-> MCStates, alternate |-> Holding],
     rating |-> [paths |-> <<3, 2, 1>>, stock |-> <<60, 30, 15, 14>>, lag |-> <<7, 14, 30, 31>>,
                 shared |-> <<FALSE, TRUE>>, confidence |-> <<90, 58, 10>>],
     attestation |-> [interfaces |-> <<0, 1>>, boot |-> Holding, zeroize |-> Holding,
                      entropy |-> <<65536, 65535>>],
     pbmm |-> [rbac |-> Holding, tls |-> <<"1.3", "1.2", "1.1">>, cmk |-> Holding,
               immutable |-> Holding, region |-> <<"canada", "elsewhere">>, airgap |-> Holding],
     airgap |-> [outbound |-> Holding, offline |-> Holding, keys |-> Holding],
     display |-> [state |-> MCStates]]

MCScale ==
    MCSupplyScale @@ [e \in MCAggregations |-> TrustScale] @@
    [uav |-> [margin |-> <<25, 11, 5>>, denied |-> <<FALSE, TRUE>>, flow |-> <<95, 30>>,
              battery |-> <<90, 24, 14>>, stalling |-> <<FALSE, TRUE>>],
     starlink |-> [latency |-> <<40, 66, 101, 121>>, jitter |-> <<5, 26>>,
                   rain |-> <<0, 9>>, obstruction |-> <<0, 11>>, loss |-> <<0, 6>>],
     cuas |-> Three(Detections),
     scan |-> [cno |-> <<42, 30, 20>>, variance |-> <<1, 26, 60>>,
               drift |-> <<0, 51, 120>>, tampered |-> <<FALSE, TRUE>>,
               commands |-> <<5, 101>>, untrusted |-> <<0, 3, 9>>,
               jump |-> <<1, 20, 60>>, elapsed |-> <<3600, 600, 100>>],
     vessels |-> Three(Contacts),
     overflight |-> Three(Passes),
     insider |-> [queries |-> <<10, 501>>, boxes |-> <<1, 21>>, escalations |-> <<0, 1>>],
     permafrost |-> [degreeDays |-> <<50, 250, 600, 1200>>, peat |-> <<40, 15, 0>>],
     wildfire |-> [fwi |-> <<5, 25, 60>>, distance |-> <<50, 20, 2>>,
                   wind |-> <<10, 30>>, towards |-> <<FALSE, TRUE>>],
     subsea |-> [decibels |-> <<2, 15, 40>>, distance |-> <<20, 5, 1>>,
                 health |-> <<95, 50>>],
     anomaly |-> [value |-> <<11, 12, 13, 14, 20>>]]

MCHorizons == {30, 60, 90, 180}
MCHistory == <<10, 12, 11, 11, 12, 10>>
MCOnAir == {1}
=============================================================================
