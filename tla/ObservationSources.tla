-------------------------- MODULE ObservationSources --------------------------
(***************************************************************************)
(* Where observations come from: the policy about sources, and the         *)
(* adapters of the sensor feeds.                                           *)
(***************************************************************************)
EXTENDS Integers, FiniteSetsExt

\* The sum of the values of a function.
SumOf(f) == MapThenSumSet(LAMBDA x : f[x], DOMAIN f)

-----------------------------------------------------------------------------
(***************************************************************************)
(* Which source may assert what: the registry of public, operator and      *)
(* analyst sources, the assertion each metric needs, and the check that    *)
(* fusion makes of every observation before it scores any of them.         *)
(***************************************************************************)

Public(allowed) == [trust |-> "authoritative_public", allowed |-> allowed]
Context(allowed) == [trust |-> "open_context", allowed |-> allowed]

SourceIds ==
    {"nsidc-sea-ice-index", "eccc-geomet", "copernicus-cdse-stac", "ecmwf-open-data",
     "celestrak-gp", "nga-world-port-index", "marinecadastre-ais", "un-comtrade",
     "statcan-wds", "noaa-coops", "usgs-water", "nasa-firms", "noaa-swpc", "gdacs",
     "reliefweb", "openalex", "operator-telemetry", "analyst-assessment"}

SOURCES ==
    [s \in SourceIds |->
        CASE s = "nsidc-sea-ice-index"  -> Public({"climate", "ice"})
          [] s = "eccc-geomet"          -> Public({"climate", "ice", "weather"})
          [] s = "copernicus-cdse-stac" -> Public({"earth_observation", "geolocation"})
          [] s = "ecmwf-open-data"      -> Public({"weather", "climate"})
          [] s = "celestrak-gp"         -> Context({"orbital_geometry"})
          [] s = "nga-world-port-index" -> Public({"geolocation"})
          [] s = "marinecadastre-ais"   -> Public({"traffic_history"})
          [] s = "un-comtrade"          -> Public({"trade_exposure"})
          [] s = "statcan-wds"          -> Public({"trade_exposure", "climate"})
          [] s = "noaa-coops"           -> Public({"weather", "climate"})
          [] s = "usgs-water"           -> Public({"climate", "weather"})
          [] s = "nasa-firms"           -> Public({"earth_observation", "climate"})
          [] s = "noaa-swpc"            -> Public({"weather", "climate"})
          [] s = "gdacs"                -> Public({"climate", "geolocation"})
          [] s = "reliefweb"            -> Context({"policy_context", "geopolitical_context"})
          [] s = "openalex"             -> Context({"policy_context"})
          [] s = "operator-telemetry"   ->
                [trust |-> "authenticated_operator",
                 allowed |-> {"live_capacity", "live_availability", "cyber_health",
                              "insurance_access"}]
          [] s = "analyst-assessment"   ->
                [trust |-> "analyst_assessment",
                 allowed |-> {"geopolitical_context", "policy_context",
                              "human_intelligence"}]]

METRIC_ASSERTIONS ==
    [sea_ice_concentration      |-> {"ice"},
     sea_ice_extent_anomaly     |-> {"climate"},
     earth_observation_coverage |-> {"earth_observation"},
     wind_severity              |-> {"weather"},
     wave_severity              |-> {"weather"},
     port_geometry              |-> {"geolocation"},
     port_capacity              |-> {"live_capacity"},
     port_availability          |-> {"live_availability"},
     ais_traffic_index          |-> {"traffic_history"},
     trade_dependency           |-> {"trade_exposure"},
     satellite_geometry_density |-> {"orbital_geometry"},
     satcom_availability        |-> {"live_availability"},
     cyber_control_health       |-> {"cyber_health"},
     data_integrity             |-> {"cyber_health"},
     insurance_availability     |-> {"insurance_access"},
     geopolitical_pressure      |-> {"geopolitical_context"},
     escort_capacity            |-> {"live_capacity"},
     inventory_days             |-> {"live_capacity"}]

\* Metrics that the observation model normalizes to [0, 1], and those that must not be
\* negative; values are in hundredths.
RATIO_METRICS ==
    {"wind_severity", "wave_severity", "port_capacity", "port_availability",
     "ais_traffic_index", "trade_dependency", "satcom_availability",
     "cyber_control_health", "data_integrity", "insurance_availability",
     "geopolitical_pressure", "escort_capacity", "uav_swarm_cohesion",
     "starlink_obstruction_rate", "cuas_threat_density", "cuas_jamming_active"}

NON_NEGATIVE ==
    {"satellite_geometry_density", "earth_observation_coverage", "port_geometry",
     "uav_link_margin", "starlink_latency_ms", "starlink_downlink_mbps"}

\* The largest share of ice as a percentage, and the longest stock.
FullPercent == 10000
LongestStock == 365000

\* Observation.validate_metric_value(): what can be constructed at all.
WellFormed(o) ==
    /\ o.metric \in RATIO_METRICS => o.value \in 0..100
    /\ o.metric = "sea_ice_concentration" =>
         o.value \in 0..(IF o.unit = "percent" THEN FullPercent ELSE 100)
    /\ o.metric = "inventory_days" => o.value \in 0..LongestStock
    /\ o.metric \in NON_NEGATIVE => o.value >= 0
    /\ o.until >= o.at

\* Fault: the assertion is not compared with the metric.
AdmissibleOnSourceAlone(o) ==
    /\ o.source \in DOMAIN SOURCES
    /\ o.trust = SOURCES[o.source].trust
    /\ o.assertion \in SOURCES[o.source].allowed
    /\ o.metric \in DOMAIN METRIC_ASSERTIONS
    /\ o.trust = "analyst_assessment" => o.judged

\* validate_observation_source(): an unknown source, a claimed trust that is not the
\* source's, an assertion beyond the source or beside the metric, or an analyst's claim
\* without its judgment type and basis raises.
Admissible(o) ==
    /\ o.source \in DOMAIN SOURCES
    /\ o.trust = SOURCES[o.source].trust
    /\ o.assertion \in SOURCES[o.source].allowed
    /\ o.metric \in DOMAIN METRIC_ASSERTIONS
    /\ o.assertion \in METRIC_ASSERTIONS[o.metric]
    /\ o.trust = "analyst_assessment" => o.judged

-----------------------------------------------------------------------------
(***************************************************************************)
(* The adapters that turn a feed's message into an observation: vessel     *)
(* positions, space weather, earthquakes and port control systems.  Each   *)
(* names a source after its feed and stamps the observation with the time  *)
(* it is parsed.  Values are in hundredths, Kp and magnitude in tenths.    *)
(***************************************************************************)

Adapted(source, trust, assertion, metric, value, confidence, now) ==
    [source |-> source, trust |-> trust, assertion |-> assertion, metric |-> metric,
     unit |-> "ratio", value |-> value, confidence |-> confidence, judged |-> FALSE,
     at |-> now, until |-> now + 100000]

\* parse_ais_json(): an impossible speed only degrades the state that is noted.
ParseAis(r, now) ==
    Adapted("ais", "authoritative_public", "traffic_history", "ais_traffic_index",
            IF r.spoofed THEN 20 ELSE 85, IF r.spoofed THEN 20 ELSE 85, now)

\* parse_space_weather_alert()
ParseSpaceWeather(r, now) ==
    Adapted("noaa:swpc", "authoritative_public", "weather", "satcom_availability",
            IF r.kp >= 70 THEN 10 ELSE IF r.kp >= 50 THEN 50 ELSE 95,
            IF r.kp >= 70 THEN 95 ELSE IF r.kp >= 50 THEN 85 ELSE 90, now)

\* parse_earthquake_alert()
ParseEarthquake(r, now) ==
    Adapted("usgs:earthquake", "authoritative_public", "earth_observation",
            "port_availability",
            IF r.magnitude >= 70 THEN 0 ELSE IF r.magnitude >= 55 THEN 40 ELSE 100, 98, now)

\* parse_scada_tag()
ParseScada(r, now) ==
    Adapted("scada", "authenticated_operator", "live_availability", "port_capacity",
            IF r.status \in {"FAULT", "EMERGENCY_STOP", "MODBUS_FLOOD"} THEN 0
            ELSE IF r.rate < 50 \/ r.errors THEN r.rate ELSE 100, 99, now)

\* The observation of a message, by the feed it came from.
Parse(r, now) ==
    CASE r.feed = "ais" -> ParseAis(r, now)
      [] r.feed = "swpc" -> ParseSpaceWeather(r, now)
      [] r.feed = "usgs" -> ParseEarthquake(r, now)
      [] r.feed = "scada" -> ParseScada(r, now)
=============================================================================
