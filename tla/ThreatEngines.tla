---------------------------- MODULE ThreatEngines -----------------------------
(***************************************************************************)
(* The engines that rate a raw reading.  Scores are in thousandths unless  *)
(* a section says otherwise.                                               *)
(***************************************************************************)
EXTENDS ObservationSources, Sequences, SequencesExt

-----------------------------------------------------------------------------
(***************************************************************************)
(* The engines that rate a drone, a satellite channel and an airspace, and *)
(* the bridge that turns their verdicts into observations.  Scores are in  *)
(* thousandths.                                                            *)
(***************************************************************************)

Sometimes(condition, points) == IF condition THEN points ELSE 0

\* The parts UAVTacticalEngine.analyze_frame() averages: a battery with a good reserve and
\* a level attitude add none.
UavParts(r) ==
    LET link == IF r.margin < 6 THEN 800 ELSE IF r.margin < 12 THEN 400 ELSE 50
        navigation == IF ~r.denied THEN 20 ELSE IF r.flow < 40 THEN 900 ELSE 350
        battery == IF r.battery < 15 THEN <<950>> ELSE IF r.battery < 25 THEN <<400>> ELSE << >>
        attitude == IF r.stalling THEN <<700>> ELSE << >>
    IN <<link, navigation>> \o battery \o attitude

UavRisk(r) ==
    LET parts == UavParts(r)
    IN SumOf(parts) \div Len(parts)

\* The attitude is looked at after the battery and overwrites its verdict.
UavStatus(r) ==
    IF UavRisk(r) >= 750 THEN "CRITICAL_RETURN_TO_BASE"
    ELSE IF r.stalling THEN "DEGRADED"
    ELSE IF r.battery < 15 THEN "CRITICAL_RETURN_TO_BASE"
    ELSE IF r.battery < 25 THEN "DEGRADED" ELSE "NOMINAL"

\* StarlinkTacticalEngine.evaluate_channel(): the threat of a channel and its state.
ChannelThreat(r) ==
    Min({1000, (IF r.latency > 120 THEN 350 ELSE Sometimes(r.latency > 65, 150))
               + Sometimes(r.jitter > 25, 200) + Sometimes(r.rain > 8, 300)
               + Sometimes(r.obstruction > 10, 400) + Sometimes(r.loss > 5, 350)})

ChannelState(r) ==
    IF 1000 - ChannelThreat(r) < 200 THEN "OFFLINE"
    ELSE IF r.rain > 8 THEN "RAIN_FADE_ATTENUATED"
    ELSE IF r.latency > 100 THEN "DEGRADED_LATENCY" ELSE "OPTIMAL"

\* CUASDefenseEngine.analyze_events(): events are a sequence of detections.
IsSwarm(events) == Len(events) >= 3 \/ \E i \in DOMAIN events : events[i].swarm

AirspaceThreat(events) ==
    LET near(x) == IF x.distance < 500 THEN 400 ELSE IF x.distance < 2000 THEN 200 ELSE 100
        one(x) == near(x) + Sometimes(x.spread, 250)
        all == SumOf([i \in DOMAIN events |-> one(events[i])])
    IN IF events = << >> THEN 50 ELSE Min({1000, all + Sometimes(IsSwarm(events), 350)})

AirspaceLevel(events) ==
    IF events = << >> THEN "NOMINAL"
    ELSE IF AirspaceThreat(events) >= 750 THEN "CRITICAL"
    ELSE IF AirspaceThreat(events) >= 450 THEN "HIGH" ELSE "MEDIUM"

\* TacticalFusionBridge: one frame, channel report or sector becomes several observations
\* of the operator's trust, from sources and about metrics of their own; o gives the
\* time and the value in hundredths.
Tactical(source, assertion, metric, o) ==
    [source |-> source, trust |-> "authenticated_operator", assertion |-> assertion,
     metric |-> metric, unit |-> "index", value |-> o.value, confidence |-> 95,
     judged |-> FALSE, at |-> o.at, until |-> o.until]

UavToObservations(o) ==
    {Tactical("tactical-uav-fleet", "tactical_surveillance", m, o) :
        m \in {"uav_link_margin", "uav_swarm_cohesion"}}

StarlinkToObservations(o) ==
    {Tactical("starlink-leo-network", "leo_satcom", m, o) :
        m \in {"starlink_latency_ms", "starlink_downlink_mbps", "starlink_obstruction_rate"}}

CuasToObservations(o) ==
    {Tactical("cuas-air-defense-sensor", "counter_uas", m, o) :
        m \in {"cuas_threat_density", "cuas_jamming_active"}}

-----------------------------------------------------------------------------
(***************************************************************************)
(* The cyber-physical scan: a navigation receiver, a port control network, *)
(* a vessel's track, and the verdict over the three.  Scores are in        *)
(* thousandths; variances are in square metres, drift in tenths of a ppm.  *)
(***************************************************************************)

\* GNSSAnomalyDetector.analyze(): the drop of the mean carrier-to-noise ratio from 42 dB,
\* the variance of the residuals and the drift of the clock.
GnssDrop(r) == Max({0, 42 - r.cno})
GnssJammed(r) == GnssDrop(r) > 15
GnssSpoofed(r) == r.variance > 25 \/ r.drift > 50 \/ r.drift < -50

GnssScore(r) ==
    LET drift == IF r.drift < 0 THEN -r.drift ELSE r.drift
    IN Min({1000, (GnssDrop(r) * 400) \div 25 + (Min({50, r.variance}) * 400) \div 50
                  + (Min({100, drift}) * 200) \div 100})

GnssLevel(r) ==
    IF GnssScore(r) >= 800 THEN "CRITICAL" ELSE IF GnssScore(r) >= 500 THEN "HIGH"
    ELSE IF GnssScore(r) >= 250 THEN "MEDIUM"
    ELSE IF GnssScore(r) > 0 THEN "LOW" ELSE "NOMINAL"

\* PortSCADAAnomalyDetector.analyze(): unauthorized function codes are reported and do
\* not count.
ScadaScore(r) ==
    Min({1000, (IF r.tampered THEN 500 ELSE 0) + (IF r.commands > 100 THEN 300 ELSE 0)
               + Min({5, r.untrusted}) * 40})

ScadaLevel(r) ==
    IF ScadaScore(r) >= 700 THEN "CRITICAL"
    ELSE IF ScadaScore(r) >= 400 THEN "HIGH" ELSE "NOMINAL"

\* AISSpoofingDetector.analyze(): a jump in km and the seconds it took, one at least, for
\* a cargo vessel (45 knots are 83.3 km/h).
Impossible(r) ==
    \/ r.jump * 36000 > 833 * Max({1, r.elapsed})
    \/ r.jump > 50 /\ r.elapsed < 120

AisScore(r) == IF Impossible(r) THEN 950 ELSE 50
AisLevel(r) == IF Impossible(r) THEN "CRITICAL" ELSE "NOMINAL"

\* Fault: the parts of the scan are averaged.
ScanScoreMean(r) == (GnssScore(r) + ScadaScore(r) + AisScore(r)) \div 3

\* ThreatDetectionEngine.run_full_scan(): the highest score decides.
ScanScore(r) == Max({GnssScore(r), ScadaScore(r), AisScore(r)})

ScanLevel(r) ==
    IF ScanScore(r) >= 750 THEN "CRITICAL"
    ELSE IF ScanScore(r) >= 450 THEN "HIGH" ELSE "NOMINAL"

-----------------------------------------------------------------------------
(***************************************************************************)
(* Dark vessels near an asset, satellites over a corridor, and an operator *)
(* whose queries look like reconnaissance.  Scores are in thousandths.     *)
(***************************************************************************)

\* DarkFleetDetector.correlate_contacts(): a contact is dark unless it reports an
\* identity that is on the air.
IsDark(x, onAir) == x.mmsi \notin onAir

VesselThreat(x, onAir) ==
    Min({1000, 200 + (IF IsDark(x, onAir) THEN 400 ELSE 0)
                   + (IF x.distance < 25 THEN 250 ELSE 0)
                   + (IF x.speed < 2 /\ x.distance < 50 THEN 150 ELSE 0)})

HighestThreat(contacts, onAir) == Max({0} \cup {VesselThreat(x, onAir) : x \in contacts})

\* SARSatelliteOverflightPredictor.evaluate_exposure(): the worst pass decides the
\* emission posture.
Exposure(pass) ==
    (Min({90, pass.elevation}) * (IF pass.sensor = "SAR_RADAR" THEN 1000 ELSE 800)) \div 90

PeakExposure(passes) == Max({0} \cup {Exposure(p) : p \in passes})

EmconLevel(passes) ==
    IF PeakExposure(passes) > 750 THEN "alpha_silent"
    ELSE IF PeakExposure(passes) > 400 THEN "bravo_low_probability" ELSE "charlie_active"

\* InsiderReconDetector.evaluate_query_telemetry().
InsiderScore(r) ==
    Min({1000, 100 + (IF r.queries > 500 THEN 350 ELSE 0)
                   + (IF r.boxes > 20 THEN 300 ELSE 0)
                   + (IF r.escalations > 0 THEN 400 ELSE 0)})

InsiderThreat(r) == InsiderScore(r) > 650

-----------------------------------------------------------------------------
(***************************************************************************)
(* Thaw under a northern railway, wildfire along a corridor, and the       *)
(* seabed around a cable.  Scores are in thousandths, lengths in km except *)
(* the thaw depth (cm).                                                    *)
(***************************************************************************)

\* The active layer thaws to the square root of the degree-days: 2kt/L is 13.44 cm^2 for
\* each degree-day with the soil the model assumes.
ThawDepth(degreeDays) == Max({d \in 0..250 : 100 * d * d <= 1344 * degreeDays})

\* PermafrostDegradationModel.evaluate_corridor_thaw(): peat keeps 45% of its own depth.
SettlementRisk(r) ==
    Min({1000, (Max({0, 100 * ThawDepth(r.degreeDays) - 45 * r.peat}) * 10) \div 120})

TrackSpeed(r) ==
    IF SettlementRisk(r) > 750 THEN 0 ELSE IF SettlementRisk(r) > 400 THEN 15 ELSE 45

\* WildfireCorridorRiskModel.evaluate_wildfire_risk().
ClosureProbability(r) ==
    LET fuel == (Min({40, r.fwi}) * 400) \div 40
        near == (Max({0, 30 - r.distance}) * 600) \div 30
    IN Min({1000, ((fuel + near) * (IF r.towards /\ r.wind > 20 THEN 13 ELSE 8)) \div 10})

FireLevel(r) ==
    IF ClosureProbability(r) > 700 THEN "CRITICAL"
    ELSE IF ClosureProbability(r) > 350 THEN "ELEVATED" ELSE "LOW"

\* Fault: the risk is scaled by the health of the sensor instead of its inverse.
SeabedRiskScaled(r) ==
    LET sound == (Max({0, Min({25, r.decibels - 5})}) * 550) \div 25
        anchor == (Max({0, 10 - r.distance}) * 450) \div 10
    IN Min({1000, ((sound + anchor) * r.health) \div 100})

\* SubseaAcousticMonitor.evaluate_subsea_risk(): a sensor in poor health raises the risk.
SeabedRisk(r) ==
    LET sound == (Max({0, Min({25, r.decibels - 5})}) * 550) \div 25
        anchor == (Max({0, 10 - r.distance}) * 450) \div 10
    IN Min({1000, ((sound + anchor) * 100) \div r.health})

SeabedStatus(r) ==
    IF SeabedRisk(r) > 650 THEN "HIGH_THREAT_ANOMALY"
    ELSE IF SeabedRisk(r) > 300 THEN "SUSPICIOUS_SEABED_ACTIVITY"
    ELSE "NOMINAL_SEABED_INTEGRITY"

-----------------------------------------------------------------------------
(***************************************************************************)
(* Trust in a dependency, over nine dimensions, and the anomaly score of a *)
(* telemetry stream.  Trust is in hundredths and the aggregate score in    *)
(* ten-thousandths.                                                        *)
(***************************************************************************)

Dimensions ==
    <<"physical_availability", "cyber_integrity", "legal_availability",
      "commercial_availability", "insurance_availability", "communications_integrity",
      "navigation_integrity", "operator_confidence", "information_confidence">>

Weight(i) == IF i <= 2 THEN 15 ELSE 10

\* DependencyTrust.aggregate_score(): trust is a sequence along Dimensions.
AggregateScore(trust, aggregation) ==
    LET all == DOMAIN Dimensions
    IN CASE aggregation = "minimum" -> 100 * Min({trust[i] : i \in all})
         [] aggregation = "mean" -> (100 * SumOf([i \in all |-> trust[i]])) \div 9
         [] aggregation = "weighted" -> SumOf([i \in all |-> trust[i] * Weight(i)])

ProvenanceMet(r) == r.sources >= r.required

\* evaluate_trust(): too few independent sources cost a fifth.
TrustScore(r) ==
    LET score == AggregateScore(r.trust, r.aggregation)
    IN IF ProvenanceMet(r) THEN score ELSE (score * 8) \div 10

\* lowest_dimensions(3): a stable sort keeps the first of equals.
LowestDimensions(trust) ==
    {i \in DOMAIN Dimensions :
        Cardinality({j \in DOMAIN Dimensions :
            trust[j] < trust[i] \/ (trust[j] = trust[i] /\ j < i)}) < 3}

\* The reasons of an assessment: the missing provenance and the low dimensions named.
TrustReasons(r) ==
    (IF ProvenanceMet(r) THEN {} ELSE {"insufficient independent sources"})
        \cup {Dimensions[i] : i \in {x \in LowestDimensions(r.trust) : r.trust[x] < 50}}

\* TelemetryAnomalyForecaster.analyze_stream(): 2.5 standard deviations or more from the
\* mean of a history of three readings at least, a flat history having almost none.
Anomalous(history, value) ==
    LET n == Len(history)
        sum == SumOf(history)
        squares == SumOf([i \in DOMAIN history |-> history[i] * history[i]])
        distance == n * value - sum
        spread == n * squares - sum * sum
    IN /\ n >= 3
       /\ IF spread = 0 THEN distance # 0 ELSE 4 * distance * distance >= 25 * spread
=============================================================================
