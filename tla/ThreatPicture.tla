----------------------------- MODULE ThreatPicture -----------------------------
(***************************************************************************)
(* The engines that rate raw readings, each asked about its own subject.   *)
(* A reading is kept by how severe each of its parts is: Scale gives the   *)
(* values of a part from the mildest to the worst, so that a step is one   *)
(* part getting worse, whatever the engine.                                *)
(***************************************************************************)
EXTENDS ThreatEngines, SupplyCertification

CONSTANTS
    Scale,         \* engine |-> part |-> its values, the mildest first
    Aggregations,  \* the ways trust is aggregated
    OnAir,         \* the identities that are transmitting
    History,       \* an earlier telemetry stream
    Horizons,      \* the days a wargame is evaluated at
    Absent,        \* a detection, contact or pass that is not there
    MaxWorsened    \* bound: the parts of a reading that leave their mildest value

\* Every part has a mildest value; trust is in hundredths, the readings of the scan are
\* numbers, and a shipment goes five kilometres at least: over less, every mode arrives
\* within the tenth of an hour that transit times are rounded to.
ASSUME ScaleAssumption ==
    /\ Aggregations \subseteq {"minimum", "mean", "weighted"}
    /\ \A e \in DOMAIN Scale : \A p \in DOMAIN Scale[e] : Len(Scale[e][p]) \in Nat \ {0}
    /\ \A e \in DOMAIN Scale :
          /\ e = "cuas" => DOMAIN Scale[e] = {"first", "second", "third"}
          /\ e = "scan" => /\ {"cno", "variance", "drift", "untrusted"} \subseteq DOMAIN Scale[e]
                           /\ \A p \in {"cno", "variance", "drift", "untrusted"} :
                                 \A i \in 1..Len(Scale[e][p]) : Scale[e][p][i] \in Int
          /\ e = "reroute" => /\ "km" \in DOMAIN Scale[e]
                              /\ \A i \in 1..Len(Scale[e].km) :
                                    Scale[e].km[i] \in Nat /\ Scale[e].km[i] >= 5
          /\ e \in Aggregations =>
               \A d \in 1..Len(Dimensions) :
                  /\ Dimensions[d] \in DOMAIN Scale[e]
                  /\ \A i \in 1..Len(Scale[e][Dimensions[d]]) :
                        Scale[e][Dimensions[d]][i] \in 0..100

\* The parts of the reading each engine rates.
TrustParts == {Dimensions[i] : i \in DOMAIN Dimensions} \cup {"sources"}
Items == {"first", "second", "third"}

PartsOf ==
    [minimum |-> TrustParts, mean |-> TrustParts, weighted |-> TrustParts,
     uav |-> {"margin", "denied", "flow", "battery", "stalling"},
     starlink |-> {"latency", "jitter", "rain", "obstruction", "loss"},
     scan |-> {"cno", "variance", "drift", "tampered", "commands", "untrusted", "jump", "elapsed"},
     cuas |-> Items, vessels |-> Items, overflight |-> Items, bom |-> Items \cup {"days"},
     insider |-> {"queries", "boxes", "escalations"},
     permafrost |-> {"degreeDays", "peat"},
     wildfire |-> {"fwi", "distance", "wind", "towards"},
     subsea |-> {"decibels", "distance", "health"},
     loss |-> {"days", "inventory", "vessels", "burn"},
     reroute |-> {"km"},
     wargame |-> {"day", "pressure", "cushion"},
     warloss |-> {"day", "pressure", "cushion"},
     failure |-> {"pressure", "cushion"},
     insurance |-> {"state", "alternate"}, display |-> {"state"},
     rating |-> {"paths", "stock", "lag", "shared", "confidence"},
     attestation |-> {"interfaces", "boot", "zeroize", "entropy"},
     pbmm |-> {"rbac", "tls", "cmk", "immutable", "region", "airgap"},
     airgap |-> {"outbound", "offline", "keys"},
     anomaly |-> {"value"}]

\* A number gets worse by rising, if it is not one that does by falling; a flag is bad when
\* it is set or when it is not.
BadFlag == {"denied", "stalling", "tampered", "towards", "shared"}
GoodFlag ==
    {"boot", "zeroize", "outbound", "offline", "keys", "alternate", "rbac", "cmk", "immutable",
     "airgap"}
FallingPart ==
    {"margin", "flow", "battery", "cno", "elapsed", "peat", "distance", "health", "cushion",
     "paths", "stock", "confidence", "entropy"} \cup TrustParts
Named == {"state", "tls", "region"}

\* The numbers that are never negative.
Amount ==
    {"variance", "drift", "degreeDays", "fwi", "days", "inventory", "vessels", "burn", "day",
     "pressure", "interfaces"}

\* How a corridor in a state scores with the readiness engine: of two states the one that
\* scores less is the worse.
Readiness == INSTANCE PostureVerdicts
StateScore(x) == Readiness!CorridorScore(x)

\* A detection, contact, pass or component, and one that is nowhere better.
IsItem(e, x) ==
    /\ e = "cuas" => x.distance \in Int /\ x.spread \in BOOLEAN /\ x.swarm \in BOOLEAN
    /\ e = "vessels" => x.distance \in Int /\ x.speed \in Int
    /\ e = "overflight" => x.elevation \in Nat
    /\ e = "bom" => /\ x.tier \in 1..3 /\ x.criticality \in Nat /\ x.lead \in Int
                    /\ x.buffer \in Int /\ x.single \in BOOLEAN /\ x.substitutable \in BOOLEAN

NoBetterItem(e, x, y) ==
    /\ e = "cuas" => y.distance <= x.distance /\ (x.spread => y.spread) /\ (x.swarm => y.swarm)
    /\ e = "vessels" => /\ y.distance <= x.distance /\ y.speed <= x.speed
                        /\ IsDark(x, OnAir) => IsDark(y, OnAir)
    /\ e = "overflight" => /\ x.elevation <= y.elevation
                           /\ x.sensor = "SAR_RADAR" => y.sensor = "SAR_RADAR"
    /\ e = "bom" => /\ y.tier = x.tier /\ x.criticality <= y.criticality /\ x.lead <= y.lead
                    /\ y.buffer <= x.buffer /\ (x.single => y.single)
                    /\ y.substitutable => x.substitutable

\* The value y of a part is no better than x.
NoBetter(e, p, x, y) ==
    /\ p \in BadFlag => x \in BOOLEAN /\ y \in BOOLEAN /\ (x => y)
    /\ p \in GoodFlag => x \in BOOLEAN /\ y \in BOOLEAN /\ (y => x)
    /\ p \in FallingPart => x \in Int /\ y \in Int /\ y <= x
    /\ p \in Items => /\ x # Absent => IsItem(e, x) /\ y # Absent /\ NoBetterItem(e, x, y)
                      /\ y # Absent => IsItem(e, y)
                      /\ e = "bom" => x # Absent
    /\ p = "state" => StateScore(y) <= StateScore(x)
    /\ p = "tls" => (y \in {"1.3", "1.2"} => x \in {"1.3", "1.2"})
    /\ p = "region" => (y = "canada" => x = "canada")
    /\ p \notin BadFlag \cup GoodFlag \cup FallingPart \cup Items \cup Named =>
          x \in Int /\ y \in Int /\ x <= y

\* The values of a part run from the mildest to the worst, those of one score in any order.
\* A sensor has some health left, the cushion of a wargame is at most the whole, and an anomaly lies above the mean of
\* the history.
ASSUME GradeAssumption ==
    /\ Horizons \subseteq Nat /\ History \in Seq(Nat)
    /\ DOMAIN Scale \cap {"minimum", "mean", "weighted"} \subseteq Aggregations
    /\ DOMAIN Scale \subseteq DOMAIN PartsOf
    /\ \A e \in DOMAIN Scale :
        /\ DOMAIN Scale[e] = PartsOf[e]
        /\ \A p \in PartsOf[e] : \A i, j \in 1..Len(Scale[e][p]) :
              /\ i <= j => NoBetter(e, p, Scale[e][p][i], Scale[e][p][j])
              /\ p \in Amount => Scale[e][p][i] >= 0
              /\ p = "health" => Scale[e][p][i] > 0
              /\ p = "cushion" => Scale[e][p][i] <= 100
              /\ p = "km" => Scale[e][p][i] >= 5
              /\ p = "value" => Len(History) * Scale[e][p][i] >= SumOf(History)

VARIABLES
    engine,    \* the engine that is asked
    severity   \* part |-> its position in the scale

pictureVars == <<engine, severity>>

\* The reading at a severity, as the engine receives it.
Reading(e, at) == [p \in DOMAIN Scale[e] |-> Scale[e][p][at[p]]]

\* The parts of a reading that are there: a detection, contact or pass may be absent.
Present(r) == {r[p] : p \in {q \in DOMAIN r : r[q] # Absent}}
Once(x) == IF x = Absent THEN << >> ELSE <<x>>
Listed(r) == Once(r.first) \o Once(r.second) \o Once(r.third)

TrustReading(r, aggregation) ==
    [trust |-> [i \in DOMAIN Dimensions |-> r[Dimensions[i]]],
     aggregation |-> aggregation, sources |-> r.sources, required |-> 2]

\* The threat an engine sees in a reading.
Threat(e, r) ==
    CASE e = "uav" -> UavRisk(r)
      [] e = "starlink" -> ChannelThreat(r)
      [] e = "cuas" -> AirspaceThreat(Listed(r))
      [] e = "scan" -> ScanScore(r)
      [] e = "vessels" -> HighestThreat(Present(r), OnAir)
      [] e = "overflight" -> PeakExposure(Present(r))
      [] e = "insider" -> InsiderScore(r)
      [] e = "permafrost" -> SettlementRisk(r)
      [] e = "wildfire" -> ClosureProbability(r)
      [] e = "subsea" -> SeabedRisk(r)
      [] e \in Aggregations -> 10000 - TrustScore(TrustReading(r, e))
      [] e = "bom" -> BomRisk(Listed(r), r.days)
      [] e = "loss" -> TotalLoss(r.days, r.inventory, r.vessels, 25, r.burn)
      [] e = "reroute" -> Transit(RecommendedMode(r.km, TRUE, FALSE), r.km)
      [] e = "wargame" -> 180000 - WarReadiness(r.day, r.pressure, r.cushion)
      [] e = "warloss" -> WarLoss(r.day, r.pressure, r.cushion)
      [] e = "failure" -> 181 - FailureDay(Horizons, r.pressure, r.cushion, 181)
      [] e = "insurance" -> MitigatedRate(r.state, r.alternate)
      [] e = "rating" -> 10000 - Composite(r)
      [] e = "attestation" -> ScifShortfall(r)
      [] e = "pbmm" -> Cardinality(Unsatisfied(r))
      [] e = "airgap" -> Cardinality(AirGapOpen(r))
      [] e = "display" -> IF TrackIdentity(r.state) = "hostile" THEN 2
                           ELSE IF TrackIdentity(r.state) = "unknown" THEN 1 ELSE 0
      [] e = "anomaly" -> IF Anomalous(History, r.value) THEN 1 ELSE 0

\* The verdicts an engine can give, the mildest first.
Verdicts(e) ==
    CASE e = "uav" -> <<"NOMINAL", "DEGRADED", "CRITICAL_RETURN_TO_BASE">>
      [] e = "starlink" ->
            <<"OPTIMAL", "DEGRADED_LATENCY", "RAIN_FADE_ATTENUATED", "OFFLINE">>
      [] e = "overflight" -> <<"charlie_active", "bravo_low_probability", "alpha_silent">>
      [] e = "wildfire" -> <<"LOW", "ELEVATED", "CRITICAL">>
      [] e = "subsea" -> <<"NOMINAL_SEABED_INTEGRITY", "SUSPICIOUS_SEABED_ACTIVITY",
                           "HIGH_THREAT_ANOMALY">>
      [] e = "permafrost" -> <<45, 15, 0>>
      [] e = "insider" -> <<FALSE, TRUE>>
      [] e = "bom" -> <<{}, {"dual-source"}, {"stockpile"}, {"dual-source", "stockpile"}>>
      [] e = "wargame" -> <<"OPERATIONAL_STABLE", "SEVERE_DEGRADATION", "FUNCTIONAL_COLLAPSE">>
      [] e = "insurance" -> <<"PREFERRED_RISK", "STANDARD_RISK", "UNINSURABLE">>
      [] e = "rating" -> <<"AAA", "AA", "A", "BBB", "BB", "B", "CCC", "D">>
      [] e \in {"attestation", "pbmm", "airgap"} -> <<TRUE, FALSE>>
      [] e = "display" -> <<"friend", "unknown", "hostile">>
      [] OTHER -> <<"NOMINAL", "LOW", "MEDIUM", "HIGH", "CRITICAL">>

Verdict(e, r) ==
    CASE e = "uav" -> UavStatus(r)
      [] e = "starlink" -> ChannelState(r)
      [] e = "cuas" -> AirspaceLevel(Listed(r))
      [] e = "scan" -> ScanLevel(r)
      [] e = "overflight" -> EmconLevel(Present(r))
      [] e = "insider" -> InsiderThreat(r)
      [] e = "permafrost" -> TrackSpeed(r)
      [] e = "wildfire" -> FireLevel(r)
      [] e = "subsea" -> SeabedStatus(r)
      [] e = "bom" -> Recommended(Listed(r), r.days)
      [] e = "wargame" -> WarState(r.day, r.pressure, r.cushion)
      [] e = "insurance" -> UnderwritingGrade(r.state, r.alternate)
      [] e = "rating" -> LetterGrade(r)
      [] e = "attestation" -> ScifCertified(r)
      [] e = "pbmm" -> PbmmCompliant(r)
      [] e = "airgap" -> AirGapCompliant(r)
      [] e = "display" -> CotType(r.state)
      [] OTHER -> "NOMINAL"

Rank(e, v) == CHOOSE i \in DOMAIN Verdicts(e) : Verdicts(e)[i] = v

PictureInit ==
    /\ engine \in DOMAIN Scale
    /\ severity = [p \in DOMAIN Scale[engine] |-> 1]

\* One part of the reading gets worse, by however much.
Worsen(p) ==
    /\ Cardinality({q \in DOMAIN severity : severity[q] > 1} \cup {p}) <= MaxWorsened
    /\ \E k \in 1..Len(Scale[engine][p]) :
          severity[p] < k /\ severity' = [severity EXCEPT ![p] = k]
    /\ UNCHANGED engine

-----------------------------------------------------------------------------

\* The parts whose worsening may lower the mean of a drone's risk parts.
Averaged(p) == engine = "uav" /\ p \in {"battery", "stalling"}

\* The state of a corridor has become another one that scores the same.
NoWorse(p) ==
    p = "state" /\ StateScore(Scale[engine][p][severity'[p]]) = StateScore(Scale[engine][p][severity[p]])

\* Underwriting does not name the functional closure, and prices it like an open corridor.
Unpriced(p) ==
    engine = "insurance" /\ p = "state" /\ Scale[engine][p][severity'[p]] = "functionally_closed"

\* The Cursor on Target event does not name the loss of carriers or communications, and
\* shows it like an open corridor.
Unmarked(p) ==
    /\ engine = "display" /\ p = "state"
    /\ Scale[engine][p][severity'[p]] \in
           {"open_but_no_carrier_capacity", "open_but_communications_degraded"}

\* The part has become worse, and neither the threat nor the verdict better.
NeverMilder(p) ==
    (engine' = engine /\ severity'[p] > severity[p] /\ ~Averaged(p) /\ ~NoWorse(p)) =>
        LET before == Reading(engine, severity)
            after == Reading(engine, severity')
        IN /\ Unpriced(p) \/ Threat(engine, after) >= Threat(engine, before)
           /\ Unmarked(p) \/ Rank(engine, Verdict(engine, after)) >= Rank(engine, Verdict(engine, before))

\* A reading that gets worse in one part never lowers the threat an engine sees nor the
\* verdict it gives, for every engine, whatever else is wrong; of two states of a corridor
\* the worse one is what the readiness engine scores less.  Left out are a drone's battery
\* and attitude, which join an average only once they are bad, the premium of a corridor
\* that becomes functionally closed, and the event of one that loses carriers or
\* communications, which show these like an open one (the engines of tactical.py,
\* threat.py, counter_intel.py, environmental.py, trust.py, supply_chain.py, wargame.py,
\* insurance.py, rating.py, attestation.py, sovereign.py and allied_defense.py).
WorseningRaisesThreat == [][\A p \in DOMAIN severity : NeverMilder(p)]_pictureVars

\* A part that is critical on its own is never averaged away in the verdict over the parts
\* (run_full_scan), and a detection is never rated below the worst single one
\* (analyze_events).
WorstPartDecides ==
    LET r == Reading(engine, severity)
    IN /\ (engine = "scan" /\ "CRITICAL" \in {GnssLevel(r), ScadaLevel(r), AisLevel(r)}) =>
             ScanLevel(r) \in {"HIGH", "CRITICAL"}
       /\ engine = "cuas" =>
             \A x \in Present(r) : AirspaceThreat(Listed(r)) >= AirspaceThreat(<<x>>)

\* A dependency whose trust is below one half is never left without a reason, although
\* only its three weakest dimensions are looked at (evaluate_trust).
TrustExplained ==
    engine \in Aggregations =>
        LET r == TrustReading(Reading(engine, severity), engine)
        IN (TrustScore(r) < 5000 \/ ~ProvenanceMet(r)) => TrustReasons(r) # {}

\* A corridor one display shows as hostile is friendly on none (allied_defense.py), and a
\* time-critical shipment goes by the fastest mode although transit times are compared
\* after rounding (solve_rerouting).
DisplaysAgree ==
    LET r == Reading(engine, severity)
    IN /\ (engine = "display" /\ "hostile" \in {CotType(r.state), TrackIdentity(r.state)}) =>
             "friend" \notin {CotType(r.state), CotJson(r.state), TrackIdentity(r.state)}
       /\ engine = "reroute" =>
             \A i \in DOMAIN Modes : Speed(RecommendedMode(r.km, TRUE, FALSE)) >= Speed(Modes[i])

\* What an engine reports is borne out by its parts.
VerdictsJustified == WorstPartDecides /\ TrustExplained /\ DisplaysAgree
=============================================================================
