---------------------------- MODULE FusionDecision ----------------------------
(***************************************************************************)
(* The assessment of a corridor from its observations: which of them       *)
(* count, what risk each factor carries, how age and gaps are charged, and *)
(* the state the corridor is given; and the attribution of the risk to the *)
(* factors.                                                                *)
(*                                                                         *)
(* Time is in quarter hours, values and confidences are in hundredths,     *)
(* risks and effective confidences in ten-thousandths.                     *)
(***************************************************************************)
EXTENDS ObservationSources, Sequences

Whole == 10000

REQUIRED_METRICS ==
    {"sea_ice_concentration", "wind_severity", "port_availability", "satcom_availability",
     "cyber_control_health", "data_integrity", "insurance_availability",
     "escort_capacity", "inventory_days"}

CONTEXT_ONLY_METRICS ==
    {"sea_ice_extent_anomaly", "earth_observation_coverage",
     "satellite_geometry_density", "port_geometry"}

METRIC_TO_FACTOR ==
    [sea_ice_concentration |-> "ice", wind_severity |-> "weather",
     wave_severity |-> "weather", ais_traffic_index |-> "traffic",
     port_capacity |-> "port", port_availability |-> "port",
     satcom_availability |-> "communications", cyber_control_health |-> "cyber",
     data_integrity |-> "data_trust", insurance_availability |-> "commercial",
     geopolitical_pressure |-> "geopolitical", escort_capacity |-> "escort",
     inventory_days |-> "inventory", trade_dependency |-> "commercial"]

Hour == 4
Day == 24 * Hour

MAX_AGE ==
    [sea_ice_concentration |-> Day, sea_ice_extent_anomaly |-> 14 * Day,
     earth_observation_coverage |-> 7 * Day, wind_severity |-> 12 * Hour,
     wave_severity |-> 12 * Hour, ais_traffic_index |-> 30 * Day,
     port_capacity |-> 2 * Hour, port_availability |-> 2 * Hour,
     satcom_availability |-> Hour, satellite_geometry_density |-> 7 * Day,
     cyber_control_health |-> Hour, data_integrity |-> Hour,
     insurance_availability |-> Day, geopolitical_pressure |-> 7 * Day,
     escort_capacity |-> 6 * Hour, inventory_days |-> Day,
     trade_dependency |-> 90 * Day, port_geometry |-> 365 * Day]

FACTOR_WEIGHTS ==
    [ice |-> 14, weather |-> 8, traffic |-> 6, port |-> 12, communications |-> 11,
     cyber |-> 12, data_trust |-> 10, commercial |-> 9, geopolitical |-> 7,
     escort |-> 6, inventory |-> 5]

\* metric_risk(): ice is read as a percentage above one and as a ratio up to one,
\* whatever its unit; an inventory of 45 days carries no risk.
MetricRisk(o) ==
    LET percent == CASE o.metric = "sea_ice_concentration" ->
                            (IF o.value > 100 THEN o.value ELSE 100 * o.value)
                     [] o.metric \in {"wind_severity", "wave_severity",
                                      "geopolitical_pressure", "trade_dependency"} ->
                            100 * o.value
                     [] o.metric = "inventory_days" -> Whole - (o.value * 100) \div 45
                     [] OTHER -> Whole - 100 * o.value
    IN Max({0, Min({Whole, percent})})

\* exp(-ln 2 * age / half-life) at quarters of a half-life: an age is rounded down to one.
Decay == <<10000, 8409, 7071, 5946, 5000, 4204, 3536, 2973, 2500>>

\* _freshness(): the half-life is half the maximum age, a quarter of an hour at least.
Freshness(o, now) ==
    LET halfLife == Max({1, MAX_AGE[o.metric] \div 2})
    IN Decay[1 + Min({8, (4 * (now - o.at)) \div halfLife})]

\* An observation counts while it is neither from the future, nor expired, nor older than
\* its metric allows.
Current(o, now) ==
    /\ o.at <= now
    /\ o.until >= now
    /\ now - o.at <= MAX_AGE[o.metric]

Scored(observations, now) ==
    {o \in observations : Current(o, now) /\ o.metric \notin CONTEXT_ONLY_METRICS}

FactorOf(o) == METRIC_TO_FACTOR[o.metric]

\* FusionEngine.assess() raises when an observation is inadmissible, even one of many,
\* and when none is left.
Accepted(observations, now) ==
    /\ \A o \in observations : Admissible(o)
    /\ \E o \in observations : Current(o, now)

Effective(o, now) == (o.confidence * Freshness(o, now)) \div 100

\* The risk of a factor: the mean of its readings, weighted by their effective confidence.
FactorRisk(items, now) ==
    LET weight == [o \in items |-> Effective(o, now)]
    IN IF SumOf(weight) = 0 THEN Whole \div 2
       ELSE SumOf([o \in items |-> MetricRisk(o) * weight[o]]) \div SumOf(weight)

FactorConfidence(items, now) ==
    Min({Whole, SumOf([o \in items |-> Effective(o, now)]) \div Cardinality(items)})

\* The mean of the risks of the factors by their weights.
WeightedMean(risks) ==
    SumOf([f \in DOMAIN risks |-> risks[f] * FACTOR_WEIGHTS[f]])
        \div SumOf([f \in DOMAIN risks |-> FACTOR_WEIGHTS[f]])

\* Fault: what is wrong with an open corridor is looked at before the risk.
ClassifyRiskLast(risk, items) ==
    LET values(m) == {o.value : o \in {x \in items : x.metric = m}}
        atMost(m, v) == values(m) # {} /\ Max(values(m)) <= v
    IN IF atMost("port_availability", 1) THEN "physically_closed"
       ELSE IF atMost("satcom_availability", 20) THEN "open_but_communications_degraded"
       ELSE IF risk >= 7200 THEN "functionally_closed"
       ELSE IF risk >= 3800 THEN "open_degraded" ELSE "open"

\* _classify(): a shut port first, then the risk, then what is wrong with an open corridor.
Classify(risk, items) ==
    LET values(m) == {o.value : o \in {x \in items : x.metric = m}}
        atMost(m, v) == values(m) # {} /\ Max(values(m)) <= v
    IN IF atMost("port_availability", 1) THEN "physically_closed"
       ELSE IF risk >= 7200 THEN "functionally_closed"
       ELSE IF atMost("insurance_availability", 10) THEN "open_but_uninsurable"
       ELSE IF atMost("satcom_availability", 20) THEN "open_but_communications_degraded"
       ELSE IF atMost("port_capacity", 15) THEN "open_capacity_constrained"
       ELSE IF risk >= 3800 THEN "open_degraded" ELSE "open"

\* FusionEngine.assess() of accepted observations.
Assess(observations, now) ==
    LET items == Scored(observations, now)
        factors == {FactorOf(o) : o \in items}
        of(f) == {o \in items : FactorOf(o) = f}
        risks == [f \in factors |-> FactorRisk(of(f), now)]
        base == IF factors = {} THEN Whole \div 2 ELSE WeightedMean(risks)
        mean == IF factors = {} THEN 0
                ELSE SumOf([f \in factors |-> FactorConfidence(of(f), now)])
                       \div Cardinality(factors)
        missing == REQUIRED_METRICS \ {o.metric : o \in items}
        gap == Min({2500, 250 * Cardinality(missing)})
        risk == Min({Whole, base + gap + (Whole - mean) \div 10})
    IN [risk |-> risk, base |-> base, confidence |-> Max({0, mean - gap}),
        state |-> Classify(risk, items), factors |-> risks, missing |-> missing]

\* XAIRiskExplainer.explain(): each factor's share of the sum of the risks, in
\* ten-thousandths, and the factor named as the driver (the first of the highest).
Attribution(a) ==
    LET mass == SumOf(a.factors)
        highest == {f \in DOMAIN a.factors :
                        \A g \in DOMAIN a.factors : a.factors[g] <= a.factors[f]}
    IN [share |-> [f \in DOMAIN a.factors |->
                      IF mass = 0 THEN 0 ELSE (a.factors[f] * Whole) \div mass],
        drivers |-> IF highest = {} THEN {"weather"} ELSE highest,
        raising |-> {f \in DOMAIN a.factors : a.factors[f] >= Whole \div 2}]

-----------------------------------------------------------------------------
(***************************************************************************)
(* The compiler that chooses mitigations for an assessed corridor: every   *)
(* subset of the available actions is evaluated and the best feasible one  *)
(* is kept.                                                                *)
(*                                                                         *)
(* An action is [id, cost, gain, reductions, needs, excludes, approval];   *)
(* an objective is [target, budget, approval].  Risks and continuity are   *)
(* in ten-thousandths, gains and reductions in hundredths.                 *)
(***************************************************************************)

Cost(S) == SumOf([x \in S |-> x.cost])

\* _evaluate() refuses a set that is over budget, lacks a prerequisite or holds two
\* incompatible actions.
Feasible(S, objective) ==
    /\ Cost(S) <= objective.budget
    /\ \A x \in S : /\ x.needs \subseteq {y.id : y \in S}
                    /\ x.excludes \cap {y.id : y \in S} = {}

Reduced(risk, percent) == (risk * (100 - Min({95, percent}))) \div 100

\* What is left of a risk that several actions reduce, each by its percentage.
Remaining(risk, percents) == FoldSet(LAMBDA x, r : Reduced(r, percents[x]), risk, DOMAIN percents)

\* _project_risk(): reductions act on the factors that were assessed, what the assessment
\* charged beyond its factors stays, and an action without reductions scales the result.
ProjectRisk(a, S) ==
    LET on(f) == [x \in {y \in S : f \in DOMAIN y.reductions} |-> x.reductions[f]]
        left == [f \in DOMAIN a.factors |-> Remaining(a.factors[f], on(f))]
        penalty == Max({0, a.risk - WeightedMean(a.factors)})
        projected == IF DOMAIN a.factors = {} THEN a.risk
                     ELSE Min({Whole, WeightedMean(left) + penalty})
    IN Remaining(projected, [x \in {y \in S : DOMAIN y.reductions = {}} |-> x.gain])

\* A candidate of the compiler: a set of actions and what it costs and leaves.
Candidate(a, S) ==
    LET risk == ProjectRisk(a, S)
    IN [actions |-> S, cost |-> Cost(S), risk |-> risk, continuity |-> Whole - risk]

\* The tie-break compares the ids of two sets as sorted tuples: the set with the smallest
\* id in which they differ comes first, unless it has the other as its prefix.
Before(S, T) ==
    LET ids(U) == {x.id : x \in U}
        differ == (ids(S) \ ids(T)) \cup (ids(T) \ ids(S))
        first == Min(differ)
    IN /\ differ # {}
       /\ IF first \in ids(S) THEN \E i \in ids(T) : i > first
          ELSE ~ \E i \in ids(S) : i > first

\* Fault: cost decides also when neither plan meets the target.
BetterByCost(target, c, d) ==
    LET meets(x) == x.continuity >= target
    IN IF meets(c) # meets(d) THEN meets(c)
       ELSE c.cost < d.cost \/ (c.cost = d.cost /\ Before(c.actions, d.actions))

\* _better(): meeting the target first, then the cheaper plan, or without the target the
\* one that keeps more continuity.
Better(target, c, d) ==
    LET meets(x) == x.continuity >= target
        gain == c.continuity - d.continuity
        saving == d.cost - c.cost
        tie == Before(c.actions, d.actions)
    IN IF meets(c) # meets(d) THEN meets(c)
       ELSE IF meets(c) THEN saving > 0 \/ (saving = 0 /\ (gain > 0 \/ (gain = 0 /\ tie)))
       ELSE gain > 0 \/ (gain = 0 /\ (saving > 0 \/ (saving = 0 /\ tie)))

\* compile(): the incumbent is kept until a candidate is better.  A budget is positive, so
\* doing nothing is always feasible and a plan is found.
Compile(a, objective, actions) ==
    LET candidates == {Candidate(a, S) : S \in {U \in SUBSET actions : Feasible(U, objective)}}
        best == CHOOSE c \in candidates : \A d \in candidates : ~Better(objective.target, d, c)
    IN [selected |-> best.actions, cost |-> best.cost, risk |-> best.risk,
        continuity |-> best.continuity, met |-> best.continuity >= objective.target,
        approval |-> objective.approval \/ \E x \in best.actions : x.approval]
=============================================================================
