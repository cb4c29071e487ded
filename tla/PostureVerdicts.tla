--------------------------- MODULE PostureVerdicts ----------------------------
(***************************************************************************)
(* The engines that judge a corridor: the closure of its layers, then what *)
(* was declared against what was observed, each with code of its own:      *)
(* reconciliation and remediation, policy, assurance and readiness.        *)
(***************************************************************************)
EXTENDS Naturals, FiniteSets, FiniteSetsExt

-----------------------------------------------------------------------------
(***************************************************************************)
(* The functional closure engine, src/continuityos/closure.py.  It judges  *)
(* a corridor layer by layer (physical, operational, commercial, trust,    *)
(* recovery) and derives one effective state.  Scores are in hundredths;   *)
(* reason codes are a set, the engine's list without its order.            *)
(***************************************************************************)

Score == 0..100

\* The factors the engine reads: flags that are good or bad when TRUE, scores, and the
\* number of independent sources.
GoodFlags == {"physically_accessible", "navigation_available", "communications_available",
              "escort_available", "weather_safe", "insurance_available",
              "carrier_capacity_available"}
BadFlags == {"escort_dependent", "recovery_backlog_active"}
Ratios == {"physical_capacity_ratio", "navigation_trust", "communications_trust",
           "insurance_coverage", "carrier_capacity_ratio", "commercial_viability",
           "data_integrity", "observation_confidence"}
Factors == GoodFlags \cup BadFlags \cup Ratios \cup {"source_diversity"}

FactorType(f) ==
    IF f \in GoodFlags \cup BadFlags THEN BOOLEAN ELSE IF f \in Ratios THEN Score ELSE Nat

\* i is a ClosureInput.
ClosureInput(i) ==
    /\ i = [f \in Factors |-> i[f]]
    /\ \A f \in Factors : i[f] \in FactorType(f)

LayerState == {"available", "degraded", "unavailable"}

\* CorridorState: what the layers amount to.
CorridorState == {
    "open", "open_degraded", "open_capacity_constrained", "open_but_uninsurable",
    "open_but_no_carrier_capacity", "open_but_navigation_untrusted",
    "open_but_communications_degraded", "open_but_service_dependent",
    "recovery_backlogged", "functionally_closed", "physically_closed", "unknown"}

Layer(state, confidence, reasons) ==
    [state |-> state, confidence |-> confidence, reasons |-> reasons]

When(condition, reason) == IF condition THEN {reason} ELSE {}

-----------------------------------------------------------------------------
(* The layers.                                                             *)

AssessPhysical(i) ==
    IF ~i.physically_accessible
    THEN Layer("unavailable", 95, {"physically_inaccessible"})
    ELSE IF i.physical_capacity_ratio <= 20
    THEN Layer("degraded", 85, {"physical_capacity_severely_constrained"})
    ELSE Layer("available", 90, {})

AssessOperational(i) ==
    LET reasons ==
            When(~i.navigation_available, "navigation_unavailable")
            \cup When(i.navigation_trust < 50, "navigation_untrusted")
            \cup When(~i.communications_available, "communications_unavailable")
            \cup When(i.communications_trust < 50, "communications_degraded")
            \cup When(~i.escort_available, "escort_unavailable")
            \cup When(i.escort_dependent /\ ~i.escort_available, "service_dependent")
            \cup When(~i.weather_safe, "weather_unsafe")
    IN IF ~i.navigation_available \/ ~i.communications_available
       THEN Layer("unavailable", 90, reasons)
       ELSE IF reasons # {} THEN Layer("degraded", 80, reasons)
       ELSE Layer("available", 90, {})

\* Fault: uncovered, but not uninsurable, unless the insurance is gone too.
AssessCommercialLoose(i) ==
    LET uninsurable == ~i.insurance_available /\ i.insurance_coverage <= 10
        carrierless == ~i.carrier_capacity_available \/ i.carrier_capacity_ratio <= 10
        reasons ==
            When(uninsurable, "uninsurable")
            \cup When(carrierless, "no_carrier_capacity")
            \cup When(i.commercial_viability <= 20, "commercially_unviable")
    IN IF uninsurable /\ carrierless THEN Layer("unavailable", 85, reasons)
       ELSE IF reasons # {} THEN Layer("degraded", 80, reasons)
       ELSE Layer("available", 85, {})

AssessCommercial(i) ==
    LET uninsurable == ~i.insurance_available \/ i.insurance_coverage <= 10
        carrierless == ~i.carrier_capacity_available \/ i.carrier_capacity_ratio <= 10
        reasons ==
            When(uninsurable, "uninsurable")
            \cup When(carrierless, "no_carrier_capacity")
            \cup When(i.commercial_viability <= 20, "commercially_unviable")
    IN IF uninsurable /\ carrierless THEN Layer("unavailable", 85, reasons)
       ELSE IF reasons # {} THEN Layer("degraded", 80, reasons)
       ELSE Layer("available", 85, {})

AssessTrust(i) ==
    LET reasons ==
            When(i.data_integrity < 50, "data_integrity_low")
            \cup When(i.observation_confidence < 50, "observation_confidence_low")
            \cup When(i.source_diversity < 2, "insufficient_source_diversity")
    IN IF i.data_integrity < 30 \/ i.observation_confidence < 30
       THEN Layer("unavailable", 70, reasons)
       ELSE IF reasons # {} THEN Layer("degraded", 75, reasons)
       ELSE Layer("available", 85, {})

AssessRecovery(i) ==
    IF i.recovery_backlog_active THEN Layer("degraded", 85, {"recovery_backlogged"})
    ELSE Layer("available", 95, {})

-----------------------------------------------------------------------------

\* Fault: the dependence on an escort is tested before the commercial causes.
EffectiveStateReordered(p, o, c, t, r) ==
    IF p.state = "unavailable" THEN "physically_closed"
    ELSE IF o.state = "unavailable" \/ (c.state = "unavailable" /\ t.state = "unavailable")
         THEN "functionally_closed"
    ELSE IF "service_dependent" \in o.reasons THEN "open_but_service_dependent"
    ELSE IF "uninsurable" \in c.reasons THEN "open_but_uninsurable"
    ELSE IF "no_carrier_capacity" \in c.reasons THEN "open_but_no_carrier_capacity"
    ELSE IF "navigation_untrusted" \in o.reasons THEN "open_but_navigation_untrusted"
    ELSE IF "communications_degraded" \in o.reasons THEN "open_but_communications_degraded"
    ELSE IF "recovery_backlogged" \in r.reasons THEN "recovery_backlogged"
    ELSE IF p.state = "degraded" THEN "open_capacity_constrained"
    ELSE IF \E l \in {o, c, t, r} : l.state = "degraded" THEN "open_degraded"
    ELSE "open"

\* _derive_effective_state: the first of these that applies.  No layer of
\* assess_closure is ever "unknown", so its last but one test never succeeds.
EffectiveState(p, o, c, t, r) ==
    IF p.state = "unavailable" THEN "physically_closed"
    ELSE IF o.state = "unavailable" \/ (c.state = "unavailable" /\ t.state = "unavailable")
         THEN "functionally_closed"
    ELSE IF "uninsurable" \in c.reasons THEN "open_but_uninsurable"
    ELSE IF "no_carrier_capacity" \in c.reasons THEN "open_but_no_carrier_capacity"
    ELSE IF "navigation_untrusted" \in o.reasons THEN "open_but_navigation_untrusted"
    ELSE IF "communications_degraded" \in o.reasons THEN "open_but_communications_degraded"
    ELSE IF "service_dependent" \in o.reasons THEN "open_but_service_dependent"
    ELSE IF "recovery_backlogged" \in r.reasons THEN "recovery_backlogged"
    ELSE IF p.state = "degraded" THEN "open_capacity_constrained"
    ELSE IF \E l \in {o, c, t, r} : l.state = "degraded" THEN "open_degraded"
    ELSE "open"

\* assess_closure: the five layers, the state they amount to, every reason, and
\* the confidence of the least certain layer.
AssessClosure(i) ==
    LET p == AssessPhysical(i)
        o == AssessOperational(i)
        c == AssessCommercial(i)
        t == AssessTrust(i)
        r == AssessRecovery(i)
        certainties == {l.confidence : l \in {p, o, c, t, r}}
    IN [physical |-> p, operational |-> o, commercial |-> c, trust |-> t, recovery |-> r,
        effective |-> EffectiveState(p, o, c, t, r),
        reasons |-> p.reasons \cup o.reasons \cup c.reasons \cup t.reasons \cup r.reasons,
        confidence |-> CHOOSE x \in certainties : \A y \in certainties : x <= y]

\* to_composite_state: the assessment in the vocabulary of EffectiveCorridorState.
\* A layer that is both untrusted and unavailable is reported as degraded.
CompositeState(a) ==
    LET has(reason, layer) == reason \in layer.reasons IN
    [physical |-> CASE a.physical.state = "unavailable" -> "physically_closed"
                    [] a.physical.state = "degraded"    -> "capacity_constrained"
                    [] OTHER                            -> "open",
     navigation |-> IF has("navigation_untrusted", a.operational) THEN "degraded"
                    ELSE IF has("navigation_unavailable", a.operational) THEN "unavailable"
                    ELSE "healthy",
     communications |-> IF has("communications_degraded", a.operational) THEN "degraded"
                        ELSE IF has("communications_unavailable", a.operational)
                             THEN "unavailable"
                        ELSE "healthy",
     escort |-> IF has("service_dependent", a.operational) THEN "dependent" ELSE "available",
     carrier |-> IF has("no_carrier_capacity", a.commercial) THEN "unavailable"
                 ELSE "available",
     insurance |-> IF has("uninsurable", a.commercial) THEN "uninsurable" ELSE "available",
     navigation_integrity |-> IF has("navigation_untrusted", a.operational) THEN 30 ELSE 100,
     communications_integrity |-> IF has("communications_degraded", a.operational) THEN 40
                                  ELSE 100,
     cyber_integrity |-> a.trust.confidence,
     phase |-> IF has("recovery_backlogged", a.recovery) THEN "backlog_active" ELSE "normal",
     effective |-> a.effective]

-----------------------------------------------------------------------------
(***************************************************************************)
(* Declared against observed resilience: the reconciliation engine         *)
(* (src/continuityos/reconcile.py) and the advisory remediation plan made  *)
(* from its result (remediation.py).  What is declared and what is         *)
(* observed are functions from metrics to numbers; a metric outside the    *)
(* domain is one whose field is None.  Ratios are in hundredths.           *)
(***************************************************************************)

Status == {"compliant", "drift", "degraded", "fail", "unknown"}

\* Fault: the requirement itself is not enough.
CompareStrict(desired, observed) ==
    IF observed > desired THEN "compliant"
    ELSE IF observed * 100 >= desired * 80 THEN "drift"
    ELSE IF observed * 100 >= desired * 50 THEN "degraded"
    ELSE "fail"

\* _compare_int and _compare_float.  They are called with a desired value that
\* exceeds the observed one where the ratio matters, so it is never zero there.
Compare(desired, observed) ==
    IF observed >= desired THEN "compliant"
    ELSE IF observed * 100 >= desired * 80 THEN "drift"
    ELSE IF observed * 100 >= desired * 50 THEN "degraded"
    ELSE "fail"

\* Every declared metric is compared, except minimum_trust_score: reconcile()
\* never reads it.
Checked(desired) == DOMAIN desired \ {"trust"}

\* The checks of one reconciliation.
Checks(desired, observed) ==
    [m \in Checked(desired) |->
        IF m \in DOMAIN observed THEN Compare(desired[m], observed[m]) ELSE "unknown"]

\* The worst status present; "unknown" counts as better than "drift".
OverallStatus(checks) ==
    LET present == {checks[m] : m \in DOMAIN checks} IN
    IF "fail" \in present THEN "fail"
    ELSE IF "degraded" \in present THEN "degraded"
    ELSE IF "drift" \in present THEN "drift"
    ELSE IF "unknown" \in present THEN "unknown"
    ELSE "compliant"

-----------------------------------------------------------------------------

\* _REMEDIATION_TEMPLATES: the improvement (hundredths) and the priority of every
\* option for a check.
Templates(m) ==
    CASE m = "satcom"     -> {<<15, 1>>, <<8, 2>>}
      [] m = "fuel"       -> {<<12, 1>>, <<6, 2>>}
      [] m = "medical"    -> {<<10, 1>>}
      [] m = "routes"     -> {<<15, 1>>, <<8, 2>>}
      [] m = "navigation" -> {<<10, 1>>}
      [] m = "continuity" -> {<<10, 1>>, <<8, 2>>, <<12, 1>>}
      [] OTHER            -> {}

\* _generate_options_for_check: a check without a template gets a generic option.
OptionsFor(m) ==
    LET templates == IF Templates(m) = {} THEN {<<5, 3>>} ELSE Templates(m)
    IN {[check |-> m, improvement |-> t[1], priority |-> t[2]] : t \in templates}

\* generate_remediation: options for every check that is not compliant.
Remediation(checks) ==
    UNION {OptionsFor(m) : m \in {x \in DOMAIN checks : checks[x] # "compliant"}}

\* The sum of the values of a function, sum() in the code.
Total(g) == MapThenSumSet(LAMBDA x : g[x], DOMAIN g)

\* total_estimated_improvement, capped at 1.0.
TotalImprovement(options) ==
    LET total == Total([o \in options |-> o.improvement])
    IN IF total < 100 THEN total ELSE 100

-----------------------------------------------------------------------------
(***************************************************************************)
(* The policy-as-code engine, src/continuityos/policy.py.  An assertion is *)
(* a record with a field for each threshold it sets; an unset threshold is *)
(* a field it lacks.  Scores are in hundredths.  The observed state maps   *)
(* categories, resources and dependencies to numbers, and such a map is    *)
(* empty where nothing was observed.  A rule reports only the first        *)
(* threshold it finds unmet; here it is met or not.                        *)
(***************************************************************************)

\* Something is observed, and all of it reaches the threshold.
AllReach(observed, threshold) ==
    DOMAIN observed # {} /\ \A k \in DOMAIN observed : observed[k] >= threshold

\* The value a dependency has in a trust dimension, 0 where it was not observed.
Dimension(scores, dim) == IF dim \in DOMAIN scores THEN scores[dim] ELSE 0

\* _check_rule: whether the assertion a holds of the observed state s.  The declared
\* maximum_single_dependency_concentration is never looked at.
RuleHolds(a, s) ==
    /\ "minimum_providers" \in DOMAIN a =>
           AllReach(s.provider_counts, a.minimum_providers)
    /\ "minimum_reserve_days" \in DOMAIN a =>
           AllReach(s.reserve_days, a.minimum_reserve_days)
    /\ "minimum_independent_routes" \in DOMAIN a =>
           s.independent_route_count >= a.minimum_independent_routes
    /\ "minimum_continuity" \in DOMAIN a =>
           s.overall_continuity >= a.minimum_continuity
    /\ "minimum_trust_score" \in DOMAIN a =>
           AllReach(s.trust_scores, a.minimum_trust_score)
    /\ "trust_dimension_thresholds" \in DOMAIN a =>
           \A dep \in DOMAIN s.dimensional_trust_scores :
               LET scores == s.dimensional_trust_scores[dep] IN
               \A dim \in DOMAIN a.trust_dimension_thresholds \cap DOMAIN scores :
                   scores[dim] >= a.trust_dimension_thresholds[dim]
    /\ "trust_dimension_required" \in DOMAIN a =>
           \A dep \in DOMAIN s.dimensional_trust_scores :
               \A dim \in a.trust_dimension_required :
                   Dimension(s.dimensional_trust_scores[dep], dim) > 0

\* evaluate_policy: a violated rule makes the policy non-compliant, whatever its
\* severity.
EvaluatePolicy(rules, s) ==
    LET violated == {r \in rules : ~RuleHolds(r, s)}
    IN [compliant |-> violated = {}, violations |-> violated,
        passed |-> Cardinality(rules \ violated)]

-----------------------------------------------------------------------------
(***************************************************************************)
(* The assurance budget, src/continuityos/assurance.py: a scorecard of     *)
(* dimensions that are counted against a required number and of flags that *)
(* have to be verified.  The overall score, a mean of ratios that is       *)
(* rounded to four places for display, is left out: no verdict reads it,   *)
(* and a scorecard that misses a requirement by a hair shows a full one.   *)
(***************************************************************************)

\* The number every counted dimension requires: to tolerate n losses takes n + 1.
\* observation_source_loss and minimum_independent_navigation_sources are declared
\* in the policy and never read.
Required(policy) ==
    [d \in {"continuity", "corridors", "ports", "communication", "navigation",
            "operational", "environmental", "carriers", "reserve_days", "cycles"} |->
        IF d \in {"corridors", "ports", "communication", "navigation"}
        THEN policy.tolerate[d] + 1
        ELSE policy.minimum[d]]

\* The flags a policy wants verified: insurance, carrier_return, backlog_clearance,
\* reserve_restoration.
Failed(policy, observed) ==
    {d \in DOMAIN Required(policy) : observed.counts[d] < Required(policy)[d]}
    \cup (policy.verify \ observed.verified)

\* evaluate_assurance: the verdict of the scorecard and the dimensions behind it.
Scorecard(policy, observed) ==
    [compliant |-> Failed(policy, observed) = {}, failed |-> Failed(policy, observed)]

-----------------------------------------------------------------------------
(***************************************************************************)
(* The defence readiness engine, src/continuityos/readiness.py, which maps *)
(* a corridor's effective state, the reserves, the continuity score and a  *)
(* reconciliation to a C-rating, 1 the best.  Scores are in hundredths.    *)
(***************************************************************************)

CorridorScore(state) ==
    IF state \in {"physically_closed", "functionally_closed"} THEN 0
    ELSE IF state \in {"open_but_uninsurable", "open_but_no_carrier_capacity",
                       "open_but_navigation_untrusted", "open_but_communications_degraded"}
         THEN 50
    ELSE IF state \in {"open_degraded", "open_capacity_constrained"} THEN 80
    ELSE 100

\* The mission limiting factors of an assessment.
LimitingFactors(state, days, reconciliation) ==
    {f \in {"CORRIDOR_CLOSED", "CORRIDOR_DEGRADED", "CRITICAL_INVENTORY_DEPLETION",
            "LOW_INVENTORY_RESERVE", "POLICY_RECONCILIATION_FAILURE"} :
        CASE f = "CORRIDOR_CLOSED"               -> CorridorScore(state) = 0
          [] f = "CORRIDOR_DEGRADED"             -> CorridorScore(state) = 50
          [] f = "CRITICAL_INVENTORY_DEPLETION"  -> days < 7
          [] f = "LOW_INVENTORY_RESERVE"         -> days >= 7 /\ days < 20
          [] f = "POLICY_RECONCILIATION_FAILURE" -> reconciliation = "fail"}

\* evaluate_readiness: the C-rating.
CRating(continuity, days, state, reconciliation) ==
    IF CorridorScore(state) = 0 \/ days < 7 \/ continuity < 65 THEN 4
    ELSE IF CorridorScore(state) <= 50 \/ days < 20 \/ continuity < 80
            \/ reconciliation = "fail" THEN 3
    ELSE IF days < 30 \/ continuity < 95 THEN 2
    ELSE 1
=============================================================================
