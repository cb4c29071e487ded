--------------------------- MODULE ContinuityPosture ---------------------------
(***************************************************************************)
(* The posture of one corridor as its conditions and its telemetry change: *)
(* the closure engine judges the conditions, the reconciliation, policy    *)
(* and assurance engines judge the observed numbers, and the readiness     *)
(* engine turns all of it into a C-rating.  The engines keep no state: the *)
(* state is what they are called with, one factor changing at a time.      *)
(***************************************************************************)
EXTENDS PostureVerdicts

CONSTANTS
    Nominal,      \* the conditions with nothing wrong
    Levels,       \* condition |-> the values it takes
    Target,       \* metric |-> the observed number with nothing wrong
    Readings,     \* metric |-> the numbers observed
    Desired,      \* metric |-> the declared requirement
    MaxImpaired   \* bound: how many factors are off nominal at once

\* The metrics a policy rule is written for.
RuleMetrics == {"satcom", "fuel", "routes", "continuity", "trust"}

ASSUME PostureAssumption ==
    /\ ClosureInput(Nominal)
    /\ \A f \in Factors : Nominal[f] \in Levels[f] /\ Levels[f] \subseteq FactorType(f)
    /\ Target = [m \in DOMAIN Target |-> Target[m]]
    /\ Desired = [m \in DOMAIN Desired |-> Desired[m]]
    /\ \A m \in DOMAIN Target : Target[m] \in Readings[m] /\ Readings[m] \subseteq Nat
    /\ \A m \in DOMAIN Desired : Desired[m] \in Nat
    /\ RuleMetrics \cup {"navigation"} \subseteq DOMAIN Desired
    /\ IsFiniteSet(DOMAIN Desired)
    /\ MaxImpaired \in Nat

VARIABLES
    cond,   \* the ClosureInput
    seen    \* metric |-> the number observed; a metric without telemetry is absent

vars == <<cond, seen>>

-----------------------------------------------------------------------------

\* Value v of condition f is worse than value w.
Worse(f, v, w) ==
    IF f \in BadFlags THEN v /\ ~w ELSE IF f \in GoodFlags THEN ~v /\ w ELSE v < w

Impaired ==
    Cardinality({f \in Factors : cond[f] # Nominal[f]})
    + Cardinality({m \in DOMAIN Target : m \notin DOMAIN seen \/ seen[m] # Target[m]})

Init == cond = Nominal /\ seen = Target

\* A condition of the corridor changes.
Change(f, v) ==
    /\ cond' = [cond EXCEPT ![f] = v]
    /\ UNCHANGED seen

\* A metric is observed.
Observe(m, v) ==
    /\ seen' = [x \in DOMAIN seen \cup {m} |-> IF x = m THEN v ELSE seen[x]]
    /\ UNCHANGED cond

\* The telemetry of a metric stops.
Silence(m) ==
    /\ m \in DOMAIN seen
    /\ seen' = [x \in DOMAIN seen \ {m} |-> seen[x]]
    /\ UNCHANGED cond

Next ==
    /\ \/ \E f \in Factors : \E v \in Levels[f] : Change(f, v)
       \/ \E m \in DOMAIN Target : Silence(m) \/ \E v \in Readings[m] : Observe(m, v)
    /\ Impaired' <= MaxImpaired

Spec == Init /\ [][Next]_vars

-----------------------------------------------------------------------------
(* The engines on the current state.                                       *)

\* A reading, or what the endpoint takes in its place when it is missing.
Reading(m, default) == IF m \in DOMAIN seen THEN seen[m] ELSE default

closure == AssessClosure(cond)
checks == Checks(Desired, seen)

\* evaluate_readiness as the endpoint and the command line call it: a missing
\* continuity counts as 0.95, missing reserves as 30 days.  The corridor state is the
\* caller's to give; here it is the one the closure engine derived.  (Left out it counts
\* as open, and text that names no state as unknown, which scores like open.)
Rating(reconciliation) ==
    CRating(Reading("continuity", 95), Reading("fuel", 30), closure.effective, reconciliation)

\* Both of them leave the reconciliation out; the engine also takes one.
endpointRating == Rating("none")
rating == Rating(OverallStatus(checks))

\* The observed numbers as an ObservedState of the policy engine, and the declared
\* requirements as its rules.
policyState ==
    LET only(metrics) == [m \in metrics \cap DOMAIN seen |-> seen[m]] IN
    [provider_counts |-> only({"satcom"}), reserve_days |-> only({"fuel", "medical"}),
     independent_route_count |-> Reading("routes", 0),
     overall_continuity |-> Reading("continuity", 0),
     trust_scores |-> only({"trust"}), dimensional_trust_scores |-> <<>>]

RuleFor(m) ==
    CASE m = "satcom"     -> [minimum_providers |-> Desired[m]]
      [] m = "fuel"       -> [minimum_reserve_days |-> Desired[m]]
      [] m = "routes"     -> [minimum_independent_routes |-> Desired[m]]
      [] m = "continuity" -> [minimum_continuity |-> Desired[m]]
      [] m = "trust"      -> [minimum_trust_score |-> Desired[m]]

policy == EvaluatePolicy({RuleFor(m) : m \in RuleMetrics}, policyState)

\* The same for the assurance budget.  What is not observed has the default of
\* AssuranceObservedState.
assuranceState ==
    [counts |-> [continuity |-> Reading("continuity", 100), corridors |-> Reading("routes", 2),
                 ports |-> 2, communication |-> Reading("satcom", 2),
                 navigation |-> Reading("navigation", 3), operational |-> 2,
                 environmental |-> 2, carriers |-> 2, reserve_days |-> Reading("fuel", 45),
                 cycles |-> 1],
     verified |-> {"carrier_return", "reserve_restoration"}
                  \cup When(cond.insurance_available, "insurance")
                  \cup When(~cond.recovery_backlog_active, "backlog_clearance")]

assurancePolicy ==
    [tolerate |-> [corridors |-> Desired["routes"] - 1, ports |-> 1,
                   communication |-> Desired["satcom"] - 1,
                   navigation |-> Desired["navigation"] - 1],
     minimum |-> [continuity |-> Desired["continuity"], operational |-> 2,
                  environmental |-> 2, carriers |-> 2, reserve_days |-> Desired["fuel"],
                  cycles |-> 1],
     verify |-> {"insurance", "carrier_return", "backlog_clearance", "reserve_restoration"}]

scorecard == Scorecard(assurancePolicy, assuranceState)

\* The dimension of the scorecard a metric is counted in.
DimensionOf(m) ==
    CASE m = "satcom" -> "communication" [] m = "fuel"       -> "reserve_days"
      [] m = "routes" -> "corridors"     [] m = "continuity" -> "continuity"

-----------------------------------------------------------------------------

\* Conditions and readings keep their types, and only known metrics are observed.
TypeOK ==
    /\ ClosureInput(cond)
    /\ DOMAIN seen \subseteq DOMAIN Target
    /\ seen \in [DOMAIN seen -> Nat]

\* One condition gets worse, or one reading gets lower.
Worsens ==
    \/ /\ seen' = seen
       /\ \E f \in Factors :
              /\ Worse(f, cond'[f], cond[f])
              /\ cond' = [cond EXCEPT ![f] = cond'[f]]
    \/ /\ cond' = cond
       /\ \E m \in DOMAIN seen :
              /\ m \in DOMAIN seen' /\ seen'[m] < seen[m]
              /\ seen' = [seen EXCEPT ![m] = seen'[m]]

\* No verdict of the step's end is better than that of its beginning.
NoVerdictBetter ==
    /\ endpointRating' >= endpointRating
    /\ rating' >= rating
    /\ policy.compliant' => policy.compliant
    /\ scorecard.compliant' => scorecard.compliant

\* What gets worse never improves a verdict: not the C-rating, although the effective
\* state names one cause among several and hides the rest, nor the compliance with
\* the policy or with the assurance budget (evaluate_readiness,
\* _derive_effective_state, evaluate_policy, evaluate_assurance).
WorseningNeverHelps == [][Worsens => NoVerdictBetter]_vars

\* A corridor rated C-1 is physically and operationally usable, insured and served
\* by carriers, its navigation and communications are trusted, and nothing observed
\* falls short by more than half of what is declared if a reconciliation is given
\* (evaluate_readiness on assess_closure and reconcile).
TopRatingIsServiceable ==
    /\ endpointRating = 1 =>
           /\ closure.physical.state # "unavailable"
           /\ closure.operational.state # "unavailable"
           /\ cond.insurance_available /\ cond.carrier_capacity_available
           /\ cond.navigation_trust >= 50 /\ cond.communications_trust >= 50
    /\ rating = 1 =>
           /\ endpointRating = 1
           /\ \A m \in DOMAIN Desired \cap DOMAIN seen :
                  m # "trust" => seen[m] * 2 >= Desired[m]

\* The three engines that judge declared against observed numbers give the same
\* verdict on every number observed; a reconciliation without a deficit meets every
\* rule but the one on trust, which it does not check, and the one on reserves when
\* the days of another resource are below what that rule asks of all (reconcile,
\* evaluate_policy, evaluate_assurance).
EnginesAgree ==
    /\ \A m \in (RuleMetrics \ {"trust"}) \cap DOMAIN seen :
           /\ checks[m] = "compliant" <=> DimensionOf(m) \notin scorecard.failed
           /\ m # "fuel" => (checks[m] = "compliant" <=> RuleHolds(RuleFor(m), policyState))
    /\ OverallStatus(checks) = "compliant" =>
           policy.violations \subseteq
               {RuleFor("trust")} \cup When(Reading("medical", Desired["fuel"]) < Desired["fuel"],
                                           RuleFor("fuel"))

\* The composite state that is exported shows an impairment exactly when the
\* effective state is an impaired one (to_composite_state, _derive_effective_state).
CompositeAgrees ==
    LET c == CompositeState(closure) IN
    (c.physical = "open" /\ c.navigation = "healthy" /\ c.communications = "healthy"
     /\ c.escort = "available" /\ c.carrier = "available" /\ c.insurance = "available"
     /\ c.phase = "normal")
    <=> closure.effective \in {"open", "open_degraded"}

\* Every downgrade is explained: an effective state other than open by a reason code,
\* a C-3 or C-4 that the continuity score does not account for by a limiting factor,
\* and every requirement not shown to be met by a remediation option with a positive
\* gain (assess_closure, evaluate_readiness, generate_remediation).
DowngradesExplained ==
    /\ closure.effective # "open" => closure.reasons # {}
    /\ (rating >= 3 /\ Reading("continuity", 95) >= 80) =>
           LimitingFactors(closure.effective, Reading("fuel", 30), OverallStatus(checks)) # {}
    /\ \A m \in DOMAIN checks : checks[m] = "compliant" <=>
           \A o \in Remediation(checks) : o.check # m
    /\ OverallStatus(checks) = "compliant" <=> TotalImprovement(Remediation(checks)) = 0

\* The verdicts on one state tell one story: the engines that judge the same numbers
\* agree, the exported composite shows an impairment when there is one, and every
\* downgrade has its reason (assess_closure, reconcile, evaluate_policy,
\* evaluate_assurance, evaluate_readiness, generate_remediation, each called on its own).
VerdictsAgree == EnginesAgree /\ CompositeAgrees /\ DowngradesExplained
=============================================================================
