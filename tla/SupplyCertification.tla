------------------------- MODULE SupplyCertification --------------------------
(***************************************************************************)
(* The engines behind a procurement or insurance decision: what a supply   *)
(* chain risks, and the certificates and marks given to a corridor.        *)
(***************************************************************************)
EXTENDS ObservationSources, FiniteSets, SequencesExt

-----------------------------------------------------------------------------
(***************************************************************************)
(* The supply engines: MultiTierSupplyEngine, EconomicLossCalculator and   *)
(* ModalReroutingSolver of supply_chain.py, and WargameSimulator of        *)
(* wargame.py.  Scores are exact: every formula is scaled until its        *)
(* coefficients are integers.  Scores the caller gives are percentages.    *)
(***************************************************************************)

-----------------------------------------------------------------------------
(* assess_bom *)

\* inventory_buffer_days less the days the corridor is disrupted
EffectiveBuffer(c, days) == c.buffer - days

\* The risk of one component, in thousandths.
ComponentRisk(c, days) ==
    LET e == EffectiveBuffer(c, days)
        risk == 4 * c.criticality
                + (IF c.single THEN 350 ELSE 0)
                + (IF c.substitutable THEN 0 ELSE 150)
                + (IF e <= 0 THEN 200 ELSE IF e < c.lead THEN 100 ELSE 0)
    IN Min({1000, risk})

\* The mean of a tier, in six-thousandths, which is exact for up to three components.
TierRisk(bom, days, tier) ==
    LET members == {i \in DOMAIN bom : bom[i].tier = tier}
        sum == SumOf([i \in members |-> ComponentRisk(bom[i], days)])
    IN IF members = {} THEN 0 ELSE (6 * sum) \div Cardinality(members)

\* overall_supply_risk: half for the first tier, 0.3 and 0.2 for the others.
BomRisk(bom, days) ==
    Min({60000, 5 * TierRisk(bom, days, 1) + 3 * TierRisk(bom, days, 2) + 2 * TierRisk(bom, days, 3)})

\* critical_shortage_window_days
ShortageWindow(bom, days) ==
    Min({9999} \cup {Max({0, EffectiveBuffer(c, days)}) : c \in ToSet(bom)})

\* resilience_recommendations
Recommended(bom, days) ==
    (IF \E c \in ToSet(bom) : c.single THEN {"dual-source"} ELSE {})
        \cup (IF ShortageWindow(bom, days) < 14 THEN {"stockpile"} ELSE {})

-----------------------------------------------------------------------------
(* calculate_losses, from amounts in thousands and in 1/36500 of a thousand *)

TotalLoss(days, inventory, vessels, demurrage, burn) ==
    days * (inventory * 18 + 36500 * (vessels * demurrage + burn))

-----------------------------------------------------------------------------
(* solve_rerouting *)

Modes == <<"maritime", "rail_cpkc", "rail_cn", "long_haul_truck", "air_cargo">>

\* DEFAULT_MODAL_BASELINES: km/h, cents per ton and km, reliability
Speed(m) == CASE m = "maritime" -> 25 [] m = "long_haul_truck" -> 85 [] m = "air_cargo" -> 650
              [] OTHER -> 45
CostPerKm(m) == CASE m = "maritime" -> 4 [] m = "long_haul_truck" -> 28 [] m = "air_cargo" -> 145
                  [] OTHER -> 8
Reliability(m) == CASE m = "maritime" -> 88 [] m = "long_haul_truck" -> 95 [] m = "air_cargo" -> 98
                    [] OTHER -> 92

\* transit_time_hours, rounded to tenths of an hour, and cost_per_ton_cad in cents.
Transit(m, km) == (20 * km + Speed(m)) \div (2 * Speed(m))
FreightCost(m, km) == km * CostPerKm(m)

\* The balanced key (cost + hours) / (2 * reliability), compared without dividing.
BalancedBefore(x, y, km) ==
    (FreightCost(x, km) + 10 * Transit(x, km)) * Reliability(y)
        < (FreightCost(y, km) + 10 * Transit(y, km)) * Reliability(x)

Preferred(x, y, km, urgent, thrifty) ==
    IF urgent THEN Transit(x, km) < Transit(y, km)
    ELSE IF thrifty THEN FreightCost(x, km) < FreightCost(y, km) ELSE BalancedBefore(x, y, km)

\* options[0] after the stable sort: the first mode no other one is preferred to.
RecommendedMode(km, urgent, thrifty) ==
    Modes[Min({i \in DOMAIN Modes :
                 \A j \in DOMAIN Modes : ~Preferred(Modes[j], Modes[i], km, urgent, thrifty)})]

-----------------------------------------------------------------------------
(* run_simulation *)

\* CANADIAN_CRITICAL_MINERALS: stockpile_days_remaining_baseline
Baselines == [nickel |-> 90, lithium |-> 60, cobalt |-> 45, rare_earths |-> 30, uranium |-> 180,
              chromite |-> 40, niobium |-> 75, titanium |-> 60]

\* burn_rate, in thousandths
BurnRate(pressure, cushion) == 1000 + 8 * pressure - 4 * cushion

\* critical_exhausted: at least 95% depleted once rounded to a tenth of a percent.
Exhausted(day, pressure, cushion) ==
    {m \in DOMAIN Baselines :
        (2 * day * BurnRate(pressure, cushion) + Baselines[m]) \div (2 * Baselines[m]) >= 950}

\* nato_readiness_score, in 1/180000, never below a tenth
WarReadiness(day, pressure, cushion) ==
    Max({18000, 180000 - day * pressure * (10 + Cardinality(Exhausted(day, pressure, cushion)))})

WarState(day, pressure, cushion) ==
    LET r == WarReadiness(day, pressure, cushion)
    IN IF r < 54000 THEN "FUNCTIONAL_COLLAPSE"
       ELSE IF r < 108000 THEN "SEVERE_DEGRADATION" ELSE "OPERATIONAL_STABLE"

\* estimated_economic_loss_cad, in 3.125 million dollars
WarLoss(day, pressure, cushion) == day * (4 + Cardinality(Exhausted(day, pressure, cushion)))

\* critical_failure_day: the first horizon with an exhausted mineral, or `never'.
FailureDay(horizons, pressure, cushion, never) ==
    Min({never} \cup {d \in horizons : Exhausted(d, pressure, cushion) # {}})

-----------------------------------------------------------------------------
(***************************************************************************)
(* The engines that turn a corridor or a deployment into a certificate or  *)
(* a mark on a display: insurance.py, rating.py, the attestation engine of *)
(* attestation.py, PBMMComplianceValidator and AirGapAuditor of            *)
(* sovereign.py, and the exporters of allied_defense.py.                   *)
(***************************************************************************)

-----------------------------------------------------------------------------
(* evaluate_marine_risk and issue_certificate *)

\* baseline_war_risk_rate_percent, in hundredths of a percent
BaselineRate(state) ==
    CASE state \in {"open_but_uninsurable", "physically_closed"} -> 250
      [] state = "open_but_navigation_untrusted" -> 140
      [] OTHER -> 85

\* premium_discount_percent, in tenths of a percent
Discount(state, alternate) == IF alternate /\ state # "physically_closed" THEN 285 ELSE 0

\* mitigated_war_risk_rate_percent, in 1/100000 of a percent
MitigatedRate(state, alternate) == BaselineRate(state) * (1000 - Discount(state, alternate))

Approved(state) == state # "physically_closed"

\* The grade on the certificate: the discount is looked at first.
UnderwritingGrade(state, alternate) ==
    IF Discount(state, alternate) >= 250 THEN "PREFERRED_RISK"
    ELSE IF ~Approved(state) THEN "UNINSURABLE" ELSE "STANDARD_RISK"

-----------------------------------------------------------------------------
(* evaluate_entity, scores in hundredths *)

RedundancyScore(n) == IF n >= 3 THEN 100 ELSE IF n = 2 THEN 80 ELSE 40
StockScore(days) ==
    IF days >= 60 THEN 100 ELSE IF days >= 30 THEN 75 ELSE IF days >= 15 THEN 50 ELSE 20
LagScore(days) ==
    IF days <= 7 THEN 100 ELSE IF days <= 14 THEN 80 ELSE IF days <= 30 THEN 55 ELSE 30
IndependenceScore(shared) == IF shared THEN 40 ELSE 95

\* composite_index, in ten-thousandths
Composite(r) ==
    25 * RedundancyScore(r.paths) + 25 * StockScore(r.stock) + 20 * LagScore(r.lag)
        + 15 * IndependenceScore(r.shared) + 15 * r.confidence

LetterGrade(r) ==
    LET c == Composite(r)
    IN IF c >= 9000 THEN "AAA" ELSE IF c >= 8000 THEN "AA" ELSE IF c >= 7000 THEN "A"
       ELSE IF c >= 6000 THEN "BBB" ELSE IF c >= 5000 THEN "BB" ELSE IF c >= 4000 THEN "B"
       ELSE IF c >= 3000 THEN "CCC" ELSE "D"

-----------------------------------------------------------------------------
(* Attestations and audits *)

\* perform_attestation(): the score of each control, in halves; the TPM quote always
\* passes, and too little entropy still earns half.
ControlScores(r) ==
    [tpm |-> 2, airgap |-> IF r.interfaces = 0 THEN 2 ELSE 0, boot |-> IF r.boot THEN 2 ELSE 0,
     zeroize |-> IF r.zeroize THEN 2 ELSE 0, entropy |-> IF r.entropy >= 65536 THEN 2 ELSE 1]

Failing(r) == {c \in DOMAIN ControlScores(r) : ControlScores(r)[c] < 2}
ScifCertified(r) == Failing(r) = {}
ScifShortfall(r) ==
    LET s == ControlScores(r) IN 10 - (s.tpm + s.airgap + s.boot + s.zeroize + s.entropy)

\* validate_deployment(): the PBMM controls that are not satisfied.
Unsatisfied(r) ==
    {c \in DOMAIN r : CASE c = "tls" -> r.tls \notin {"1.3", "1.2"}
                        [] c = "region" -> r.region # "canada"
                        [] OTHER -> ~r[c]}
PbmmCompliant(r) == Unsatisfied(r) = {}

\* audit(): the air-gap checks that do not pass; the data enclave always does.
AirGapOpen(r) == {c \in {"outbound", "offline", "keys"} : ~r[c]}
AirGapCompliant(r) == AirGapOpen(r) = {}

-----------------------------------------------------------------------------
(* The displays *)

Closed == {"physically_closed", "functionally_closed"}

\* export_cot_xml(): hostile, unknown or, for every state not named, friendly.
CotType(state) ==
    CASE state \in Closed -> "hostile"
      [] state \in {"open_degraded", "open_but_navigation_untrusted", "open_but_uninsurable"} -> "unknown"
      [] OTHER -> "friend"

\* export_cot_json(): nothing is hostile.
CotJson(state) == IF state = "open" THEN "friend" ELSE "unknown"

\* generate_track_report(): the Link 16 identity.
TrackIdentity(state) ==
    IF state \in Closed THEN "hostile" ELSE IF state # "open" THEN "unknown" ELSE "friend"
=============================================================================
