------------------------------ MODULE EngineProofs -----------------------------
(***************************************************************************)
(* Proofs about the engines that judge a state: ContinuityPosture,         *)
(* DependencyNetwork with the search of ImpactPropagation, and             *)
(* DisruptionTimeline with its stock, which share nothing.  For every      *)
(* corridor, reading and declared requirement: what a C-1 rating implies,  *)
(* that worsening never helps, and that the verdicts agree; remediations   *)
(* add up gains, so this part rests on lemmas about sums over a finite     *)
(* set.  For every set of graphs: what the search reports has a path from  *)
(* a failed node, and no dependent of an affected node is dropped from it; *)
(* redundancy that was called independent survives a failure, and cycles   *)
(* are reported exactly where there are some.  For every stock profile,    *)
(* regime and number of days: the alarms of the simulation and the         *)
(* incident plan built on it.                                              *)
(***************************************************************************)
EXTENDS ContinuityPosture, DependencyNetwork, DisruptionTimeline, FiniteSetTheorems,
        WellFoundedInduction, TLAPS

-----------------------------------------------------------------------------
(* The closure engine, layer by layer.                                     *)

\* _assess_physical: the layer is unavailable exactly when the corridor is
\* inaccessible.
LEMMA PhysicalLayer ==
    ASSUME NEW i, ClosureInput(i)
    PROVE  AssessPhysical(i).state = "unavailable" <=> ~i["physically_accessible"]
BY DEF AssessPhysical, Layer, ClosureInput, Factors, FactorType, GoodFlags, BadFlags

\* _assess_operational: what makes the layer unavailable, and which reasons tell of
\* untrusted navigation and degraded communications.
LEMMA OperationalLayer ==
    ASSUME NEW i, ClosureInput(i)
    PROVE  /\ AssessOperational(i).state = "unavailable"
                  <=> ~i["navigation_available"] \/ ~i["communications_available"]
           /\ "navigation_untrusted" \in AssessOperational(i).reasons
                  <=> i["navigation_trust"] < 50
           /\ "communications_degraded" \in AssessOperational(i).reasons
                  <=> i["communications_trust"] < 50
BY DEF AssessOperational, Layer, When, ClosureInput, Factors, FactorType, GoodFlags, BadFlags

\* _assess_commercial: which reasons tell of missing insurance and carriers, and that
\* the layer is unavailable only with both.
LEMMA CommercialLayer ==
    ASSUME NEW i, ClosureInput(i)
    PROVE  /\ "uninsurable" \in AssessCommercial(i).reasons
                  <=> ~i["insurance_available"] \/ i["insurance_coverage"] <= 10
           /\ "no_carrier_capacity" \in AssessCommercial(i).reasons
                  <=> ~i["carrier_capacity_available"] \/ i["carrier_capacity_ratio"] <= 10
BY DEF AssessCommercial, Layer, When, ClosureInput, Factors, FactorType, GoodFlags, BadFlags

\* _derive_effective_state: a state the readiness engine scores above one half has
\* none of the causes that it ranks first.
LEMMA ScoredAboveHalf ==
    ASSUME NEW p, NEW o, NEW c, NEW t, NEW r,
           CorridorScore(EffectiveState(p, o, c, t, r)) > 50
    PROVE  /\ p.state # "unavailable" /\ o.state # "unavailable"
           /\ "uninsurable" \notin c.reasons /\ "no_carrier_capacity" \notin c.reasons
           /\ "navigation_untrusted" \notin o.reasons
           /\ "communications_degraded" \notin o.reasons
BY DEF CorridorScore, EffectiveState

\* evaluate_readiness: a C-1 needs a corridor scored above one half, and no failed
\* reconciliation.
LEMMA TopRatingNeeds ==
    ASSUME NEW continuity, NEW days, NEW state, NEW reconciliation,
           CRating(continuity, days, state, reconciliation) = 1
    PROVE  CorridorScore(state) > 50 /\ reconciliation # "fail"
BY DEF CRating, CorridorScore

\* reconcile: without a failed check overall, every compared metric has at least
\* half of what is declared.
LEMMA NotFailing ==
    ASSUME NEW desired, NEW actual,
           \A m \in DOMAIN desired : desired[m] \in Nat,
           \A m \in DOMAIN actual : actual[m] \in Nat,
           OverallStatus(Checks(desired, actual)) # "fail",
           NEW m \in DOMAIN desired \cap DOMAIN actual, m # "trust"
    PROVE  actual[m] * 2 >= desired[m]
<1>1. Checks(desired, actual)[m] = Compare(desired[m], actual[m])
  BY DEF Checks, Checked
<1>2. m \in DOMAIN Checks(desired, actual)
  BY DEF Checks, Checked
<1>3. Compare(desired[m], actual[m]) # "fail"
  BY <1>1, <1>2 DEF OverallStatus
<1>4. desired[m] \in Nat /\ actual[m] \in Nat
  OBVIOUS
<1> QED
  BY <1>3, <1>4 DEF Compare

-----------------------------------------------------------------------------
(* The posture.                                                            *)

\* Conditions and readings keep their types whatever changes (ContinuityPosture).
THEOREM TypeCorrect == Spec => []TypeOK
<1>1. Init => TypeOK
  BY PostureAssumption DEF Init, TypeOK
<1>2. TypeOK /\ [Next]_vars => TypeOK'
  <2> SUFFICES ASSUME TypeOK, [Next]_vars PROVE TypeOK'
    OBVIOUS
  <2>1. ASSUME NEW f \in Factors, NEW v \in Levels[f], Change(f, v) PROVE TypeOK'
    BY <2>1, PostureAssumption DEF Change, TypeOK, ClosureInput
  <2>2. ASSUME NEW m \in DOMAIN Target, NEW v \in Readings[m], Observe(m, v) PROVE TypeOK'
    BY <2>2, PostureAssumption DEF Observe, TypeOK, ClosureInput
  <2>3. ASSUME NEW m \in DOMAIN Target, Silence(m) PROVE TypeOK'
    BY <2>3 DEF Silence, TypeOK, ClosureInput
  <2>4. CASE UNCHANGED vars
    BY <2>4 DEF vars, TypeOK, ClosureInput
  <2> QED
    BY <2>1, <2>2, <2>3, <2>4 DEF Next
<1> QED
  BY <1>1, <1>2, PTL DEF Spec

\* A corridor rated C-1 is usable, insured, served by carriers and trusted, and no
\* reading it is reconciled with is below half of what is declared
\* (evaluate_readiness on assess_closure and reconcile).
THEOREM TopRatingSound == Spec => []TopRatingIsServiceable
<1>1. TypeOK => TopRatingIsServiceable
  <2> SUFFICES ASSUME TypeOK PROVE TopRatingIsServiceable
    OBVIOUS
  <2>1. ClosureInput(cond) /\ \A m \in DOMAIN seen : seen[m] \in Nat
    BY DEF TypeOK
  <2>2. ASSUME endpointRating = 1
        PROVE  /\ closure.physical.state # "unavailable"
               /\ closure.operational.state # "unavailable"
               /\ cond.insurance_available /\ cond.carrier_capacity_available
               /\ cond.navigation_trust >= 50 /\ cond.communications_trust >= 50
    <3>1. CorridorScore(closure.effective) > 50
      BY <2>2, TopRatingNeeds DEF endpointRating, Rating
    <3>2. /\ closure.effective =
                 EffectiveState(AssessPhysical(cond), AssessOperational(cond),
                                AssessCommercial(cond), AssessTrust(cond),
                                AssessRecovery(cond))
          /\ closure.physical = AssessPhysical(cond)
          /\ closure.operational = AssessOperational(cond)
      BY DEF closure, AssessClosure
    <3>3. /\ AssessPhysical(cond).state # "unavailable"
          /\ AssessOperational(cond).state # "unavailable"
          /\ "uninsurable" \notin AssessCommercial(cond).reasons
          /\ "no_carrier_capacity" \notin AssessCommercial(cond).reasons
          /\ "navigation_untrusted" \notin AssessOperational(cond).reasons
          /\ "communications_degraded" \notin AssessOperational(cond).reasons
      BY <3>1, <3>2, ScoredAboveHalf
    <3>4. cond["navigation_trust"] \in Nat /\ cond["communications_trust"] \in Nat
      BY <2>1 DEF ClosureInput, Factors, FactorType, Ratios, GoodFlags, BadFlags, Score
    <3> QED
      BY <2>1, <3>2, <3>3, <3>4, OperationalLayer, CommercialLayer
  <2>3. ASSUME rating = 1
        PROVE  /\ endpointRating = 1
               /\ \A m \in DOMAIN Desired \cap DOMAIN seen :
                      m # "trust" => seen[m] * 2 >= Desired[m]
    <3>1. endpointRating = 1
      BY <2>3 DEF rating, endpointRating, Rating, CRating
    <3>2. OverallStatus(Checks(Desired, seen)) # "fail"
      BY <2>3, TopRatingNeeds DEF rating, Rating, checks
    <3> QED
      BY <2>1, <3>1, <3>2, NotFailing, PostureAssumption
  <2> QED
    BY <2>2, <2>3 DEF TopRatingIsServiceable
<1> QED
  BY <1>1, TypeCorrect, PTL

-----------------------------------------------------------------------------
(* Worsening.                                                              *)

\* Input j is nowhere better than input i.
NoBetter(j, i) ==
    /\ \A f \in GoodFlags : j[f] => i[f]
    /\ \A f \in BadFlags : i[f] => j[f]
    /\ \A f \in Ratios \cup {"source_diversity"} : j[f] <= i[f]

\* The corridor is closed, physically or functionally.
Closed(i) ==
    \/ ~i["physically_accessible"]
    \/ ~i["navigation_available"] \/ ~i["communications_available"]
    \/ /\ ~i["insurance_available"] \/ i["insurance_coverage"] <= 10
       /\ ~i["carrier_capacity_available"] \/ i["carrier_capacity_ratio"] <= 10
       /\ i["data_integrity"] < 30 \/ i["observation_confidence"] < 30

\* The corridor is closed, or open with a cause that costs it half its score.
Halved(i) ==
    \/ Closed(i)
    \/ ~i["insurance_available"] \/ i["insurance_coverage"] <= 10
    \/ ~i["carrier_capacity_available"] \/ i["carrier_capacity_ratio"] <= 10
    \/ i["navigation_trust"] < 50 \/ i["communications_trust"] < 50

\* _assess_commercial and _assess_trust: when the layers are unavailable.
LEMMA UnavailableLayers ==
    ASSUME NEW i, ClosureInput(i)
    PROVE  /\ AssessCommercial(i).state = "unavailable" <=>
                  /\ ~i["insurance_available"] \/ i["insurance_coverage"] <= 10
                  /\ ~i["carrier_capacity_available"] \/ i["carrier_capacity_ratio"] <= 10
           /\ AssessTrust(i).state = "unavailable" <=>
                  i["data_integrity"] < 30 \/ i["observation_confidence"] < 30
BY DEF AssessCommercial, AssessTrust, Layer, When, ClosureInput, Factors, FactorType,
       GoodFlags, BadFlags

\* The readiness engine's score of what the closure engine derives.
LEMMA CorridorScoreMeans ==
    ASSUME NEW i, ClosureInput(i)
    PROVE  LET score == CorridorScore(AssessClosure(i).effective) IN
           /\ score \in Nat
           /\ score = 0 <=> Closed(i)
           /\ score <= 50 <=> Halved(i)
<1> DEFINE p == AssessPhysical(i)
           o == AssessOperational(i)
           c == AssessCommercial(i)
           t == AssessTrust(i)
           r == AssessRecovery(i)
           e == EffectiveState(p, o, c, t, r)
<1>1. AssessClosure(i).effective = e
  BY DEF AssessClosure
<1>2. CorridorScore(e) = 0 <=>
          p.state = "unavailable" \/ o.state = "unavailable"
          \/ (c.state = "unavailable" /\ t.state = "unavailable")
  <2> HIDE DEF p, o, c, t, r
  <2> QED BY DEF e, EffectiveState, CorridorScore
<1>3. CorridorScore(e) <= 50 <=>
          CorridorScore(e) = 0 \/ "uninsurable" \in c.reasons
          \/ "no_carrier_capacity" \in c.reasons
          \/ "navigation_untrusted" \in o.reasons \/ "communications_degraded" \in o.reasons
  <2> HIDE DEF p, o, c, t, r
  <2> QED BY DEF e, EffectiveState, CorridorScore
<1>4. CorridorScore(e) \in Nat
  <2> HIDE DEF e
  <2> QED BY DEF CorridorScore
<1>5. CorridorScore(e) = 0 <=> Closed(i)
  <2> HIDE DEF e
  <2> QED BY <1>2, PhysicalLayer, OperationalLayer, UnavailableLayers DEF Closed
<1>6. CorridorScore(e) <= 50 <=> Halved(i)
  <2> HIDE DEF e
  <2> QED BY <1>3, <1>5, OperationalLayer, CommercialLayer DEF Halved
<1> HIDE DEF e
<1> QED
  BY <1>1, <1>4, <1>5, <1>6

\* Both are monotone.
LEMMA ClosureMonotone ==
    ASSUME NEW i, NEW j, ClosureInput(i), ClosureInput(j), NoBetter(j, i)
    PROVE  (Closed(i) => Closed(j)) /\ (Halved(i) => Halved(j))
<1>1. \A f \in Ratios : i[f] \in Nat /\ j[f] \in Nat
  BY DEF ClosureInput, Factors, FactorType, Ratios, GoodFlags, BadFlags, Score
<1> QED
  BY <1>1 DEF NoBetter, Closed, Halved, GoodFlags, BadFlags, Ratios

\* evaluate_readiness: the rating depends on the corridor through these two scores,
\* and is monotone in all it is given.
LEMMA RatingMonotone ==
    ASSUME NEW c \in Nat, NEW d \in Nat, NEW s, NEW r,
           NEW c2 \in Nat, NEW d2 \in Nat, NEW s2, NEW r2,
           c2 <= c, d2 <= d, r = "fail" => r2 = "fail",
           CorridorScore(s) = 0 => CorridorScore(s2) = 0,
           CorridorScore(s) <= 50 => CorridorScore(s2) <= 50
    PROVE  CRating(c2, d2, s2, r2) >= CRating(c, d, s, r)
BY DEF CRating

\* reconcile: a failed check stays failed when a reading falls.
LEMMA FailureMonotone ==
    ASSUME NEW desired, NEW seen1, NEW seen2,
           \A m \in DOMAIN desired : desired[m] \in Nat,
           DOMAIN seen2 = DOMAIN seen1,
           \A m \in DOMAIN seen1 : seen1[m] \in Nat /\ seen2[m] \in Nat /\ seen2[m] <= seen1[m],
           OverallStatus(Checks(desired, seen1)) = "fail"
    PROVE  OverallStatus(Checks(desired, seen2)) = "fail"
<1>1. PICK m \in Checked(desired) : Checks(desired, seen1)[m] = "fail"
  BY DEF OverallStatus, Checks
<1>2. m \in DOMAIN seen1 /\ Compare(desired[m], seen1[m]) = "fail"
  BY <1>1 DEF Checks
<1>3. desired[m] \in Nat /\ seen1[m] \in Nat /\ seen2[m] \in Nat /\ seen2[m] <= seen1[m]
  BY <1>1, <1>2 DEF Checked
<1>4. Compare(desired[m], seen2[m]) = "fail"
  BY <1>2, <1>3 DEF Compare
<1>5. Checks(desired, seen2)[m] = "fail" /\ m \in DOMAIN Checks(desired, seen2)
  BY <1>1, <1>2, <1>4 DEF Checks
<1> QED
  BY <1>5 DEF OverallStatus

\* A worsening step leaves every factor and every reading where it was or worse.
LEMMA WorseningIsPointwise ==
    ASSUME TypeOK, TypeOK', Worsens
    PROVE  /\ NoBetter(cond', cond)
           /\ DOMAIN seen' = DOMAIN seen
           /\ \A m \in DOMAIN seen :
                  seen[m] \in Nat /\ seen'[m] \in Nat /\ seen'[m] <= seen[m]
<1>1. /\ \A f \in Ratios \cup {"source_diversity"} : cond[f] \in Nat /\ cond'[f] \in Nat
      /\ cond = [f \in Factors |-> cond[f]]
  BY DEF TypeOK, ClosureInput, Factors, FactorType, Ratios, GoodFlags, BadFlags, Score
<1>2. CASE /\ seen' = seen
           /\ \E f \in Factors : /\ Worse(f, cond'[f], cond[f])
                                 /\ cond' = [cond EXCEPT ![f] = cond'[f]]
  <2>1. PICK f \in Factors : /\ Worse(f, cond'[f], cond[f])
                             /\ cond' = [cond EXCEPT ![f] = cond'[f]]
    BY <1>2
  <2>2. \A g \in Factors \ {f} : cond'[g] = cond[g]
    BY <1>1, <2>1
  <2>3. \A g \in GoodFlags : cond'[g] => cond[g]
    BY <2>1, <2>2 DEF Worse, Factors, GoodFlags, BadFlags
  <2>4. \A g \in BadFlags : cond[g] => cond'[g]
    BY <2>1, <2>2 DEF Worse, Factors, GoodFlags, BadFlags
  <2>5. \A g \in Ratios \cup {"source_diversity"} : cond'[g] <= cond[g]
    <3>1. ASSUME NEW g \in Ratios \cup {"source_diversity"} PROVE cond'[g] <= cond[g]
      <4>1. g \in Factors /\ g \notin BadFlags /\ g \notin GoodFlags
        BY DEF Factors, Ratios, GoodFlags, BadFlags
      <4> QED
        BY <1>1, <2>1, <2>2, <4>1 DEF Worse
    <3> QED
      BY <3>1
  <2> QED
    BY <1>2, <2>3, <2>4, <2>5 DEF NoBetter, TypeOK
<1>3. CASE /\ cond' = cond
           /\ \E m \in DOMAIN seen : /\ m \in DOMAIN seen' /\ seen'[m] < seen[m]
                                     /\ seen' = [seen EXCEPT ![m] = seen'[m]]
  <2>1. PICK m \in DOMAIN seen : /\ m \in DOMAIN seen' /\ seen'[m] < seen[m]
                                 /\ seen' = [seen EXCEPT ![m] = seen'[m]]
    BY <1>3
  <2>2. NoBetter(cond', cond)
    BY <1>1, <1>3 DEF NoBetter
  <2>3. DOMAIN seen' = DOMAIN seen
    BY <2>1
  <2> QED
    BY <2>1, <2>2, <2>3 DEF TypeOK
<1> QED
  BY <1>2, <1>3 DEF Worsens

\* The C-rating never improves.
LEMMA RatingNoBetter ==
    ASSUME TypeOK, TypeOK', Worsens
    PROVE  endpointRating' >= endpointRating /\ rating' >= rating
<1>1. /\ NoBetter(cond', cond)
      /\ DOMAIN seen' = DOMAIN seen
      /\ \A m \in DOMAIN seen :
             seen[m] \in Nat /\ seen'[m] \in Nat /\ seen'[m] <= seen[m]
  BY WorseningIsPointwise
<1>2. ClosureInput(cond) /\ ClosureInput(cond')
  BY DEF TypeOK, ClosureInput
<1> DEFINE s == AssessClosure(cond).effective
           s2 == AssessClosure(cond').effective
<1>3. /\ CorridorScore(s) = 0 => CorridorScore(s2) = 0
      /\ CorridorScore(s) <= 50 => CorridorScore(s2) <= 50
  BY <1>1, <1>2, CorridorScoreMeans, ClosureMonotone
<1> DEFINE c == IF "continuity" \in DOMAIN seen THEN seen["continuity"] ELSE 95
           c2 == IF "continuity" \in DOMAIN seen' THEN seen'["continuity"] ELSE 95
           d == IF "fuel" \in DOMAIN seen THEN seen["fuel"] ELSE 30
           d2 == IF "fuel" \in DOMAIN seen' THEN seen'["fuel"] ELSE 30
           k == OverallStatus(Checks(Desired, seen))
           k2 == OverallStatus(Checks(Desired, seen'))
<1>4. c \in Nat /\ c2 \in Nat /\ d \in Nat /\ d2 \in Nat /\ c2 <= c /\ d2 <= d
  BY <1>1
<1>5. k = "fail" => k2 = "fail"
  BY <1>1, FailureMonotone, PostureAssumption
<1>6. /\ endpointRating = CRating(c, d, s, "none") /\ rating = CRating(c, d, s, k)
      /\ endpointRating' = CRating(c2, d2, s2, "none") /\ rating' = CRating(c2, d2, s2, k2)
  BY DEF endpointRating, rating, Rating, Reading, closure, checks
<1> HIDE DEF s, s2, c, c2, d, d2, k, k2
<1>7. CRating(c2, d2, s2, "none") >= CRating(c, d, s, "none")
  BY <1>3, <1>4, RatingMonotone
<1>8. CRating(c2, d2, s2, k2) >= CRating(c, d, s, k)
  BY <1>3, <1>4, <1>5, RatingMonotone
<1> QED
  BY <1>6, <1>7, <1>8

\* evaluate_assurance: a scorecard that is compliant after the step was compliant
\* before it.
LEMMA ScorecardNoBetter ==
    ASSUME TypeOK, TypeOK', Worsens
    PROVE  scorecard.compliant' => scorecard.compliant
<1>1. /\ NoBetter(cond', cond)
      /\ DOMAIN seen' = DOMAIN seen
      /\ \A m \in DOMAIN seen :
             seen[m] \in Nat /\ seen'[m] \in Nat /\ seen'[m] <= seen[m]
  BY WorseningIsPointwise
<1>2. \A d \in DOMAIN Required(assurancePolicy) :
          /\ assuranceState.counts[d] \in Nat /\ assuranceState'.counts[d] \in Nat
          /\ assuranceState'.counts[d] <= assuranceState.counts[d]
  BY <1>1 DEF assuranceState, Reading, Required
<1>3. assuranceState'.verified \subseteq assuranceState.verified
  BY <1>1 DEF assuranceState, When, NoBetter, GoodFlags, BadFlags
<1>4. \A d \in DOMAIN Required(assurancePolicy) : Required(assurancePolicy)[d] \in Int
  BY PostureAssumption DEF Required, assurancePolicy, RuleMetrics
<1>5. Failed(assurancePolicy, assuranceState) \subseteq
          Failed(assurancePolicy, assuranceState')
  BY <1>2, <1>3, <1>4 DEF Failed
<1>6. scorecard.compliant = (Failed(assurancePolicy, assuranceState) = {})
  BY DEF scorecard, Scorecard
<1>7. scorecard'.compliant = (Failed(assurancePolicy, assuranceState') = {})
  BY DEF scorecard, Scorecard, assurancePolicy
<1> QED
  BY <1>5, <1>6, <1>7

\* _check_rule: a threshold that every value reaches after the step is reached
\* before it.
LEMMA ReachMonotone ==
    ASSUME NEW before, NEW after, NEW threshold \in Nat,
           DOMAIN after = DOMAIN before,
           \A k \in DOMAIN before :
               before[k] \in Nat /\ after[k] \in Nat /\ after[k] <= before[k],
           AllReach(after, threshold)
    PROVE  AllReach(before, threshold)
BY DEF AllReach

\* evaluate_policy: a policy that is met after the step was met before it.
LEMMA PolicyNoBetter ==
    ASSUME TypeOK, TypeOK', Worsens
    PROVE  policy.compliant' => policy.compliant
<1>1. /\ DOMAIN seen' = DOMAIN seen
      /\ \A m \in DOMAIN seen :
             seen[m] \in Nat /\ seen'[m] \in Nat /\ seen'[m] <= seen[m]
  BY WorseningIsPointwise
<1> DEFINE rules == {RuleFor(m) : m \in RuleMetrics}
<1>2. ASSUME NEW m \in RuleMetrics, RuleHolds(RuleFor(m), policyState')
      PROVE  RuleHolds(RuleFor(m), policyState)
  <2>1. Desired[m] \in Nat
    BY PostureAssumption DEF RuleMetrics
  <2>2. CASE m = "satcom"
    BY <1>1, <1>2, <2>1, <2>2 DEF RuleFor, RuleHolds, policyState, AllReach
  <2>3. CASE m = "fuel"
    <3>1. RuleFor(m) = [minimum_reserve_days |-> Desired[m]]
      BY <2>3 DEF RuleFor
    <3>2. AllReach(policyState'.reserve_days, Desired[m])
      BY <1>2, <3>1 DEF RuleHolds
    <3>3. /\ DOMAIN policyState'.reserve_days = DOMAIN policyState.reserve_days
          /\ \A k \in DOMAIN policyState.reserve_days :
                 /\ policyState.reserve_days[k] \in Nat
                 /\ policyState'.reserve_days[k] \in Nat
                 /\ policyState'.reserve_days[k] <= policyState.reserve_days[k]
      BY <1>1 DEF policyState
    <3>4. AllReach(policyState.reserve_days, Desired[m])
      BY <2>1, <3>2, <3>3, ReachMonotone
    <3> QED
      BY <3>1, <3>4 DEF RuleHolds
  <2>4. CASE m = "routes"
    BY <1>1, <1>2, <2>1, <2>4 DEF RuleFor, RuleHolds, policyState, Reading
  <2>5. CASE m = "continuity"
    BY <1>1, <1>2, <2>1, <2>5 DEF RuleFor, RuleHolds, policyState, Reading
  <2>6. CASE m = "trust"
    BY <1>1, <1>2, <2>1, <2>6 DEF RuleFor, RuleHolds, policyState, AllReach
  <2> QED
    BY <2>2, <2>3, <2>4, <2>5, <2>6 DEF RuleMetrics
<1>3. policy.compliant = (\A m \in RuleMetrics : RuleHolds(RuleFor(m), policyState))
  BY DEF policy, EvaluatePolicy
<1>4. policy'.compliant = (\A m \in RuleMetrics : RuleHolds(RuleFor(m), policyState'))
  BY DEF policy, EvaluatePolicy, RuleFor
<1> QED
  BY <1>2, <1>3, <1>4

\* What gets worse never improves the rating, the policy verdict or the scorecard
\* (evaluate_readiness, _derive_effective_state, evaluate_policy,
\* evaluate_assurance).
THEOREM WorseningSound == Spec => WorseningNeverHelps
<1>1. TypeOK /\ TypeOK' => [Worsens => NoVerdictBetter]_vars
  BY RatingNoBetter, PolicyNoBetter, ScorecardNoBetter DEF NoVerdictBetter
<1> QED
  BY <1>1, TypeCorrect, PTL DEF WorseningNeverHelps

-----------------------------------------------------------------------------
(* Sums.                                                                   *)

\* A set of numbers that is not empty has a least element: induction as the provers
\* can use it, with the counterexamples as the set.
LEMMA LeastNumber ==
    ASSUME NEW T, T \subseteq Nat, T # {}
    PROVE  \E x \in T : \A y \in T : x <= y
<1> DEFINE less == {ss \in Nat \X Nat : ss[1] < ss[2]}
<1>1. OpToRel(<, Nat) = less
  BY Zenon DEF OpToRel
<1>2. IsWellFoundedOn(less, Nat)
  BY <1>1, NatLessThanWellFounded, Zenon
<1>3. PICK x \in T : \A y \in T : <<y, x>> \notin less
  <2> HIDE DEF less
  <2> QED BY <1>2, WFMin
<1>4. ASSUME NEW y \in T PROVE x <= y
  <2>1. x \in Nat /\ y \in Nat
    OBVIOUS
  <2>2. <<y, x>> \in Nat \X Nat /\ <<y, x>>[1] = y /\ <<y, x>>[2] = x
    BY <2>1
  <2>3. ~(y < x)
    BY <1>3, <2>2, Zenon
  <2> QED
    BY <2>1, <2>3
<1> QED
  BY <1>4

\* The sum as the fold computes it: an element is taken out, and the rest summed.
Pick(s) == CHOOSE x \in s : TRUE
Rest(s) == s \ {Pick(s)}
SumStep(g, h) == [s \in SUBSET (DOMAIN g) |-> IF s = {} THEN 0 ELSE g[Pick(s)] + h[Rest(s)]]
Sums(g) == CHOOSE h : h = SumStep(g, h)

\* sum(): the fold of the library, opened up.
LEMMA TotalIsSums ==
    ASSUME NEW g
    PROVE  Total(g) = Sums(g)[DOMAIN g]
BY DEF Total, MapThenSumSet, MapThenFoldSet, Sums, SumStep, Pick, Rest

\* The values are hundredths, as all values summed here.
InHundredths(g) == IsFiniteSet(DOMAIN g) /\ \A x \in DOMAIN g : g[x] \in 0..100

\* A part that is not empty has one element more than its rest.
LEMMA RestSmaller ==
    ASSUME NEW S, IsFiniteSet(S), NEW s \in SUBSET S, s # {}
    PROVE  /\ Pick(s) \in s /\ Rest(s) \in SUBSET S /\ Rest(s) \subseteq s
           /\ Cardinality(s) \in Nat /\ Cardinality(Rest(s)) \in Nat
           /\ Cardinality(s) = Cardinality(Rest(s)) + 1
<1>1. Pick(s) \in s
  BY DEF Pick
<1>2. IsFiniteSet(s)
  BY FS_Subset
<1>3. Cardinality(Rest(s)) = Cardinality(s) - 1 /\ IsFiniteSet(Rest(s))
  BY <1>1, <1>2, FS_RemoveElement DEF Rest
<1>4. Cardinality(s) \in Nat /\ Cardinality(Rest(s)) \in Nat
  BY <1>2, <1>3, FS_CardinalityType
<1>5. Cardinality(s) = Cardinality(Rest(s)) + 1
  BY <1>3, <1>4
<1> QED
  BY <1>1, <1>4, <1>5 DEF Rest

\* The parts of S with at most n elements.
Small(S, n) == {s \in SUBSET S : Cardinality(s) <= n}

\* h is the sum of g on the sets with at most n elements.
SumsUpTo(g, n, h) ==
    \A s \in Small(DOMAIN g, n) : h[s] = IF s = {} THEN 0 ELSE g[Pick(s)] + h[Rest(s)]

\* There is a function that the recursion describes, so the fold is one.
LEMMA SumsExist ==
    ASSUME NEW g, InHundredths(g)
    PROVE  Sums(g) = SumStep(g, Sums(g))
<1> DEFINE S == DOMAIN g
           Wrong == {n \in Nat : \A h : ~SumsUpTo(g, n, h)}
<1>1. IsFiniteSet(S)
  BY DEF InHundredths
<1>2. Wrong = {}
  <2> SUFFICES ASSUME Wrong # {} PROVE FALSE
    OBVIOUS
  <2>1. PICK n \in Wrong : \A m \in Wrong : n <= m
    <3>1. Wrong \subseteq Nat
      OBVIOUS
    <3> HIDE DEF Wrong
    <3> QED
      BY <3>1, LeastNumber
  <2>2. n \in Nat /\ \A h : ~SumsUpTo(g, n, h)
    OBVIOUS
  <2>3. n # 0
    <3> SUFFICES ASSUME n = 0 PROVE FALSE
      OBVIOUS
    <3> DEFINE h == [s \in SUBSET S |-> 0]
    <3>1. ASSUME NEW s \in Small(S, 0) PROVE s = {}
      <4>1. IsFiniteSet(s) /\ Cardinality(s) <= 0 /\ s \in SUBSET S
        BY <1>1, FS_Subset DEF Small
      <4> QED
        BY <4>1, FS_CardinalityType, FS_EmptySet
    <3>2. SumsUpTo(g, 0, h)
      BY <3>1 DEF SumsUpTo, Small
    <3> QED
      BY <2>2, <3>2
  <2>4. PICK h : SumsUpTo(g, n - 1, h)
    <3>1. n - 1 \in Nat /\ ~(n <= n - 1)
      BY <2>2, <2>3
    <3>2. n - 1 \notin Wrong
      <4> HIDE DEF Wrong
      <4> QED
        BY <2>1, <3>1
    <3> QED
      BY <3>1, <3>2
  <2> DEFINE value(s) == IF s = {} THEN 0 ELSE g[Pick(s)] + h[Rest(s)]
             more == [s \in SUBSET S |-> IF s \in Small(S, n - 1) THEN h[s] ELSE value(s)]
  <2>5. ASSUME NEW s \in Small(S, n)
        PROVE  more[s] = IF s = {} THEN 0 ELSE g[Pick(s)] + more[Rest(s)]
    <3>1. s \in SUBSET S /\ Cardinality(s) <= n
      BY DEF Small
    <3>2. s # {} => Rest(s) \in Small(S, n - 1)
      <4> SUFFICES ASSUME s # {} PROVE Rest(s) \in Small(S, n - 1)
        OBVIOUS
      <4>1. /\ Rest(s) \in SUBSET S /\ Cardinality(Rest(s)) \in Nat
            /\ Cardinality(s) = Cardinality(Rest(s)) + 1
        BY <1>1, <3>1, RestSmaller
      <4>2. Cardinality(Rest(s)) <= n - 1
        BY <2>2, <3>1, <4>1
      <4> QED
        BY <4>1, <4>2 DEF Small
    <3>3. s # {} => more[Rest(s)] = h[Rest(s)]
      BY <3>2 DEF Small
    <3>4. more[s] = value(s)
      <4>1. CASE s \in Small(S, n - 1)
        <5>1. h[s] = value(s)
          BY <2>4, <4>1 DEF SumsUpTo
        <5> QED
          BY <3>1, <4>1, <5>1
      <4>2. CASE s \notin Small(S, n - 1)
        BY <3>1, <4>2
      <4> QED
        BY <4>1, <4>2
    <3> HIDE DEF more
    <3> QED
      BY <3>3, <3>4
  <2>6. SumsUpTo(g, n, more)
    <3> HIDE DEF more
    <3> QED
      BY <2>5 DEF SumsUpTo
  <2> QED
    BY <2>2, <2>6
<1>3. Cardinality(S) \in Nat
  BY <1>1, FS_CardinalityType
<1>4. PICK h : SumsUpTo(g, Cardinality(S), h)
  BY <1>2, <1>3
<1>5. \A s \in SUBSET S : s \in Small(S, Cardinality(S))
  BY <1>1, FS_Subset DEF Small
<1> DEFINE f == [s \in SUBSET S |-> h[s]]
<1>6. f = SumStep(g, f)
  <2>1. ASSUME NEW s \in SUBSET S PROVE f[s] = IF s = {} THEN 0 ELSE g[Pick(s)] + f[Rest(s)]
    <3>1. h[s] = IF s = {} THEN 0 ELSE g[Pick(s)] + h[Rest(s)]
      BY <1>4, <1>5 DEF SumsUpTo
    <3>2. f[s] = h[s] /\ (f[Rest(s)] = h[Rest(s)])
      BY DEF Rest
    <3> QED
      BY <3>1, <3>2
  <2> QED
    BY <2>1 DEF SumStep
<1> QED
  <2> HIDE DEF f
  <2> QED
    BY <1>6 DEF Sums

\* What a sum of hundredths says of its terms: it is full when all are, and zero when
\* all are.
SumSays(g, s, total) ==
    /\ total \in Nat /\ total <= 100 * Cardinality(s)
    /\ total = 100 * Cardinality(s) <=> \A x \in s : g[x] = 100
    /\ total = 0 <=> \A x \in s : g[x] = 0

\* The arithmetic of one more term.
LEMMA OneMoreTerm ==
    ASSUME NEW v \in 0..100, NEW t \in Nat, NEW c \in Nat, t <= 100 * c
    PROVE  /\ v + t \in Nat /\ v + t <= 100 * (c + 1)
           /\ v + t = 100 * (c + 1) <=> v = 100 /\ t = 100 * c
           /\ v + t = 0 <=> v = 0 /\ t = 0
OBVIOUS

\* The sum over any part of the domain says so of that part.
LEMMA SumsSay ==
    ASSUME NEW g, InHundredths(g), NEW s0 \in SUBSET DOMAIN g
    PROVE  SumSays(g, s0, Sums(g)[s0])
<1> DEFINE S == DOMAIN g
           Wrong == {n \in Nat : \E s \in SUBSET S :
                        Cardinality(s) = n /\ ~SumSays(g, s, Sums(g)[s])}
<1>1. IsFiniteSet(S)
  BY DEF InHundredths
<1>2. ASSUME NEW s \in SUBSET S
      PROVE  Sums(g)[s] = IF s = {} THEN 0 ELSE g[Pick(s)] + Sums(g)[Rest(s)]
  <2> DEFINE h == Sums(g)
  <2>1. h = SumStep(g, h)
    BY SumsExist
  <2> HIDE DEF h
  <2>2. h[s] = IF s = {} THEN 0 ELSE g[Pick(s)] + h[Rest(s)]
    BY <2>1 DEF SumStep
  <2> QED
    BY <2>2 DEF h
<1>3. Wrong = {}
  <2> SUFFICES ASSUME Wrong # {} PROVE FALSE
    OBVIOUS
  <2>1. PICK n \in Wrong : \A m \in Wrong : n <= m
    <3>1. Wrong \subseteq Nat
      OBVIOUS
    <3> HIDE DEF Wrong
    <3> QED
      BY <3>1, LeastNumber
  <2>2. PICK s \in SUBSET S : Cardinality(s) = n /\ ~SumSays(g, s, Sums(g)[s])
    OBVIOUS
  <2>3. CASE s = {}
    <3>1. Sums(g)[s] = 0 /\ Cardinality(s) = 0
      BY <1>2, <2>3, FS_EmptySet
    <3> QED
      BY <2>2, <2>3, <3>1 DEF SumSays
  <2>4. CASE s # {}
    <3> DEFINE v == g[Pick(s)]
               t == Sums(g)[Rest(s)]
               c == Cardinality(Rest(s))
    <3>1. /\ Pick(s) \in s /\ Rest(s) \in SUBSET S
          /\ c \in Nat /\ Cardinality(s) = c + 1
      BY <1>1, <2>4, RestSmaller
    <3>2. SumSays(g, Rest(s), t)
      <4> SUFFICES ASSUME ~SumSays(g, Rest(s), t) PROVE FALSE
        OBVIOUS
      <4>1. c \in Wrong
        BY <3>1
      <4> HIDE DEF Wrong, c
      <4>2. n <= c
        BY <2>1, <4>1
      <4>3. n = c + 1
        BY <2>2, <3>1
      <4> QED
        BY <3>1, <4>2, <4>3
    <3>3. v \in 0..100
      BY <3>1 DEF InHundredths
    <3>4. /\ t \in Nat /\ t <= 100 * c
          /\ t = 100 * c <=> \A x \in Rest(s) : g[x] = 100
          /\ t = 0 <=> \A x \in Rest(s) : g[x] = 0
      BY <3>2 DEF SumSays
    <3>5. Sums(g)[s] = v + t
      BY <1>2, <2>4
    <3>6. \A x \in s : x = Pick(s) \/ x \in Rest(s)
      BY DEF Rest
    <3>7. Rest(s) \subseteq s
      BY DEF Rest
    <3>8. /\ (\A x \in s : g[x] = 100) <=> v = 100 /\ \A x \in Rest(s) : g[x] = 100
          /\ (\A x \in s : g[x] = 0) <=> v = 0 /\ \A x \in Rest(s) : g[x] = 0
      BY <3>1, <3>6, <3>7
    <3>9. /\ v + t \in Nat /\ v + t <= 100 * (c + 1)
          /\ v + t = 100 * (c + 1) <=> v = 100 /\ t = 100 * c
          /\ v + t = 0 <=> v = 0 /\ t = 0
      <4> HIDE DEF v, t, c
      <4> QED
        BY <3>1, <3>3, <3>4, OneMoreTerm
    <3> HIDE DEF v, t, c
    <3>10. SumSays(g, s, v + t)
      BY <3>1, <3>4, <3>8, <3>9 DEF SumSays
    <3> QED
      BY <2>2, <3>5, <3>10
  <2> QED
    BY <2>3, <2>4
<1>4. Cardinality(s0) \in Nat
  BY <1>1, FS_Subset, FS_CardinalityType
<1> QED
  BY <1>3, <1>4

\* The same of the sum of a whole function.
LEMMA TotalSays ==
    ASSUME NEW g, InHundredths(g)
    PROVE  SumSays(g, DOMAIN g, Total(g))
BY TotalIsSums, SumsSay

-----------------------------------------------------------------------------
(* One story.                                                              *)

\* A layer that is not available has a reason (the _assess functions).
LEMMA LayersExplained ==
    ASSUME NEW i, ClosureInput(i),
           NEW l \in {AssessPhysical(i), AssessOperational(i), AssessCommercial(i),
                      AssessTrust(i), AssessRecovery(i)}
    PROVE  l.state \in LayerState /\ (l.state # "available" => l.reasons # {})
<1>1. CASE l = AssessPhysical(i)
  BY <1>1 DEF AssessPhysical, Layer, LayerState
<1>2. CASE l = AssessOperational(i)
  BY <1>2 DEF AssessOperational, Layer, LayerState, When
<1>3. CASE l = AssessCommercial(i)
  BY <1>3 DEF AssessCommercial, Layer, LayerState, When
<1>4. CASE l = AssessTrust(i)
  <2>1. i["data_integrity"] \in 0..100 /\ i["observation_confidence"] \in 0..100
    BY DEF ClosureInput, Factors, FactorType, Ratios, GoodFlags, BadFlags, Score
  <2> QED
    BY <1>4, <2>1 DEF AssessTrust, Layer, LayerState, When
<1>5. CASE l = AssessRecovery(i)
  BY <1>5 DEF AssessRecovery, Layer, LayerState
<1> QED
  BY <1>1, <1>2, <1>3, <1>4, <1>5

\* assess_closure: a corridor that is not simply open has a reason.
LEMMA ClosureExplained ==
    ASSUME NEW i, ClosureInput(i), AssessClosure(i).effective # "open"
    PROVE  AssessClosure(i).reasons # {}
<1> DEFINE p == AssessPhysical(i)
           o == AssessOperational(i)
           c == AssessCommercial(i)
           t == AssessTrust(i)
           r == AssessRecovery(i)
<1>1. \A l \in {p, o, c, t, r} : l.state # "available" => l.reasons # {}
  BY LayersExplained
<1>2. EffectiveState(p, o, c, t, r) # "open"
  BY DEF AssessClosure
<1>3. AssessClosure(i).reasons =
          p.reasons \cup o.reasons \cup c.reasons \cup t.reasons \cup r.reasons
  BY DEF AssessClosure
<1> HIDE DEF p, o, c, t, r
<1>4. \E l \in {p, o, c, t, r} : l.state # "available" \/ l.reasons # {}
  BY <1>2 DEF EffectiveState
<1>5. \E l \in {p, o, c, t, r} : l.reasons # {}
  BY <1>1, <1>4
<1> QED
  BY <1>3, <1>5

\* The reasons that to_composite_state asks for, and what the layers make of them.
LEMMA LayerReasons ==
    ASSUME NEW i, ClosureInput(i)
    PROVE  LET p == AssessPhysical(i)
               o == AssessOperational(i)
               c == AssessCommercial(i)
               r == AssessRecovery(i)
           IN /\ p.state \in LayerState
              /\ o.state = "unavailable" <=> \/ "navigation_unavailable" \in o.reasons
                                             \/ "communications_unavailable" \in o.reasons
              /\ c.state = "unavailable" => "uninsurable" \in c.reasons
<1>1. AssessPhysical(i).state \in LayerState
  BY LayersExplained
<1>2. LET o == AssessOperational(i)
      IN o.state = "unavailable" <=> \/ "navigation_unavailable" \in o.reasons
                                     \/ "communications_unavailable" \in o.reasons
  BY DEF AssessOperational, Layer, When, ClosureInput, Factors, FactorType, GoodFlags, BadFlags
<1>3. AssessCommercial(i).state = "unavailable" => "uninsurable" \in AssessCommercial(i).reasons
  BY UnavailableLayers, CommercialLayer
<1> QED
  BY <1>1, <1>2, <1>3

\* to_composite_state: the exported composite is clean exactly when the effective state
\* is not an impaired one.
LEMMA CompositeMeans == TypeOK => CompositeAgrees
<1> SUFFICES ASSUME TypeOK PROVE CompositeAgrees
  OBVIOUS
<1> DEFINE p == AssessPhysical(cond)
           o == AssessOperational(cond)
           c == AssessCommercial(cond)
           t == AssessTrust(cond)
           r == AssessRecovery(cond)
           s == CompositeState(closure)
           clean == /\ p.state \notin {"unavailable", "degraded"}
                    /\ "navigation_untrusted" \notin o.reasons
                    /\ "navigation_unavailable" \notin o.reasons
                    /\ "communications_degraded" \notin o.reasons
                    /\ "communications_unavailable" \notin o.reasons
                    /\ "service_dependent" \notin o.reasons
                    /\ "no_carrier_capacity" \notin c.reasons
                    /\ "uninsurable" \notin c.reasons
                    /\ "recovery_backlogged" \notin r.reasons
<1>1. ClosureInput(cond)
  BY DEF TypeOK
<1>2. /\ closure.physical = p /\ closure.operational = o /\ closure.commercial = c
      /\ closure.recovery = r /\ closure.effective = EffectiveState(p, o, c, t, r)
  BY DEF closure, AssessClosure
<1>3. /\ p.state \in LayerState
      /\ o.state = "unavailable" <=> \/ "navigation_unavailable" \in o.reasons
                                     \/ "communications_unavailable" \in o.reasons
      /\ c.state = "unavailable" => "uninsurable" \in c.reasons
  BY <1>1, LayerReasons
<1>4. (s.physical = "open" /\ s.navigation = "healthy" /\ s.communications = "healthy"
       /\ s.escort = "available" /\ s.carrier = "available" /\ s.insurance = "available"
       /\ s.phase = "normal") <=> clean
  <2> HIDE DEF p, o, c, t, r
  <2>1. s.physical = "open" <=> p.state \notin {"unavailable", "degraded"}
    BY <1>2 DEF CompositeState
  <2>2. s.navigation = "healthy" <=> /\ "navigation_untrusted" \notin o.reasons
                                     /\ "navigation_unavailable" \notin o.reasons
    BY <1>2 DEF CompositeState
  <2>3. s.communications = "healthy" <=> /\ "communications_degraded" \notin o.reasons
                                         /\ "communications_unavailable" \notin o.reasons
    BY <1>2 DEF CompositeState
  <2>4. s.escort = "available" <=> "service_dependent" \notin o.reasons
    BY <1>2 DEF CompositeState
  <2>5. /\ s.carrier = "available" <=> "no_carrier_capacity" \notin c.reasons
        /\ s.insurance = "available" <=> "uninsurable" \notin c.reasons
    BY <1>2 DEF CompositeState
  <2>6. s.phase = "normal" <=> "recovery_backlogged" \notin r.reasons
    BY <1>2 DEF CompositeState
  <2> HIDE DEF s
  <2> QED
    BY <2>1, <2>2, <2>3, <2>4, <2>5, <2>6
<1>5. clean <=> closure.effective \in {"open", "open_degraded"}
  <2> HIDE DEF p, o, c, t, r
  <2> QED
    BY <1>2, <1>3 DEF EffectiveState, LayerState
<1> HIDE DEF clean
<1> QED
  BY <1>4, <1>5 DEF CompositeAgrees

\* evaluate_readiness: a C-3 or C-4 that the continuity score does not account for has
\* a limiting factor.
LEMMA RatingExplained ==
    ASSUME NEW continuity \in Nat, NEW days \in Nat, NEW state, NEW status,
           CRating(continuity, days, state, status) >= 3, continuity >= 80
    PROVE  LimitingFactors(state, days, status) # {}
<1> DEFINE v == CorridorScore(state)
<1>1. v \in {0, 50, 80, 100}
  BY DEF CorridorScore
<1> HIDE DEF v
<1>2. v = 0 \/ days < 7 \/ v <= 50 \/ days < 20 \/ status = "fail"
  BY DEF CRating, v
<1>3. v = 0 \/ v = 50 \/ days < 7 \/ (days >= 7 /\ days < 20) \/ status = "fail"
  BY <1>1, <1>2
<1>4. CASE v = 0
  <2>1. "CORRIDOR_CLOSED" \in LimitingFactors(state, days, status)
    BY <1>4 DEF LimitingFactors, v
  <2> QED BY <2>1
<1>5. CASE v = 50
  <2>1. "CORRIDOR_DEGRADED" \in LimitingFactors(state, days, status)
    BY <1>5 DEF LimitingFactors, v
  <2> QED BY <2>1
<1>6. CASE days < 7
  <2>1. "CRITICAL_INVENTORY_DEPLETION" \in LimitingFactors(state, days, status)
    BY <1>6 DEF LimitingFactors
  <2> QED BY <2>1
<1>7. CASE days >= 7 /\ days < 20
  <2>1. "LOW_INVENTORY_RESERVE" \in LimitingFactors(state, days, status)
    BY <1>7 DEF LimitingFactors
  <2> QED BY <2>1
<1>8. CASE status = "fail"
  <2>1. "POLICY_RECONCILIATION_FAILURE" \in LimitingFactors(state, days, status)
    BY <1>8 DEF LimitingFactors
  <2> QED BY <2>1
<1> QED
  BY <1>3, <1>4, <1>5, <1>6, <1>7, <1>8
\* reconcile: a check is compliant exactly when the number is observed and reaches what
\* is declared.
LEMMA CheckMeans ==
    ASSUME TypeOK, NEW m \in DOMAIN checks
    PROVE  /\ m \in DOMAIN Desired /\ m # "trust" /\ checks[m] \in Status
           /\ checks[m] = "compliant" <=> m \in DOMAIN seen /\ seen[m] >= Desired[m]
<1>1. m \in DOMAIN Desired /\ m # "trust"
  BY DEF checks, Checks, Checked
<1>2. checks[m] = IF m \in DOMAIN seen THEN Compare(Desired[m], seen[m]) ELSE "unknown"
  BY DEF checks, Checks
<1>3. Desired[m] \in Nat /\ (m \in DOMAIN seen => seen[m] \in Nat)
  BY <1>1, PostureAssumption DEF TypeOK
<1> QED
  BY <1>1, <1>2, <1>3 DEF Compare, Status

\* The overall status is compliant exactly when every check is.
LEMMA OverallMeans ==
    ASSUME NEW cs, \A m \in DOMAIN cs : cs[m] \in Status
    PROVE  OverallStatus(cs) = "compliant" <=> \A m \in DOMAIN cs : cs[m] = "compliant"
BY DEF OverallStatus, Status

\* What the overall status says of the metrics.
LEMMA CompliantMeans ==
    ASSUME TypeOK
    PROVE  OverallStatus(checks) = "compliant"
               <=> \A m \in DOMAIN checks : checks[m] = "compliant"
<1> DEFINE cs == checks
<1>1. \A m \in DOMAIN cs : cs[m] \in Status
  BY CheckMeans
<1> HIDE DEF cs
<1>2. OverallStatus(cs) = "compliant" <=> \A m \in DOMAIN cs : cs[m] = "compliant"
  BY <1>1, OverallMeans
<1> QED
  BY <1>2 DEF cs

\* A set of three is finite.
LEMMA ThreeFinite ==
    ASSUME NEW a, NEW b, NEW c
    PROVE  IsFiniteSet({a, b, c})
<1>1. IsFiniteSet({a}) /\ IsFiniteSet({b}) /\ IsFiniteSet({c})
  BY FS_Singleton
<1>2. IsFiniteSet({a} \cup {b})
  BY <1>1, FS_Union
<1>3. IsFiniteSet(({a} \cup {b}) \cup {c})
  BY <1>1, <1>2, FS_Union
<1>4. {a, b, c} = ({a} \cup {b}) \cup {c}
  OBVIOUS
<1> QED
  BY <1>3, <1>4

\* _REMEDIATION_TEMPLATES: every check has one to three templates, each with a positive
\* gain, or gets the generic one.
LEMMA TemplatesGain ==
    ASSUME NEW m
    PROVE  \E a, b, c : /\ (IF Templates(m) = {} THEN {<<5, 3>>} ELSE Templates(m)) = {a, b, c}
                        /\ a[1] \in 1..100 /\ b[1] \in 1..100 /\ c[1] \in 1..100
<1>1. CASE m = "satcom"
  <2>1. Templates(m) = {<<15, 1>>, <<8, 2>>, <<8, 2>>}
    BY <1>1 DEF Templates
  <2>2. Templates(m) # {}
    BY <2>1
  <2>3. <<15, 1>>[1] \in 1..100 /\ <<8, 2>>[1] \in 1..100
    OBVIOUS
  <2> QED
    BY <2>1, <2>2, <2>3, Zenon
<1>2. CASE m = "fuel"
  <2>1. Templates(m) = {<<12, 1>>, <<6, 2>>, <<6, 2>>}
    BY <1>2 DEF Templates
  <2>2. Templates(m) # {}
    BY <2>1
  <2>3. <<12, 1>>[1] \in 1..100 /\ <<6, 2>>[1] \in 1..100
    OBVIOUS
  <2> QED
    BY <2>1, <2>2, <2>3, Zenon
<1>3. CASE m = "medical"
  <2>1. Templates(m) = {<<10, 1>>, <<10, 1>>, <<10, 1>>}
    BY <1>3 DEF Templates
  <2>2. Templates(m) # {}
    BY <2>1
  <2>3. <<10, 1>>[1] \in 1..100
    OBVIOUS
  <2> QED
    BY <2>1, <2>2, <2>3, Zenon
<1>4. CASE m = "routes"
  <2>1. Templates(m) = {<<15, 1>>, <<8, 2>>, <<8, 2>>}
    BY <1>4 DEF Templates
  <2>2. Templates(m) # {}
    BY <2>1
  <2>3. <<15, 1>>[1] \in 1..100 /\ <<8, 2>>[1] \in 1..100
    OBVIOUS
  <2> QED
    BY <2>1, <2>2, <2>3, Zenon
<1>5. CASE m = "navigation"
  <2>1. Templates(m) = {<<10, 1>>, <<10, 1>>, <<10, 1>>}
    BY <1>5 DEF Templates
  <2>2. Templates(m) # {}
    BY <2>1
  <2>3. <<10, 1>>[1] \in 1..100
    OBVIOUS
  <2> QED
    BY <2>1, <2>2, <2>3, Zenon
<1>6. CASE m = "continuity"
  <2>1. Templates(m) = {<<10, 1>>, <<8, 2>>, <<12, 1>>}
    BY <1>6 DEF Templates
  <2>2. Templates(m) # {}
    BY <2>1
  <2>3. <<10, 1>>[1] \in 1..100 /\ <<8, 2>>[1] \in 1..100 /\ <<12, 1>>[1] \in 1..100
    OBVIOUS
  <2> QED
    BY <2>1, <2>2, <2>3, Zenon
<1>7. CASE m \notin {"satcom", "fuel", "medical", "routes", "navigation", "continuity"}
  <2>1. Templates(m) = {}
    BY <1>7 DEF Templates
  <2>2. <<5, 3>>[1] \in 1..100 /\ {<<5, 3>>} = {<<5, 3>>, <<5, 3>>, <<5, 3>>}
    OBVIOUS
  <2> QED BY <2>1, <2>2
<1> QED
  BY <1>1, <1>2, <1>3, <1>4, <1>5, <1>6, <1>7

\* _generate_options_for_check: finitely many options, at least one, each for the check
\* it was made for and with a positive gain.
LEMMA OptionsGain ==
    ASSUME NEW m
    PROVE  /\ IsFiniteSet(OptionsFor(m)) /\ OptionsFor(m) # {}
           /\ \A o \in OptionsFor(m) : o.check = m /\ o.improvement \in 1..100
<1> DEFINE T == IF Templates(m) = {} THEN {<<5, 3>>} ELSE Templates(m)
           option(t) == [check |-> m, improvement |-> t[1], priority |-> t[2]]
<1>1. PICK a, b, c : /\ T = {a, b, c}
                     /\ a[1] \in 1..100 /\ b[1] \in 1..100 /\ c[1] \in 1..100
  BY TemplatesGain
<1>2. OptionsFor(m) = {option(t) : t \in T}
  BY DEF OptionsFor
<1> HIDE DEF T
<1>3. OptionsFor(m) = {option(a), option(b), option(c)}
  BY <1>1, <1>2
<1>4. IsFiniteSet({option(a), option(b), option(c)})
  BY ThreeFinite
<1> QED
  BY <1>1, <1>3, <1>4
\* generate_remediation: a plan is finite and has an option for exactly the checks that
\* are not compliant; its total gain is zero exactly when there is none.
LEMMA RemediationMeans ==
    ASSUME NEW cs, IsFiniteSet(DOMAIN cs)
    PROVE  /\ \A m \in DOMAIN cs :
                  cs[m] = "compliant" <=> \A o \in Remediation(cs) : o.check # m
           /\ TotalImprovement(Remediation(cs)) = 0 <=> \A m \in DOMAIN cs : cs[m] = "compliant"
<1> DEFINE X == {m \in DOMAIN cs : cs[m] # "compliant"}
           P == {OptionsFor(m) : m \in X}
           R == Remediation(cs)
           g == [o \in R |-> o.improvement]
<1>1. R = UNION P
  BY DEF Remediation
<1>2. IsFiniteSet(X)
  BY FS_Subset
<1>3. IsFiniteSet(P)
  <2> DEFINE f == [m \in X |-> OptionsFor(m)]
  <2>1. f \in Surjection(X, P)
    BY DEF Surjection
  <2> HIDE DEF X, P, f
  <2> QED
    BY <1>2, <2>1, FS_Surjection
<1>4. IsFiniteSet(R)
  <2>1. \A T \in P : IsFiniteSet(T)
    BY OptionsGain
  <2> HIDE DEF P, R
  <2> QED
    BY <1>1, <1>3, <2>1, FS_UNION
<1>5. \A o \in R : o.check \in X /\ o.improvement \in 1..100
  <2> SUFFICES ASSUME NEW o \in R PROVE o.check \in X /\ o.improvement \in 1..100
    OBVIOUS
  <2>1. PICK m \in X : o \in OptionsFor(m)
    BY <1>1
  <2> HIDE DEF X, R
  <2> QED
    BY <2>1, OptionsGain
<1>6. \A m \in X : \E o \in R : o.check = m
  <2> SUFFICES ASSUME NEW m \in X PROVE \E o \in R : o.check = m
    OBVIOUS
  <2>1. PICK o \in OptionsFor(m) : o.check = m
    BY OptionsGain
  <2>2. o \in R
    BY <1>1, <2>1
  <2> QED
    BY <2>1, <2>2
<1>7. \A m \in DOMAIN cs : cs[m] = "compliant" <=> \A o \in R : o.check # m
  <2> HIDE DEF R
  <2> QED
    BY <1>5, <1>6
<1>8. R = {} <=> \A m \in DOMAIN cs : cs[m] = "compliant"
  <2> HIDE DEF R
  <2> QED
    BY <1>5, <1>6
<1>9. Total(g) \in Nat /\ (Total(g) = 0 <=> \A o \in R : g[o] = 0)
  <2>1. DOMAIN g = R /\ \A o \in R : g[o] \in 0..100
    BY <1>5
  <2> HIDE DEF g, R
  <2>2. SumSays(g, DOMAIN g, Total(g))
    BY <1>4, <2>1, TotalSays DEF InHundredths
  <2> QED
    BY <2>1, <2>2 DEF SumSays
<1>10. Total(g) = 0 <=> R = {}
  <2>1. \A o \in R : g[o] # 0
    BY <1>5
  <2> HIDE DEF g, R
  <2> QED
    BY <1>9, <2>1
<1>11. TotalImprovement(R) = IF Total(g) < 100 THEN Total(g) ELSE 100
  BY DEF TotalImprovement
<1>12. TotalImprovement(R) = 0 <=> Total(g) = 0
  <2> HIDE DEF g, R
  <2> QED
    BY <1>9, <1>11
<1> HIDE DEF g, R
<1> QED
  BY <1>7, <1>8, <1>10, <1>12 DEF R

\* Every downgrade is explained.
LEMMA ExplainedMeans == TypeOK => DowngradesExplained
<1> SUFFICES ASSUME TypeOK PROVE DowngradesExplained
  OBVIOUS
<1>1. closure.effective # "open" => closure.reasons # {}
  BY ClosureExplained DEF TypeOK, closure
<1>2. (rating >= 3 /\ Reading("continuity", 95) >= 80) =>
          LimitingFactors(closure.effective, Reading("fuel", 30), OverallStatus(checks)) # {}
  <2>1. Reading("continuity", 95) \in Nat /\ Reading("fuel", 30) \in Nat
    BY DEF TypeOK, Reading
  <2> QED
    BY <2>1, RatingExplained DEF rating, Rating
<1> DEFINE cs == checks
<1>3. IsFiniteSet(DOMAIN cs)
  <2>1. DOMAIN cs \in SUBSET (DOMAIN Desired)
    BY DEF checks, Checks, Checked
  <2> HIDE DEF cs
  <2> QED
    BY <2>1, PostureAssumption, FS_Subset
<1>4. OverallStatus(cs) = "compliant" <=> \A m \in DOMAIN cs : cs[m] = "compliant"
  BY CompliantMeans
<1> HIDE DEF cs
<1>5. /\ \A m \in DOMAIN cs : cs[m] = "compliant" <=> \A o \in Remediation(cs) : o.check # m
      /\ OverallStatus(cs) = "compliant" <=> TotalImprovement(Remediation(cs)) = 0
  BY <1>3, <1>4, RemediationMeans
<1> QED
  BY <1>1, <1>2, <1>5 DEF DowngradesExplained, cs

\* The dimensions of a scorecard.
Counted == {"continuity", "corridors", "ports", "communication", "navigation",
            "operational", "environmental", "carriers", "reserve_days", "cycles"}
Verified == {"insurance", "carrier_return", "backlog_clearance", "reserve_restoration"}

\* The numbers the assurance engine is given.
LEMMA AssuranceNumbers ==
    ASSUME TypeOK
    PROVE  /\ DOMAIN Required(assurancePolicy) = Counted
           /\ assurancePolicy.verify = Verified
           /\ \A d \in Counted : /\ Required(assurancePolicy)[d] \in Nat
                                 /\ assuranceState.counts[d] \in Nat
<1>1. DOMAIN Required(assurancePolicy) = Counted
  BY DEF Required, Counted
<1>2. assurancePolicy.verify = Verified
  BY DEF assurancePolicy, Verified
<1>3. /\ Desired["routes"] \in Nat /\ Desired["satcom"] \in Nat /\ Desired["navigation"] \in Nat
      /\ Desired["continuity"] \in Nat /\ Desired["fuel"] \in Nat
  BY PostureAssumption DEF RuleMetrics
<1>4. \A d \in Counted : Required(assurancePolicy)[d] \in Nat
  BY <1>3 DEF Required, assurancePolicy, Counted
<1>5. \A d \in Counted : assuranceState.counts[d] \in Nat
  BY DEF assuranceState, Reading, Counted, TypeOK
<1> QED
  BY <1>1, <1>2, <1>4, <1>5

\* The three engines on one number.
LEMMA NumberAgrees ==
    ASSUME TypeOK, NEW m \in (RuleMetrics \ {"trust"}) \cap DOMAIN seen
    PROVE  /\ checks[m] = "compliant" <=> seen[m] >= Desired[m]
           /\ DimensionOf(m) \notin scorecard.failed <=> seen[m] >= Desired[m]
           /\ m # "fuel" => (RuleHolds(RuleFor(m), policyState) <=> seen[m] >= Desired[m])
<1>1. m \in DOMAIN Desired /\ Desired[m] \in Nat /\ seen[m] \in Nat
  BY PostureAssumption DEF TypeOK
<1>2. checks[m] = "compliant" <=> seen[m] >= Desired[m]
  <2>1. m \in DOMAIN checks
    BY <1>1 DEF checks, Checks, Checked
  <2> QED
    BY <2>1, CheckMeans
<1>3. m \in {"satcom", "fuel", "routes", "continuity"}
  BY DEF RuleMetrics
<1>4. /\ DimensionOf(m) \in Counted
      /\ Required(assurancePolicy)[DimensionOf(m)] = Desired[m]
      /\ assuranceState.counts[DimensionOf(m)] = seen[m]
  BY <1>1, <1>3 DEF DimensionOf, Counted, Required, assurancePolicy, assuranceState, Reading
<1>5. DimensionOf(m) \notin scorecard.failed <=> seen[m] >= Desired[m]
  <2> DEFINE d == DimensionOf(m)
  <2>1. d \notin Verified
    BY <1>4 DEF Counted, Verified
  <2>2. scorecard.failed = Failed(assurancePolicy, assuranceState)
    BY DEF scorecard, Scorecard
  <2>3. DOMAIN Required(assurancePolicy) = Counted /\ assurancePolicy.verify = Verified
    BY AssuranceNumbers
  <2> HIDE DEF d
  <2>4. d \in Failed(assurancePolicy, assuranceState) <=> seen[m] < Desired[m]
    BY <1>4, <2>1, <2>3 DEF Failed, d
  <2> QED
    BY <1>1, <2>2, <2>4 DEF d
<1>6. ASSUME m # "fuel" PROVE RuleHolds(RuleFor(m), policyState) <=> seen[m] >= Desired[m]
  <2>1. CASE m = "satcom"
    BY <1>1, <2>1 DEF RuleFor, RuleHolds, policyState, AllReach
  <2>2. CASE m = "routes"
    BY <1>1, <2>2 DEF RuleFor, RuleHolds, policyState, Reading
  <2>3. CASE m = "continuity"
    BY <1>1, <2>3 DEF RuleFor, RuleHolds, policyState, Reading
  <2> QED
    BY <1>3, <1>6, <2>1, <2>2, <2>3
<1> QED
  BY <1>2, <1>5, <1>6

\* The engines that judge the same numbers agree.
LEMMA EnginesMean == TypeOK => EnginesAgree
<1> SUFFICES ASSUME TypeOK PROVE EnginesAgree
  OBVIOUS
<1>1. \A m \in (RuleMetrics \ {"trust"}) \cap DOMAIN seen :
          /\ checks[m] = "compliant" <=> DimensionOf(m) \notin scorecard.failed
          /\ m # "fuel" => (checks[m] = "compliant" <=> RuleHolds(RuleFor(m), policyState))
  BY NumberAgrees
<1>2. ASSUME OverallStatus(checks) = "compliant",
             NEW m \in RuleMetrics, ~RuleHolds(RuleFor(m), policyState)
      PROVE  m = "trust" \/ (m = "fuel" /\ Reading("medical", Desired["fuel"]) < Desired["fuel"])
  <2> SUFFICES ASSUME m # "trust"
               PROVE  m = "fuel" /\ Reading("medical", Desired["fuel"]) < Desired["fuel"]
    OBVIOUS
  <2>1. m \in DOMAIN checks
    BY PostureAssumption DEF checks, Checks, Checked
  <2>2. checks[m] = "compliant"
    BY <1>2, <2>1, CompliantMeans
  <2>3. m \in DOMAIN seen /\ seen[m] >= Desired[m]
    BY <2>1, <2>2, CheckMeans
  <2>4. m = "fuel"
    BY <1>2, <2>3, NumberAgrees
  <2>5. Desired["fuel"] \in Nat /\ \A x \in DOMAIN seen : seen[x] \in Nat
    BY PostureAssumption DEF TypeOK, RuleMetrics
  <2>6. RuleFor(m) = [minimum_reserve_days |-> Desired["fuel"]]
    BY <2>4 DEF RuleFor
  <2>7. ~AllReach(policyState.reserve_days, Desired["fuel"])
    BY <1>2, <2>6 DEF RuleHolds
  <2>8. policyState.reserve_days = [x \in {"fuel", "medical"} \cap DOMAIN seen |-> seen[x]]
    BY DEF policyState
  <2>9. \E x \in {"fuel", "medical"} \cap DOMAIN seen : ~(seen[x] >= Desired["fuel"])
    BY <2>3, <2>4, <2>7, <2>8 DEF AllReach
  <2>10. "medical" \in DOMAIN seen /\ seen["medical"] < Desired["fuel"]
    BY <2>3, <2>4, <2>5, <2>9
  <2> QED
    BY <2>4, <2>10 DEF Reading
<1>3. OverallStatus(checks) = "compliant" =>
          policy.violations \subseteq
              {RuleFor("trust")} \cup When(Reading("medical", Desired["fuel"]) < Desired["fuel"],
                                          RuleFor("fuel"))
  <2>1. policy.violations = {r \in {RuleFor(m) : m \in RuleMetrics} : ~RuleHolds(r, policyState)}
    BY DEF policy, EvaluatePolicy
  <2> QED
    BY <1>2, <2>1 DEF When
<1> QED
  BY <1>1, <1>3 DEF EnginesAgree

\* The verdicts on one state tell one story, for every corridor, reading and set of
\* requirements: the engines that judge the same numbers agree, the exported composite
\* shows an impairment when there is one, and every downgrade has its reason (reconcile,
\* evaluate_policy, evaluate_assurance, to_composite_state, evaluate_readiness,
\* generate_remediation).
THEOREM VerdictsAlwaysAgree == Spec => []VerdictsAgree
<1>1. TypeOK => VerdictsAgree
  BY EnginesMean, CompositeMeans, ExplainedMeans DEF VerdictsAgree
<1> QED
  BY <1>1, TypeCorrect, PTL

-----------------------------------------------------------------------------
(* The propagation of impacts.                                             *)

Waiting(n) == \E i \in DOMAIN queue : queue[i] = n

\* Every variable the search works on keeps its type, and the edges to be followed are
\* those of the current node.
SearchTypeOK ==
    /\ graph \in Graphs
    /\ failed \subseteq graph.nodes /\ pending \subseteq failed
    /\ probability \in [Node -> 0..Certain]
    /\ path \in [Node -> Seq(Node)]
    /\ queue \in Seq(Node)
    /\ held \in 0..Certain
    /\ found \in BOOLEAN
    /\ todo \subseteq Edges(graph)
    /\ \A e \in todo : graph.edges[e].source = current

\* The probability read when the current node was taken from the queue is still its
\* probability, or the node waits to be taken again; and nothing is followed once the
\* fast loop has its answer.
HeldIsCurrent ==
    /\ todo # {} => held = probability[current] \/ Waiting(current)
    /\ todo # {} => (held > 0 => probability[current] > 0)
    /\ found => todo = {}

SearchInv == SearchTypeOK /\ HeldIsCurrent /\ SearchSound

-----------------------------------------------------------------------------
(* Arithmetic of the impacts.                                              *)

\* A product of two numbers is bounded by the product of a bound of the first with the
\* second.
LEMMA ProductMonotone ==
    ASSUME NEW a \in Nat, NEW b \in Nat, NEW c \in Nat, a <= b
    PROVE  a * c <= b * c /\ a * c \in Nat
<1>1. PICK d \in Nat : b = a + d
  <2> WITNESS b - a \in Nat
  <2> QED
    OBVIOUS
<1>2. b * c = a * c + d * c /\ a * c \in Nat /\ d * c \in Nat
  BY <1>1
<1> QED
  BY <1>2

\* A quotient by the scale of the probabilities is a probability.
LEMMA QuotientBound ==
    ASSUME NEW z \in Nat, NEW y \in Nat, y <= 10000, z <= 10000 * y
    PROVE  z \div 10000 \in 0..10000
<1>1. z <= 10000 * 10000
  OBVIOUS
<1> QED
  BY <1>1

\* The combined impact of two is a probability, no less than the first; it is the first
\* when nothing is added and positive when something is added to nothing.
LEMMA CombinedIs ==
    ASSUME NEW a \in 0..Certain, NEW b \in 0..Certain
    PROVE  /\ Combined(a, b) \in 0..Certain
           /\ b = 0 => Combined(a, b) = a
           /\ a = 0 => Combined(a, b) = b
<1> DEFINE x == 10000 - a
           y == 10000 - b
           z == x * y
           w == z \div 10000
<1>1. Combined(a, b) = 10000 - w
  BY DEF Combined, Certain
<1> HIDE DEF z, w
<1>2. a \in 0..10000 /\ b \in 0..10000
  BY DEF Certain
<1>3. x \in Nat /\ y \in Nat /\ 10000 \in Nat /\ x <= 10000 /\ y <= 10000
  BY <1>2
<1>4. (a = 0 => x = 10000) /\ (b = 0 => y = 10000)
  OBVIOUS
<1> HIDE DEF x, y
<1>5. z = x * y
  BY DEF z
<1>6. z <= 10000 * y /\ z \in Nat
  <2>1. x * y <= 10000 * y /\ x * y \in Nat
    BY <1>3, ProductMonotone
  <2> QED
    BY <1>5, <2>1
<1>7. w \in 0..10000
  BY <1>3, <1>6, QuotientBound DEF w
<1>8. a = 0 => w = y
  <2>1. a = 0 => z = 10000 * y
    BY <1>4, <1>5
  <2> QED
    BY <1>3, <2>1 DEF w
<1>9. b = 0 => w = x
  <2>1. b = 0 => z = 10000 * x
    BY <1>3, <1>4, <1>5
  <2> QED
    BY <1>3, <2>1 DEF w
<1>10. 10000 - w \in 0..10000
  BY <1>7
<1>11. (b = 0 => 10000 - w = a) /\ (a = 0 => 10000 - w = b)
  <2>1. x = 10000 - a /\ y = 10000 - b
    BY DEF x, y
  <2> QED
    BY <1>2, <1>8, <1>9, <2>1
<1>12. Combined(a, b) \in 0..10000
  BY <1>1, <1>10
<1>13. (b = 0 => Combined(a, b) = a) /\ (a = 0 => Combined(a, b) = b)
  BY <1>1, <1>11
<1> QED
  BY <1>12, <1>13, SMTT(30) DEF Certain

\* What reaches a dependent system is a probability, and something only if the edge and
\* its source carry something.
LEMMA ReachingIs ==
    ASSUME NEW p \in 0..Certain, NEW e, graph.edges[e].strength \in 0..100
    PROVE  /\ Reaching(p, e) \in 0..Certain
           /\ Reaching(p, e) > 0 => p > 0 /\ graph.edges[e].strength > 0
<1> DEFINE s == graph.edges[e].strength
           q == p * s
           u == q * 25
           v == q * 100
           r == u \div 10000
           t == v \div 10000
<1>1. Attenuation(e) = 25 \/ Attenuation(e) = 100
  BY DEF Attenuation
<1>2. Reaching(p, e) = r \/ Reaching(p, e) = t
  BY <1>1 DEF Reaching
<1>3. p \in Nat /\ p <= 10000 /\ s \in Nat /\ s <= 100 /\ 10000 \in Nat
  BY DEF Certain
<1> HIDE DEF s, q, u, v, r, t
<1>4. q \in Nat /\ q <= 10000 * s
  <2>1. p * s <= 10000 * s /\ p * s \in Nat
    BY <1>3, ProductMonotone
  <2> QED
    BY <2>1 DEF q
<1>5. p = 0 \/ s = 0 => q = 0
  BY <1>3 DEF q
<1>6. /\ u \in Nat /\ u <= 10000 * 10000 /\ (q = 0 => u = 0)
      /\ v \in Nat /\ v <= 10000 * 10000 /\ (q = 0 => v = 0)
  BY <1>3, <1>4 DEF u, v
<1>7. r \in 0..Certain /\ t \in 0..Certain /\ (q = 0 => r = 0 /\ t = 0)
  BY <1>6 DEF r, t, Certain
<1>8. Reaching(p, e) \in 0..Certain /\ (q = 0 => Reaching(p, e) = 0)
  BY <1>2, <1>7
<1>9. Reaching(p, e) > 0 => p > 0 /\ s > 0
  BY <1>3, <1>5, <1>8 DEF Certain
<1> QED
  BY <1>8, <1>9 DEF s

-----------------------------------------------------------------------------
(* The graphs and their edges.                                             *)

\* An edge of a graph names nodes of the graph, with a strength in hundredths.
LEMMA EdgeFacts ==
    ASSUME graph \in Graphs, NEW e \in Edges(graph)
    PROVE  /\ graph.nodes \subseteq Node
           /\ graph.edges[e].source \in graph.nodes
           /\ graph.edges[e].target \in graph.nodes
           /\ graph.edges[e].strength \in 0..100
<1> DEFINE Edge == [source : graph.nodes, target : graph.nodes, strength : 0..100,
                    substitutable : BOOLEAN, group : STRING \cup {None}]
<1>1. graph.nodes \subseteq Node /\ graph.edges \in Seq(Edge)
  BY GraphAssumption DEF IsGraph
<1>2. e \in 1..Len(graph.edges)
  <2> HIDE DEF Edge
  <2> QED
    BY <1>1 DEF Edges
<1>3. graph.edges[e] \in Edge
  <2> HIDE DEF Edge
  <2> QED
    BY <1>1, <1>2
<1> QED
  BY <1>1, <1>3

\* What an edge of the current node carries.
LEMMA PropagatedIs ==
    ASSUME SearchTypeOK, HeldIsCurrent, NEW e \in todo
    PROVE  /\ current \in Node
           /\ Propagated(e) \in 0..Certain
           /\ Propagated(e) > 0 =>
                  probability[current] > 0 /\ graph.edges[e].strength > 0
           /\ Propagated(e) = 0 =>
                  Reaching(probability[current], e) = 0 \/ Waiting(current)
<1>1. /\ e \in Edges(graph) /\ graph \in Graphs
      /\ graph.edges[e].source = current
  BY DEF SearchTypeOK
<1>2. graph.edges[e].strength \in 0..100 /\ current \in Node
  BY <1>1, EdgeFacts
<1>3. held \in 0..Certain /\ probability[current] \in 0..Certain
  BY <1>2 DEF SearchTypeOK
<1>4. /\ held = probability[current] \/ Waiting(current)
      /\ held > 0 => probability[current] > 0
  BY DEF HeldIsCurrent
<1>5. /\ Reaching(held, e) \in 0..Certain
      /\ Reaching(held, e) > 0 => held > 0 /\ graph.edges[e].strength > 0
  BY <1>2, <1>3, ReachingIs
<1>6. /\ Reaching(probability[current], e) \in 0..Certain
      /\ Reaching(probability[current], e) > 0 =>
             probability[current] > 0 /\ graph.edges[e].strength > 0
  BY <1>2, <1>3, ReachingIs
<1>7. \/ Propagated(e) = Reaching(held, e)
      \/ Propagated(e) = Reaching(probability[current], e)
  BY DEF Propagated
<1> QED
  BY <1>2, <1>4, <1>5, <1>6, <1>7

\* A queue that gets a node keeps all others.
LEMMA QueueFacts ==
    ASSUME NEW q \in Seq(Node), NEW n \in Node
    PROVE  /\ Append(q, n) \in Seq(Node)
           /\ \E i \in DOMAIN Append(q, n) : Append(q, n)[i] = n
           /\ \A m : (\E i \in DOMAIN q : q[i] = m) =>
                         \E i \in DOMAIN Append(q, n) : Append(q, n)[i] = m
<1>1. Append(q, n) \in Seq(Node) /\ Append(q, n)[Len(q) + 1] = n
      /\ Len(q) + 1 \in DOMAIN Append(q, n)
  OBVIOUS
<1>2. \A i \in DOMAIN q : i \in DOMAIN Append(q, n) /\ Append(q, n)[i] = q[i]
  OBVIOUS
<1> QED
  BY <1>1, <1>2

\* What waits in a queue is its head or waits in the rest.
LEMMA HeadFacts ==
    ASSUME NEW q \in Seq(Node), q # << >>
    PROVE  /\ Head(q) \in Node /\ Tail(q) \in Seq(Node)
           /\ \A m : (\E i \in DOMAIN q : q[i] = m) =>
                         m = Head(q) \/ \E i \in DOMAIN Tail(q) : Tail(q)[i] = m
<1>1. Head(q) \in Node /\ Tail(q) \in Seq(Node) /\ Head(q) = q[1]
  OBVIOUS
<1>2. ASSUME NEW i \in DOMAIN q, i # 1
      PROVE  i - 1 \in DOMAIN Tail(q) /\ Tail(q)[i - 1] = q[i]
  BY <1>2
<1> QED
  BY <1>1, <1>2

-----------------------------------------------------------------------------
(* The steps of the loops.                                                 *)

\* A loop starts with the failed nodes affected and waiting to be queued.
LEMMA BeginSound ==
    ASSUME graph \in Graphs, NEW loop, NEW F \in SUBSET graph.nodes, Begin(loop, F)
    PROVE  SearchInv'
<1>1. graph' = graph /\ graph.nodes \subseteq Node
  BY GraphAssumption DEF Begin, IsGraph
<1>2. /\ failed' = F /\ pending' = F /\ queue' = << >> /\ held' = 0 /\ todo' = {}
      /\ found' = FALSE
      /\ probability' = [n \in Node |-> IF n \in F THEN Certain ELSE 0]
      /\ path' = [n \in Node |-> IF n \in F THEN <<n>> ELSE << >>]
  BY DEF Begin
<1>3. SearchTypeOK'
  <2>1. probability' \in [Node -> 0..Certain] /\ 0 \in 0..Certain
    BY <1>2 DEF Certain
  <2>2. path' \in [Node -> Seq(Node)]
    BY <1>2
  <2>3. /\ graph' \in Graphs /\ failed' \subseteq graph'.nodes /\ pending' \subseteq failed'
        /\ queue' \in Seq(Node) /\ held' \in 0..Certain
    BY <1>1, <1>2, <2>1
  <2>4. found' \in BOOLEAN
    BY <1>2
  <2>5. todo' \subseteq Edges(graph') /\ \A e \in todo' : graph'.edges[e].source = current'
    BY <1>2
  <2> QED
    BY <2>1, <2>2, <2>3, <2>4, <2>5 DEF SearchTypeOK
<1>4. HeldIsCurrent'
  BY <1>2 DEF HeldIsCurrent
<1>5. \A n \in Node : probability'[n] > 0 => n \in F
  BY <1>2
<1>6. PathsReal'
  <2> SUFFICES ASSUME NEW n \in Node, probability'[n] > 0
               PROVE  /\ path'[n] # << >>
                      /\ path'[n][1] \in failed' /\ path'[n][Len(path'[n])] = n
                      /\ \A k \in 1..(Len(path'[n]) - 1) :
                             Carries(graph', path'[n][k], path'[n][k + 1])
    BY DEF PathsReal
  <2>1. n \in F /\ path'[n] = <<n>>
    BY <1>2, <1>5
  <2> QED
    BY <1>2, <2>1
<1>7. NobodyForgotten'
  <2>1. \A e \in Edges(graph') : graph'.edges[e].source \in Node
    BY <1>1, EdgeFacts
  <2> QED
    BY <1>2, <1>5, <2>1 DEF NobodyForgotten
<1> QED
  BY <1>3, <1>4, <1>6, <1>7 DEF SearchInv, SearchSound

\* Nothing the invariant speaks of changes, except that the loop may end.
LEMMA IdleSound ==
    ASSUME SearchInv,
           UNCHANGED <<graph, failed, pending, probability, path, queue, current, held,
                       todo, found>>,
           call' = "idle" \/ call' = call
    PROVE  SearchInv'
<1>1. SearchTypeOK' /\ HeldIsCurrent' /\ PathsReal'
  BY DEF SearchInv, SearchTypeOK, HeldIsCurrent, SearchSound, PathsReal, Waiting
<1>2. NobodyForgotten'
  BY DEF SearchInv, SearchSound, NobodyForgotten, Reaching, Attenuation,
         SubstituteMembers, Edges
<1> QED
  BY <1>1, <1>2 DEF SearchInv, SearchSound

\* A candidate is taken, or the loops are over.
LEMMA TryNextSound ==
    ASSUME SearchInv, NEW left, TryNext(left)
    PROVE  SearchInv'
<1> DEFINE open == {n \in left : Outgoing(graph, n) # {}}
<1>1. CASE open = {}
  <2>1. /\ UNCHANGED <<graph, failed, pending, probability, path, queue, current, held,
                       todo, found>>
        /\ call' = "idle"
    BY <1>1 DEF TryNext
  <2> QED
    BY <2>1, IdleSound
<1>2. CASE open # {}
  <2>1. PICK n \in open : Begin("fast", {n})
    BY <1>2 DEF TryNext
  <2>2. graph \in Graphs
    BY DEF SearchInv, SearchTypeOK
  <2>3. PICK e \in Edges(graph) : graph.edges[e].source = n
    BY <2>1 DEF Outgoing
  <2>4. {n} \in SUBSET graph.nodes
    BY <2>2, <2>3, EdgeFacts
  <2> QED
    BY <2>1, <2>2, <2>4, BeginSound
<1> QED
  BY <1>1, <1>2

\* A failed node enters the queue.
LEMMA EnqueueSound ==
    ASSUME SearchInv, NEW n \in pending, Enqueue(n)
    PROVE  SearchInv'
<1>1. /\ UNCHANGED <<graph, call, failed, probability, path, current, held, todo, found>>
      /\ pending' = pending \ {n} /\ queue' = Append(queue, n)
  BY DEF Enqueue
<1>2. n \in Node
  BY GraphAssumption DEF SearchInv, SearchTypeOK, IsGraph
<1>3. queue \in Seq(Node)
  BY DEF SearchInv, SearchTypeOK
<1>4. queue' \in Seq(Node) /\ Waiting(n)' /\ \A m : Waiting(m) => Waiting(m)'
  BY <1>1, <1>2, <1>3, QueueFacts DEF Waiting
<1>5. SearchTypeOK' /\ PathsReal'
  BY <1>1, <1>4 DEF SearchInv, SearchTypeOK, SearchSound, PathsReal
<1>6. HeldIsCurrent'
  BY <1>1, <1>4 DEF SearchInv, HeldIsCurrent
<1>7. NobodyForgotten'
  BY <1>1, <1>4 DEF SearchInv, SearchSound, NobodyForgotten, Waiting, Reaching, Attenuation,
                    SubstituteMembers, Edges
<1> QED
  BY <1>5, <1>6, <1>7 DEF SearchInv, SearchSound

\* The head of the queue becomes the current node, with all its edges to be followed.
LEMMA PopSound ==
    ASSUME SearchInv, Pop
    PROVE  SearchInv'
<1>1. /\ UNCHANGED <<graph, call, failed, pending, probability, path, found>>
      /\ pending = {} /\ todo = {} /\ ~found /\ queue # << >>
      /\ queue' = Tail(queue) /\ current' = Head(queue)
      /\ held' = probability[current'] /\ todo' = Outgoing(graph, current')
  BY DEF Pop
<1>2. queue \in Seq(Node) /\ probability \in [Node -> 0..Certain] /\ graph \in Graphs
  BY DEF SearchInv, SearchTypeOK
<1>3. /\ current' \in Node /\ queue' \in Seq(Node)
      /\ \A m : (\E i \in DOMAIN queue : queue[i] = m) =>
                    m = current' \/ \E i \in DOMAIN queue' : queue'[i] = m
  BY <1>1, <1>2, HeadFacts
<1>4. SearchTypeOK'
  BY <1>1, <1>2, <1>3 DEF SearchInv, SearchTypeOK, Outgoing, Edges
<1>5. HeldIsCurrent'
  BY <1>1, <1>2, <1>3 DEF HeldIsCurrent
<1>6. PathsReal'
  BY <1>1 DEF SearchInv, SearchSound, PathsReal
<1>7. NobodyForgotten'
  <2> SUFFICES ASSUME call' # "idle", NEW e \in Edges(graph'),
                      probability'[graph'.edges[e].source] > 0,
                      probability'[graph'.edges[e].target] = 0
               PROVE  \/ graph'.edges[e].source \in pending'
                      \/ \E i \in DOMAIN queue' : queue'[i] = graph'.edges[e].source
                      \/ e \in todo' \/ found'
                      \/ Reaching(probability[graph.edges[e].source], e)' = 0
    BY DEF NobodyForgotten
  <2> DEFINE n == graph.edges[e].source
  <2>1. e \in Edges(graph) /\ call # "idle"
        /\ probability[n] > 0 /\ probability[graph.edges[e].target] = 0
    BY <1>1
  <2>2. (\E i \in DOMAIN queue : queue[i] = n) \/ Reaching(probability[n], e) = 0
    BY <1>1, <2>1 DEF SearchInv, SearchSound, NobodyForgotten
  <2>3. CASE \E i \in DOMAIN queue : queue[i] = n
    BY <1>1, <1>3, <2>1, <2>3 DEF Outgoing
  <2>4. CASE Reaching(probability[n], e) = 0
    BY <1>1, <2>4 DEF Reaching, Attenuation, SubstituteMembers, Edges
  <2> QED
    BY <2>2, <2>3, <2>4
<1> QED
  BY <1>4, <1>5, <1>6, <1>7 DEF SearchInv, SearchSound

\* One edge is followed: an impact that grows extends the path of the current node by
\* the edge and puts the target into the queue, unless the loop has its answer.
LEMMA FollowSound ==
    ASSUME SearchInv, NEW e \in todo, Follow(e)
    PROVE  SearchInv'
<1> DEFINE target == graph.edges[e].target
           combined == Combined(probability[target], Propagated(e))
           grows == Grows(combined, probability[target])
           decided == /\ call = "fast" /\ grows /\ target \notin failed
                      /\ TakesDownCritical(target, combined)
<1>1. /\ UNCHANGED <<graph, call, failed, pending, current, held>>
      /\ probability' = IF grows THEN [probability EXCEPT ![target] = combined]
                        ELSE probability
      /\ path' = IF grows THEN [path EXCEPT ![target] = Append(path[current], target)]
                 ELSE path
      /\ queue' = IF grows /\ ~decided THEN Append(queue, target) ELSE queue
      /\ todo' = IF decided THEN {} ELSE todo \ {e}
      /\ found' = decided
  BY DEF Follow
<1>2. /\ graph \in Graphs /\ e \in Edges(graph) /\ graph.edges[e].source = current
      /\ probability \in [Node -> 0..Certain] /\ path \in [Node -> Seq(Node)]
      /\ queue \in Seq(Node) /\ todo \subseteq Edges(graph)
      /\ failed \subseteq graph.nodes /\ pending \subseteq failed /\ held \in 0..Certain
      /\ \A f \in todo : graph.edges[f].source = current
  BY DEF SearchInv, SearchTypeOK
<1>3. target \in Node /\ graph.edges[e].strength \in 0..100
  BY <1>2, EdgeFacts
<1>4. /\ current \in Node
      /\ Propagated(e) \in 0..Certain
      /\ Propagated(e) > 0 => probability[current] > 0 /\ graph.edges[e].strength > 0
      /\ Propagated(e) = 0 => Reaching(probability[current], e) = 0 \/ Waiting(current)
  BY PropagatedIs DEF SearchInv
<1>5. /\ combined \in 0..Certain
      /\ Propagated(e) = 0 => combined = probability[target]
      /\ probability[target] = 0 => combined = Propagated(e)
  BY <1>2, <1>3, <1>4, CombinedIs
<1>6. grows <=> combined > probability[target]
  BY DEF Grows
<1> HIDE DEF target, combined, grows, decided
<1>6a. probability[target] \in 0..Certain
  BY <1>2, <1>3
<1>6b. /\ grows => Propagated(e) > 0
       /\ (~grows /\ probability[target] = 0) => Propagated(e) = 0
  <2>1. 0..Certain \subseteq Nat
    BY DEF Certain
  <2>2. combined \in Nat /\ Propagated(e) \in Nat /\ probability[target] \in Nat
    BY <1>4, <1>5, <1>6a, <2>1
  <2>3. /\ Propagated(e) = 0 => combined = probability[target]
        /\ probability[target] = 0 => combined = Propagated(e)
        /\ grows <=> combined > probability[target]
    BY <1>5, <1>6
  <2> QED
    BY <2>2, <2>3
<1>6c. /\ graph' = graph /\ call' = call /\ failed' = failed /\ pending' = pending
       /\ current' = current /\ held' = held
  BY <1>1
<1> DEFINE Later(x) == \E k \in DOMAIN queue' : queue'[k] = x
<1>7. decided => grows
  BY DEF decided
<1>8. /\ queue' \in Seq(Node)
      /\ \A x : Waiting(x) => Later(x)
      /\ (grows /\ ~decided) => Later(target)
  <2>1. CASE grows /\ ~decided
    <3>1. queue' = Append(queue, target)
      BY <1>1, <2>1
    <3>2. /\ Append(queue, target) \in Seq(Node)
          /\ \E k \in DOMAIN Append(queue, target) : Append(queue, target)[k] = target
          /\ \A x : (\E k \in DOMAIN queue : queue[k] = x) =>
                        \E k \in DOMAIN Append(queue, target) : Append(queue, target)[k] = x
      BY <1>2, <1>3, QueueFacts
    <3> QED
      BY <3>1, <3>2 DEF Waiting
  <2>2. CASE ~(grows /\ ~decided)
    <3>1. queue' = queue
      BY <1>1, <2>2
    <3> QED
      BY <1>2, <2>2, <3>1 DEF Waiting
  <2> QED
    BY <2>1, <2>2
<1>9. ASSUME NEW n \in Node, ~(n = target /\ grows)
      PROVE  probability'[n] = probability[n] /\ path'[n] = path[n]
  <2>1. CASE grows
    BY <1>1, <1>2, <1>9, <2>1
  <2>2. CASE ~grows
    BY <1>1, <2>2
  <2> QED
    BY <2>1, <2>2
<1>10. probability' \in [Node -> 0..Certain]
  BY <1>1, <1>2, <1>3, <1>5
<1>10a. ASSUME NEW n \in Node
       PROVE  probability'[n] \in Nat /\ probability[n] \in Nat /\ probability[n] <= probability'[n]
  <2>1. probability'[n] \in Nat /\ probability[n] \in Nat
    <3>1. 0..Certain \subseteq Nat
      BY DEF Certain
    <3> QED
      BY <1>2, <1>10, <3>1
  <2>2. CASE n = target /\ grows
    <3>1. probability'[n] = combined
      BY <1>1, <1>2, <1>3, <2>2
    <3> QED
      BY <1>6, <2>1, <2>2, <3>1
  <2>3. CASE ~(n = target /\ grows)
    BY <1>9, <2>1, <2>3
  <2> QED
    BY <2>1, <2>2, <2>3
<1>11. SearchTypeOK'
  <2>1. path' \in [Node -> Seq(Node)]
    BY <1>1, <1>2, <1>3, <1>4
  <2>2. decided \in BOOLEAN
    BY DEF decided, grows, Grows
  <2>3. todo' \subseteq todo
    BY <1>1
  <2> QED
    BY <1>1, <1>2, <1>8, <1>10, <2>1, <2>2, <2>3 DEF SearchTypeOK, Edges
<1>12. HeldIsCurrent'
  <2>1. /\ held = probability[current] \/ Waiting(current)
        /\ held > 0 => probability[current] > 0
    BY DEF SearchInv, HeldIsCurrent
  <2>2. held' > 0 => probability'[current'] > 0
    <3>1. held > 0 => probability'[current] > 0
      BY <1>4, <1>10a, <2>1
    <3> QED
      BY <1>6c, <3>1
  <2>3. found' => todo' = {}
    BY <1>1
  <2>4. todo' # {} => held' = probability'[current'] \/ Later(current')
    <3> SUFFICES ASSUME todo' # {} PROVE held = probability'[current] \/ Later(current)
      BY <1>6c
    <3> HIDE DEF Later
    <3>1. ~decided
      BY <1>1
    <3>2. CASE current = target /\ grows
      BY <1>8, <3>1, <3>2
    <3>3. CASE ~(current = target /\ grows)
      BY <1>4, <1>8, <1>9, <2>1, <3>3
    <3> QED
      BY <3>2, <3>3
  <2> QED
    BY <2>2, <2>3, <2>4 DEF HeldIsCurrent, Waiting
<1>13. PathsReal'
  <2>1. ASSUME NEW n \in Node, probability[n] > 0
        PROVE  /\ path[n] # << >>
               /\ path[n][1] \in failed /\ path[n][Len(path[n])] = n
               /\ \A k \in 1..(Len(path[n]) - 1) : Carries(graph, path[n][k], path[n][k + 1])
    BY <2>1 DEF SearchInv, SearchSound, PathsReal
  <2> SUFFICES ASSUME NEW n \in Node, probability'[n] > 0
               PROVE  /\ path'[n] # << >>
                      /\ path'[n][1] \in failed' /\ path'[n][Len(path'[n])] = n
                      /\ \A k \in 1..(Len(path'[n]) - 1) :
                             Carries(graph', path'[n][k], path'[n][k + 1])
    BY DEF PathsReal
  <2>2. CASE n = target /\ grows
    <3> DEFINE q == path[current]
    <3>1. /\ q \in Seq(Node) /\ q # << >> /\ q[1] \in failed /\ q[Len(q)] = current
          /\ \A k \in 1..(Len(q) - 1) : Carries(graph, q[k], q[k + 1])
      BY <1>2, <1>4, <1>6b, <2>1, <2>2
    <3>2. path'[n] = Append(q, target)
      BY <1>1, <1>2, <1>3, <2>2
    <3>3. Carries(graph, current, target)
      BY <1>2, <1>4, <1>6b, <2>2 DEF Carries, target
    <3> HIDE DEF q
    <3> DEFINE r == Append(q, target)
    <3>4. /\ Len(r) = Len(q) + 1 /\ Len(q) \in Nat /\ Len(q) >= 1
          /\ r[Len(q) + 1] = target
          /\ \A k \in 1..Len(q) : r[k] = q[k]
          /\ r # << >>
      <4>1. q \in Seq(Node) /\ q # << >> /\ target \in Node
        BY <1>3, <3>1
      <4>2. Len(q) \in Nat /\ Len(q) >= 1
        BY <4>1
      <4>3. Len(r) = Len(q) + 1 /\ r[Len(q) + 1] = target /\ \A k \in 1..Len(q) : r[k] = q[k]
        BY <4>1
      <4>4. r # << >>
        BY <4>1
      <4> QED
        BY <4>2, <4>3, <4>4
    <3> HIDE DEF r
    <3>5. ASSUME NEW k \in 1..Len(q) PROVE Carries(graph, r[k], r[k + 1])
      <4>1. CASE k = Len(q)
        BY <3>1, <3>3, <3>4, <4>1
      <4>2. CASE k # Len(q)
        <5>1. k \in 1..(Len(q) - 1) /\ k + 1 \in 1..Len(q)
          BY <3>4, <4>2
        <5> QED
          BY <3>1, <3>4, <5>1
      <4> QED
        BY <4>1, <4>2
    <3> QED
      <4>1. path'[n] = r
        BY <3>2 DEF r
      <4>2. 1 \in 1..Len(q) /\ Len(r) - 1 = Len(q)
        BY <3>4
      <4>3. r[1] \in failed /\ r[Len(r)] = n
        BY <2>2, <3>1, <3>4, <4>2
      <4> QED
        BY <1>6c, <3>4, <3>5, <4>1, <4>2, <4>3
  <2>3. CASE ~(n = target /\ grows)
    <3>1. probability'[n] = probability[n] /\ path'[n] = path[n]
      BY <1>9, <2>3
    <3> QED
      BY <1>6c, <2>1, <3>1
  <2> QED
    BY <2>2, <2>3
<1>14. NobodyForgotten'
  <2> SUFFICES ASSUME call' # "idle", NEW f \in Edges(graph'),
                      probability'[graph'.edges[f].source] > 0,
                      probability'[graph'.edges[f].target] = 0
               PROVE  \/ graph'.edges[f].source \in pending'
                      \/ \E k \in DOMAIN queue' : queue'[k] = graph'.edges[f].source
                      \/ f \in todo' \/ found'
                      \/ Reaching(probability[graph.edges[f].source], f)' = 0
    BY DEF NobodyForgotten
  <2> DEFINE n == graph.edges[f].source
             m == graph.edges[f].target
  <2>1. /\ f \in Edges(graph) /\ call # "idle" /\ n \in Node /\ m \in Node
        /\ probability'[n] > 0 /\ probability'[m] = 0
    BY <1>1, <1>2, EdgeFacts
  <2>2. probability[m] = 0
    BY <1>10a, <2>1
  <2>3. Later(n) => \E k \in DOMAIN queue' : queue'[k] = graph'.edges[f].source
    BY <1>6c
  <2> HIDE DEF Later
  <2>4. CASE n = target /\ grows
    BY <1>1, <1>8, <2>3, <2>4
  <2>5. CASE ~(n = target /\ grows)
    <3>1. probability'[n] = probability[n]
      BY <1>9, <2>1, <2>5
    <3>2. Reaching(probability[n], f) = 0 => Reaching(probability[graph.edges[f].source], f)' = 0
      BY <1>1, <3>1 DEF Reaching, Attenuation, SubstituteMembers, Edges
    <3>3. ~found
      BY DEF SearchInv, HeldIsCurrent
    <3>4. n \in pending \/ Waiting(n) \/ f \in todo \/ Reaching(probability[n], f) = 0
      BY <2>1, <2>2, <3>1, <3>3 DEF SearchInv, SearchSound, NobodyForgotten, Waiting
    <3>5. CASE n \in pending \/ Waiting(n) \/ Reaching(probability[n], f) = 0
      BY <1>1, <1>8, <2>3, <3>2, <3>5
    <3>6. CASE f \in todo /\ f # e
      BY <1>1, <3>6
    <3>7. CASE f = e
      <4>1. m = target /\ n = current
        BY <1>2, <3>7 DEF target
      <4>2. ~grows
        <5>1. grows => probability'[target] = combined
          BY <1>1, <1>2, <1>3
        <5> QED
          BY <1>6, <2>1, <2>2, <4>1, <5>1
      <4>3. Reaching(probability[n], f) = 0 \/ Waiting(n)
        BY <1>4, <1>6b, <2>2, <3>7, <4>1, <4>2
      <4> QED
        BY <1>8, <2>3, <3>2, <4>3
    <3> QED
      BY <3>4, <3>5, <3>6, <3>7
  <2> QED
    BY <2>4, <2>5
<1> QED
  BY <1>11, <1>12, <1>13, <1>14 DEF SearchInv, SearchSound

-----------------------------------------------------------------------------

\* The invariant of the search: every call and every turn keeps it.
LEMMA SearchInvariant == PropagationSpec => []SearchInv
<1>1. PropagationInit => SearchInv
  <2> SUFFICES ASSUME PropagationInit PROVE SearchInv
    OBVIOUS
  <2>1. /\ graph \in Graphs /\ call = "idle" /\ failed = {} /\ pending = {}
        /\ probability = [n \in Node |-> 0] /\ path = [n \in Node |-> << >>]
        /\ queue = << >> /\ held = 0 /\ todo = {} /\ found = FALSE
    BY DEF PropagationInit, Unaffected, NoPath
  <2>2. SearchTypeOK
    <3>1. /\ probability \in [Node -> 0..Certain] /\ path \in [Node -> Seq(Node)]
          /\ held \in 0..Certain
      BY <2>1 DEF Certain
    <3>2. found \in BOOLEAN
      BY <2>1
    <3>3. /\ failed \subseteq graph.nodes /\ pending \subseteq failed /\ queue \in Seq(Node)
          /\ todo \subseteq Edges(graph) /\ \A e \in todo : graph.edges[e].source = current
      BY <2>1
    <3> QED
      BY <2>1, <3>1, <3>2, <3>3 DEF SearchTypeOK
  <2>3. HeldIsCurrent /\ PathsReal /\ NobodyForgotten
    BY <2>1 DEF HeldIsCurrent, PathsReal, NobodyForgotten
  <2> QED
    BY <2>2, <2>3 DEF SearchInv, SearchSound
<1>2. SearchInv /\ [PropagationNext]_propagationVars => SearchInv'
  <2> SUFFICES ASSUME SearchInv, [PropagationNext]_propagationVars PROVE SearchInv'
    OBVIOUS
  <2>1. graph \in Graphs
    BY DEF SearchInv, SearchTypeOK
  <2>2. ASSUME NEW F \in SUBSET graph.nodes, Analyze(F) \/ BlastRadius(F) PROVE SearchInv'
    BY <2>1, <2>2, BeginSound DEF Analyze, BlastRadius
  <2>3. ASSUME NEW n \in pending, Enqueue(n) PROVE SearchInv'
    BY <2>3, EnqueueSound
  <2>4. CASE Pop
    BY <2>4, PopSound
  <2>5. ASSUME NEW e \in todo, Follow(e) PROVE SearchInv'
    BY <2>5, FollowSound
  <2>6. CASE ReturnImpacts
    BY <2>6, TryNextSound DEF ReturnImpacts
  <2>7. CASE ReturnCandidate
    BY <2>7, TryNextSound DEF ReturnCandidate
  <2>8. CASE ReturnBlast
    BY <2>8, IdleSound DEF ReturnBlast
  <2>9. CASE UNCHANGED propagationVars
    BY <2>9, IdleSound DEF propagationVars
  <2> QED
    BY <2>2, <2>3, <2>4, <2>5, <2>6, <2>7, <2>8, <2>9 DEF PropagationNext, Turn
<1> QED
  BY <1>1, <1>2, PTL DEF PropagationSpec

\* Whatever nodes are taken for failed, in every graph and at every turn of the three
\* loops: an affected node has a path of carrying edges from a failed node, and the
\* dependents of an affected node are affected or still to come (analyze,
\* _single_points_fast, analyze_without_spof).
THEOREM SearchIsSound == PropagationSpec => []SearchSound
BY SearchInvariant, PTL DEF SearchInv

-----------------------------------------------------------------------------
(* The stock of a disruption and the plan for an incident.                 *)

Regime == [degraded : BOOLEAN, emergency : BOOLEAN, disrupted : BOOLEAN]

\* The quantities of a profile are numbers; those derived from it are integers.
LEMMA Quantities ==
    ASSUME profile \in Profiles, regime \in Regime, NEW d \in Nat
    PROVE  /\ Hundredths(profile.critical_threshold) \in Nat
           /\ Hundredths(profile.minimum_reserve) \in Nat
           /\ WarningLevel \in Nat
           /\ PrimaryStart \in Nat
           /\ Consumption \in Int
           /\ Arriving(d) \in Nat
<1>1. profile \in Profile /\ Unset \notin Nat
  BY InventoryAssumption
<1>2. /\ profile.critical_threshold \in Nat /\ profile.minimum_reserve \in Nat
      /\ profile.replenishment_delay \in Nat /\ profile.shipment_delay \in Nat
      /\ profile.alternate_delay \in Nat /\ profile.alternate_rate \in Nat
      /\ profile.replenishment \in Nat /\ profile.route_capacity_factor \in Nat
      /\ profile.substitution_factor \in Nat
      /\ profile.warning_threshold # Unset => profile.warning_threshold \in Nat
  BY <1>1 DEF Profile
<1>3. ConsumptionRate \in Nat
  BY <1>1 DEF ConsumptionRate, Profile
<1>4. PrimaryStart \in Nat
  BY <1>2 DEF PrimaryStart
<1>5. WarningLevel \in Nat
  BY <1>2 DEF WarningLevel, Hundredths
<1>6. Consumption \in Int
  <2>1. 100 - profile.substitution_factor \in Int
    BY <1>2
  <2> QED
    BY <1>3, <2>1 DEF Consumption
<1>7. Arriving(d) \in Nat
  <2>1. profile.replenishment * profile.route_capacity_factor \in Nat
    BY <1>2
  <2>2. Hundredths(profile.alternate_rate) \in Nat
    BY <1>2 DEF Hundredths
  <2> QED
    BY <2>1, <2>2 DEF Arriving
<1> QED
  BY <1>2, <1>4, <1>5, <1>6, <1>7 DEF Hundredths

\* The stock is never negative.
LEMMA StockIsNat ==
    ASSUME profile \in Profiles, regime \in Regime, NEW d \in Nat, NEW q \in Nat
    PROVE  StockAfter(q, d) \in Nat
<1>1. Consumption \in Int /\ Arriving(d) \in Nat
  BY Quantities
<1>2. profile.storage_limit # Unset => profile.storage_limit \in Nat
  BY InventoryAssumption DEF Profile
<1> QED
  BY <1>1, <1>2 DEF StockAfter, Hundredths

\* A recorded day is one that has passed.
Passed(d, n) == d = Unset \/ (d \in Day /\ d < n)

\* The first day of a status, once recorded, is one that has passed.
LEMMA FirstDayPassed ==
    ASSUME NEW d, NEW e, day \in Day, Passed(d, day), e = d \/ e = day
    PROVE  Passed(e, day + 1)
BY InventoryAssumption DEF Passed, Day

\* Every variable keeps its type, the stock is never negative, and an alarm is a day
\* that has passed (simulate_inventory).
THEOREM StockTypeCorrect == StockSpec => []StockTypeOK
<1>1. StockInit => StockTypeOK
  <2> SUFFICES ASSUME StockInit PROVE StockTypeOK
    OBVIOUS
  <2>1. quantity \in Nat
    BY InventoryAssumption DEF StockInit, Hundredths, Profile
  <2> QED
    BY <2>1, InventoryAssumption DEF StockInit, StockTypeOK, Day
<1>2. StockTypeOK /\ [StockNext]_stockVars => StockTypeOK'
  <2> SUFFICES ASSUME StockTypeOK, [StockNext]_stockVars PROVE StockTypeOK'
    OBVIOUS
  <2>1. CASE SimulateDay
    <3>1. day \in Nat /\ day < SimulationDays /\ day' = day + 1 /\ day' \in Day
      BY <2>1, InventoryAssumption DEF StockTypeOK, SimulateDay, Day
    <3>2. StockAfter(quantity, day) \in Nat
      BY <3>1, StockIsNat DEF StockTypeOK, Regime
    <3>3. quantity' \in Nat /\ lowest' \in Nat /\ dropped' \in BOOLEAN
      BY <2>1, <3>2 DEF SimulateDay, StockTypeOK
    <3>4. log' \in Seq(Nat) /\ Len(log') = day'
      BY <2>1, <3>2 DEF SimulateDay, StockTypeOK
    <3>5. /\ warningDay' = warningDay \/ warningDay' = day
          /\ criticalDay' = criticalDay \/ criticalDay' = day
          /\ exhaustionDay' = exhaustionDay \/ exhaustionDay' = day
          /\ replenishmentDay' = replenishmentDay \/ replenishmentDay' = day
          /\ restoredDay' = restoredDay \/ restoredDay' = day
      BY <2>1 DEF SimulateDay, FirstDay
    <3>6. /\ Passed(warningDay', day') /\ Passed(criticalDay', day')
          /\ Passed(exhaustionDay', day') /\ Passed(replenishmentDay', day')
          /\ Passed(restoredDay', day')
      BY <3>1, <3>5, FirstDayPassed DEF StockTypeOK, Passed
    <3> QED
      BY <2>1, <3>1, <3>3, <3>4, <3>6 DEF SimulateDay, StockTypeOK, Passed, Day
  <2>2. CASE UNCHANGED stockVars
    BY <2>2 DEF stockVars, dates, StockTypeOK, Day
  <2> QED
    BY <2>1, <2>2 DEF StockNext
<1> QED
  BY <1>1, <1>2, PTL DEF StockSpec

\* What a simulated day does to the log and to the levels.
LEMMA OneMoreDay ==
    ASSUME StockTypeOK, SimulateDay
    PROVE  LET q == StockAfter(quantity, day) IN
           /\ q \in Nat /\ day \in Nat
           /\ Len(log) = day /\ Len(log') = day + 1
           /\ log'[day + 1] = q
           /\ \A d \in 1..Len(log) : log'[d] = log[d]
           /\ profile' = profile /\ regime' = regime
<1>1. day \in Nat /\ Len(log) = day /\ log \in Seq(Nat)
  BY InventoryAssumption DEF StockTypeOK, Day
<1>2. StockAfter(quantity, day) \in Nat
  BY <1>1, StockIsNat DEF StockTypeOK, Regime
<1> QED
  BY <1>1, <1>2 DEF SimulateDay

\* The alarms are ordered, and each is the first day of its status in the log
\* (days_to_warning, days_to_critical, days_to_exhaustion).
THEOREM AlarmsSound == StockSpec => []AlarmsOrdered
<1>1. StockInit => AlarmsOrdered
  BY DEF StockInit, AlarmsOrdered, Before
<1>2. StockTypeOK /\ AlarmsOrdered /\ [StockNext]_stockVars => AlarmsOrdered'
  <2> SUFFICES ASSUME StockTypeOK, AlarmsOrdered, [StockNext]_stockVars PROVE AlarmsOrdered'
    OBVIOUS
  <2>1. CASE SimulateDay
    <3> DEFINE q == StockAfter(quantity, day)
               critical == Hundredths(profile.critical_threshold)
               warning == WarningLevel
    <3>1. /\ q \in Nat /\ day \in Nat
          /\ Len(log) = day /\ Len(log') = day + 1
          /\ log'[day + 1] = q
          /\ \A d \in 1..Len(log) : log'[d] = log[d]
          /\ profile' = profile /\ regime' = regime
      BY <2>1, OneMoreDay
    <3>2. critical \in Nat /\ warning \in Nat
      BY <3>1, Quantities DEF StockTypeOK, Regime
    <3>3. Hundredths(profile'.critical_threshold) = critical /\ WarningLevel' = warning
      BY <3>1 DEF WarningLevel
    <3>4. /\ warningDay' = IF warningDay = Unset /\ q <= warning THEN day ELSE warningDay
          /\ criticalDay' = IF criticalDay = Unset /\ q <= critical THEN day ELSE criticalDay
          /\ exhaustionDay' = IF exhaustionDay = Unset /\ q <= 0 THEN day ELSE exhaustionDay
      BY <2>1 DEF SimulateDay, FirstDay
    <3>5. /\ \A d \in {warningDay, criticalDay, exhaustionDay} :
                 d = Unset \/ (d \in Nat /\ d < day)
          /\ Unset \notin Nat
      BY InventoryAssumption DEF StockTypeOK, Day
    <3>6. \A x : StatusOf(x)' = StatusOf(x)
      BY <3>1, <3>3 DEF StatusOf, Hundredths
    <3>7. /\ StatusOf(q) = "exhausted" <=> q <= 0
          /\ StatusOf(q) \in {"critical", "exhausted"} <=> q <= critical
          /\ StatusOf(q) # "normal" <=> q <= warning \/ q <= critical
      BY <3>1, <3>2 DEF StatusOf
    <3> HIDE DEF q, critical, warning
    <3>8. Before(criticalDay', exhaustionDay')
      <4>1. Before(criticalDay, exhaustionDay)
        BY DEF AlarmsOrdered
      <4>2. CASE exhaustionDay = Unset /\ q <= 0
        <5>1. q <= critical
          BY <3>1, <3>2, <4>2
        <5> QED
          BY <3>1, <3>4, <3>5, <4>2, <5>1 DEF Before
      <4>3. CASE ~(exhaustionDay = Unset /\ q <= 0)
        BY <3>4, <3>5, <4>1, <4>3 DEF Before
      <4> QED
        BY <4>2, <4>3
    <3>9. critical <= warning => Before(warningDay', criticalDay')
      <4> SUFFICES ASSUME critical <= warning PROVE Before(warningDay', criticalDay')
        OBVIOUS
      <4>1. Before(warningDay, criticalDay)
        BY DEF AlarmsOrdered, critical, warning
      <4>2. CASE criticalDay = Unset /\ q <= critical
        <5>1. q <= warning
          BY <3>1, <3>2, <4>2
        <5> QED
          BY <3>1, <3>4, <3>5, <4>2, <5>1 DEF Before
      <4>3. CASE ~(criticalDay = Unset /\ q <= critical)
        BY <3>4, <3>5, <4>1, <4>3 DEF Before
      <4> QED
        BY <4>2, <4>3
    <3>10. criticalDay' # Unset => StatusOf(log'[criticalDay' + 1]) \in {"critical", "exhausted"}
      BY <3>1, <3>4, <3>5, <3>7 DEF AlarmsOrdered
    <3>11. exhaustionDay' # Unset => StatusOf(log'[exhaustionDay' + 1]) = "exhausted"
      BY <3>1, <3>4, <3>5, <3>7 DEF AlarmsOrdered
    <3>12. ASSUME NEW d \in 1..Len(log')
           PROVE  /\ StatusOf(log'[d]) # "normal" =>
                         Before(warningDay', d - 1) \/ Before(criticalDay', d - 1)
                  /\ StatusOf(log'[d]) \in {"critical", "exhausted"} =>
                         Before(criticalDay', d - 1)
                  /\ StatusOf(log'[d]) = "exhausted" => Before(exhaustionDay', d - 1)
      <4>1. CASE d = day + 1
        BY <3>1, <3>2, <3>4, <3>5, <3>7, <4>1 DEF Before
      <4>2. CASE d \in 1..Len(log)
        BY <3>1, <3>4, <3>5, <4>2 DEF AlarmsOrdered, Before
      <4> QED
        BY <3>1, <4>1, <4>2
    <3> QED
      BY <3>3, <3>6, <3>8, <3>9, <3>10, <3>11, <3>12 DEF AlarmsOrdered, Before
  <2>2. CASE UNCHANGED stockVars
    BY <2>2 DEF stockVars, dates, AlarmsOrdered, Before, StatusOf, WarningLevel
  <2> QED
    BY <2>1, <2>2 DEF StockNext
<1> QED
  BY <1>1, <1>2, StockTypeCorrect, PTL DEF StockSpec

\* While no replenishment has been recorded, none has arrived.
NoneArrived == replenishmentDay = Unset => \A d \in 0..(day - 1) : Arriving(d) = 0

\* The first replenishment comes on the assured day (assured_replenishment_days,
\* days_to_replenishment).
THEOREM ReplenishmentSound == StockSpec => []ReplenishmentAsAssured
<1>1. StockInit => NoneArrived /\ ReplenishmentAsAssured
  BY DEF StockInit, NoneArrived, ReplenishmentAsAssured
<1>2. StockTypeOK /\ NoneArrived /\ ReplenishmentAsAssured /\ [StockNext]_stockVars
      => NoneArrived' /\ ReplenishmentAsAssured'
  <2> SUFFICES ASSUME StockTypeOK, NoneArrived, ReplenishmentAsAssured, [StockNext]_stockVars
               PROVE  NoneArrived' /\ ReplenishmentAsAssured'
    OBVIOUS
  <2>1. CASE SimulateDay
    <3>1. /\ day \in Nat /\ day' = day + 1
          /\ profile' = profile /\ regime' = regime
          /\ replenishmentDay' =
                 IF replenishmentDay = Unset /\ Arriving(day) > 0 THEN day ELSE replenishmentDay
          /\ Unset \notin Nat
      BY <2>1, OneMoreDay, InventoryAssumption DEF SimulateDay, FirstDay
    <3>2. \A d : Arriving(d)' = Arriving(d)
      BY <3>1 DEF Arriving, PrimaryStart
    <3>3. AssuredReplenishment' = AssuredReplenishment
      BY <3>1 DEF AssuredReplenishment, PrimaryStart
    <3>4. \A d \in Nat : Arriving(d) \in Nat
      BY Quantities DEF StockTypeOK, Regime
    <3>5. NoneArrived'
      <4> SUFFICES ASSUME replenishmentDay' = Unset, NEW d \in 0..day
                   PROVE  Arriving(d) = 0
        BY <3>1, <3>2 DEF NoneArrived
      <4>1. replenishmentDay = Unset /\ ~(Arriving(day) > 0)
        BY <3>1
      <4>2. CASE d = day
        BY <3>1, <3>4, <4>1, <4>2
      <4>3. CASE d \in 0..(day - 1)
        BY <4>1, <4>3 DEF NoneArrived
      <4> QED
        BY <3>1, <4>2, <4>3
    <3>6. ReplenishmentAsAssured'
      <4>1. ASSUME replenishmentDay = Unset, Arriving(day) > 0
            PROVE  day = AssuredReplenishment
        <5>1. \A d \in 0..(day - 1) : Arriving(d) = 0
          BY <4>1 DEF NoneArrived
        <5>2. /\ profile.alternate_delay \in Nat /\ profile.alternate_rate \in Nat
              /\ profile.replenishment \in Nat /\ profile.route_capacity_factor \in Nat
              /\ PrimaryStart \in Nat
          <6>1. profile \in Profile /\ profile \in Profiles /\ regime \in Regime
            BY InventoryAssumption DEF StockTypeOK, Regime
          <6>2. PrimaryStart \in Nat
            BY <3>1, <6>1, Quantities
          <6> QED
            BY <6>1, <6>2 DEF Profile
        <5>3. CASE regime.disrupted
          <6>1. day >= profile.alternate_delay /\ Hundredths(profile.alternate_rate) > 0
            BY <4>1, <5>3 DEF Arriving
          <6>2. Arriving(profile.alternate_delay) > 0
            BY <5>2, <5>3, <6>1 DEF Arriving
          <6>3. day = profile.alternate_delay
            BY <3>1, <5>1, <5>2, <6>1, <6>2
          <6>4. profile.alternate_rate > 0
            BY <5>2, <6>1 DEF Hundredths
          <6> QED
            BY <5>3, <6>3, <6>4 DEF AssuredReplenishment
        <5>4. CASE ~regime.disrupted
          <6>1. /\ day >= PrimaryStart
                /\ profile.replenishment * profile.route_capacity_factor > 0
            BY <4>1, <5>4 DEF Arriving
          <6>2. Arriving(PrimaryStart) > 0
            BY <5>2, <5>4, <6>1 DEF Arriving
          <6>3. day = PrimaryStart
            BY <3>1, <5>1, <5>2, <6>1, <6>2
          <6>4. profile.replenishment > 0
            BY <5>2, <6>1
          <6> QED
            BY <5>4, <6>3, <6>4 DEF AssuredReplenishment
        <5> QED
          BY <5>3, <5>4
      <4> QED
        BY <3>1, <3>3, <4>1 DEF ReplenishmentAsAssured
    <3> QED
      BY <3>5, <3>6
  <2>2. CASE UNCHANGED stockVars
    BY <2>2 DEF stockVars, dates, NoneArrived, ReplenishmentAsAssured, Arriving, PrimaryStart,
                AssuredReplenishment
  <2> QED
    BY <2>1, <2>2 DEF StockNext
<1> QED
  BY <1>1, <1>2, StockTypeCorrect, PTL DEF StockSpec

\* A recorded shortage has left its mark in the log and in the lowest stock.
ShortageSeen ==
    dropped =>
        /\ \/ profile.starting_quantity < profile.minimum_reserve
           \/ \E d \in 1..Len(log) : log[d] < Hundredths(profile.minimum_reserve)
        /\ lowest < Hundredths(profile.minimum_reserve)

\* The reserve is restored only after a shortage, on a day it is really back
\* (time_to_restore_reserve, minimum_inventory_during_event).
THEOREM RestoreSound == StockSpec => []RestoreFollowsShortage
<1>1. StockInit => ShortageSeen /\ RestoreFollowsShortage
  <2> SUFFICES ASSUME StockInit PROVE ShortageSeen /\ RestoreFollowsShortage
    OBVIOUS
  <2>1. profile.starting_quantity \in Nat /\ profile.minimum_reserve \in Nat
    BY InventoryAssumption DEF StockInit, Profile
  <2>2. /\ restoredDay = Unset
        /\ lowest = Hundredths(profile.starting_quantity)
        /\ dropped => Hundredths(profile.starting_quantity)
                          < Hundredths(profile.minimum_reserve)
    BY DEF StockInit
  <2>3. dropped => profile.starting_quantity < profile.minimum_reserve
    BY <2>1, <2>2 DEF Hundredths
  <2>4. dropped => lowest < Hundredths(profile.minimum_reserve)
    BY <2>2
  <2> QED
    BY <2>2, <2>3, <2>4 DEF ShortageSeen, RestoreFollowsShortage
<1>2. StockTypeOK /\ ShortageSeen /\ RestoreFollowsShortage /\ [StockNext]_stockVars
      => ShortageSeen' /\ RestoreFollowsShortage'
  <2> SUFFICES ASSUME StockTypeOK, ShortageSeen, RestoreFollowsShortage, [StockNext]_stockVars
               PROVE  ShortageSeen' /\ RestoreFollowsShortage'
    OBVIOUS
  <2>1. CASE SimulateDay
    <3> DEFINE q == StockAfter(quantity, day)
               reserve == Hundredths(profile.minimum_reserve)
    <3>1. /\ q \in Nat /\ day \in Nat
          /\ Len(log) = day /\ Len(log') = day + 1
          /\ log'[day + 1] = q
          /\ \A d \in 1..Len(log) : log'[d] = log[d]
          /\ profile' = profile
      BY <2>1, OneMoreDay
    <3>2. reserve \in Nat /\ lowest \in Nat
      BY <3>1, Quantities DEF StockTypeOK, Regime
    <3>3. /\ lowest' = IF q < lowest THEN q ELSE lowest
          /\ dropped' <=> dropped \/ q < reserve
          /\ restoredDay' = IF restoredDay = Unset /\ dropped /\ ~(q < reserve)
                            THEN day ELSE restoredDay
      BY <2>1 DEF SimulateDay, FirstDay, ReserveBack
    <3>4. restoredDay = Unset \/ (restoredDay \in Nat /\ restoredDay < day)
      <4>1. Passed(restoredDay, day)
        BY DEF StockTypeOK, Passed
      <4> QED
        BY <4>1, InventoryAssumption DEF Passed, Day
    <3>5. Hundredths(profile'.minimum_reserve) = reserve
      BY <3>1
    <3> HIDE DEF q, reserve
    <3>6. ShortageSeen'
      <4>1. CASE q < reserve
        BY <3>1, <3>2, <3>3, <3>5, <4>1 DEF ShortageSeen
      <4>2. CASE ~(q < reserve)
        <5> SUFFICES ASSUME dropped
                     PROVE  /\ \/ profile'.starting_quantity < profile'.minimum_reserve
                               \/ \E d \in 1..Len(log') : log'[d] < reserve
                            /\ lowest' < reserve
          BY <3>3, <3>5, <4>2 DEF ShortageSeen
        <5>1. /\ \/ profile.starting_quantity < profile.minimum_reserve
                 \/ \E d \in 1..Len(log) : log[d] < reserve
              /\ lowest < reserve
          BY DEF ShortageSeen, reserve
        <5>2. 1..Len(log) \subseteq 1..Len(log')
          BY <3>1
        <5> QED
          BY <3>1, <3>2, <3>3, <4>2, <5>1, <5>2
      <4> QED
        BY <4>1, <4>2
    <3>7. RestoreFollowsShortage'
      <4>1. CASE restoredDay = Unset /\ dropped /\ ~(q < reserve)
        <5>1. restoredDay' = day /\ log'[day + 1] >= reserve
          BY <3>1, <3>2, <3>3, <4>1
        <5>2. /\ \/ profile.starting_quantity < profile.minimum_reserve
                 \/ \E d \in 1..day : log'[d] < reserve
              /\ lowest < reserve
          BY <3>1, <4>1 DEF ShortageSeen, reserve
        <5>3. lowest' < reserve
          BY <3>1, <3>2, <3>3, <5>2
        <5> QED
          BY <3>1, <3>5, <5>1, <5>2, <5>3 DEF RestoreFollowsShortage
      <4>2. CASE ~(restoredDay = Unset /\ dropped /\ ~(q < reserve)) /\ restoredDay # Unset
        <5>1. /\ restoredDay' = restoredDay /\ restoredDay \in Nat /\ restoredDay < day
              /\ log[restoredDay + 1] >= reserve
              /\ \/ profile.starting_quantity < profile.minimum_reserve
                 \/ \E d \in 1..restoredDay : log[d] < reserve
              /\ lowest < reserve
          BY <3>3, <3>4, <4>2 DEF RestoreFollowsShortage, reserve
        <5>2. restoredDay + 1 \in 1..Len(log) /\ 1..restoredDay \subseteq 1..Len(log)
          BY <3>1, <5>1
        <5>3. lowest' < reserve
          BY <3>1, <3>2, <3>3, <5>1
        <5> QED
          BY <3>1, <3>5, <5>1, <5>2, <5>3 DEF RestoreFollowsShortage
      <4>3. CASE ~(restoredDay = Unset /\ dropped /\ ~(q < reserve)) /\ restoredDay = Unset
        BY <3>3, <4>3 DEF RestoreFollowsShortage
      <4> QED
        BY <4>1, <4>2, <4>3
    <3> QED
      BY <3>6, <3>7
  <2>2. CASE UNCHANGED stockVars
    BY <2>2 DEF stockVars, dates, ShortageSeen, RestoreFollowsShortage
  <2> QED
    BY <2>1, <2>2 DEF StockNext
<1> QED
  BY <1>1, <1>2, StockTypeCorrect, PTL DEF StockSpec

\* The report of a simulation is right about the way back, for every profile: the first
\* delivery comes on the assured day and a reserve is restored after a shortage only
\* (simulate_inventory).
THEOREM StockSound == StockSpec => []StockAsPromised
BY ReplenishmentSound, RestoreSound, PTL DEF StockAsPromised

-----------------------------------------------------------------------------
(* The incident: the recovery and the routes beside the stock.             *)

Durations == [RecoveryFactors -> Nat]

\* The longest of two and of four durations is a number of days.
LEMMA LongestIsNat ==
    ASSUME NEW durations \in Durations
    PROVE  /\ Longest(durations, CommercialFactors) \in Nat
           /\ Longest(durations, LogisticsFactors) \in Nat
           /\ Longest(durations, ReserveFactors) \in Nat
<1>1. ASSUME NEW a \in Nat, NEW b \in Nat PROVE Max({a, b}) \in Nat
  <2>1. \E x \in {a, b} : \A y \in {a, b} : x >= y
    OBVIOUS
  <2> QED
    BY <2>1 DEF Max
<1>2. ASSUME NEW a \in Nat, NEW b \in Nat, NEW c \in Nat, NEW d \in Nat
      PROVE  Max({a, b, c, d}) \in Nat
  <2>1. \E x \in {a, b, c, d} : \A y \in {a, b, c, d} : x >= y
    OBVIOUS
  <2> QED
    BY <2>1 DEF Max
<1>3. \A f \in RecoveryFactors : durations[f] \in Nat
  BY DEF Durations
<1>4. Longest(durations, CommercialFactors) \in Nat
  <2>1. {durations[f] : f \in CommercialFactors}
            = {durations["insurance_normalization"], durations["carrier_return"]}
    BY DEF CommercialFactors
  <2> QED
    BY <1>1, <1>3, <2>1 DEF Longest, RecoveryFactors, CommercialFactors
<1>5. Longest(durations, LogisticsFactors) \in Nat
  <2>1. {durations[f] : f \in LogisticsFactors}
            = {durations["vessel_repositioning"], durations["port_backlog"],
               durations["crew_availability"], durations["equipment_availability"]}
    BY DEF LogisticsFactors
  <2> QED
    BY <1>2, <1>3, <2>1 DEF Longest, RecoveryFactors, LogisticsFactors
<1>6. Longest(durations, ReserveFactors) \in Nat
  <2>1. {durations[f] : f \in ReserveFactors}
            = {durations["inventory_replenishment"], durations["warehouse_recovery"],
               durations["supplier_restart"], durations["production_restart"]}
    BY DEF ReserveFactors
  <2> QED
    BY <1>2, <1>3, <2>1 DEF Longest, RecoveryFactors, ReserveFactors
<1> QED
  BY <1>4, <1>5, <1>6

\* The milestones are days in their order, the last seven days after the fourth.
LEMMA MilestonesOrdered ==
    ASSUME NEW durations \in Durations
    PROVE  \E t1, t2, t3, t4 \in Nat :
               /\ MilestoneDays(durations) = <<t1, t2, t3, t4, t4 + 7>>
               /\ t1 <= t2 /\ t2 <= t3 /\ t3 <= t4
<1> DEFINE t1 == durations["physical_reopening"]
           t2 == t1 + Longest(durations, CommercialFactors)
           t3 == t2 + Longest(durations, LogisticsFactors)
           t4 == t3 + Longest(durations, ReserveFactors)
<1>1. t1 \in Nat
  BY DEF Durations, RecoveryFactors
<1>2. /\ t2 \in Nat /\ t3 \in Nat /\ t4 \in Nat
      /\ t1 <= t2 /\ t2 <= t3 /\ t3 <= t4
  BY <1>1, LongestIsNat
<1>3. MilestoneDays(durations) = <<t1, t2, t3, t4, t4 + 7>>
  BY DEF MilestoneDays
<1> HIDE DEF t1, t2, t3, t4
<1> QED
  BY <1>1, <1>2, <1>3

\* A phase is current or past exactly when its day has come.
LEMMA PhaseReached ==
    ASSUME NEW durations \in Durations, NEW now \in Nat
    PROVE  /\ CurrentPhase(durations, now) \in 0..5
           /\ \A k \in 1..5 :
                  CurrentPhase(durations, now) >= k <=> now >= MilestoneDays(durations)[k]
<1>1. PICK t1, t2, t3, t4 \in Nat :
          /\ MilestoneDays(durations) = <<t1, t2, t3, t4, t4 + 7>>
          /\ t1 <= t2 /\ t2 <= t3 /\ t3 <= t4
  BY MilestonesOrdered
<1> DEFINE M == MilestoneDays(durations)
           S == {0} \cup {k \in 1..5 : now >= M[k]}
<1>2. M[1] = t1 /\ M[2] = t2 /\ M[3] = t3 /\ M[4] = t4 /\ M[5] = t4 + 7
  BY <1>1
<1>3. \A k \in 1..5 : M[k] \in Nat
  BY <1>2
<1>4. \A j, k \in 1..5 : j <= k => M[j] <= M[k]
  <2>1. M[1] <= M[2] /\ M[2] <= M[3] /\ M[3] <= M[4] /\ M[4] <= M[5]
    BY <1>1, <1>2
  <2> HIDE DEF M
  <2> QED
    BY <1>3, <2>1
<1> HIDE DEF M
<1>5. S \subseteq 0..5 /\ 0 \in S
  OBVIOUS
<1>6. \E x \in S : \A y \in S : x >= y
  <2> HIDE DEF S
  <2>1. CASE 5 \in S BY <1>5, <2>1
  <2>2. CASE 5 \notin S /\ 4 \in S BY <1>5, <2>2
  <2>3. CASE 5 \notin S /\ 4 \notin S /\ 3 \in S BY <1>5, <2>3
  <2>4. CASE 5 \notin S /\ 4 \notin S /\ 3 \notin S /\ 2 \in S BY <1>5, <2>4
  <2>5. CASE 5 \notin S /\ 4 \notin S /\ 3 \notin S /\ 2 \notin S BY <1>5, <2>5
  <2> QED BY <2>1, <2>2, <2>3, <2>4, <2>5
<1>7. Max(S) \in S /\ \A y \in S : Max(S) >= y
  BY <1>6 DEF Max
<1>8. CurrentPhase(durations, now) = Max(S)
  BY DEF CurrentPhase, M
<1> DEFINE m == Max(S)
<1>9. m \in 0..5 /\ m \in S /\ \A y \in S : m >= y
  BY <1>5, <1>7
<1> HIDE DEF m
<1>10. ASSUME NEW k \in 1..5 PROVE m >= k <=> now >= M[k]
  <2>1. ASSUME now >= M[k] PROVE m >= k
    BY <1>9, <2>1
  <2>2. ASSUME m >= k PROVE now >= M[k]
    <3>1. m \in 1..5 /\ now >= M[m]
      BY <1>9, <2>2
    <3> QED
      BY <1>3, <1>4, <2>2, <3>1
  <2> QED
    BY <2>1, <2>2
<1> QED
  BY <1>8, <1>9, <1>10 DEF m, M

\* A part of the whole time is less than a hundred hundredths of it.
LEMMA PartOfTime ==
    ASSUME NEW n \in Nat, NEW total \in Nat, n < total
    PROVE  (n * 100) \div total < 100
<1>1. n * 100 < total * 100
  OBVIOUS
<1> QED
  BY <1>1, Z3T(30)
\* Reopening is not recovery, on every day and for all durations: the phases only
\* advance, the week after the reopening is unhealthy, and healthy means that the whole
\* time has passed (model_recovery).
LEMMA RecoveryPhases ==
    ASSUME NEW durations \in Durations, NEW now \in Nat
    PROVE  LET reopened == MilestoneDays(durations)[1] IN
           /\ CurrentPhase(durations, now) <= CurrentPhase(durations, now + 1)
           /\ now \in reopened..(reopened + 6) => ReopenedOnly(durations, now)
           /\ Healthy(durations, now) <=> Progress(durations, now) = 100
           /\ Healthy(durations, now) <=> CurrentPhase(durations, now) = 5
<1>1. PICK t1, t2, t3, t4 \in Nat :
          /\ MilestoneDays(durations) = <<t1, t2, t3, t4, t4 + 7>>
          /\ t1 <= t2 /\ t2 <= t3 /\ t3 <= t4
  BY MilestonesOrdered
<1> DEFINE M == MilestoneDays(durations)
           p == CurrentPhase(durations, now)
           q == CurrentPhase(durations, now + 1)
<1>2. M[1] = t1 /\ M[5] = t4 + 7
  BY <1>1
<1>3. \A k \in 1..5 : M[k] \in Nat
  BY <1>1
<1>4. p \in 0..5 /\ \A k \in 1..5 : p >= k <=> now >= M[k]
  BY PhaseReached
<1>5. q \in 0..5 /\ \A k \in 1..5 : q >= k <=> now + 1 >= M[k]
  BY PhaseReached
<1>6. Healthy(durations, now) <=> p = 5 \/ now >= M[5]
  BY DEF Healthy
<1>7. ReopenedOnly(durations, now) <=> now >= M[1] /\ ~Healthy(durations, now)
  BY DEF ReopenedOnly
<1>8. Progress(durations, now) = IF now >= M[5] THEN 100 ELSE (now * 100) \div M[5]
  BY DEF Progress
<1> HIDE DEF M, p, q
<1>9. p <= q
  <2>1. CASE p = 0
    BY <1>5, <2>1
  <2>2. CASE p \in 1..5
    <3>1. now >= M[p]
      BY <1>4, <2>2
    <3>2. now + 1 >= M[p]
      BY <1>3, <2>2, <3>1
    <3> QED
      BY <1>5, <2>2, <3>2
  <2> QED
    BY <1>4, <2>1, <2>2
<1>10. Healthy(durations, now) <=> now >= M[5]
  BY <1>4, <1>6
<1>11. Healthy(durations, now) <=> p = 5
  BY <1>4, <1>10
<1>12. now \in M[1]..(M[1] + 6) => ReopenedOnly(durations, now)
  BY <1>1, <1>2, <1>7, <1>10
<1>13. Healthy(durations, now) <=> Progress(durations, now) = 100
  <2>1. CASE now >= M[5]
    BY <1>8, <1>10, <2>1
  <2>2. CASE ~(now >= M[5])
    <3>1. M[5] \in Nat /\ now < M[5]
      BY <1>3, <2>2
    <3>2. (now * 100) \div M[5] < 100
      BY <3>1, PartOfTime
    <3>3. (now * 100) \div M[5] # 100
      BY <3>2
    <3> QED
      BY <1>8, <1>10, <2>2, <3>3
  <2> QED
    BY <2>1, <2>2
<1> QED
  BY <1>9, <1>11, <1>12, <1>13 DEF M, p, q

\* Every step of the incident is a day of the stock, so what is proved of the simulation
\* holds in it.
LEMMA TimelineIsSimulation == TimelineSpec => StockSpec /\ [](recovery \in Recoveries)
<1>1. TimelineInit => StockInit /\ recovery \in Recoveries
  BY DEF TimelineInit
<1>2. [TimelineNext]_timelineVars => [StockNext]_stockVars
  BY DEF TimelineNext, timelineVars, StockNext
<1>3. recovery \in Recoveries /\ [TimelineNext]_timelineVars => (recovery \in Recoveries)'
  BY DEF TimelineNext, timelineVars
<1> QED
  BY <1>1, <1>2, <1>3, PTL DEF TimelineSpec, StockSpec

\* A plan drawn up during the incident holds for every profile, recovery and set of
\* routes: an accepted route arrives while there is stock, and nobody relies on a
\* resource that has only reopened (compile_route_substitution on the result of
\* simulate_inventory, model_recovery).
THEOREM IncidentPlanAlwaysSound == TimelineSpec => []IncidentPlanSound
<1>1. StockTypeOK /\ AlarmsOrdered => SubstitutionInTime
  <2> SUFFICES ASSUME StockTypeOK, AlarmsOrdered, NEW c \in Candidates, exhaustionDay # Unset,
                      Substitution(c, exhaustionDay) # "FAIL",
                      NEW d \in 0..(TransitDays(c) - 1), d < day
               PROVE  log[d + 1] > 0
    BY DEF SubstitutionInTime
  <2>1. exhaustionDay \in Nat /\ day \in Nat /\ Len(log) = day
    BY InventoryAssumption DEF StockTypeOK, Day
  <2>2. TransitDays(c) \in Nat
    BY CandidateAssumption DEF TransitDays
  <2>3. TransitDays(c) <= exhaustionDay
    BY DEF Substitution, ArrivesInTime
  <2>4. d \in Nat /\ d < exhaustionDay /\ d + 1 \in 1..Len(log)
    BY <2>1, <2>2, <2>3
  <2>5. log[d + 1] \in Nat
    BY <2>4 DEF StockTypeOK
  <2>6. StatusOf(log[d + 1]) = "exhausted" => Before(exhaustionDay, d)
    <3>1. (d + 1) - 1 = d
      BY <2>4
    <3> QED
      BY <2>4, <3>1 DEF AlarmsOrdered
  <2>7. ~Before(exhaustionDay, d)
    BY <2>1, <2>4, InventoryAssumption DEF Before
  <2>8. StatusOf(log[d + 1]) # "exhausted"
    BY <2>6, <2>7
  <2> QED
    BY <2>5, <2>8 DEF StatusOf
<1>2. StockTypeOK /\ recovery \in Recoveries => ReopeningIsNotRecovery
  <2> SUFFICES ASSUME StockTypeOK, recovery \in Recoveries PROVE ReopeningIsNotRecovery
    OBVIOUS
  <2>1. recovery \in Durations
    BY RecoveryAssumption DEF Durations
  <2>2. day \in Nat
    BY InventoryAssumption DEF StockTypeOK, Day
  <2> QED
    BY <2>1, <2>2, RecoveryPhases DEF ReopeningIsNotRecovery
<1> QED
  BY <1>1, <1>2, TimelineIsSimulation, StockTypeCorrect, AlarmsSound, PTL DEF IncidentPlanSound
-----------------------------------------------------------------------------
(* The redundancy of the providers of a category.                          *)

\* A report traces every impact to a node it took for failed.
Traced(r) ==
    /\ r.failed \subseteq graph.nodes
    /\ r.probability \in [Node -> 0..Certain] /\ r.path \in [Node -> Seq(Node)]
    /\ \A n \in Node : r.probability[n] > 0 =>
          /\ r.path[n] # << >>
          /\ r.path[n][1] \in r.failed /\ r.path[n][Len(r.path[n])] = n
          /\ \A i \in 1..(Len(r.path[n]) - 1) : Carries(graph, r.path[n][i], r.path[n][i + 1])

\* What analyze() has returned stays traced while other calls run on the same graph.
LEMMA ReportTraced == PropagationSpec => [](graph \in Graphs /\ Traced(report))
<1>1. PropagationInit => Traced(report)
  BY DEF PropagationInit, Traced, NoReport, Unaffected, NoPath, Certain
<1>2. SearchInv /\ Traced(report) /\ [PropagationNext]_propagationVars => Traced(report)'
  <2> SUFFICES ASSUME SearchInv, Traced(report), [PropagationNext]_propagationVars
               PROVE  Traced(report)'
    OBVIOUS
  <2>1. CASE report' = report /\ graph' = graph
    BY <2>1 DEF Traced
  <2>2. CASE ReturnImpacts
    <3>1. graph' = graph
      BY <2>2 DEF ReturnImpacts, TryNext, Begin
    <3>2. /\ report'.failed = failed /\ report'.probability = probability
          /\ report'.path = path
      BY <2>2 DEF ReturnImpacts
    <3>3. /\ failed \subseteq graph.nodes /\ probability \in [Node -> 0..Certain]
          /\ path \in [Node -> Seq(Node)] /\ PathsReal
      BY DEF SearchInv, SearchTypeOK, SearchSound
    <3> QED
      BY <3>1, <3>2, <3>3 DEF Traced, PathsReal
  <2>3. CASE ReturnCandidate
    <3>1. graph' = graph
      BY <2>3 DEF ReturnCandidate, TryNext, Begin
    <3>2. /\ report'.failed = report.failed /\ report'.probability = report.probability
          /\ report'.path = report.path
      BY <2>3 DEF ReturnCandidate
    <3> QED
      BY <3>1, <3>2 DEF Traced
  <2>4. \/ report' = report /\ graph' = graph
        \/ ReturnImpacts \/ ReturnCandidate
    BY DEF PropagationNext, Turn, Analyze, BlastRadius, Begin, Enqueue, Pop, Follow,
           ReturnBlast, propagationVars
  <2> QED
    BY <2>1, <2>2, <2>3, <2>4
<1>3. SearchInv => graph \in Graphs
  BY DEF SearchInv, SearchTypeOK
<1> QED
  BY <1>1, <1>2, <1>3, SearchInvariant, PTL DEF PropagationSpec

\* The engines asked about one graph move the search by its own steps only.
LEMMA NetworkIsPropagation == NetworkSpec => PropagationSpec
<1>1. NetworkInit => PropagationInit
  BY DEF NetworkInit
<1>2. [NetworkNext]_networkVars => [PropagationNext]_propagationVars
  <2> SUFFICES ASSUME [NetworkNext]_networkVars PROVE [PropagationNext]_propagationVars
    OBVIOUS
  <2>1. ASSUME NEW events \in Scenarios, Simulate(events) PROVE PropagationNext
    <3>1. FailedBy(graph, events) \in SUBSET graph.nodes
      BY DEF FailedBy
    <3> QED
      BY <2>1, <3>1 DEF Simulate, PropagationNext
  <2>2. ASSUME NEW n \in graph.nodes, Probe(n) PROVE PropagationNext
    <3>1. {n} \in SUBSET graph.nodes
      OBVIOUS
    <3> QED
      BY <2>2, <3>1 DEF Probe, PropagationNext
  <2>3. ASSUME Propagate PROVE PropagationNext
    BY <2>3 DEF Propagate, PropagationNext
  <2>4. ASSUME Search PROVE UNCHANGED propagationVars
    BY <2>4 DEF Search
  <2>5. ASSUME NEW n, NEW level, ObserveNode(n, level) PROVE UNCHANGED propagationVars
    BY <2>5 DEF ObserveNode
  <2>6. UNCHANGED networkVars => UNCHANGED propagationVars
    BY DEF networkVars
  <2> QED
    BY <2>1, <2>2, <2>3, <2>4, <2>5, <2>6 DEF NetworkNext
<1> QED
  BY <1>1, <1>2, PTL DEF NetworkSpec, PropagationSpec

-----------------------------------------------------------------------------
(* What a node depends on.                                                 *)

\* The recursion of the upstream search, and the function it describes.
UpStep(g, n, h) ==
    [S \in SUBSET g.nodes |-> IF Direct(g, S \cup {n}) \subseteq S THEN S
                              ELSE h[S \cup Direct(g, S \cup {n})]]
Ups(g, n) == CHOOSE h : h = UpStep(g, n, h)

\* get_upstream_dependencies, opened up.
LEMMA UpstreamIsUps ==
    ASSUME NEW g, NEW n
    PROVE  UpstreamOf(g, n) = Ups(g, n)[{}]
BY DEF UpstreamOf, Ups, UpStep

\* Dependencies are nodes of the graph, and more nodes have more of them.
LEMMA DirectGrows ==
    ASSUME NEW g \in Graphs, NEW A, NEW B, A \subseteq B
    PROVE  Direct(g, A) \subseteq Direct(g, B) /\ Direct(g, A) \subseteq g.nodes
<1> DEFINE Edge == [source : g.nodes, target : g.nodes, strength : 0..100,
                    substitutable : BOOLEAN, group : STRING \cup {None}]
<1>1. g.edges \in Seq(Edge)
  BY GraphAssumption DEF IsGraph
<1>2. ASSUME NEW e \in Edges(g) PROVE g.edges[e].source \in g.nodes
  <2>1. g.edges[e] \in Edge
    <3> HIDE DEF Edge
    <3> QED
      BY <1>1 DEF Edges
  <2> QED
    BY <2>1
<1> QED
  BY <1>2 DEF Direct

\* The recursion describes a function: the least set around S that holds the dependencies
\* of its nodes and of n is one answer to it.
LEMMA UpsExist ==
    ASSUME NEW g \in Graphs, NEW n \in g.nodes
    PROVE  Ups(g, n) = UpStep(g, n, Ups(g, n))
<1> DEFINE Around(S) == {T \in SUBSET g.nodes : S \subseteq T /\ Direct(g, T \cup {n}) \subseteq T}
           least(S) == {m \in g.nodes : \A T \in Around(S) : m \in T}
           h == [S \in SUBSET g.nodes |-> least(S)]
<1>1. ASSUME NEW S \in SUBSET g.nodes, Direct(g, S \cup {n}) \subseteq S PROVE least(S) = S
  <2>1. S \in Around(S)
    BY <1>1
  <2>2. \A T \in Around(S) : S \subseteq T
    OBVIOUS
  <2> HIDE DEF Around
  <2> QED
    BY <2>1, <2>2
<1>2. ASSUME NEW S \in SUBSET g.nodes
      PROVE  /\ S \cup Direct(g, S \cup {n}) \in SUBSET g.nodes
             /\ least(S) = least(S \cup Direct(g, S \cup {n}))
  <2>1. Direct(g, S \cup {n}) \subseteq g.nodes
    BY DirectGrows
  <2>2. ASSUME NEW T \in Around(S) PROVE Direct(g, S \cup {n}) \subseteq T
    <3>1. S \cup {n} \subseteq T \cup {n} /\ Direct(g, T \cup {n}) \subseteq T
      OBVIOUS
    <3>2. Direct(g, S \cup {n}) \subseteq Direct(g, T \cup {n})
      BY <3>1, DirectGrows
    <3> QED
      BY <3>1, <3>2
  <2>3. Around(S) = Around(S \cup Direct(g, S \cup {n}))
    BY <2>2
  <2> HIDE DEF Around
  <2> QED
    BY <2>1, <2>3
<1> HIDE DEF least
<1>3. ASSUME NEW S \in SUBSET g.nodes
      PROVE  h[S] = IF Direct(g, S \cup {n}) \subseteq S THEN S ELSE h[S \cup Direct(g, S \cup {n})]
  BY <1>1, <1>2
<1>4. h = UpStep(g, n, h)
  <2> HIDE DEF h
  <2>1. DOMAIN h = SUBSET g.nodes /\ h = [S \in SUBSET g.nodes |-> h[S]]
    BY DEF h
  <2> QED
    BY <1>3, <2>1 DEF UpStep
<1> HIDE DEF h
<1> QED
  BY <1>4 DEF Ups

\* The search ends with nothing missing and nothing idle: what it has found, and the node
\* it began with, have no dependency outside, and it is the least such set.
LEMMA UpstreamIsClosure ==
    ASSUME NEW g \in Graphs, NEW n \in g.nodes
    PROVE  /\ Direct(g, UpstreamOf(g, n) \cup {n}) \subseteq UpstreamOf(g, n)
           /\ \A T \in SUBSET g.nodes :
                 Direct(g, T \cup {n}) \subseteq T => UpstreamOf(g, n) \subseteq T
<1> DEFINE N == g.nodes
           u == Ups(g, n)
           Saturated(S) == Direct(g, S \cup {n}) \subseteq S
           Good(S) == Saturated(u[S]) /\ \A T \in SUBSET N : S \subseteq T /\ Saturated(T) => u[S] \subseteq T
           Wrong == {k \in Nat : \E S \in SUBSET N : Cardinality(N \ S) = k /\ ~Good(S)}
<1>1. IsFiniteSet(N)
  BY GraphAssumption DEF IsGraph
<1>2. ASSUME NEW S \in SUBSET N
      PROVE  u[S] = IF Saturated(S) THEN S ELSE u[S \cup Direct(g, S \cup {n})]
  <2>1. u = UpStep(g, n, u)
    BY UpsExist
  <2> HIDE DEF u
  <2> QED
    BY <2>1 DEF UpStep
<1> HIDE DEF u
<1>3. \A S \in SUBSET N : IsFiniteSet(N \ S) /\ Cardinality(N \ S) \in Nat
  BY <1>1, FS_Subset, FS_CardinalityType
<1>4. Wrong = {}
  <2> SUFFICES ASSUME Wrong # {} PROVE FALSE
    OBVIOUS
  <2>1. PICK k \in Wrong : \A j \in Wrong : k <= j
    <3>1. Wrong \subseteq Nat
      OBVIOUS
    <3> HIDE DEF Wrong
    <3> QED
      BY <3>1, LeastNumber
  <2>2. PICK S \in SUBSET N : Cardinality(N \ S) = k /\ ~Good(S)
    OBVIOUS
  <2> DEFINE D == Direct(g, S \cup {n})
             more == S \cup D
  <2>3. D \subseteq N
    BY DirectGrows
  <2>4. CASE Saturated(S)
    <3>1. u[S] = S
      BY <1>2, <2>4
    <3> HIDE DEF Saturated
    <3> QED
      BY <2>2, <2>4, <3>1
  <2>5. CASE ~Saturated(S)
    <3>1. PICK d \in D : d \notin S
      BY <2>5
    <3>2. u[S] = u[more]
      BY <1>2, <2>5
    <3>3. more \in SUBSET N
      BY <2>3
    <3>4. ~Good(more)
      <4>1. ASSUME NEW T \in SUBSET N, S \subseteq T, Saturated(T) PROVE more \subseteq T
        <5>1. S \cup {n} \subseteq T \cup {n}
          BY <4>1
        <5>2. D \subseteq Direct(g, T \cup {n})
          BY <5>1, DirectGrows
        <5> QED
          BY <4>1, <5>2
      <4> HIDE DEF Saturated, more
      <4> QED
        BY <2>2, <3>2, <4>1
    <3>5. Cardinality(N \ more) \in Wrong
      <4>1. Cardinality(N \ more) \in Nat
        BY <1>3, <3>3
      <4> HIDE DEF Good, more
      <4> QED
        BY <3>3, <3>4, <4>1
    <3>6. Cardinality(N \ more) < Cardinality(N \ S)
      <4>1. d \in N \ S /\ N \ more \subseteq (N \ S) \ {d}
        BY <2>3, <3>1
      <4>2. /\ IsFiniteSet((N \ S) \ {d})
            /\ Cardinality((N \ S) \ {d}) = Cardinality(N \ S) - 1
        <5> DEFINE R == N \ S
        <5>1. IsFiniteSet(R) /\ d \in R
          BY <1>3, <4>1
        <5> HIDE DEF R
        <5>2. IsFiniteSet(R \ {d}) /\ Cardinality(R \ {d}) = Cardinality(R) - 1
          BY <5>1, FS_RemoveElement
        <5> QED
          BY <5>2 DEF R
      <4>3. Cardinality(N \ more) <= Cardinality((N \ S) \ {d})
        BY <4>1, <4>2, FS_Subset
      <4>4. /\ Cardinality(N \ more) \in Nat /\ Cardinality(N \ S) \in Nat
        BY <1>3, <3>3
      <4> HIDE DEF more
      <4> QED
        BY <4>2, <4>3, <4>4
    <3>7. k <= Cardinality(N \ more)
      <4> HIDE DEF Wrong, more
      <4> QED
        BY <2>1, <3>5
    <3>8. Cardinality(N \ more) \in Nat
      BY <1>3, <3>3
    <3> HIDE DEF more, Wrong, Good
    <3> QED
      BY <1>3, <2>2, <3>6, <3>7, <3>8
  <2> QED
    BY <2>4, <2>5
<1>5. Good({})
  <2>1. Cardinality(N \ {}) \in Nat /\ {} \in SUBSET N
    BY <1>3
  <2> HIDE DEF Good
  <2> QED
    BY <1>4, <2>1
<1>6. UpstreamOf(g, n) = u[{}]
  BY UpstreamIsUps DEF u
<1> QED
  BY <1>5, <1>6

\* A way along the edges leads through the dependencies of its last node: the first node
\* is among them.
LEMMA WayIsUpstream ==
    ASSUME NEW g \in Graphs, NEW q \in Seq(Node), q # << >>,
           q[Len(q)] \in g.nodes, q[1] # q[Len(q)],
           \A i \in 1..(Len(q) - 1) : q[i + 1] \in Neighbors(g, q[i])
    PROVE  q[1] \in UpstreamOf(g, q[Len(q)])
<1> DEFINE n == q[Len(q)]
           U == UpstreamOf(g, n)
           T == {i \in 1..Len(q) : q[i] \in U \cup {n}}
<1>1. Len(q) \in Nat /\ Len(q) >= 1
  OBVIOUS
<1>2. Direct(g, U \cup {n}) \subseteq U
  BY UpstreamIsClosure
<1> HIDE DEF U
<1>3. PICK i \in T : \A j \in T : i <= j
  <2>1. T \subseteq Nat /\ Len(q) \in T
    BY <1>1
  <2> HIDE DEF T
  <2> QED
    BY <2>1, LeastNumber
<1>4. i \in 1..Len(q) /\ q[i] \in U \cup {n}
  OBVIOUS
<1>5. i = 1
  <2> SUFFICES ASSUME i # 1 PROVE FALSE
    OBVIOUS
  <2>1. i - 1 \in 1..(Len(q) - 1) /\ (i - 1) + 1 = i
    BY <1>1, <1>4
  <2>2. q[i] \in Neighbors(g, q[i - 1])
    BY <2>1
  <2>3. q[i - 1] \in U \cup {n}
    <3>1. CASE q[i - 1] = q[i]
      BY <1>4, <3>1
    <3>2. CASE q[i - 1] # q[i]
      <4>1. PICK e \in Edges(g) : g.edges[e].source = q[i - 1] /\ g.edges[e].target = q[i]
        BY <2>2 DEF Neighbors, Outgoing
      <4>2. q[i - 1] \in Direct(g, U \cup {n})
        BY <1>4, <3>2, <4>1 DEF Direct
      <4> QED
        BY <1>2, <4>2
    <3> QED
      BY <3>1, <3>2
  <2>4. i - 1 \in T
    BY <1>1, <2>1, <2>3
  <2> HIDE DEF T
  <2> QED
    BY <1>3, <1>4, <2>4
<1> QED
  BY <1>4, <1>5 DEF U
-----------------------------------------------------------------------------
(* The disjoint sets of providers.                                         *)

\* The providers are united dependency by dependency, in the order of the fold.
RootStep(P, D, h) ==
    [s \in SUBSET D |-> IF s = {} THEN [p \in P |-> p] ELSE UniteAll(h[Rest(s)], Pick(s))]
Roots(P, D) == CHOOSE h : h = RootStep(P, D, h)

\* The loop over the shared dependencies, opened up.
LEMMA RepresentativeIsRoots ==
    ASSUME NEW g, NEW P
    PROVE  Representative(g, P) = Roots(P, SharedDependencies(g, P))[SharedDependencies(g, P)]
BY DEF Representative, FoldSet, MapThenFoldSet, Roots, RootStep, Pick, Rest

\* h unites the sets of at most n dependencies.
RootsUpTo(P, D, n, h) ==
    \A s \in Small(D, n) :
        h[s] = IF s = {} THEN [p \in P |-> p] ELSE UniteAll(h[Rest(s)], Pick(s))

\* There is a function that the recursion describes, so the fold is one.
LEMMA RootsExist ==
    ASSUME NEW P, NEW D, IsFiniteSet(D)
    PROVE  Roots(P, D) = RootStep(P, D, Roots(P, D))
<1> DEFINE own == [p \in P |-> p]
           Wrong == {n \in Nat : \A h : ~RootsUpTo(P, D, n, h)}
<1>1. Wrong = {}
  <2> SUFFICES ASSUME Wrong # {} PROVE FALSE
    OBVIOUS
  <2>1. PICK n \in Wrong : \A m \in Wrong : n <= m
    <3>1. Wrong \subseteq Nat
      OBVIOUS
    <3> HIDE DEF Wrong
    <3> QED
      BY <3>1, LeastNumber
  <2>2. n \in Nat /\ \A h : ~RootsUpTo(P, D, n, h)
    OBVIOUS
  <2>3. n # 0
    <3> SUFFICES ASSUME n = 0 PROVE FALSE
      OBVIOUS
    <3> DEFINE h == [s \in SUBSET D |-> own]
    <3>1. ASSUME NEW s \in Small(D, 0) PROVE s = {}
      <4>1. IsFiniteSet(s) /\ Cardinality(s) <= 0 /\ s \in SUBSET D
        BY FS_Subset DEF Small
      <4> QED
        BY <4>1, FS_CardinalityType, FS_EmptySet
    <3>2. RootsUpTo(P, D, 0, h)
      BY <3>1 DEF RootsUpTo, Small
    <3> QED
      BY <2>2, <3>2
  <2>4. PICK h : RootsUpTo(P, D, n - 1, h)
    <3>1. n - 1 \in Nat /\ ~(n <= n - 1)
      BY <2>2, <2>3
    <3>2. n - 1 \notin Wrong
      <4> HIDE DEF Wrong
      <4> QED
        BY <2>1, <3>1
    <3> QED
      BY <3>1, <3>2
  <2> DEFINE value(s) == IF s = {} THEN own ELSE UniteAll(h[Rest(s)], Pick(s))
             more == [s \in SUBSET D |-> IF s \in Small(D, n - 1) THEN h[s] ELSE value(s)]
  <2>5. ASSUME NEW s \in Small(D, n)
        PROVE  more[s] = IF s = {} THEN own ELSE UniteAll(more[Rest(s)], Pick(s))
    <3>1. s \in SUBSET D /\ Cardinality(s) <= n
      BY DEF Small
    <3>2. s # {} => Rest(s) \in Small(D, n - 1)
      <4> SUFFICES ASSUME s # {} PROVE Rest(s) \in Small(D, n - 1)
        OBVIOUS
      <4>1. /\ Rest(s) \in SUBSET D /\ Cardinality(Rest(s)) \in Nat
            /\ Cardinality(s) = Cardinality(Rest(s)) + 1
        BY <3>1, RestSmaller
      <4>2. Cardinality(Rest(s)) <= n - 1
        BY <2>2, <3>1, <4>1
      <4> QED
        BY <4>1, <4>2 DEF Small
    <3> HIDE DEF own
    <3>3. s # {} => more[Rest(s)] = h[Rest(s)]
      BY <3>2 DEF Small
    <3>4. more[s] = value(s)
      <4>1. CASE s \in Small(D, n - 1)
        <5>1. h[s] = value(s)
          BY <2>4, <4>1 DEF RootsUpTo, own
        <5> HIDE DEF value
        <5> QED
          BY <3>1, <4>1, <5>1
      <4>2. CASE s \notin Small(D, n - 1)
        <5> HIDE DEF value
        <5> QED
          BY <3>1, <4>2
      <4> QED
        BY <4>1, <4>2
    <3> HIDE DEF more
    <3> QED
      BY <3>3, <3>4
  <2>6. RootsUpTo(P, D, n, more)
    <3> HIDE DEF more
    <3> QED
      BY <2>5 DEF RootsUpTo
  <2> QED
    BY <2>2, <2>6
<1>2. Cardinality(D) \in Nat
  BY FS_CardinalityType
<1>3. PICK h : RootsUpTo(P, D, Cardinality(D), h)
  BY <1>1, <1>2
<1>4. \A s \in SUBSET D : s \in Small(D, Cardinality(D))
  BY FS_Subset DEF Small
<1> DEFINE f == [s \in SUBSET D |-> h[s]]
<1> HIDE DEF own
<1>5. f = RootStep(P, D, f)
  <2>1. ASSUME NEW s \in SUBSET D
        PROVE  f[s] = IF s = {} THEN own ELSE UniteAll(f[Rest(s)], Pick(s))
    <3>1. h[s] = IF s = {} THEN own ELSE UniteAll(h[Rest(s)], Pick(s))
      BY <1>3, <1>4 DEF RootsUpTo, own
    <3>2. f[s] = h[s] /\ f[Rest(s)] = h[Rest(s)]
      BY DEF Rest
    <3> QED
      BY <3>1, <3>2
  <2>2. DOMAIN f = SUBSET D /\ f = [s \in SUBSET D |-> f[s]]
    OBVIOUS
  <2> HIDE DEF f
  <2> QED
    BY <2>1, <2>2 DEF RootStep, own
<1> QED
  <2> HIDE DEF f
  <2> QED
    BY <1>5 DEF Roots

\* All providers have one representative.
Together(P, root) == DOMAIN root = P /\ \A p, q \in P : root[p] = root[q]

\* A dependency that all providers share unites them, and no other separates them again.
LEMMA SharedByAllUnites ==
    ASSUME NEW P, NEW D, IsFiniteSet(D), P \in D, P # {}
    PROVE  Together(P, Roots(P, D)[D])
<1> DEFINE r == Roots(P, D)
           Good(s) == DOMAIN r[s] = P /\ (P \in s => Together(P, r[s]))
           Wrong == {n \in Nat : \E s \in SUBSET D : Cardinality(s) = n /\ ~Good(s)}
<1>1. ASSUME NEW s \in SUBSET D
      PROVE  r[s] = IF s = {} THEN [p \in P |-> p] ELSE UniteAll(r[Rest(s)], Pick(s))
  <2>1. r = RootStep(P, D, r)
    BY RootsExist
  <2> HIDE DEF r
  <2> QED
    BY <2>1 DEF RootStep
<1> HIDE DEF r
<1>2. Wrong = {}
  <2> SUFFICES ASSUME Wrong # {} PROVE FALSE
    OBVIOUS
  <2>1. PICK n \in Wrong : \A m \in Wrong : n <= m
    <3>1. Wrong \subseteq Nat
      OBVIOUS
    <3> HIDE DEF Wrong
    <3> QED
      BY <3>1, LeastNumber
  <2>2. PICK s \in SUBSET D : Cardinality(s) = n /\ ~Good(s)
    OBVIOUS
  <2>3. CASE s = {}
    <3>1. r[s] = [p \in P |-> p]
      BY <1>1, <2>3
    <3> QED
      BY <2>2, <2>3, <3>1
  <2>4. CASE s # {}
    <3> DEFINE t == Rest(s)
               root == r[t]
               S == Pick(s)
    <3>1. /\ S \in s /\ t \in SUBSET D /\ Cardinality(t) \in Nat
          /\ Cardinality(s) = Cardinality(t) + 1
      BY <2>4, RestSmaller
    <3>2. Good(t)
      <4> SUFFICES ASSUME ~Good(t) PROVE FALSE
        OBVIOUS
      <4>1. Cardinality(t) \in Wrong
        <5> HIDE DEF Good, t
        <5> QED
          BY <3>1
      <4> HIDE DEF Wrong, t
      <4>2. n <= Cardinality(t)
        BY <2>1, <4>1
      <4> QED
        BY <2>2, <3>1, <4>2
    <3>3. r[s] = UniteAll(root, S) /\ DOMAIN root = P
      BY <1>1, <2>4, <3>2
    <3>4. r[s] = [p \in P |-> IF \E x \in S : root[p] = root[x] THEN root[Max(S)] ELSE root[p]]
      BY <3>3 DEF UniteAll
    <3>5. P \in s => S = P \/ P \in t
      BY DEF Rest
    <3>6. P \in t => \A p, q \in P : root[p] = root[q]
      BY <3>2 DEF Together
    <3> HIDE DEF root, S, t
    <3>7. S = P => Together(P, r[s])
      BY <3>4 DEF Together
    <3>8. P \in t => Together(P, r[s])
      BY <3>4, <3>6 DEF Together
    <3> QED
      BY <2>2, <3>4, <3>5, <3>7, <3>8
  <2> QED
    BY <2>3, <2>4
<1>3. Good(D)
  <2>1. Cardinality(D) \in Nat
    BY FS_CardinalityType
  <2> HIDE DEF Good
  <2> QED
    BY <1>2, <2>1
<1> QED
  BY <1>3 DEF r

\* Providers that all depend on one node are not independent, so their redundancy is not
\* valid (analyze_category).
LEMMA SharedNodeInvalidates ==
    ASSUME NEW g \in Graphs, NEW P \in SUBSET g.nodes, Cardinality(P) >= 2,
           NEW f \in g.nodes, \A p \in P : f \in UpstreamOf(g, p)
    PROVE  ~RedundancyValid(g, P)
<1> DEFINE D == SharedDependencies(g, P)
           root == Representative(g, P)
<1>1. IsFiniteSet(P)
  BY GraphAssumption, FS_Subset DEF IsGraph
<1>2. P # {} /\ Cardinality(P) \in Nat
  BY <1>1, FS_EmptySet, FS_CardinalityType
<1>3. P \in D
  <2>1. {p \in P : f \in UpstreamOf(g, p)} = P
    OBVIOUS
  <2>2. P \in SharedNodes(g, P)
    BY <2>1 DEF SharedNodes
  <2>3. Cardinality(P) > 1
    BY <1>2
  <2> QED
    BY <2>2, <2>3 DEF SharedDependencies
<1>4. IsFiniteSet(D)
  <2>1. D \subseteq SUBSET P
    BY DEF SharedDependencies, SharedNodes, SharedAttributes
  <2>2. IsFiniteSet(SUBSET P)
    BY <1>1, FS_SUBSET
  <2> QED
    BY <2>1, <2>2, FS_Subset
<1>5. Together(P, root)
  <2> HIDE DEF D
  <2>1. Together(P, Roots(P, D)[D])
    BY <1>2, <1>3, <1>4, SharedByAllUnites
  <2>2. root = Roots(P, D)[D]
    BY RepresentativeIsRoots DEF D
  <2> QED
    BY <2>1, <2>2
<1>6. IndependentCount(g, P) = 1
  <2> HIDE DEF root
  <2>1. PICK p \in P : TRUE
    BY <1>2
  <2>2. {root[q] : q \in P} = {root[p]}
    BY <1>5, <2>1 DEF Together
  <2>3. Cardinality({root[p]}) = 1
    BY FS_Singleton
  <2> QED
    BY <2>2, <2>3 DEF IndependentCount, root
<1> QED
  BY <1>6 DEF RedundancyValid

\* Redundancy that was called valid survives any one failure outside of the category, in
\* every graph: if that failure reached all providers, each would depend on the failed
\* node, and the analyzer would have counted them as one (analyze_graph of the
\* independence engine against analyze of the dependency engine).
THEOREM RedundancyAlwaysSurvives == NetworkSpec => []RedundancySurvives
<1>1. graph \in Graphs /\ Traced(report) => RedundancySurvives
  <2> SUFFICES ASSUME graph \in Graphs, Traced(report), Cardinality(report.failed) = 1,
                      NEW c \in Categories(graph),
                      Cardinality(Providers(graph, c)) >= 2,
                      RedundancyValid(graph, Providers(graph, c)),
                      report.failed \cap Providers(graph, c) = {},
                      \A p \in Providers(graph, c) : report.probability[p] # 0
               PROVE  FALSE
    BY DEF RedundancySurvives
  <2> DEFINE P == Providers(graph, c)
  <2>1. graph.nodes \subseteq Node /\ IsFiniteSet(graph.nodes) /\ P \in SUBSET graph.nodes
    BY GraphAssumption DEF IsGraph, Providers
  <2>2. report.failed \subseteq graph.nodes /\ IsFiniteSet(report.failed)
    BY <2>1, FS_Subset DEF Traced
  <2>3. PICK f : report.failed = {f}
    BY <2>2, FS_Singleton
  <2>4. ASSUME NEW p \in P PROVE f \in UpstreamOf(graph, p)
    <3> DEFINE q == report.path[p]
    <3>1. p \in graph.nodes /\ p \in Node
      BY <2>1
    <3>2. report.probability[p] > 0
      <4>1. report.probability[p] \in 0..Certain /\ report.probability[p] # 0
        BY <3>1 DEF Traced
      <4>2. \A x \in 0..Certain : x # 0 => x > 0
        BY DEF Certain
      <4> QED
        BY <4>1, <4>2
    <3>3. /\ q \in Seq(Node) /\ q # << >> /\ q[1] \in {f} /\ q[Len(q)] = p
          /\ \A i \in 1..(Len(q) - 1) : Carries(graph, q[i], q[i + 1])
      BY <2>3, <3>1, <3>2 DEF Traced
    <3>4. q[1] = f /\ f # p
      BY <2>3, <3>3
    <3>5. \A n, m \in Node : Carries(graph, n, m) => m \in Neighbors(graph, n)
      BY DEF Carries, Neighbors, Outgoing
    <3> HIDE DEF q
    <3>6. \A i \in 1..(Len(q) - 1) : q[i + 1] \in Neighbors(graph, q[i])
      BY <3>3, <3>5
    <3> QED
      BY <3>1, <3>3, <3>4, <3>6, WayIsUpstream
  <2>5. f \in graph.nodes
    BY <2>2, <2>3
  <2> HIDE DEF P
  <2>6. ~RedundancyValid(graph, P)
    BY <2>1, <2>4, <2>5, SharedNodeInvalidates DEF P
  <2> QED
    BY <2>6 DEF P
<1> QED
  BY <1>1, NetworkIsPropagation, ReportTraced, PTL
-----------------------------------------------------------------------------
(* The search for cycles.                                                  *)

\* The stack is the way of the search: frames of different gray nodes, each a neighbour
\* of the one below it and its child, with some of its neighbours left.
StackInv ==
    /\ color \in [Node -> {"white", "gray", "black"}]
    /\ parent \in [Node -> Node \cup {None}]
    /\ stack \in Seq([node : graph.nodes, left : SUBSET graph.nodes])
    /\ \A i \in 1..Len(stack) : /\ color[stack[i].node] = "gray"
                                /\ stack[i].left \subseteq Neighbors(graph, stack[i].node)
    /\ \A i, j \in 1..Len(stack) : stack[i].node = stack[j].node => i = j
    /\ \A n \in Node : color[n] = "gray" => \E i \in 1..Len(stack) : stack[i].node = n
    /\ \A i \in 1..(Len(stack) - 1) :
          /\ parent[stack[i + 1].node] = stack[i].node
          /\ stack[i + 1].node \in Neighbors(graph, stack[i].node)

\* The parent links lead upwards, so that they end.
ParentInv ==
    /\ \A n \in Node : color[n] = "white" => parent[n] = None
    /\ \A n \in Node : parent[n] # None => color[parent[n]] # "white"
    /\ \E bound \in Nat : \E rank \in [Node -> 0..bound] :
          \A n \in Node : parent[n] # None => rank[parent[n]] < rank[n]

\* Until a cycle is found, the neighbours of a node on the stack are left, finished or
\* next on the stack, and a finished node has finished neighbours and is on no cycle.
FinishedInv ==
    cycles = {} =>
        /\ \A i \in 1..Len(stack) : \A m \in Neighbors(graph, stack[i].node) :
              \/ m \in stack[i].left \/ color[m] = "black"
              \/ i < Len(stack) /\ m = stack[i + 1].node
        /\ \A n \in graph.nodes : color[n] = "black" =>
              /\ \A m \in Neighbors(graph, n) : color[m] = "black"
              /\ ~OnCycle(n)

CycleInv ==
    /\ graph \in Graphs
    /\ StackInv /\ ParentInv /\ FinishedInv
    /\ \A c \in cycles : c \in Seq(graph.nodes) /\ IsCycle(c)

\* The neighbours of a node are nodes.
LEMMA NeighborsAreNodes ==
    ASSUME NEW g \in Graphs, NEW n
    PROVE  Neighbors(g, n) \subseteq g.nodes
<1> DEFINE Edge == [source : g.nodes, target : g.nodes, strength : 0..100,
                    substitutable : BOOLEAN, group : STRING \cup {None}]
<1>1. g.edges \in Seq(Edge)
  BY GraphAssumption DEF IsGraph
<1>2. ASSUME NEW e \in Edges(g) PROVE g.edges[e].target \in g.nodes
  <2>1. g.edges[e] \in Edge
    <3> HIDE DEF Edge
    <3> QED
      BY <1>1 DEF Edges
  <2> QED
    BY <2>1
<1> QED
  BY <1>2 DEF Neighbors, Outgoing

\* A dependency is a node that has the other as its neighbour.
LEMMA DirectIsNeighbor ==
    ASSUME NEW g, NEW S, NEW m
    PROVE  m \in Direct(g, S) <=> \E x \in S : x # m /\ x \in Neighbors(g, m)
BY DEF Direct, Neighbors, Outgoing

\* A node is on no cycle if its neighbours are in a set that no edge leaves and that it
\* is not in itself.
LEMMA FinishedOffCycle ==
    ASSUME graph \in Graphs, NEW n \in graph.nodes, NEW B, n \notin B,
           Neighbors(graph, n) \subseteq B, \A b \in B : Neighbors(graph, b) \subseteq B
    PROVE  ~OnCycle(n)
<1> DEFINE T == graph.nodes \ (B \cup {n})
<1>1. Direct(graph, T \cup {n}) \subseteq T
  <2> SUFFICES ASSUME NEW m \in Direct(graph, T \cup {n}) PROVE m \in T
    OBVIOUS
  <2>1. PICK x \in T \cup {n} : x # m /\ x \in Neighbors(graph, m)
    BY DirectIsNeighbor
  <2>2. x \notin B
    BY <2>1
  <2>3. m \notin B /\ m # n
    BY <2>1, <2>2
  <2>4. m \in graph.nodes
    BY DirectGrows
  <2> QED
    BY <2>3, <2>4
<1>2. T \in SUBSET graph.nodes /\ n \notin T
  OBVIOUS
<1>3. UpstreamOf(graph, n) \subseteq T
  <2> HIDE DEF T
  <2> QED
    BY <1>1, <1>2, UpstreamIsClosure
<1>4. n \notin Neighbors(graph, n)
  OBVIOUS
<1> HIDE DEF T
<1> QED
  BY <1>2, <1>3, <1>4 DEF OnCycle

\* A reported cycle shows a node on a cycle.
LEMMA CycleIsOnCycle ==
    ASSUME graph \in Graphs, NEW c \in Seq(graph.nodes), IsCycle(c)
    PROVE  \E n \in graph.nodes : OnCycle(n)
<1>1. /\ Len(c) \in Nat /\ Len(c) > 1 /\ c[1] = c[Len(c)]
      /\ \A i \in 1..(Len(c) - 1) : c[i + 1] \in Neighbors(graph, c[i])
  BY DEF IsCycle
<1>2. \A i \in 1..Len(c) : c[i] \in graph.nodes
  OBVIOUS
<1>3. CASE c[2] = c[1]
  <2>1. c[2] \in Neighbors(graph, c[1]) /\ c[1] \in graph.nodes
    <3>1. 1 \in 1..(Len(c) - 1) /\ 1 \in 1..Len(c) /\ 1 + 1 = 2
      BY <1>1
    <3> QED
      BY <1>1, <1>2, <3>1
  <2> QED
    BY <1>3, <2>1 DEF OnCycle
<1>4. CASE c[2] # c[1]
  <2> DEFINE q == [i \in 1..(Len(c) - 1) |-> c[i + 1]]
             n == c[1]
             U == UpstreamOf(graph, n)
  <2>1. \A i \in 1..(Len(c) - 1) : i + 1 \in 1..Len(c)
    BY <1>1
  <2>2. graph.nodes \subseteq Node
    BY GraphAssumption DEF IsGraph
  <2>3. q \in Seq(Node) /\ Len(q) = Len(c) - 1
    <3>1. Len(c) - 1 \in Nat /\ \A i \in 1..(Len(c) - 1) : q[i] \in Node
      BY <1>1, <1>2, <2>1, <2>2
    <3> QED
      BY <3>1
  <2>4. Len(q) \in Nat /\ Len(q) >= 1 /\ q # << >>
    <3> HIDE DEF q
    <3> QED
      BY <1>1, <2>3
  <2>5. q[1] = c[2] /\ q[Len(q)] = n
    <3>1. 1 \in 1..(Len(c) - 1) /\ Len(c) - 1 \in 1..(Len(c) - 1) /\ (Len(c) - 1) + 1 = Len(c)
      BY <1>1
    <3> QED
      BY <1>1, <2>3, <3>1
  <2>6. \A i \in 1..(Len(q) - 1) : q[i + 1] \in Neighbors(graph, q[i])
    <3> SUFFICES ASSUME NEW i \in 1..(Len(q) - 1) PROVE q[i + 1] \in Neighbors(graph, q[i])
      OBVIOUS
    <3>1. /\ i \in 1..(Len(c) - 1) /\ i + 1 \in 1..(Len(c) - 1)
      BY <1>1, <2>3
    <3> QED
      BY <1>1, <3>1
  <2>7. n \in graph.nodes
    BY <1>1, <1>2
  <2> HIDE DEF q
  <2>8. c[2] \in U
    BY <1>4, <2>3, <2>4, <2>5, <2>6, <2>7, WayIsUpstream
  <2>9. c[2] \in Neighbors(graph, n)
    <3>1. 1 \in 1..(Len(c) - 1) /\ 1 + 1 = 2
      BY <1>1
    <3> QED
      BY <1>1, <3>1
  <2>10. n \in Direct(graph, U \cup {n})
    <3> HIDE DEF U, n
    <3>1. c[2] # n
      BY <1>4 DEF n
    <3> QED
      BY <2>8, <2>9, <3>1, DirectIsNeighbor
  <2>11. n \in U
    BY <2>7, <2>10, UpstreamIsClosure
  <2> QED
    BY <2>7, <2>11 DEF OnCycle
<1> QED
  BY <1>3, <1>4

-----------------------------------------------------------------------------
(* The chain of parents, as the loop of _dfs collects it.                  *)

ChainStep(ancestor, h) ==
    [m \in Node |-> IF m = ancestor THEN <<m>>
                    ELSE IF parent[m] = None THEN <<ancestor, m>>
                    ELSE Append(h[parent[m]], m)]
Chains(ancestor) == CHOOSE h : h = ChainStep(ancestor, h)

LEMMA ChainIsChains ==
    ASSUME NEW n, NEW ancestor
    PROVE  Chain(n, ancestor) = Chains(ancestor)[n]
BY DEF Chain, Chains, ChainStep

\* h collects the chains of the nodes of rank n or less.
ChainsUpTo(ancestor, rank, n, h) ==
    \A m \in Node : rank[m] <= n =>
        h[m] = IF m = ancestor THEN <<m>>
               ELSE IF parent[m] = None THEN <<ancestor, m>>
               ELSE Append(h[parent[m]], m)

\* The parent links end, so the loop does.
LEMMA ChainsExist ==
    ASSUME StackInv, ParentInv, NEW ancestor
    PROVE  Chains(ancestor) = ChainStep(ancestor, Chains(ancestor))
<1>0. PICK bound \in Nat : \E rank \in [Node -> 0..bound] :
          \A m \in Node : parent[m] # None => rank[parent[m]] < rank[m]
  BY DEF ParentInv
<1>1. PICK rank \in [Node -> 0..bound] :
          \A m \in Node : parent[m] # None => rank[parent[m]] < rank[m]
  BY <1>0
<1>2. \A m \in Node : parent[m] # None => parent[m] \in Node
  BY DEF StackInv
<1> DEFINE step(h, m) == IF m = ancestor THEN <<m>>
                         ELSE IF parent[m] = None THEN <<ancestor, m>>
                         ELSE Append(h[parent[m]], m)
           Wrong == {n \in Nat : \A h : ~ChainsUpTo(ancestor, rank, n, h)}
<1>3. Wrong = {}
  <2> SUFFICES ASSUME Wrong # {} PROVE FALSE
    OBVIOUS
  <2>1. PICK n \in Wrong : \A k \in Wrong : n <= k
    <3>1. Wrong \subseteq Nat
      OBVIOUS
    <3> HIDE DEF Wrong
    <3> QED
      BY <3>1, LeastNumber
  <2>2. n \in Nat /\ \A h : ~ChainsUpTo(ancestor, rank, n, h)
    OBVIOUS
  <2>3. \E h : \A m \in Node : rank[m] < n => h[m] = step(h, m)
    <3>1. CASE n = 0
      <4>1. \A m \in Node : ~(rank[m] < n)
        BY <2>2, <3>1
      <4> QED
        BY <4>1
    <3>2. CASE n # 0
      <4>1. n - 1 \in Nat /\ ~(n <= n - 1)
        BY <2>2, <3>2
      <4>2. n - 1 \notin Wrong
        <5> HIDE DEF Wrong
        <5> QED
          BY <2>1, <4>1
      <4>3. PICK h : ChainsUpTo(ancestor, rank, n - 1, h)
        BY <4>1, <4>2
      <4>4. \A m \in Node : rank[m] < n => rank[m] <= n - 1
        BY <2>2, <4>1
      <4>5. \A m \in Node : rank[m] < n => h[m] = step(h, m)
        BY <4>3, <4>4 DEF ChainsUpTo
      <4> HIDE DEF step
      <4> QED
        BY <4>5
    <3> QED
      BY <3>1, <3>2
  <2>4. PICK h : \A m \in Node : rank[m] < n => h[m] = step(h, m)
    BY <2>3
  <2> DEFINE more == [m \in Node |-> IF rank[m] < n THEN h[m] ELSE step(h, m)]
  <2>5. \A m \in Node : more[m] = step(h, m)
    <3> HIDE DEF step
    <3> QED
      BY <2>4
  <2>6. ASSUME NEW m \in Node, rank[m] <= n PROVE step(h, m) = step(more, m)
    <3>1. CASE parent[m] = None
      BY <3>1
    <3>2. CASE parent[m] # None
      <4>1. parent[m] \in Node /\ rank[parent[m]] < rank[m]
        BY <1>1, <1>2, <3>2
      <4>2. rank[parent[m]] \in Nat /\ rank[m] \in Nat
        BY <4>1
      <4>3. rank[parent[m]] < n
        BY <2>2, <2>6, <4>1, <4>2
      <4>4. more[parent[m]] = h[parent[m]]
        <5> HIDE DEF step
        <5> QED
          BY <4>1, <4>3
      <4> HIDE DEF more
      <4> QED
        BY <4>4
    <3> QED
      BY <3>1, <3>2
  <2>7. ChainsUpTo(ancestor, rank, n, more)
    <3> HIDE DEF more
    <3>1. \A m \in Node : rank[m] <= n => more[m] = step(more, m)
      <4> HIDE DEF step
      <4> QED
        BY <2>5, <2>6
    <3> QED
      BY <3>1 DEF ChainsUpTo
  <2> QED
    BY <2>2, <2>7
<1>4. PICK h : ChainsUpTo(ancestor, rank, bound, h)
  BY <1>3
<1>5. \A m \in Node : rank[m] <= bound
  OBVIOUS
<1> DEFINE f == [m \in Node |-> h[m]]
<1>6. ASSUME NEW m \in Node PROVE f[m] = step(f, m)
  <2>1. h[m] = step(h, m)
    BY <1>4, <1>5 DEF ChainsUpTo
  <2>2. parent[m] # None => f[parent[m]] = h[parent[m]]
    BY <1>2
  <2>3. f[m] = h[m]
    OBVIOUS
  <2> HIDE DEF f
  <2> QED
    BY <2>1, <2>2, <2>3
<1>7. f = ChainStep(ancestor, f)
  <2>1. DOMAIN f = Node /\ f = [m \in Node |-> f[m]]
    OBVIOUS
  <2> HIDE DEF f
  <2> QED
    BY <1>6, <2>1 DEF ChainStep
<1> HIDE DEF f
<1> QED
  BY <1>7 DEF Chains

\* One element in a row.
LEMMA SingletonSeq ==
    ASSUME NEW x
    PROVE  <<x>> = [i \in 1..1 |-> x]
<1>1. DOMAIN <<x>> = 1..1 /\ \A i \in 1..1 : <<x>>[i] = x
  OBVIOUS
<1> QED
  BY <1>1

\* From a node of the stack down to the top, the chain is the stack itself.
LEMMA ChainIsStack ==
    ASSUME graph \in Graphs, StackInv, ParentInv, NEW j \in 1..Len(stack)
    PROVE  Chain(stack[Len(stack)].node, stack[j].node)
               = [i \in 1..(Len(stack) - j + 1) |-> stack[j + i - 1].node]
<1> DEFINE n == Len(stack)
           m == stack[j].node
           c == Chains(m)
           part(k) == [i \in 1..(k - j + 1) |-> stack[j + i - 1].node]
           Wrong == {k \in j..n : c[stack[k].node] # part(k)}
<1>1. /\ n \in Nat /\ j \in Nat /\ j >= 1 /\ j <= n
      /\ \A k \in 1..n : stack[k].node \in graph.nodes
  <2> DEFINE Frames == [node : graph.nodes, left : SUBSET graph.nodes]
  <2>1. stack \in Seq(Frames)
    BY DEF StackInv
  <2>2. n \in Nat /\ \A k \in 1..n : stack[k] \in Frames
    <3> HIDE DEF Frames
    <3> QED
      BY <2>1
  <2> QED
    BY <2>2
<1>2. graph.nodes \subseteq Node /\ None \notin Node
  BY GraphAssumption DEF IsGraph
<1>3. c = ChainStep(m, c)
  BY ChainsExist
<1> HIDE DEF c
<1>4. Wrong = {}
  <2> SUFFICES ASSUME Wrong # {} PROVE FALSE
    OBVIOUS
  <2>1. PICK k \in Wrong : \A l \in Wrong : k <= l
    <3>1. Wrong \subseteq Nat
      BY <1>1
    <3> HIDE DEF Wrong
    <3> QED
      BY <3>1, LeastNumber
  <2>2. k \in j..n /\ k \in Nat /\ k \in 1..n /\ c[stack[k].node] # part(k)
    BY <1>1
  <2>3. stack[k].node \in Node /\ m \in Node
    BY <1>1, <1>2, <2>2
  <2>4. CASE k = j
    <3>1. c[m] = <<m>>
      BY <1>3, <2>3 DEF ChainStep
    <3>2. part(k) = <<m>>
      <4>1. k - j + 1 = 1 /\ j + 1 - 1 = j
        BY <1>1, <2>4
      <4>2. part(k) = [i \in 1..1 |-> stack[j + i - 1].node]
        BY <4>1
      <4>3. \A i \in 1..1 : j + i - 1 = j
        BY <1>1
      <4>4. part(k) = [i \in 1..1 |-> m]
        BY <4>2, <4>3
      <4> HIDE DEF m, part
      <4> QED
        BY <4>4, SingletonSeq
    <3> QED
      BY <2>2, <2>4, <3>1, <3>2
  <2>5. CASE k # j
    <3> DEFINE l == k - 1
    <3>1. l \in j..n /\ l \in 1..(n - 1) /\ l + 1 = k /\ l \in 1..n /\ ~(k <= l)
      BY <1>1, <2>2, <2>5
    <3>2. c[stack[l].node] = part(l)
      <4>1. l \notin Wrong
        <5> HIDE DEF Wrong, l
        <5> QED
          BY <2>1, <3>1
      <4> QED
        BY <3>1, <4>1
    <3>3. parent[stack[k].node] = stack[l].node
      BY <3>1 DEF StackInv
    <3>4. stack[l].node \in Node /\ stack[l].node # None
      BY <1>1, <1>2, <3>1
    <3>5. stack[k].node # m
      BY <2>2, <2>5 DEF StackInv
    <3>6. c[stack[k].node] = Append(c[stack[l].node], stack[k].node)
      BY <1>3, <2>3, <3>3, <3>4, <3>5 DEF ChainStep
    <3>7. Append(part(l), stack[k].node) = part(k)
      <4> DEFINE a == l - j + 1
      <4>1. a \in Nat /\ k - j + 1 = a + 1 /\ j + (a + 1) - 1 = k
        BY <1>1, <2>2, <3>1
      <4>2. part(l) = [i \in 1..a |-> stack[j + i - 1].node]
        OBVIOUS
      <4>3. part(k) = [i \in 1..(a + 1) |-> stack[j + i - 1].node]
        BY <4>1
      <4> HIDE DEF a, part
      <4>4. part(l) \in Seq(Node) /\ Len(part(l)) = a
        <5>1. ASSUME NEW i \in 1..a PROVE stack[j + i - 1].node \in Node
          <6>1. j + i - 1 \in 1..n
            BY <1>1, <3>1 DEF a
          <6> QED
            BY <1>1, <1>2, <6>1
        <5> DEFINE s == part(l)
        <5>2. s \in [1..a -> Node]
          BY <4>2, <5>1
        <5> HIDE DEF s
        <5>3. s \in Seq(Node) /\ Len(s) = a
          BY <4>1, <5>2
        <5> QED
          BY <5>3 DEF s
      <4>5. /\ Len(Append(part(l), stack[k].node)) = a + 1
            /\ \A i \in 1..a : Append(part(l), stack[k].node)[i] = part(l)[i]
            /\ Append(part(l), stack[k].node)[a + 1] = stack[k].node
            /\ DOMAIN Append(part(l), stack[k].node) = 1..(a + 1)
            /\ Append(part(l), stack[k].node) \in Seq(Node)
        BY <2>3, <4>1, <4>4
      <4>6. \A i \in 1..(a + 1) : Append(part(l), stack[k].node)[i] = part(k)[i]
        <5> SUFFICES ASSUME NEW i \in 1..(a + 1)
                     PROVE  Append(part(l), stack[k].node)[i] = part(k)[i]
          OBVIOUS
        <5>1. CASE i = a + 1
          BY <4>1, <4>3, <4>5, <5>1
        <5>2. CASE i # a + 1
          <6>1. i \in 1..a
            BY <4>1, <5>2
          <6>2. part(l)[i] = stack[j + i - 1].node
            BY <4>2, <6>1
          <6>3. part(k)[i] = stack[j + i - 1].node
            BY <4>3
          <6>4. Append(part(l), stack[k].node)[i] = part(l)[i]
            BY <4>5, <6>1
          <6> QED
            BY <6>2, <6>3, <6>4
        <5> QED
          BY <5>1, <5>2
      <4>7. DOMAIN part(k) = 1..(a + 1)
        BY <4>3
      <4>8. Append(part(l), stack[k].node) = [i \in 1..(a + 1) |-> part(k)[i]]
        <5> DEFINE s == Append(part(l), stack[k].node)
        <5>1. s \in Seq(Node) /\ Len(s) = a + 1 /\ \A i \in 1..(a + 1) : s[i] = part(k)[i]
          BY <4>5, <4>6
        <5> HIDE DEF s
        <5>2. s = [i \in 1..(a + 1) |-> s[i]]
          BY <4>1, <5>1
        <5>3. s = [i \in 1..(a + 1) |-> part(k)[i]]
          BY <5>1, <5>2
        <5> QED
          BY <5>3 DEF s
      <4>9. part(k) = [i \in 1..(a + 1) |-> part(k)[i]]
        BY <4>3
      <4> QED
        BY <4>8, <4>9
    <3> HIDE DEF l, part
    <3> QED
      BY <2>2, <3>2, <3>6, <3>7
  <2> QED
    BY <2>4, <2>5
<1>5. n \in j..n
  BY <1>1
<1>6. c[stack[n].node] = part(n)
  <2> HIDE DEF part
  <2> QED
    BY <1>4, <1>5
<1> QED
  BY <1>6, ChainIsChains DEF c

\* Frames are typed; a bounded stack is read element by element.
LEMMA StackFacts ==
    ASSUME graph \in Graphs, StackInv
    PROVE  /\ Len(stack) \in Nat /\ graph.nodes \subseteq Node
           /\ \A i \in 1..Len(stack) :
                 /\ stack[i].node \in graph.nodes /\ stack[i].node \in Node
                 /\ stack[i].left \in SUBSET graph.nodes
                 /\ stack[i] = [node |-> stack[i].node, left |-> stack[i].left]
           /\ stack # << >> => Len(stack) \in 1..Len(stack)
<1> DEFINE Frames == [node : graph.nodes, left : SUBSET graph.nodes]
<1>1. stack \in Seq(Frames)
  BY DEF StackInv
<1>2. Len(stack) \in Nat /\ (\A i \in 1..Len(stack) : stack[i] \in Frames)
  <2> HIDE DEF Frames
  <2> QED
    BY <1>1
<1>3. stack # << >> => Len(stack) \in 1..Len(stack)
  <2> HIDE DEF Frames
  <2> QED
    BY <1>1
<1>4. graph.nodes \subseteq Node
  BY GraphAssumption DEF IsGraph
<1> QED
  BY <1>2, <1>3, <1>4

\* A neighbour of the top that is on the stack closes a cycle: the one that is reported.
LEMMA FoundIsCycle ==
    ASSUME graph \in Graphs, StackInv, ParentInv, NEW j \in 1..Len(stack),
           stack[j].node \in Neighbors(graph, stack[Len(stack)].node)
    PROVE  LET c == Append(Chain(stack[Len(stack)].node, stack[j].node), stack[j].node)
           IN c \in Seq(graph.nodes) /\ IsCycle(c)
<1> DEFINE n == Len(stack)
           m == stack[j].node
           a == n - j + 1
           way == [i \in 1..a |-> stack[j + i - 1].node]
           c == Append(way, m)
<1>1. n \in Nat /\ j \in Nat /\ j >= 1 /\ j <= n /\ a \in Nat /\ a >= 1
  BY StackFacts
<1>2. ASSUME NEW i \in 1..a PROVE j + i - 1 \in 1..n /\ stack[j + i - 1].node \in graph.nodes
  <2>1. j + i - 1 \in 1..n
    BY <1>1
  <2> QED
    BY <2>1, StackFacts
<1>3. m \in graph.nodes
  BY StackFacts
<1>4. Chain(stack[n].node, m) = way
  BY ChainIsStack
<1>5. /\ way \in [1..a -> graph.nodes]
      /\ \A i \in 1..a : way[i] = stack[j + i - 1].node
  BY <1>2
<1> HIDE DEF way, a
<1>6. way \in Seq(graph.nodes) /\ Len(way) = a
  BY <1>1, <1>5
<1>7. /\ c \in Seq(graph.nodes) /\ Len(c) = a + 1 /\ DOMAIN c = 1..(a + 1)
      /\ \A i \in 1..a : c[i] = way[i]
      /\ c[a + 1] = m
  <2> HIDE DEF m
  <2>1. c \in Seq(graph.nodes) /\ Len(c) = a + 1
    BY <1>1, <1>3, <1>6
  <2>2. DOMAIN c = 1..(a + 1)
    BY <1>1, <2>1
  <2>3. \A i \in 1..a : c[i] = way[i]
    BY <1>1, <1>3, <1>6
  <2>4. c[a + 1] = m
    BY <1>1, <1>3, <1>6
  <2> QED
    BY <2>1, <2>2, <2>3, <2>4
<1> HIDE DEF c
<1>8. way[1] = m /\ way[a] = stack[n].node
  <2>1. 1 \in 1..a /\ a \in 1..a /\ j + 1 - 1 = j /\ j + a - 1 = n
    BY <1>1 DEF a
  <2> QED
    BY <1>5, <2>1
<1>9. Len(c) > 1 /\ c[1] = c[Len(c)]
  <2>1. 1 \in 1..a
    BY <1>1
  <2> QED
    BY <1>1, <1>7, <1>8, <2>1
<1>10. ASSUME NEW i \in 1..(Len(c) - 1) PROVE c[i + 1] \in Neighbors(graph, c[i])
  <2>1. i \in 1..a
    BY <1>1, <1>7
  <2>2. CASE i = a
    BY <1>7, <1>8, <2>1, <2>2
  <2>3. CASE i # a
    <3>1. i + 1 \in 1..a /\ j + i - 1 \in 1..(n - 1) /\ j + (i + 1) - 1 = (j + i - 1) + 1
      BY <1>1, <2>1, <2>3 DEF a
    <3>2. c[i] = stack[j + i - 1].node /\ c[i + 1] = stack[(j + i - 1) + 1].node
      BY <1>5, <1>7, <2>1, <3>1
    <3> QED
      BY <3>1, <3>2 DEF StackInv
  <2> QED
    BY <2>2, <2>3
<1>11. Cardinality(Range(c)) = Len(c) - 1
  <2>1. Range(c) = {way[i] : i \in 1..a}
    <3>1. \A i \in 1..(a + 1) : \E k \in 1..a : c[i] = way[k]
      <4> SUFFICES ASSUME NEW i \in 1..(a + 1) PROVE \E k \in 1..a : c[i] = way[k]
        OBVIOUS
      <4>1. CASE i = a + 1
        <5>1. 1 \in 1..a
          BY <1>1
        <5> QED
          BY <1>7, <1>8, <4>1, <5>1
      <4>2. CASE i # a + 1
        <5>1. i \in 1..a
          BY <1>1, <4>2
        <5> QED
          BY <1>7, <5>1
      <4> QED
        BY <4>1, <4>2
    <3>2. \A i \in 1..a : i \in 1..(a + 1) /\ c[i] = way[i]
      BY <1>1, <1>7
    <3> QED
      BY <1>7, <3>1, <3>2 DEF Range
  <2>2. ASSUME NEW i \in 1..a, NEW k \in 1..a, way[i] = way[k] PROVE i = k
    <3>1. j + i - 1 \in 1..n /\ j + k - 1 \in 1..n
      BY <1>2
    <3>2. stack[j + i - 1].node = stack[j + k - 1].node
      BY <1>5, <2>2
    <3>3. j + i - 1 = j + k - 1
      BY <3>1, <3>2 DEF StackInv
    <3> QED
      BY <1>1, <3>3
  <2> DEFINE R == {way[i] : i \in 1..a}
  <2>3. way \in Bijection(1..a, R)
    <3>1. way \in [1..a -> R]
      BY <1>5
    <3>2. \A t \in R : \E i \in 1..a : way[i] = t
      OBVIOUS
    <3>3. IsInjective(way)
      BY <1>5, <2>2 DEF IsInjective
    <3> HIDE DEF R
    <3> QED
      BY <3>1, <3>2, <3>3 DEF Bijection, Injection, Surjection
  <2>4. Cardinality(R) = a
    <3>1. ExistsBijection(1..a, R)
      BY <2>3 DEF ExistsBijection
    <3> HIDE DEF R
    <3> QED
      BY <1>1, <3>1, FS_CountingElements
  <2>5. Len(c) - 1 = a
    BY <1>1, <1>7
  <2> QED
    BY <2>1, <2>4, <2>5
<1>12. IsCycle(c)
  BY <1>9, <1>10, <1>11 DEF IsCycle
<1> QED
  BY <1>4, <1>7, <1>12 DEF c
-----------------------------------------------------------------------------
(* The steps of the search.                                                *)

\* A neighbour was looked at: the top frame has one fewer left.
Looked(m) == [stack EXCEPT ![Len(stack)].left = @ \ {m}]

LEMMA LookedAt ==
    ASSUME graph \in Graphs, StackInv, stack # << >>, NEW m
    PROVE  /\ Looked(m) \in Seq([node : graph.nodes, left : SUBSET graph.nodes])
           /\ Len(Looked(m)) = Len(stack)
           /\ \A i \in 1..Len(stack) :
                 /\ Looked(m)[i].node = stack[i].node
                 /\ Looked(m)[i].left = IF i = Len(stack) THEN stack[i].left \ {m}
                                        ELSE stack[i].left
<1> DEFINE Frames == [node : graph.nodes, left : SUBSET graph.nodes]
           n == Len(stack)
           top == [node |-> stack[n].node, left |-> stack[n].left \ {m}]
           rest == Looked(m)
<1>1. n \in Nat /\ n \in 1..n /\ stack \in Seq(Frames)
  BY StackFacts DEF StackInv
<1>2. top \in Frames
  BY <1>1, StackFacts
<1>3. [stack[n] EXCEPT !.left = @ \ {m}] = top
  <2>1. stack[n] = [node |-> stack[n].node, left |-> stack[n].left]
    BY <1>1, StackFacts
  <2>2. \A r, a, b, c : r = [node |-> a, left |-> b] =>
            [r EXCEPT !.left = c] = [node |-> a, left |-> c]
    OBVIOUS
  <2>3. [stack[n] EXCEPT !.left = stack[n].left \ {m}] = top
    <3> DEFINE r == stack[n]
               l == stack[n].left \ {m}
    <3> HIDE DEF r, l
    <3>1. r = [node |-> stack[n].node, left |-> stack[n].left]
      BY <2>1 DEF r
    <3>2. [r EXCEPT !.left = l] = [node |-> stack[n].node, left |-> l]
      BY <2>2, <3>1
    <3> QED
      BY <3>2 DEF r, l
  <2> QED
    BY <2>3
<1>4. rest = [stack EXCEPT ![n] = top]
  BY <1>3 DEF Looked
<1> HIDE DEF Frames, top, n, rest
<1>5. n = Len(stack) /\ stack \in [1..n -> Frames]
  BY <1>1 DEF n
<1>6. rest \in [1..n -> Frames] /\ \A i \in 1..n : rest[i] = IF i = n THEN top ELSE stack[i]
  BY <1>1, <1>2, <1>4, <1>5
<1>7. rest \in Seq(Frames) /\ Len(rest) = n
  BY <1>1, <1>6
<1>8. ASSUME NEW i \in 1..n
      PROVE  /\ rest[i].node = stack[i].node
             /\ rest[i].left = IF i = n THEN stack[i].left \ {m} ELSE stack[i].left
  <2>1. top.node = stack[n].node /\ top.left = stack[n].left \ {m}
    BY DEF top
  <2> QED
    BY <1>6, <2>1
<1>9. rest \in Seq([node : graph.nodes, left : SUBSET graph.nodes])
  BY <1>7 DEF Frames
<1> QED
  BY <1>5, <1>7, <1>8, <1>9 DEF rest

\* A neighbour that was met before is only taken off the list; a gray one is reported.
LEMMA LookBack ==
    ASSUME CycleInv, NEW m \in graph.nodes, Look(graph, m), color[m] # "white",
           graph' = graph
    PROVE  CycleInv'
<1> DEFINE n == Len(stack)
<1>1. /\ stack # << >> /\ m \in stack[n].left
      /\ cycles' = IF color[m] = "gray" THEN cycles \cup {Append(Chain(stack[n].node, m), m)}
                   ELSE cycles
      /\ stack' = [stack EXCEPT ![Len(stack)].left = @ \ {m}]
      /\ color' = color /\ parent' = parent
  BY DEF Look
<1>2. graph \in Graphs /\ StackInv /\ ParentInv /\ FinishedInv
  BY DEF CycleInv
<1>3. n \in Nat /\ n \in 1..n /\ m \in Node
  BY <1>1, <1>2, StackFacts
<1>4. /\ stack' \in Seq([node : graph.nodes, left : SUBSET graph.nodes])
      /\ Len(stack') = n
      /\ \A i \in 1..n : /\ stack'[i].node = stack[i].node
                         /\ stack'[i].left = IF i = n THEN stack[i].left \ {m}
                                             ELSE stack[i].left
  <2>1. stack' = Looked(m)
    BY <1>1 DEF Looked
  <2>2. /\ Looked(m) \in Seq([node : graph.nodes, left : SUBSET graph.nodes])
        /\ Len(Looked(m)) = Len(stack)
        /\ \A i \in 1..Len(stack) :
              /\ Looked(m)[i].node = stack[i].node
              /\ Looked(m)[i].left = IF i = Len(stack) THEN stack[i].left \ {m}
                                     ELSE stack[i].left
    BY <1>1, <1>2, LookedAt
  <2> QED
    BY <2>1, <2>2
<1> HIDE DEF n
<1>5. StackInv'
  <2>1. \A i \in 1..n : /\ color[stack[i].node] = "gray"
                        /\ stack[i].left \subseteq Neighbors(graph, stack[i].node)
    BY <1>2 DEF StackInv, n
  <2>2. \A i \in 1..n : stack'[i].left \subseteq Neighbors(graph, stack'[i].node)
    BY <1>4, <2>1
  <2>3. \A i, j \in 1..n : stack'[i].node = stack'[j].node => i = j
    <3>1. \A i, j \in 1..n : stack[i].node = stack[j].node => i = j
      BY <1>2 DEF StackInv, n
    <3> QED
      BY <1>4, <3>1
  <2>4. \A x \in Node : color[x] = "gray" => \E i \in 1..n : stack'[i].node = x
    <3>1. \A x \in Node : color[x] = "gray" => \E i \in 1..n : stack[i].node = x
      BY <1>2 DEF StackInv, n
    <3> QED
      BY <1>4, <3>1
  <2>5. \A i \in 1..(n - 1) : i \in 1..n /\ i + 1 \in 1..n
    BY <1>3
  <2>6. \A i \in 1..(n - 1) : /\ parent[stack'[i + 1].node] = stack'[i].node
                              /\ stack'[i + 1].node \in Neighbors(graph, stack'[i].node)
    BY <1>2, <1>4, <2>5 DEF StackInv, n
  <2>7. /\ color' \in [Node -> {"white", "gray", "black"}]
        /\ parent' \in [Node -> Node \cup {None}]
    BY <1>1, <1>2 DEF StackInv
  <2> QED
    BY <1>1, <1>4, <2>1, <2>2, <2>3, <2>4, <2>6, <2>7 DEF StackInv
<1>6. ParentInv'
  BY <1>1, <1>2 DEF ParentInv
<1>7. FinishedInv'
  <2> SUFFICES ASSUME cycles' = {}
               PROVE  /\ \A i \in 1..n : \A k \in Neighbors(graph, stack'[i].node) :
                            \/ k \in stack'[i].left \/ color[k] = "black"
                            \/ i < n /\ k = stack'[i + 1].node
                      /\ \A x \in graph.nodes : color[x] = "black" =>
                            /\ \A k \in Neighbors(graph, x) : color[k] = "black"
                            /\ ~OnCycle(x)
    BY <1>1, <1>4 DEF FinishedInv, OnCycle
  <2>1. cycles = {} /\ color[m] = "black"
    <3>1. color[m] # "gray" /\ cycles = {}
      BY <1>1
    <3>2. color[m] \in {"white", "gray", "black"}
      BY <1>2, <1>3 DEF StackInv
    <3> QED
      BY <3>1, <3>2
  <2>2. ASSUME NEW i \in 1..n, NEW k \in Neighbors(graph, stack'[i].node)
        PROVE  \/ k \in stack'[i].left \/ color[k] = "black"
               \/ i < n /\ k = stack'[i + 1].node
    <3>1. k \in Neighbors(graph, stack[i].node)
      BY <1>4, <2>2
    <3>2. \/ k \in stack[i].left \/ color[k] = "black"
          \/ i < n /\ k = stack[i + 1].node
      BY <1>2, <2>1, <3>1 DEF FinishedInv, n
    <3>3. i < n => i + 1 \in 1..n
      BY <1>3
    <3> QED
      BY <1>4, <2>1, <3>2, <3>3
  <2>3. \A x \in graph.nodes : color[x] = "black" =>
            /\ \A k \in Neighbors(graph, x) : color[k] = "black"
            /\ ~OnCycle(x)
    BY <1>2, <2>1 DEF FinishedInv
  <2> QED
    BY <2>2, <2>3
<1>8. ASSUME NEW c \in cycles' PROVE c \in Seq(graph.nodes) /\ IsCycle(c)
  <2>1. CASE c \in cycles
    BY <2>1 DEF CycleInv
  <2>2. CASE c \notin cycles
    <3>1. color[m] = "gray" /\ c = Append(Chain(stack[n].node, m), m)
      BY <1>1, <1>8, <2>2 DEF n
    <3>2. PICK j \in 1..Len(stack) : stack[j].node = m
      BY <1>2, <1>3, <3>1 DEF StackInv
    <3>3. m \in Neighbors(graph, stack[n].node)
      BY <1>1, <1>2, <1>3 DEF StackInv, n
    <3> QED
      BY <1>2, <3>1, <3>2, <3>3, FoundIsCycle DEF n
  <2> QED
    BY <2>1, <2>2
<1> QED
  BY <1>2, <1>5, <1>6, <1>7, <1>8 DEF CycleInv, IsCycle
\* The search goes down to a white neighbour.
LEMMA LookDown ==
    ASSUME CycleInv, NEW m \in graph.nodes, Look(graph, m), color[m] = "white",
           graph' = graph
    PROVE  CycleInv'
<1> DEFINE n == Len(stack)
           top == stack[n].node
<1>1. /\ stack # << >> /\ m \in stack[n].left /\ cycles' = cycles
      /\ stack' = Append(Looked(m), Frame(graph, m))
      /\ color' = [color EXCEPT ![m] = "gray"] /\ parent' = [parent EXCEPT ![m] = top]
  BY DEF Look, Looked
<1>2. graph \in Graphs /\ StackInv /\ ParentInv /\ FinishedInv
  BY DEF CycleInv
<1>3. /\ n \in Nat /\ n \in 1..n /\ m \in Node /\ top \in graph.nodes /\ top \in Node
      /\ top # None
  <2>1. n \in Nat /\ n \in 1..n /\ m \in Node
    BY <1>1, <1>2, StackFacts
  <2>2. top \in graph.nodes /\ top \in Node
    BY <1>2, <2>1, StackFacts
  <2> QED
    BY <2>1, <2>2, GraphAssumption
<1>4. /\ stack' \in Seq([node : graph.nodes, left : SUBSET graph.nodes])
      /\ Len(stack') = n + 1
      /\ \A i \in 1..n : /\ stack'[i].node = stack[i].node
                         /\ stack'[i].left = IF i = n THEN stack[i].left \ {m}
                                             ELSE stack[i].left
      /\ stack'[n + 1].node = m /\ stack'[n + 1].left = Neighbors(graph, m)
  <2> DEFINE Frames == [node : graph.nodes, left : SUBSET graph.nodes]
             rest == Looked(m)
             new == Frame(graph, m)
  <2>1. /\ rest \in Seq(Frames) /\ Len(rest) = n
        /\ \A i \in 1..n : /\ rest[i].node = stack[i].node
                           /\ rest[i].left = IF i = n THEN stack[i].left \ {m}
                                             ELSE stack[i].left
    BY <1>1, <1>2, LookedAt
  <2>2. new \in Frames /\ new.node = m /\ new.left = Neighbors(graph, m)
    BY <1>2, NeighborsAreNodes DEF Frame
  <2> HIDE DEF Frames, rest, new, n
  <2>3. /\ Append(rest, new) \in Seq(Frames) /\ Len(Append(rest, new)) = n + 1
        /\ \A i \in 1..n : Append(rest, new)[i] = rest[i]
        /\ Append(rest, new)[n + 1] = new
    BY <1>3, <2>1, <2>2
  <2>4. stack' = Append(rest, new)
    BY <1>1 DEF rest, new
  <2>5. \A i \in 1..n : /\ stack'[i].node = stack[i].node
                        /\ stack'[i].left = IF i = n THEN stack[i].left \ {m}
                                            ELSE stack[i].left
    BY <2>1, <2>3, <2>4
  <2>6. stack' \in Seq([node : graph.nodes, left : SUBSET graph.nodes])
    BY <2>3, <2>4 DEF Frames
  <2> QED
    BY <2>2, <2>3, <2>4, <2>5, <2>6
<1>5. /\ color \in [Node -> {"white", "gray", "black"}]
      /\ parent \in [Node -> Node \cup {None}]
      /\ \A i \in 1..n : /\ color[stack[i].node] = "gray"
                         /\ stack[i].left \subseteq Neighbors(graph, stack[i].node)
      /\ \A i, j \in 1..n : stack[i].node = stack[j].node => i = j
      /\ \A x \in Node : color[x] = "gray" => \E i \in 1..n : stack[i].node = x
      /\ \A i \in 1..(n - 1) : /\ parent[stack[i + 1].node] = stack[i].node
                               /\ stack[i + 1].node \in Neighbors(graph, stack[i].node)
  BY <1>2 DEF StackInv
<1>6. /\ color' \in [Node -> {"white", "gray", "black"}]
      /\ parent' \in [Node -> Node \cup {None}]
      /\ color'[m] = "gray" /\ parent'[m] = top
      /\ \A x \in Node : x # m => color'[x] = color[x] /\ parent'[x] = parent[x]
  BY <1>1, <1>3, <1>5
<1>7. \A i \in 1..n : stack[i].node \in Node /\ stack[i].node # m
  <2>1. \A i \in 1..n : stack[i].node \in Node
    BY <1>2, StackFacts
  <2> QED
    BY <1>5, <2>1
<1>8. m \in Neighbors(graph, top)
  BY <1>1, <1>3, <1>5
<1> HIDE DEF n
<1>9. \A i \in 1..(n + 1) : i = n + 1 \/ i \in 1..n
  BY <1>3
<1>10. StackInv'
  <2>1. ASSUME NEW i \in 1..(n + 1)
        PROVE  /\ color'[stack'[i].node] = "gray"
               /\ stack'[i].left \subseteq Neighbors(graph, stack'[i].node)
    <3>1. CASE i = n + 1
      BY <1>4, <1>6, <3>1
    <3>2. CASE i \in 1..n
      <4>1. /\ stack'[i].node = stack[i].node
            /\ stack'[i].left \subseteq stack[i].left
        BY <1>4, <3>2
      <4>2. /\ color[stack[i].node] = "gray"
            /\ stack[i].left \subseteq Neighbors(graph, stack[i].node)
        BY <1>5, <3>2
      <4>3. color'[stack[i].node] = color[stack[i].node]
        BY <1>6, <1>7, <3>2
      <4> QED
        BY <4>1, <4>2, <4>3
    <3> QED
      BY <1>9, <3>1, <3>2
  <2>2. ASSUME NEW i \in 1..(n + 1), NEW j \in 1..(n + 1), stack'[i].node = stack'[j].node
        PROVE  i = j
    <3>1. CASE i = n + 1 /\ j = n + 1
      BY <3>1
    <3>2. CASE i \in 1..n /\ j \in 1..n
      BY <1>4, <1>5, <2>2, <3>2
    <3>3. CASE i = n + 1 /\ j \in 1..n
      BY <1>4, <1>7, <2>2, <3>3
    <3>4. CASE i \in 1..n /\ j = n + 1
      BY <1>4, <1>7, <2>2, <3>4
    <3> QED
      BY <1>9, <3>1, <3>2, <3>3, <3>4
  <2>3. ASSUME NEW x \in Node, color'[x] = "gray"
        PROVE  \E i \in 1..(n + 1) : stack'[i].node = x
    <3>1. CASE x = m
      <4>1. n + 1 \in 1..(n + 1)
        BY <1>3
      <4> QED
        BY <1>4, <3>1, <4>1
    <3>2. CASE x # m
      <4>1. PICK i \in 1..n : stack[i].node = x
        BY <1>5, <1>6, <2>3, <3>2
      <4>2. i \in 1..(n + 1)
        BY <1>3
      <4> QED
        BY <1>4, <4>1, <4>2
    <3> QED
      BY <3>1, <3>2
  <2>4. ASSUME NEW i \in 1..n
        PROVE  /\ parent'[stack'[i + 1].node] = stack'[i].node
               /\ stack'[i + 1].node \in Neighbors(graph, stack'[i].node)
    <3>1. CASE i = n
      BY <1>3, <1>4, <1>6, <1>8, <3>1 DEF n
    <3>2. CASE i # n
      <4>1. i \in 1..(n - 1) /\ i + 1 \in 1..n
        BY <1>3, <3>2
      <4> QED
        <5>1. stack'[i].node = stack[i].node /\ stack'[i + 1].node = stack[i + 1].node
          BY <1>4, <4>1
        <5>2. parent'[stack[i + 1].node] = parent[stack[i + 1].node]
          BY <1>6, <1>7, <4>1
        <5> QED
          BY <1>5, <4>1, <5>1, <5>2
    <3> QED
      BY <3>1, <3>2
  <2>5. Len(stack') = n + 1 /\ Len(stack') - 1 = n
    BY <1>3, <1>4
  <2>6. /\ color' \in [Node -> {"white", "gray", "black"}]
        /\ parent' \in [Node -> Node \cup {None}]
        /\ stack' \in Seq([node : graph'.nodes, left : SUBSET graph'.nodes])
    BY <1>4, <1>6
  <2> QED
    BY <2>1, <2>2, <2>3, <2>4, <2>5, <2>6 DEF StackInv
<1>11. ParentInv'
  <2>1. /\ \A x \in Node : color[x] = "white" => parent[x] = None
        /\ \A x \in Node : parent[x] # None => color[parent[x]] # "white"
    BY <1>2 DEF ParentInv
  <2>2. color[top] = "gray" /\ top # m
    BY <1>3, <1>5, <1>7
  <2>3. \A x \in Node : color'[x] = "white" => parent'[x] = None
    BY <1>6, <2>1
  <2>4. ASSUME NEW x \in Node, parent'[x] # None PROVE color'[parent'[x]] # "white"
    <3>1. CASE x = m
      BY <1>3, <1>6, <2>2, <3>1
    <3>2. CASE x # m
      <4>1. parent'[x] = parent[x] /\ parent[x] \in Node /\ color[parent[x]] # "white"
        BY <1>5, <1>6, <2>1, <2>4, <3>2
      <4> QED
        BY <1>6, <4>1
    <3> QED
      BY <3>1, <3>2
  <2>5. PICK bound \in Nat : \E rank \in [Node -> 0..bound] :
            \A x \in Node : parent[x] # None => rank[parent[x]] < rank[x]
    BY <1>2 DEF ParentInv
  <2>6. PICK rank \in [Node -> 0..bound] :
            \A x \in Node : parent[x] # None => rank[parent[x]] < rank[x]
    BY <2>5
  <2> DEFINE more == [x \in Node |-> IF x = m THEN rank[top] + 1 ELSE rank[x]]
  <2>7. bound + 1 \in Nat /\ more \in [Node -> 0..(bound + 1)]
    BY <1>3
  <2>8. ASSUME NEW x \in Node, parent'[x] # None PROVE more[parent'[x]] < more[x]
    <3>1. CASE x = m
      <4>1. more[parent'[x]] = rank[top] /\ more[x] = rank[top] + 1
        BY <1>3, <1>6, <2>2, <3>1
      <4>2. rank[top] \in Nat
        BY <1>3
      <4> HIDE DEF more
      <4> QED
        BY <4>1, <4>2
    <3>2. CASE x # m
      <4>1. parent'[x] = parent[x] /\ parent[x] \in Node /\ parent[x] # m
        BY <1>5, <1>6, <2>1, <2>8, <3>2
      <4>2. rank[parent[x]] < rank[x]
        BY <2>6, <2>8, <4>1
      <4> QED
        BY <3>2, <4>1, <4>2
    <3> QED
      BY <3>1, <3>2
  <2> HIDE DEF more
  <2>9. \E b \in Nat : \E r \in [Node -> 0..b] :
            \A x \in Node : parent'[x] # None => r[parent'[x]] < r[x]
    BY <2>7, <2>8
  <2> QED
    BY <2>3, <2>4, <2>9 DEF ParentInv
<1>12. FinishedInv'
  <2> SUFFICES ASSUME cycles = {}
               PROVE  /\ \A i \in 1..(n + 1) : \A k \in Neighbors(graph, stack'[i].node) :
                            \/ k \in stack'[i].left \/ color'[k] = "black"
                            \/ i < n + 1 /\ k = stack'[i + 1].node
                      /\ \A x \in graph.nodes : color'[x] = "black" =>
                            /\ \A k \in Neighbors(graph, x) : color'[k] = "black"
                            /\ ~OnCycle(x)
    BY <1>1, <1>4 DEF FinishedInv, OnCycle
  <2>1. graph.nodes \subseteq Node /\ \A x : Neighbors(graph, x) \subseteq Node
    <3>1. graph.nodes \subseteq Node
      BY <1>2, StackFacts
    <3> QED
      BY <1>2, <3>1, NeighborsAreNodes
  <2>2. \A x \in Node : color'[x] = "black" <=> color[x] = "black"
    BY <1>6
  <2>3. ASSUME NEW i \in 1..(n + 1), NEW k \in Neighbors(graph, stack'[i].node)
        PROVE  \/ k \in stack'[i].left \/ color'[k] = "black"
               \/ i < n + 1 /\ k = stack'[i + 1].node
    <3>1. CASE i = n + 1
      BY <1>4, <2>3, <3>1
    <3>2. CASE i \in 1..n
      <4>1. k \in Neighbors(graph, stack[i].node) /\ k \in Node
        BY <1>4, <2>1, <2>3, <3>2
      <4>2. \/ k \in stack[i].left \/ color[k] = "black"
            \/ i < n /\ k = stack[i + 1].node
        BY <1>2, <3>2, <4>1 DEF FinishedInv, n
      <4>3. i < n + 1
        BY <1>3, <3>2
      <4>4. i < n => i + 1 \in 1..n
        BY <1>3, <3>2
      <4>5. i = n \/ i < n
        BY <1>3, <3>2
      <4>6. CASE i < n
        BY <1>4, <2>2, <3>2, <4>1, <4>2, <4>3, <4>4, <4>6
      <4>7. CASE i = n
        <5>1. k \in stack[n].left \/ color[k] = "black"
          BY <1>3, <4>2, <4>7
        <5>2. stack'[i].left = stack[n].left \ {m} /\ stack'[i + 1].node = m
          BY <1>3, <1>4, <4>7
        <5> QED
          BY <2>2, <4>1, <4>3, <5>1, <5>2
      <4> QED
        BY <4>5, <4>6, <4>7
    <3> QED
      BY <1>9, <3>1, <3>2
  <2>4. \A x \in graph.nodes : color[x] = "black" =>
            /\ \A k \in Neighbors(graph, x) : color[k] = "black"
            /\ ~OnCycle(x)
    BY <1>2 DEF FinishedInv
  <2> QED
    BY <2>1, <2>2, <2>3, <2>4
<1> QED
  BY <1>1, <1>2, <1>10, <1>11, <1>12 DEF CycleInv, IsCycle
\* The outer loop starts from a white node.
LEMMA RootStarts ==
    ASSUME CycleInv, NEW m \in graph.nodes, Root(graph, m), graph' = graph
    PROVE  CycleInv'
<1>1. /\ stack = << >> /\ color[m] = "white" /\ parent' = parent /\ cycles' = cycles
      /\ color' = [color EXCEPT ![m] = "gray"] /\ stack' = <<Frame(graph, m)>>
  BY DEF Root
<1>2. graph \in Graphs /\ StackInv /\ ParentInv /\ FinishedInv
  BY DEF CycleInv
<1>3. m \in Node /\ graph.nodes \subseteq Node
  BY <1>2, StackFacts
<1>4. \A x : Neighbors(graph, x) \subseteq Node
  BY <1>2, <1>3, NeighborsAreNodes
<1>5. /\ stack' \in Seq([node : graph.nodes, left : SUBSET graph.nodes])
      /\ Len(stack') = 1 /\ stack'[1].node = m /\ stack'[1].left = Neighbors(graph, m)
  <2>1. /\ Frame(graph, m) \in [node : graph.nodes, left : SUBSET graph.nodes]
        /\ Frame(graph, m).node = m /\ Frame(graph, m).left = Neighbors(graph, m)
    BY <1>2, NeighborsAreNodes DEF Frame
  <2> DEFINE Frames == [node : graph.nodes, left : SUBSET graph.nodes]
             new == Frame(graph, m)
  <2> HIDE DEF Frames, new
  <2>2. new \in Frames => <<new>> \in Seq(Frames) /\ Len(<<new>>) = 1 /\ <<new>>[1] = new
    OBVIOUS
  <2> QED
    BY <1>1, <2>1, <2>2 DEF Frames, new
<1>6. /\ color \in [Node -> {"white", "gray", "black"}]
      /\ parent \in [Node -> Node \cup {None}]
      /\ \A x \in Node : color[x] # "gray"
  <2>1. /\ color \in [Node -> {"white", "gray", "black"}]
        /\ parent \in [Node -> Node \cup {None}]
        /\ \A x \in Node : color[x] = "gray" => \E i \in 1..Len(stack) : stack[i].node = x
    BY <1>2 DEF StackInv
  <2>2. Len(stack) = 0 /\ 1..Len(stack) = {}
    BY <1>1
  <2> QED
    BY <2>1, <2>2
<1>7. /\ color' \in [Node -> {"white", "gray", "black"}] /\ color'[m] = "gray"
      /\ \A x \in Node : x # m => color'[x] = color[x]
      /\ \A x \in Node : color'[x] = "black" <=> color[x] = "black"
      /\ \A x \in Node : color'[x] = "white" => color[x] = "white"
  BY <1>1, <1>3, <1>6
<1>8. StackInv'
  <2>1. /\ \A i \in 1..1 : i = 1
        /\ 1..(1 - 1) = {} /\ 1 \in 1..1
    OBVIOUS
  <2>2. \A i \in 1..1 : /\ color'[stack'[i].node] = "gray"
                        /\ stack'[i].left \subseteq Neighbors(graph, stack'[i].node)
    BY <1>5, <1>7, <2>1
  <2>3. \A x \in Node : color'[x] = "gray" => \E i \in 1..1 : stack'[i].node = x
    BY <1>5, <1>6, <1>7, <2>1
  <2> QED
    BY <1>1, <1>5, <1>6, <1>7, <2>1, <2>2, <2>3 DEF StackInv
<1>9. ParentInv'
  <2>1. /\ \A x \in Node : color[x] = "white" => parent[x] = None
        /\ \A x \in Node : parent[x] # None => color[parent[x]] # "white"
    BY <1>2 DEF ParentInv
  <2>2. \A x \in Node : color'[x] = "white" => parent[x] = None
    BY <1>7, <2>1
  <2>3. \A x \in Node : parent[x] # None => color'[parent[x]] # "white"
    <3>1. \A x \in Node : parent[x] # None => parent[x] \in Node
      BY <1>6
    <3> QED
      BY <1>7, <2>1, <3>1
  <2>4. \E b \in Nat : \E rank \in [Node -> 0..b] :
            \A x \in Node : parent[x] # None => rank[parent[x]] < rank[x]
    BY <1>2 DEF ParentInv
  <2> QED
    BY <1>1, <2>2, <2>3, <2>4 DEF ParentInv
<1>10. FinishedInv'
  <2> SUFFICES ASSUME cycles = {}
               PROVE  /\ \A i \in 1..1 : \A k \in Neighbors(graph, stack'[i].node) :
                            k \in stack'[i].left
                      /\ \A x \in graph.nodes : color'[x] = "black" =>
                            /\ \A k \in Neighbors(graph, x) : color'[k] = "black"
                            /\ ~OnCycle(x)
    BY <1>1, <1>5 DEF FinishedInv, OnCycle
  <2>1. \A i \in 1..1 : \A k \in Neighbors(graph, stack'[i].node) : k \in stack'[i].left
    <3>1. \A i \in 1..1 : i = 1
      OBVIOUS
    <3> QED
      BY <1>5, <3>1
  <2>2. \A x \in graph.nodes : color[x] = "black" =>
            /\ \A k \in Neighbors(graph, x) : color[k] = "black"
            /\ ~OnCycle(x)
    BY <1>2 DEF FinishedInv
  <2> QED
    BY <1>3, <1>4, <1>7, <2>1, <2>2
<1> QED
  BY <1>1, <1>2, <1>8, <1>9, <1>10 DEF CycleInv, IsCycle

\* _dfs returns from a node whose neighbours are all finished.
LEMMA LeaveFinishes ==
    ASSUME CycleInv, Leave, graph' = graph
    PROVE  CycleInv'
<1> DEFINE n == Len(stack)
           top == stack[n].node
<1>1. /\ stack # << >> /\ stack[n].left = {} /\ parent' = parent /\ cycles' = cycles
      /\ color' = [color EXCEPT ![top] = "black"] /\ stack' = SubSeq(stack, 1, n - 1)
  BY DEF Leave
<1>2. graph \in Graphs /\ StackInv /\ ParentInv /\ FinishedInv
  BY DEF CycleInv
<1>3. /\ n \in Nat /\ n \in 1..n /\ top \in graph.nodes /\ top \in Node
      /\ graph.nodes \subseteq Node /\ \A x : Neighbors(graph, x) \subseteq graph.nodes
  <2>1. n \in Nat /\ n \in 1..n /\ graph.nodes \subseteq Node
    BY <1>1, <1>2, StackFacts
  <2>2. top \in graph.nodes /\ top \in Node
    BY <1>2, <2>1, StackFacts
  <2> QED
    BY <1>2, <2>1, <2>2, NeighborsAreNodes
<1>4. /\ stack' \in Seq([node : graph.nodes, left : SUBSET graph.nodes])
      /\ Len(stack') = n - 1 /\ \A i \in 1..(n - 1) : stack'[i] = stack[i]
  <2> DEFINE Frames == [node : graph.nodes, left : SUBSET graph.nodes]
  <2>1. stack \in Seq(Frames)
    BY <1>2 DEF StackInv
  <2> HIDE DEF Frames
  <2>2. /\ SubSeq(stack, 1, n - 1) \in Seq(Frames) /\ Len(SubSeq(stack, 1, n - 1)) = n - 1
        /\ \A i \in 1..(n - 1) : SubSeq(stack, 1, n - 1)[i] = stack[i]
    <3>1. \A i \in 1..(n - 1) : i \in 1..Len(stack)
      BY <1>3 DEF n
    <3>2. n - 1 \in Nat /\ n - 1 <= Len(stack) /\ Len(stack) \in Nat
      BY <1>3 DEF n
    <3> DEFINE l == n - 1
    <3> HIDE DEF n, l
    <3>3. l \in Nat /\ l <= Len(stack) /\ stack \in Seq(Frames)
      BY <2>1, <3>2 DEF l
    <3>4. /\ SubSeq(stack, 1, l) \in Seq(Frames) /\ Len(SubSeq(stack, 1, l)) = l
          /\ \A i \in 1..l : SubSeq(stack, 1, l)[i] = stack[i]
      BY <3>3
    <3> QED
      BY <3>4 DEF l
  <2> QED
    BY <1>1, <2>2 DEF Frames
<1>5. /\ color \in [Node -> {"white", "gray", "black"}]
      /\ parent \in [Node -> Node \cup {None}]
      /\ \A i \in 1..n : /\ color[stack[i].node] = "gray"
                         /\ stack[i].left \subseteq Neighbors(graph, stack[i].node)
      /\ \A i, j \in 1..n : stack[i].node = stack[j].node => i = j
      /\ \A x \in Node : color[x] = "gray" => \E i \in 1..n : stack[i].node = x
      /\ \A i \in 1..(n - 1) : /\ parent[stack[i + 1].node] = stack[i].node
                               /\ stack[i + 1].node \in Neighbors(graph, stack[i].node)
  BY <1>2 DEF StackInv
<1>6. /\ color' \in [Node -> {"white", "gray", "black"}] /\ color'[top] = "black"
      /\ color[top] = "gray"
      /\ \A x \in Node : x # top => color'[x] = color[x]
      /\ \A x \in Node : color'[x] = "white" <=> color[x] = "white"
      /\ \A x \in Node : color[x] = "black" => color'[x] = "black"
  <2>1. color[top] = "gray"
    BY <1>3, <1>5
  <2> QED
    BY <1>1, <1>3, <1>5, <2>1
<1>7. \A i \in 1..(n - 1) : /\ i \in 1..n /\ stack[i].node \in Node
                            /\ stack[i].node # top
  <2>1. \A i \in 1..(n - 1) : i \in 1..n /\ i # n
    BY <1>3
  <2>2. \A i \in 1..n : stack[i].node \in Node
    BY <1>2, StackFacts
  <2> QED
    BY <1>3, <1>5, <2>1, <2>2
<1> HIDE DEF n, top
<1>8. StackInv'
  <2>1. \A i \in 1..(n - 1) : /\ color'[stack'[i].node] = "gray"
                              /\ stack'[i].left \subseteq Neighbors(graph, stack'[i].node)
    BY <1>4, <1>5, <1>6, <1>7
  <2>2. \A i, j \in 1..(n - 1) : stack'[i].node = stack'[j].node => i = j
    BY <1>4, <1>5, <1>7
  <2>3. ASSUME NEW x \in Node, color'[x] = "gray"
        PROVE  \E i \in 1..(n - 1) : stack'[i].node = x
    <3>1. x # top /\ color[x] = "gray"
      BY <1>6, <2>3
    <3>2. PICK i \in 1..n : stack[i].node = x
      BY <1>5, <3>1
    <3>3. i \in 1..(n - 1)
      BY <1>3, <3>1, <3>2 DEF top
    <3> QED
      BY <1>4, <3>2, <3>3
  <2>4. ASSUME NEW i \in 1..(n - 1 - 1)
        PROVE  /\ parent[stack'[i + 1].node] = stack'[i].node
               /\ stack'[i + 1].node \in Neighbors(graph, stack'[i].node)
    <3>1. i \in 1..(n - 1) /\ i + 1 \in 1..(n - 1)
      BY <1>3
    <3> QED
      BY <1>4, <1>5, <3>1
  <2> QED
    BY <1>1, <1>4, <1>5, <1>6, <2>1, <2>2, <2>3, <2>4 DEF StackInv
<1>9. ParentInv'
  <2>1. /\ \A x \in Node : color[x] = "white" => parent[x] = None
        /\ \A x \in Node : parent[x] # None => color[parent[x]] # "white"
    BY <1>2 DEF ParentInv
  <2>2. \A x \in Node : color'[x] = "white" => parent[x] = None
    BY <1>6, <2>1
  <2>3. \A x \in Node : parent[x] # None => color'[parent[x]] # "white"
    <3>1. \A x \in Node : parent[x] # None => parent[x] \in Node
      BY <1>5
    <3> QED
      BY <1>6, <2>1, <3>1
  <2>4. \E b \in Nat : \E rank \in [Node -> 0..b] :
            \A x \in Node : parent[x] # None => rank[parent[x]] < rank[x]
    BY <1>2 DEF ParentInv
  <2> QED
    BY <1>1, <2>2, <2>3, <2>4 DEF ParentInv
<1>10. FinishedInv'
  <2> SUFFICES ASSUME cycles = {}
               PROVE  /\ \A i \in 1..(n - 1) : \A k \in Neighbors(graph, stack'[i].node) :
                            \/ k \in stack'[i].left \/ color'[k] = "black"
                            \/ i < n - 1 /\ k = stack'[i + 1].node
                      /\ \A x \in graph.nodes : color'[x] = "black" =>
                            /\ \A k \in Neighbors(graph, x) : color'[k] = "black"
                            /\ ~OnCycle(x)
    BY <1>1, <1>4 DEF FinishedInv, OnCycle
  <2>1. \A i \in 1..n : \A k \in Neighbors(graph, stack[i].node) :
            \/ k \in stack[i].left \/ color[k] = "black"
            \/ i < n /\ k = stack[i + 1].node
    BY <1>2 DEF FinishedInv, n
  <2>2. \A x \in graph.nodes : color[x] = "black" =>
            /\ \A k \in Neighbors(graph, x) : color[k] = "black"
            /\ ~OnCycle(x)
    BY <1>2 DEF FinishedInv
  <2>3. ASSUME NEW i \in 1..(n - 1), NEW k \in Neighbors(graph, stack'[i].node)
        PROVE  \/ k \in stack'[i].left \/ color'[k] = "black"
               \/ i < n - 1 /\ k = stack'[i + 1].node
    <3>1. i \in 1..n /\ k \in Neighbors(graph, stack[i].node) /\ k \in Node
      BY <1>3, <1>4, <1>7, <2>3
    <3>2. CASE i = n - 1
      <4>1. i + 1 = n
        BY <1>3, <3>2
      <4>2. \/ k \in stack[i].left \/ color[k] = "black" \/ k = top
        BY <2>1, <3>1, <4>1 DEF top
      <4> QED
        BY <1>4, <1>6, <3>1, <4>2
    <3>3. CASE i # n - 1
      <4>1. i + 1 \in 1..(n - 1) /\ i < n - 1
        BY <1>3, <3>3
      <4>2. \/ k \in stack[i].left \/ color[k] = "black" \/ k = stack[i + 1].node
        BY <2>1, <3>1
      <4> QED
        BY <1>4, <1>6, <3>1, <4>1, <4>2
    <3> QED
      BY <3>2, <3>3
  <2>4. \A k \in Neighbors(graph, top) : color[k] = "black"
    <3>1. ~(n < n)
      BY <1>3
    <3> QED
      BY <1>1, <1>3, <2>1, <3>1 DEF top, n
  <2>5. ~OnCycle(top)
    <3> DEFINE B == {b \in graph.nodes : color[b] = "black"}
    <3>1. top \notin B
      BY <1>6
    <3>2. Neighbors(graph, top) \subseteq B
      BY <1>3, <2>4
    <3>3. \A b \in B : Neighbors(graph, b) \subseteq B
      BY <1>3, <2>2
    <3> HIDE DEF B
    <3> QED
      BY <1>2, <1>3, <3>1, <3>2, <3>3, FinishedOffCycle
  <2>6. ASSUME NEW x \in graph.nodes, color'[x] = "black"
        PROVE  /\ \A k \in Neighbors(graph, x) : color'[k] = "black"
               /\ ~OnCycle(x)
    <3>1. \A k \in Neighbors(graph, x) : k \in Node
      BY <1>3
    <3>2. CASE x = top
      BY <1>6, <2>4, <2>5, <3>1, <3>2
    <3>3. CASE x # top
      <4>1. color[x] = "black"
        BY <1>3, <1>6, <2>6, <3>3
      <4> QED
        BY <1>6, <2>2, <3>1, <4>1
    <3> QED
      BY <3>2, <3>3
  <2> QED
    BY <2>3, <2>6
<1> QED
  BY <1>1, <1>2, <1>8, <1>9, <1>10 DEF CycleInv, IsCycle
\* The stack, the parent links and the finished nodes agree at every moment of the search,
\* whatever else is asked about the graph.
LEMMA SearchKeepsWay == NetworkSpec => []CycleInv
<1>1. NetworkInit => CycleInv
  <2> SUFFICES ASSUME NetworkInit PROVE CycleInv
    OBVIOUS
  <2>1. /\ graph \in Graphs /\ color = [n \in Node |-> "white"] /\ stack = << >>
        /\ parent = [n \in Node |-> None] /\ cycles = {}
    BY DEF NetworkInit, PropagationInit, SearchInit
  <2>2. Len(stack) = 0 /\ 1..Len(stack) = {} /\ 1..(Len(stack) - 1) = {}
    BY <2>1
  <2>3. StackInv
    <3>1. stack \in Seq([node : graph.nodes, left : SUBSET graph.nodes])
      BY <2>1
    <3> QED
      BY <2>1, <2>2, <3>1 DEF StackInv
  <2>4. ParentInv
    <3>1. [n \in Node |-> 0] \in [Node -> 0..0] /\ 0 \in Nat
      OBVIOUS
    <3>2. \A n \in Node : parent[n] = None
      BY <2>1
    <3>3. \E bound \in Nat : \E rank \in [Node -> 0..bound] :
              \A n \in Node : parent[n] # None => rank[parent[n]] < rank[n]
      BY <3>1, <3>2
    <3> QED
      BY <3>2, <3>3 DEF ParentInv
  <2>5. FinishedInv
    <3>1. graph.nodes \subseteq Node
      BY <2>1, GraphAssumption DEF IsGraph
    <3>2. \A n \in graph.nodes : color[n] # "black"
      BY <2>1, <3>1
    <3> QED
      BY <2>2, <3>2 DEF FinishedInv
  <2> QED
    BY <2>1, <2>3, <2>4, <2>5 DEF CycleInv
<1>2. CycleInv /\ [NetworkNext]_networkVars => CycleInv'
  <2> SUFFICES ASSUME CycleInv, [NetworkNext]_networkVars PROVE CycleInv'
    OBVIOUS
  <2>1. CASE graph' = graph /\ UNCHANGED searchVars
    BY <2>1 DEF CycleInv, StackInv, ParentInv, FinishedInv, OnCycle, IsCycle, searchVars
  <2>2. CASE Search
    <3>1. graph' = graph
      BY <2>2 DEF Search, propagationVars
    <3>2. CASE \E m \in graph.nodes : Root(graph, m)
      BY <3>1, <3>2, RootStarts
    <3>3. CASE \E m \in graph.nodes : Look(graph, m)
      BY <3>1, <3>3, LookBack, LookDown
    <3>4. CASE Leave
      BY <3>1, <3>4, LeaveFinishes
    <3> QED
      BY <2>2, <3>2, <3>3, <3>4 DEF Search, SearchTurn
  <2>3. ASSUME NEW events \in Scenarios, Simulate(events)
        PROVE  graph' = graph /\ UNCHANGED searchVars
    BY <2>3 DEF Simulate, Analyze, Begin
  <2>4. ASSUME NEW n, Probe(n) PROVE graph' = graph /\ UNCHANGED searchVars
    BY <2>4 DEF Probe, BlastRadius, Begin
  <2>5. ASSUME Propagate PROVE graph' = graph /\ UNCHANGED searchVars
    BY <2>5 DEF Propagate, Turn, Enqueue, Pop, Follow, ReturnImpacts, ReturnCandidate,
                ReturnBlast, TryNext, Begin
  <2>6. ASSUME NEW n, NEW level, ObserveNode(n, level)
        PROVE  graph' = graph /\ UNCHANGED searchVars
    BY <2>6 DEF ObserveNode, propagationVars
  <2>7. UNCHANGED networkVars => graph' = graph /\ UNCHANGED searchVars
    BY DEF networkVars, propagationVars
  <2> QED
    BY <2>1, <2>2, <2>3, <2>4, <2>5, <2>6, <2>7 DEF NetworkNext
<1> QED
  BY <1>1, <1>2, PTL DEF NetworkSpec

\* Every cycle detect_cycles() reports is one, and a search that has ended has reported a
\* cycle exactly if the graph has one, for every graph.
THEOREM CyclesAlwaysReported == NetworkSpec => []CyclesReported
<1>1. CycleInv => CyclesReported
  <2> SUFFICES ASSUME CycleInv PROVE CyclesReported
    OBVIOUS
  <2>1. graph \in Graphs /\ FinishedInv
        /\ \A c \in cycles : c \in Seq(graph.nodes) /\ IsCycle(c)
    BY DEF CycleInv
  <2>2. ASSUME Searched(graph), cycles = {} PROVE ~ \E n \in graph.nodes : OnCycle(n)
    BY <2>1, <2>2 DEF Searched, FinishedInv
  <2>3. ASSUME cycles # {} PROVE \E n \in graph.nodes : OnCycle(n)
    <3>1. PICK c \in cycles : c \in Seq(graph.nodes) /\ IsCycle(c)
      BY <2>1, <2>3
    <3> QED
      BY <2>1, <3>1, CycleIsOnCycle
  <2> QED
    BY <2>1, <2>2, <2>3 DEF CyclesReported
<1> QED
  BY <1>1, SearchKeepsWay, PTL
=============================================================================
