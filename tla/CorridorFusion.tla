----------------------------- MODULE CorridorFusion -----------------------------
(***************************************************************************)
(* The observations of a corridor as they are reported, revised and grow   *)
(* old, the assessment fusion makes of them at any time, and the plan that *)
(* is compiled from it; beside it the engines that rate raw readings.      *)
(***************************************************************************)
EXTENDS FusionDecision, ThreatPicture

CONSTANTS
    Reports,      \* what is reported: observations without their times, with a lifetime
    Messages,     \* messages of the feeds that have an adapter
    Worse,        \* metric |-> the values it is revised to, from mild to severe
    Objectives,   \* objectives of a plan
    Available,    \* mitigation actions
    Step,         \* quarter hours between two assessments
    MaxClock,     \* bound: the last assessment
    LastReport,   \* bound: the last report
    MaxFeed       \* bound: the observations of a request

\* What the observation model accepts of a report, and the feeds that have an adapter.
ASSUME ReportAssumption ==
    /\ \A t \in Reports : t.confidence \in 0..100 /\ t.ahead \in Int
    /\ \A m \in Messages : m.feed \in {"ais", "swpc", "usgs", "scada"}
    /\ Step \in Nat

\* The metrics of which more is worse; of the others less is.
Rising == {"sea_ice_concentration", "wind_severity", "wave_severity",
           "geopolitical_pressure", "trade_dependency"}

\* Revisions are values of the metric and get worse.  Ice stays a ratio.
ASSUME WorseAssumption ==
    \A m \in DOMAIN Worse :
        /\ Worse[m] \in Seq(0..(IF m = "inventory_days" THEN LongestStock ELSE 100))
        /\ \A i \in 1..(Len(Worse[m]) - 1) :
              IF m \in Rising THEN Worse[m][i] <= Worse[m][i + 1]
              ELSE Worse[m][i] >= Worse[m][i + 1]

\* MitigationAction and ContinuityObjective: costs are not negative, a budget is positive,
\* gains and reductions are scores; ids are numbered in their order.
ASSUME PlanningAssumption ==
    /\ IsFiniteSet(Available)
    /\ \A x \in Available :
          /\ x.id \in Nat /\ x.cost \in Nat /\ x.gain \in 0..100
          /\ \A f \in DOMAIN x.reductions : x.reductions[f] \in 0..100
    /\ \A o \in Objectives : o.target \in 0..Whole /\ o.budget \in Nat \ {0}

VARIABLES
    task,    \* "corridor" or "picture"
    clock,
    feed,    \* the observations an assessment is given
    plan     \* the compiled plan, NoPlan before

fusionVars == <<task, clock, feed, plan>>
vars == <<fusionVars, pictureVars>>

NoPlan == [objective |-> << >>]

FusionInit == clock = 0 /\ feed = {} /\ plan = NoPlan

Init ==
    /\ task \in {"corridor", "picture"}
    /\ FusionInit
    /\ IF task = "picture" THEN PictureInit ELSE engine = "none" /\ severity = << >>

Stamped(t) ==
    [source |-> t.source, trust |-> t.trust, assertion |-> t.assertion,
     metric |-> t.metric, unit |-> t.unit, value |-> t.value,
     confidence |-> t.confidence, judged |-> t.judged,
     at |-> clock + t.ahead, until |-> clock + t.ahead + t.lifetime]

\* A request that is refused is not continued, nor one that is packed.
Underway ==
    /\ task = "corridor" /\ plan = NoPlan
    /\ \A o \in feed : Admissible(o)

Receive(observations) ==
    /\ Underway /\ clock <= LastReport
    /\ Cardinality(feed \cup observations) <= MaxFeed
    /\ \A o \in observations : WellFormed(o)
    /\ feed' = feed \cup observations
    /\ UNCHANGED <<task, clock, plan, pictureVars>>

\* An observation is reported by a source.
Report(t) == Receive({Stamped(t)})

\* An adapter relays a message of its feed.
Relay(m) == Receive({Parse(m, clock)})

\* The tactical endpoints give what the bridge made of a frame, a channel or a sector.
Bridge ==
    \E build \in {"uav", "starlink", "cuas"} :
        LET o == [value |-> 90, at |-> clock, until |-> clock + Day]
        IN Receive(CASE build = "uav" -> UavToObservations(o)
                     [] build = "starlink" -> StarlinkToObservations(o)
                     [] build = "cuas" -> CuasToObservations(o))

\* A reading is replaced by the next worse one of the same time.
Revise(o) ==
    /\ Underway
    /\ o.metric \in DOMAIN Worse
    /\ \E i \in 1..(Len(Worse[o.metric]) - 1) :
          /\ o.value = Worse[o.metric][i]
          /\ feed' = (feed \ {o}) \cup {[o EXCEPT !.value = Worse[o.metric][i + 1]]}
    /\ UNCHANGED <<task, clock, plan, pictureVars>>

\* Half an hour later the corridor is assessed again.
Tick ==
    /\ Underway /\ clock < MaxClock /\ feed # {}
    /\ clock' = clock + Step
    /\ UNCHANGED <<task, feed, plan, pictureVars>>

\* build_decision_packet(): assess, then compile; nothing is packed when the assessment
\* is refused.  The graph assessment between the two (Analyze of ImpactPropagation), which
\* reads and leaves nothing of these, is left out: when the request names failed nodes
\* that are not in its graph it raises, and this step does not happen.
BuildDecisionPacket(objective) ==
    /\ task = "corridor" /\ plan = NoPlan
    /\ Accepted(feed, clock)
    /\ LET a == Assess(feed, clock)
       IN plan' = [objective |-> objective, assessment |-> a,
                   compiled |-> Compile(a, objective, Available)]
    /\ UNCHANGED <<task, clock, feed, pictureVars>>

Sense(p) ==
    /\ task = "picture"
    /\ Worsen(p)
    /\ UNCHANGED fusionVars

Next ==
    \/ \E t \in Reports : Report(t)
    \/ \E m \in Messages : Relay(m)
    \/ Bridge
    \/ \E o \in feed : Revise(o)
    \/ Tick
    \/ \E objective \in Objectives : BuildDecisionPacket(objective)
    \/ \E p \in DOMAIN severity : Sense(p)

Spec == Init /\ [][Next]_vars

-----------------------------------------------------------------------------

LiveMetrics ==
    {"port_capacity", "port_availability", "satcom_availability", "cyber_control_health",
     "data_integrity", "insurance_availability", "escort_capacity", "inventory_days"}

\* No live state of a corridor is scored on the word of a public or unknown source: what
\* an assessment knows of ports, communications, cyber and stocks was asserted by
\* authenticated operator telemetry, whoever else reports it (validate_observation_source
\* before assess).
LiveClaimsAuthenticated ==
    (task = "corridor" /\ Accepted(feed, clock)) =>
        \A o \in Scored(feed, clock) :
            o.metric \in LiveMetrics => o.source = "operator-telemetry"

\* The factors whose readings lose their weight at different rates.
Mixed(observations) ==
    \E o, p \in observations : FactorOf(o) = FactorOf(p) /\ MAX_AGE[o.metric] # MAX_AGE[p.metric]

Rounding == 3

\* Time alone never makes a corridor look better: while the same readings count, the risk
\* does not fall and the confidence does not rise (freshness weighs a reading's
\* confidence, not its risk; assess and _freshness).
AgeingNeverHelps ==
    [][(clock' > clock /\ Accepted(feed, clock) /\ Accepted(feed, clock')
          /\ Scored(feed, clock) = Scored(feed, clock') /\ ~Mixed(Scored(feed, clock))) =>
        LET before == Assess(feed, clock)
            after == Assess(feed, clock')
        IN /\ after.risk >= before.risk - Rounding
           /\ after.confidence <= before.confidence + Rounding
           /\ before.state = "physically_closed" => after.state = "physically_closed"]_vars

States == <<"open", "open_degraded", "open_capacity_constrained",
            "open_but_communications_degraded", "open_but_uninsurable",
            "functionally_closed", "physically_closed">>

StateRank(s) == CHOOSE i \in DOMAIN States : States[i] = s

\* A reading that is revised for the worse never lowers the risk nor improves the state of
\* the corridor, and never takes a factor out of the ones that raise the risk
\* (metric_risk, assess, _classify and explain).
WorseReadingNeverHelps ==
    [][(feed' # feed /\ Cardinality(feed') = Cardinality(feed) /\ clock' = clock
          /\ Accepted(feed, clock)) =>
        LET before == Assess(feed, clock)
            after == Assess(feed', clock)
        IN /\ Accepted(feed', clock)
           /\ after.risk >= before.risk
           /\ StateRank(after.state) >= StateRank(before.state)
           /\ Attribution(before).raising \subseteq Attribution(after).raising]_vars

\* Neither time nor a worse reading makes a corridor look better (assess).
FusionMonotone == AgeingNeverHelps /\ WorseReadingNeverHelps

\* A compiled plan keeps its promises: it is affordable, complete and free of conflicts,
\* it never leaves more risk than was assessed, no feasible plan that reaches the
\* objective is cheaper, none is closer to an objective out of reach, and an action that
\* needs approval is never in a plan that does not (compile, _evaluate, _better).
PlanSound ==
    plan # NoPlan =>
        LET c == plan.compiled
            a == plan.assessment
            S == c.selected
            feasible == {U \in SUBSET Available : Feasible(U, plan.objective)}
        IN /\ Cost(S) <= plan.objective.budget
           /\ \A x \in S : x.needs \subseteq {y.id : y \in S}
           /\ \A x, y \in S : y.id \notin x.excludes
           /\ c.risk <= a.risk
           /\ \A U \in feasible :
                LET left == Whole - ProjectRisk(a, U)
                IN IF c.met THEN left >= plan.objective.target => Cost(U) >= c.cost
                   ELSE left <= c.continuity
           /\ (\E x \in S : x.approval) => c.approval

\* ROADMAP-100.md, invariant 2: "Missing or unobserved external state must degrade to
\* `UNKNOWN` or `UNHEALTHY`, never silently default to `HEALTHY`": a corridor is only
\* called open when every required metric was observed (_classify).
UnknownNeverHealthy ==
    (task = "corridor" /\ Accepted(feed, clock)) =>
        LET a == Assess(feed, clock)
        IN a.state = "open" => a.missing = {}
=============================================================================
