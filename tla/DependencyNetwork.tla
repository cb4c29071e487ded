--------------------------- MODULE DependencyNetwork ---------------------------
(***************************************************************************)
(* The engines of ContinuityOS that are asked about one dependency graph,  *)
(* as the endpoints and the command line ask them: the impact of a         *)
(* scenario, the cycles of the graph, the forecast from observed           *)
(* degradations, the independence of its providers.  The engines are       *)
(* separate programs over the same graph; the properties relate them.      *)
(***************************************************************************)
EXTENDS ImpactPropagation, GraphScenarios

CONSTANTS
    Scenarios,        \* sets of events
    ObservedLevels    \* the levels a node is observed at, in hundredths

VARIABLES
    task,      \* what is asked: "impact", "cycles" or "forecast"
    observed   \* node |-> its observed degradation; a node may be unobserved

networkVars == <<propagationVars, searchVars, task, observed>>

\* find_alternative_paths(): the ways from source to target that visit no node twice and
\* no node to avoid (the source is not looked at).
AlternativePaths(g, source, target, avoid) ==
    LET ways[n \in Node, visited \in SUBSET Node] ==
            IF n = target THEN {<<n>>}
            ELSE UNION {{<<n>> \o w : w \in ways[m, visited \cup {m}]} :
                            m \in Neighbors(g, n) \ (visited \cup avoid)}
    IN ways[source, {source}]

NetworkInit ==
    /\ PropagationInit /\ SearchInit
    /\ task \in {"impact", "cycles", "forecast"}
    /\ observed = << >>

\* simulate_scenario(): nothing is analyzed when no node of the graph fails.
Simulate(events) ==
    /\ task = "impact" /\ FailedBy(graph, events) # {}
    /\ Analyze(FailedBy(graph, events))
    /\ UNCHANGED <<searchVars, task, observed>>

\* calculate_blast_radius() of one node, after an assessment of the graph.
Probe(n) ==
    /\ task = "impact" /\ report # NoReport
    /\ BlastRadius({n})
    /\ UNCHANGED <<searchVars, task, observed>>

Search ==
    /\ task = "cycles"
    /\ SearchTurn(graph)
    /\ UNCHANGED <<propagationVars, task, observed>>

\* Another node is observed, or a node at another level.
ObserveNode(n, level) ==
    /\ task = "forecast"
    /\ observed' = [x \in DOMAIN observed \cup {n} |-> IF x = n THEN level ELSE observed[x]]
    /\ UNCHANGED <<propagationVars, searchVars, task>>

Propagate == Turn /\ UNCHANGED <<searchVars, task, observed>>

NetworkNext ==
    \/ \E events \in Scenarios : Simulate(events)
    \/ \E n \in graph.nodes : Probe(n)
    \/ Propagate
    \/ Search
    \/ \E n \in graph.nodes, level \in ObservedLevels : ObserveNode(n, level)

\* An engine that was called runs to its end.
NetworkSpec == NetworkInit /\ [][NetworkNext]_networkVars /\ WF_networkVars(Propagate) /\ WF_networkVars(Search)

-----------------------------------------------------------------------------

\* The impact of an outage is exact in extent: an assessment reports every node that
\* depends, over however many systems, on a failed one, and no other; the facilities it
\* counts and those it does not add up to the graph; and when a single failure takes a
\* critical system down, the scenario reports a single point of failure
\* (simulate_scenario over analyze, against get_upstream_dependencies,
\* find_alternative_paths and _single_points_fast).
ImpactExact ==
    (task = "impact" /\ report # NoReport) =>
        /\ \A n \in graph.nodes \ report.failed :
              LET affected == report.probability[n] > 0
              IN /\ affected <=> UpstreamOf(graph, n) \cap report.failed # {}
                 /\ affected <=> \E f \in report.failed : AlternativePaths(graph, f, n, {}) # {}
        /\ RemainingPaths(graph, report) + AffectedCount(graph, report)
             = Cardinality(graph.nodes)
        /\ (/\ call = "idle" /\ Cardinality(report.failed) = 1
            /\ \E n \in graph.nodes \ report.failed : TakesDownCritical(n, report.probability[n])) =>
               "SPOF_DETECTED" \in PolicyViolations(graph, report)

\* The fast search for single points of failure, which stops early and follows the edges
\* in another order than the assessment, finds exactly the nodes whose failure alone
\* takes a critical system down (_single_points_fast against calculate_blast_radius).
SinglePointsExact ==
    (call = "blast" /\ Exhausted) =>
        (failed \subseteq report.single_points <=>
            \E n \in graph.nodes \ failed : TakesDownCritical(n, probability[n]))

\* Redundancy that was called valid survives: when one node that is not itself a provider
\* of the category fails, some provider of the category is not affected
\* (analyze_graph of the independence engine against analyze of the dependency engine).
RedundancySurvives ==
    (task = "impact" /\ Cardinality(report.failed) = 1) =>
        \A c \in Categories(graph) :
            LET P == Providers(graph, c)
            IN (Cardinality(P) >= 2 /\ RedundancyValid(graph, P) /\ report.failed \cap P = {}) =>
                \E p \in P : report.probability[p] = 0

\* An assessment ends although an impact that grows puts its node back into the queue,
\* also on a graph with cycles (the while loops of analyze and _single_points_fast).
AssessmentEnds == call # "idle" ~> call = "idle"

IsCycle(c) ==
    /\ Len(c) > 1 /\ c[1] = c[Len(c)]
    /\ \A i \in 1..(Len(c) - 1) : c[i + 1] \in Neighbors(graph, c[i])
    /\ Cardinality(Range(c)) = Len(c) - 1

OnCycle(n) == n \in Neighbors(graph, n) \/ n \in UpstreamOf(graph, n)

\* Every cycle that is reported is one, and a graph that has a cycle is never reported
\* free of them (detect_cycles).
CyclesReported ==
    /\ \A c \in cycles : IsCycle(c)
    /\ (task = "cycles" /\ Searched(graph)) =>
         (cycles = {} <=> ~ \E n \in graph.nodes : OnCycle(n))

\* The longest way from a source of the graph to the node.
Depth(n) ==
    LET depth[x \in graph.nodes] ==
            LET above == {m \in graph.nodes : x \in Neighbors(graph, m)}
            IN IF above = {} THEN 0 ELSE 1 + Max({depth[m] : m \in above})
    IN depth[n]

\* Three sweeps are enough for a chain of three systems, in whatever order the graph lists
\* its edges: every node that was not observed agrees with its parents, so that another
\* sweep changes nothing (the loop of forecast).
ForecastSettles ==
    (task = "forecast" /\ ~(\E n \in graph.nodes : OnCycle(n))) =>
        LET probs == Forecast(graph, observed)
        IN \A n \in graph.nodes : Depth(n) <= 3 =>
            probs[n] = IF n \in DOMAIN observed THEN Clamp(observed[n])
                       ELSE IF Depth(n) = 0 THEN Prior(graph, n)
                       ELSE Posterior(graph, probs, n)

\* Every answer about the graph is what its definition over the graph says: impacts,
\* single points of failure, cycles and forecasts (the reference definitions above,
\* against analyze, _single_points_fast, detect_cycles and forecast).
GraphAnswersExact == ImpactExact /\ SinglePointsExact /\ CyclesReported /\ ForecastSettles
=============================================================================
