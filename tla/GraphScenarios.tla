---------------------------- MODULE GraphScenarios ----------------------------
(***************************************************************************)
(* The engines around the impact assessment of a graph: the scenario that  *)
(* asks for one, the forecast, the synthesis of one from shipments, the    *)
(* search for cycles and the independence of its providers.                *)
(***************************************************************************)
EXTENDS DependencyGraphs, Integers, FiniteSets, SequencesExt

-----------------------------------------------------------------------------
(***************************************************************************)
(* simulate_scenario of src/continuityos/scenario.py: the nodes a set of   *)
(* events fails, and what follows from the graph assessment of that        *)
(* failure.  A state of a corridor is one of CorridorState; a target that  *)
(* is not in the graph is external and fails nothing.                      *)
(***************************************************************************)

FailedBy(g, events) ==
    {ev.target : ev \in {x \in events :
        x.target \in g.nodes
        /\ x.state \in {"functionally_closed", "physically_closed"}}}

\* impacted_nodes that did not fail themselves.
AffectedFacilities(g, r) == {n \in g.nodes : r.probability[n] > 0} \ r.failed

AffectedCount(g, r) == Cardinality(r.failed) + Cardinality(AffectedFacilities(g, r))

RemainingPaths(g, r) ==
    LET left == Cardinality(g.nodes) - AffectedCount(g, r)
    IN IF left < 0 THEN 0 ELSE left

ProviderConcentration(g, p) == Cardinality({n \in g.nodes : g.provider[n] = p})

\* Violations are only looked for when something failed.
PolicyViolations(g, r) ==
    {v \in {"SPOF_DETECTED", "PROVIDER_CONCENTRATION"} :
        /\ r.failed # {}
        /\ v = "SPOF_DETECTED" => r.single_points # {}
        /\ v = "PROVIDER_CONCENTRATION" =>
             \E n \in g.nodes : g.provider[n] # "" /\ ProviderConcentration(g, g.provider[n]) >= 3}

-----------------------------------------------------------------------------
(***************************************************************************)
(* BayesianCascadeForecaster of src/continuityos/intelligence.py: failure  *)
(* probabilities (in hundredths) by three sweeps of a noisy-or over the    *)
(* nodes that have parents, in place, in the order in which the graph      *)
(* first lists them as a target.                                           *)
(***************************************************************************)

Clamp(p) == IF p > 99 THEN 99 ELSE IF p < 1 THEN 1 ELSE p

Prior(g, n) == (g.criticality[n] * 10 + 50) \div 100

\* Priors, overridden by what was observed.
Evidence(g, observed) ==
    [n \in g.nodes |-> IF n \in DOMAIN observed THEN Clamp(observed[n]) ELSE Prior(g, n)]

\* The keys of adj_parents, in insertion order.
Children(g) == FoldLeft(LAMBDA s, e : IF e.target \in Range(s) THEN s ELSE Append(s, e.target),
                        << >>, g.edges)

\* The noisy-or of a node's own prior and its parents, one factor for every edge.
Posterior(g, probs, n) ==
    LET edges == SelectSeq(g.edges, LAMBDA e : e.target = n)
        noFailure == FoldLeft(LAMBDA acc, e : (acc * (10000 - probs[e.source] * e.strength)) \div 10000,
                              (100 - Prior(g, n)) * 100, edges)
    IN Clamp(100 - (noFailure + 50) \div 100)

\* One node of a sweep; an observed node is not touched.
Update(g, observed, probs, n) ==
    IF n \in DOMAIN observed THEN probs ELSE [probs EXCEPT ![n] = Posterior(g, probs, n)]

Sweep(g, observed, probs) ==
    FoldLeft(LAMBDA p, n : Update(g, observed, p, n), probs, Children(g))

Forecast(g, observed) ==
    Sweep(g, observed, Sweep(g, observed, Sweep(g, observed, Evidence(g, observed))))

\* A target that is not in the graph gets the probability of the first node.
TargetProbability(g, observed, target) ==
    Forecast(g, observed)[IF target \in g.nodes THEN target ELSE CHOOSE n \in g.nodes :
                                                          \A m \in g.nodes : n <= m]

HighRisk(g, observed) == {n \in g.nodes : Forecast(g, observed)[n] >= 50}

-----------------------------------------------------------------------------
(***************************************************************************)
(* GraphSynthesizer of src/continuityos/connectors.py: shipments become a  *)
(* dependency graph and a supply network.  A shipment is its carrier and   *)
(* the sequence of its stops; a stop is its node id (the facility id in    *)
(* lower case with dashes, so that two spellings are one node) and whether *)
(* the facility id names a plant or a depot.                               *)
(***************************************************************************)

Legs(shipment) == [i \in 1..(Len(shipment.stops) - 1) |->
    [source |-> shipment.stops[i].node, target |-> shipment.stops[i + 1].node,
     strength |-> 100, substitutable |-> FALSE, group |-> None]]

AllStops(shipments) == FlattenSeq([i \in DOMAIN shipments |-> shipments[i].stops])

\* synthesize_dependency_graph(): the type of a node is that of its first mention; a leg
\* is added for every shipment that makes it.
SynthesizedGraph(shipments) ==
    LET stops == AllStops(shipments)
        nodes == {s.node : s \in Range(stops)}
        first(n) == stops[CHOOSE i \in DOMAIN stops :
                        stops[i].node = n /\ \A j \in 1..(i - 1) : stops[j].node # n]
    IN [nodes |-> nodes,
        edges |-> FlattenSeq([i \in DOMAIN shipments |-> Legs(shipments[i])]),
        criticality |-> [n \in nodes |-> 50],
        type |-> [n \in nodes |-> IF first(n).plant THEN "facility" ELSE "intermodal_terminal"],
        provider |-> [n \in nodes |-> ""],
        attributes |-> [n \in nodes |-> {}]]

\* synthesize_supply_network(): a corridor for every leg, and the distinct carriers as
\* the declared redundancy, at least one of each.
SynthesizedNetwork(shipments) ==
    LET carriers == {s.carrier : s \in Range(shipments)} \ {None}
        legs == {<<l.source, l.target>> : l \in Range(SynthesizedGraph(shipments).edges)}
    IN [corridors |-> IF legs = {} THEN {"primary-transit"} ELSE legs,
        providers |-> IF carriers = {} THEN {"PRIMARY-CARRIER"} ELSE carriers,
        declared_redundancy |-> IF carriers = {} THEN 1 ELSE Cardinality(carriers)]

-----------------------------------------------------------------------------
(***************************************************************************)
(* detect_cycles of src/continuityos/graph.py: a depth-first search that   *)
(* colours nodes, with the call stack of _dfs as a sequence of frames.     *)
(***************************************************************************)

VARIABLES
    color,    \* node |-> "white", "gray" or "black"
    parent,   \* node |-> the node it was reached from
    stack,    \* frames of _dfs: a node and its neighbours still to be looked at
    cycles    \* the cycles reported

searchVars == <<color, parent, stack, cycles>>

SearchInit ==
    /\ color = [n \in Node |-> "white"]
    /\ parent = [n \in Node |-> None]
    /\ stack = << >>
    /\ cycles = {}

Frame(g, n) == [node |-> n, left |-> Neighbors(g, n)]

\* The outer loop: the least white node is searched next.
Root(g, n) ==
    /\ stack = << >>
    /\ n \in g.nodes /\ color[n] = "white"
    /\ \A m \in g.nodes : color[m] = "white" => n <= m
    /\ color' = [color EXCEPT ![n] = "gray"]
    /\ stack' = <<Frame(g, n)>>
    /\ UNCHANGED <<parent, cycles>>

\* The nodes from the ancestor down to the node, by the parent links.
Chain(n, ancestor) ==
    LET chain[m \in Node] == IF m = ancestor THEN <<m>>
                             ELSE IF parent[m] = None THEN <<ancestor, m>>
                             ELSE Append(chain[parent[m]], m)
    IN chain[n]

\* The least neighbour that is left is gray (a cycle closes), white (the search goes
\* down) or black (nothing).
Look(g, m) ==
    LET top == stack[Len(stack)]
        rest == [stack EXCEPT ![Len(stack)].left = @ \ {m}]
    IN /\ stack # << >>
       /\ m \in top.left /\ \A k \in top.left : m <= k
       /\ cycles' = IF color[m] = "gray"
                    THEN cycles \cup {Append(Chain(top.node, m), m)} ELSE cycles
       /\ IF color[m] = "white"
          THEN /\ parent' = [parent EXCEPT ![m] = top.node]
               /\ color' = [color EXCEPT ![m] = "gray"]
               /\ stack' = Append(rest, Frame(g, m))
          ELSE stack' = rest /\ UNCHANGED <<color, parent>>

\* _dfs returns.
Leave ==
    LET top == stack[Len(stack)]
    IN /\ stack # << >> /\ top.left = {}
       /\ color' = [color EXCEPT ![top.node] = "black"]
       /\ stack' = SubSeq(stack, 1, Len(stack) - 1)
       /\ UNCHANGED <<parent, cycles>>

SearchTurn(g) == \/ \E n \in g.nodes : Root(g, n) \/ Look(g, n)
                 \/ Leave

Searched(g) == stack = << >> /\ \A n \in g.nodes : color[n] = "black"

-----------------------------------------------------------------------------
(***************************************************************************)
(* ProviderIndependenceAnalyzer of src/continuityos/independence.py: do    *)
(* the providers of a category have separate upstream dependencies?        *)
(* A node's attributes are a set of <<key, value>> pairs, of the keys the  *)
(* analyzer inspects.                                                      *)
(***************************************************************************)

\* The category of a node by its type; a type in no list has none.
Category(type) ==
    CASE type \in {"satcom", "terrestrial_network"} -> "communications"
      [] type = "data_feed" -> "data_sources"
      [] type \in {"port", "port_ot"} -> "ports"
      [] type \in {"carrier", "vessel"} -> "carriers"
      [] type \in {"supplier", "mine_or_refinery"} -> "suppliers"
      [] type = "corridor" -> "routes"
      [] type \in {"fuel", "inventory", "strategic_stockpile"} -> "fuel_and_inventory"
      [] OTHER -> "none"

Providers(g, category) == {n \in g.nodes : Category(g.type[n]) = category}

Categories(g) == {Category(g.type[n]) : n \in g.nodes} \ {"none"}

\* What the nodes depend on directly, themselves aside.
Direct(g, nodes) ==
    {g.edges[e].source : e \in {x \in Edges(g) :
        g.edges[x].target \in nodes /\ g.edges[x].source # g.edges[x].target}}

\* get_upstream_dependencies(): what the node depends on, directly or not; every node that
\* was added adds its own dependencies, until all were visited.  The node itself is among
\* them when it is on a cycle of other nodes.
UpstreamOf(g, n) ==
    LET up[S \in SUBSET g.nodes] ==
            IF Direct(g, S \cup {n}) \subseteq S THEN S ELSE up[S \cup Direct(g, S \cup {n})]
    IN up[{}]

\* The dependencies two or more of the providers share, upstream nodes and attributes.
\* A dependency is given as the providers that share it.
SharedNodes(g, P) == {{p \in P : u \in UpstreamOf(g, p)} : u \in g.nodes}

SharedAttributes(g, P) ==
    {{p \in P : v \in g.attributes[p]} : v \in UNION {g.attributes[p] : p \in P}}

SharedDependencies(g, P) ==
    {S \in SharedNodes(g, P) \cup SharedAttributes(g, P) : Cardinality(S) > 1}

-----------------------------------------------------------------------------
(* The disjoint sets: root is the representative of each provider.         *)

\* Fault: only the first two providers of a shared dependency are united.
UniteFirst(root, S) ==
    LET first == Min(S)
        second == Min(S \ {first})
    IN [p \in DOMAIN root |-> IF root[p] = root[first] THEN root[second] ELSE root[p]]

\* Neighbours in the sorted list of the sharing providers are united, and so all of them
\* are; which of them stands for the others is not reported.
UniteAll(root, S) ==
    [p \in DOMAIN root |-> IF \E s \in S : root[p] = root[s] THEN root[Max(S)] ELSE root[p]]

Representative(g, P) ==
    FoldSet(LAMBDA S, root : UniteAll(root, S), [p \in P |-> p], SharedDependencies(g, P))

IndependentCount(g, P) == Cardinality({Representative(g, P)[p] : p \in P})

\* analyze_category() with its default minimum of two.
RedundancyValid(g, P) ==
    IF Cardinality(P) >= 2 THEN IndependentCount(g, P) >= 2
    ELSE P # {} /\ IndependentCount(g, P) = Cardinality(P)

\* analyze_graph(): categories with one provider are not looked at.
OverallValid(g) ==
    \A c \in Categories(g) :
        Cardinality(Providers(g, c)) >= 2 => RedundancyValid(g, Providers(g, c))
=============================================================================
