---------------------------- MODULE DependencyGraphs ----------------------------
(***************************************************************************)
(* The dependency graphs of src/continuityos/graph.py, with the fields the *)
(* engines read.  Nodes are numbers, in the order of the listing and of    *)
(* their ids.                                                              *)
(***************************************************************************)
EXTENDS Naturals, Sequences, FiniteSets

CONSTANTS
    Node,     \* the node ids
    Graphs,   \* the DependencyGraphs
    None      \* no node, no substitute group

\* Criticality and strength are in hundredths; an edge names nodes of the graph only.
IsGraph(g) ==
    /\ g.nodes \subseteq Node /\ IsFiniteSet(g.nodes)
    /\ g.edges \in Seq([source : g.nodes, target : g.nodes, strength : 0..100,
                        substitutable : BOOLEAN, group : STRING \cup {None}])
    /\ g.criticality \in [g.nodes -> 0..100]

ASSUME GraphAssumption ==
    /\ Node \subseteq Nat /\ None \notin Node
    /\ \A g \in Graphs : IsGraph(g)

Edges(g) == DOMAIN g.edges

Outgoing(g, n) == {e \in Edges(g) : g.edges[e].source = n}

Neighbors(g, n) == {g.edges[e].target : e \in Outgoing(g, n)}
=============================================================================
