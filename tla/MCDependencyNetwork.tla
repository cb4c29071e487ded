-------------------------- MODULE MCDependencyNetwork --------------------------
(***************************************************************************)
(* Small graphs: three systems behind a shared dependency, chains listed   *)
(* forwards and backwards, diamonds, cycles, substitute groups.            *)
(***************************************************************************)
EXTENDS DependencyNetwork

Edge(s, t, w) == [source |-> s, target |-> t, strength |-> w,
                  substitutable |-> FALSE, group |-> None]
Substitute(s, t, w) == [Edge(s, t, w) EXCEPT !.substitutable = TRUE, !.group = "alternates"]

\* Nodes 1..5: 1 and 2 are plain, 3 and 4 are satcom providers, 5 is a critical facility.
Network(edges) ==
    [nodes |-> 1..5, edges |-> edges,
     criticality |-> [n \in 1..5 |-> IF n = 5 THEN 90 ELSE 50],
     type |-> [n \in 1..5 |-> IF n \in {3, 4} THEN "satcom" ELSE IF n = 5 THEN "community" ELSE "power"],
     provider |-> [n \in 1..5 |-> IF n \in {1, 2} THEN "acme" ELSE ""],
     attributes |-> [n \in 1..5 |-> {}]]

\* Every way to leave out two of these edges, strong or weak.
Pool == <<Edge(4, 5, 100), Substitute(3, 5, 100), Edge(2, 4, 50), Edge(1, 3, 100),
          Edge(1, 2, 50), Edge(5, 2, 50), Edge(2, 3, 50)>>

Subgraphs == {SelectSeq(Pool, LAMBDA e : e # Pool[i] /\ e # Pool[j]) : i, j \in DOMAIN Pool}

\* Three providers on one dependency, and a provider with its own.
ThreeProviders == [Network(<<Edge(1, 3, 100), Edge(1, 4, 100), Edge(1, 2, 100), Edge(2, 5, 50)>>)
                   EXCEPT !.type[2] = "satcom"]

\* Two providers that name the same gateway, one of them behind a node.
SharedGateway == [Network(<<Edge(1, 3, 100), Edge(4, 5, 100)>>)
                  EXCEPT !.attributes[3] = {<<"gateway", "g">>},
                         !.attributes[4] = {<<"gateway", "g">>}]

\* Two shipments over the same first leg, and one that comes back.
Stop(n) == [node |-> n, plant |-> n = 5]
Shipments == <<[carrier |-> "c1", stops |-> <<Stop(1), Stop(2), Stop(5)>>],
               [carrier |-> None, stops |-> <<Stop(1), Stop(2), Stop(3)>>],
               [carrier |-> "c2", stops |-> <<Stop(3), Stop(1)>>]>>

MCGraphs ==
    {Network(edges) : edges \in Subgraphs}
    \cup {ThreeProviders, SharedGateway, SynthesizedGraph(Shipments),
          Network(<<Edge(4, 5, 100), Edge(3, 4, 100), Edge(2, 3, 100), Edge(1, 2, 100)>>),
          Network(<<Edge(3, 5, 100), Edge(2, 3, 80), Edge(1, 2, 80)>>),
          Network(<<Edge(1, 2, 50), Edge(1, 3, 50), Edge(1, 4, 50), Edge(2, 5, 60),
                    Edge(3, 5, 60), Edge(4, 5, 60)>>),
          Network(<<Edge(1, 1, 50), Edge(1, 2, 100), Substitute(2, 5, 100), Substitute(3, 5, 100)>>)}

MCScenarios ==
    {{[target |-> n, state |-> "physically_closed"]} : n \in 1..5}
    \cup {{[target |-> 1, state |-> "functionally_closed"],
           [target |-> 3, state |-> "physically_closed"],
           [target |-> 4, state |-> "open_degraded"], [target |-> 9, state |-> "physically_closed"]}}
=============================================================================
