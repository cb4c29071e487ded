--------------------------- MODULE ImpactPropagation ---------------------------
(***************************************************************************)
(* DependencyEngine of src/continuityos/graph.py: how an outage spreads    *)
(* over a dependency graph.  An edge leads from a dependency to the system *)
(* that depends on it.  The three loops of the engine (analyze,            *)
(* _single_points_fast, analyze_without_spof) are one machine in three     *)
(* modes: a queue of nodes, and the outgoing edges of the current node     *)
(* still to be followed.  Each loop follows the edges in its own order.    *)
(*                                                                         *)
(* A probability is counted in ten-thousandths; strengths, attenuation and *)
(* criticality in hundredths.  Nodes are numbers, so that they are sorted. *)
(***************************************************************************)
EXTENDS DependencyGraphs

Certain == 10000

VARIABLES
    graph,
    call,         \* the loop that runs, or "idle"
    failed,       \* the nodes it takes for failed
    pending,      \* failed nodes that are not in the queue yet
    probability,  \* node |-> how likely it is affected; 0 is not affected
    path,         \* node |-> the way the impact took
    queue,
    current,      \* the node taken from the queue
    held,         \* its probability when it was taken
    todo,         \* its outgoing edges still to be followed
    candidates,   \* nodes _single_points_fast has not tried yet
    found,        \* the candidate takes a critical system down
    report        \* what the last analyze returned

propagationVars == <<graph, call, failed, pending, probability, path, queue, current,
                     held, todo, candidates, found, report>>

-----------------------------------------------------------------------------

SubstituteMembers(g, group) ==
    {g.edges[e].source : e \in {x \in Edges(g) : g.edges[x].group = group}}

\* A substitutable edge is attenuated while another member of its group is healthy.
Attenuation(e) ==
    LET edge == graph.edges[e]
    IN IF /\ edge.substitutable /\ edge.group # None
          /\ SubstituteMembers(graph, edge.group) \ (failed \cup {edge.source}) # {}
       THEN 25 ELSE 100

\* 1 - (1 - existing) * (1 - propagated)
Combined(existing, propagated) ==
    Certain - ((Certain - existing) * (Certain - propagated)) \div Certain

\* Only growth is propagated further.
Grows(combined, existing) == combined > existing

\* analyze() follows the edges by target, the other loops as the graph lists them.
FollowsFirst(e, f) ==
    IF call = "analyze" /\ graph.edges[e].target # graph.edges[f].target
    THEN graph.edges[e].target < graph.edges[f].target
    ELSE e <= f

\* A dependent system that counts as critical is very likely affected.
TakesDownCritical(n, p) == graph.criticality[n] >= 80 /\ p >= 7000

-----------------------------------------------------------------------------

Unaffected == [n \in Node |-> 0]
NoPath == [n \in Node |-> << >>]
NoReport == [failed |-> {}, probability |-> Unaffected, path |-> NoPath,
             single_points |-> {}]

PropagationInit ==
    /\ graph \in Graphs
    /\ call = "idle" /\ failed = {} /\ pending = {}
    /\ probability = Unaffected /\ path = NoPath
    /\ queue = << >> /\ current = None /\ held = 0 /\ todo = {}
    /\ candidates = {} /\ found = FALSE /\ report = NoReport

\* The tables and the queue of a loop before its first turn.
Begin(loop, F) ==
    /\ call' = loop
    /\ failed' = F /\ pending' = F
    /\ probability' = [n \in Node |-> IF n \in F THEN Certain ELSE 0]
    /\ path' = [n \in Node |-> IF n \in F THEN <<n>> ELSE << >>]
    /\ queue' = << >> /\ current' = None /\ held' = 0 /\ todo' = {}
    /\ found' = FALSE
    /\ UNCHANGED graph

\* analyze(graph, failed_nodes); unknown nodes are refused.
Analyze(F) ==
    /\ call = "idle" /\ F \subseteq graph.nodes
    /\ Begin("analyze", F)
    /\ UNCHANGED <<candidates, report>>

\* analyze_without_spof(graph, failed_nodes), the body of calculate_blast_radius().
BlastRadius(F) ==
    /\ call = "idle" /\ F \subseteq graph.nodes
    /\ Begin("blast", F)
    /\ UNCHANGED <<candidates, report>>

\* deque(sorted(failed_nodes)), one node at a time.
Enqueue(n) ==
    /\ n \in pending /\ \A m \in pending : n <= m
    /\ pending' = pending \ {n}
    /\ queue' = Append(queue, n)
    /\ UNCHANGED <<graph, call, failed, probability, path, current, held, todo,
                   candidates, found, report>>

\* queue.popleft()
Pop ==
    /\ call # "idle" /\ pending = {} /\ todo = {} /\ ~found /\ queue # << >>
    /\ queue' = Tail(queue)
    /\ current' = Head(queue)
    /\ held' = probability[current']
    /\ todo' = Outgoing(graph, current')
    /\ UNCHANGED <<graph, call, failed, pending, probability, path, candidates, found, report>>

\* What reaches the target of an edge whose source is affected with probability p.
Reaching(p, e) == (p * graph.edges[e].strength * Attenuation(e)) \div 10000

\* analyze() reads the probability of the current node once, the other loops for
\* every edge.
Propagated(e) == Reaching(IF call = "analyze" THEN held ELSE probability[current], e)

\* Fault: a critical system is taken for the end of the way.
FollowToCritical(e) ==
    LET target == graph.edges[e].target
        combined == Combined(probability[target], Propagated(e))
        grows == Grows(combined, probability[target])
        decided == /\ call = "fast" /\ grows /\ target \notin failed
                   /\ TakesDownCritical(target, combined)
    IN /\ e \in todo /\ \A f \in todo : FollowsFirst(e, f)
       /\ probability' = IF grows THEN [probability EXCEPT ![target] = combined]
                         ELSE probability
       /\ path' = IF grows THEN [path EXCEPT ![target] = Append(path[current], target)]
                  ELSE path
       /\ queue' = IF grows /\ ~decided /\ ~TakesDownCritical(target, combined)
                   THEN Append(queue, target) ELSE queue
       /\ todo' = IF decided THEN {} ELSE todo \ {e}
       /\ found' = decided
       /\ UNCHANGED <<graph, call, failed, pending, current, held, candidates, report>>

\* One edge of the current node is followed; a target whose impact grows goes (back)
\* into the queue, unless the fast loop has its answer.
Follow(e) ==
    LET target == graph.edges[e].target
        combined == Combined(probability[target], Propagated(e))
        grows == Grows(combined, probability[target])
        decided == /\ call = "fast" /\ grows /\ target \notin failed
                   /\ TakesDownCritical(target, combined)
    IN /\ e \in todo /\ \A f \in todo : FollowsFirst(e, f)
       /\ probability' = IF grows THEN [probability EXCEPT ![target] = combined]
                         ELSE probability
       /\ path' = IF grows THEN [path EXCEPT ![target] = Append(path[current], target)]
                  ELSE path
       /\ queue' = IF grows /\ ~decided THEN Append(queue, target) ELSE queue
       /\ todo' = IF decided THEN {} ELSE todo \ {e}
       /\ found' = decided
       /\ UNCHANGED <<graph, call, failed, pending, current, held, candidates, report>>

\* Fault: the loop ends with the edges of the first node.
ExhaustedEarly == pending = {} /\ todo = {}

\* The loop has ended.
Exhausted == pending = {} /\ todo = {} /\ (queue = << >> \/ found)

\* Fault: a candidate that was tried stays a candidate.
TryAgain(left) ==
    LET open == {n \in left : Outgoing(graph, n) # {}}
    IN IF open = {} THEN call' = "idle" /\ candidates' = {}
                         /\ UNCHANGED <<failed, pending, probability, path, queue, current,
                                        held, todo, found, graph>>
       ELSE \E n \in open : /\ \A m \in open : n <= m
                            /\ Begin("fast", {n})
                            /\ candidates' = open

\* Candidates are tried in order, those without a dependent system never.
TryNext(left) ==
    LET open == {n \in left : Outgoing(graph, n) # {}}
    IN IF open = {} THEN call' = "idle" /\ candidates' = {}
                         /\ UNCHANGED <<failed, pending, probability, path, queue, current,
                                        held, todo, found, graph>>
       ELSE \E n \in open : /\ \A m \in open : n <= m
                            /\ Begin("fast", {n})
                            /\ candidates' = open \ {n}

\* analyze() keeps its impacts and goes on to _single_points_fast().
ReturnImpacts ==
    /\ call = "analyze" /\ Exhausted
    /\ report' = [failed |-> failed, probability |-> probability, path |-> path,
                  single_points |-> {}]
    /\ TryNext(graph.nodes)

\* A candidate has been tried.
ReturnCandidate ==
    /\ call = "fast" /\ Exhausted
    /\ report' = [report EXCEPT !.single_points = IF found THEN @ \cup failed ELSE @]
    /\ TryNext(candidates)

ReturnBlast ==
    /\ call = "blast" /\ Exhausted
    /\ call' = "idle"
    /\ UNCHANGED <<graph, failed, pending, probability, path, queue, current, held, todo,
                   candidates, found, report>>

\* A turn of the loop.
Turn ==
    \/ \E n \in pending : Enqueue(n)
    \/ Pop
    \/ \E e \in todo : Follow(e)
    \/ ReturnImpacts \/ ReturnCandidate \/ ReturnBlast

\* The engine alone, called with any set of nodes of the graph.
PropagationNext ==
    \/ \E F \in SUBSET graph.nodes : Analyze(F) \/ BlastRadius(F)
    \/ Turn

PropagationSpec == PropagationInit /\ [][PropagationNext]_propagationVars

-----------------------------------------------------------------------------

\* There is an edge from n to m that carries an impact.
Carries(g, n, m) ==
    \E e \in Edges(g) : g.edges[e].source = n /\ g.edges[e].target = m
                        /\ g.edges[e].strength > 0

\* Every impact has a way it took: from a failed node, along edges of the graph, to the
\* affected node (best_path, shown to the reader as the reason of a cascade).
PathsReal ==
    \A n \in Node : probability[n] > 0 =>
        /\ path[n] # << >>
        /\ path[n][1] \in failed /\ path[n][Len(path[n])] = n
        /\ \A i \in 1..(Len(path[n]) - 1) : Carries(graph, path[n][i], path[n][i + 1])

\* Nobody is forgotten: a dependent of an affected node is affected, unless the node
\* still waits in the queue, the edge is still to be followed, or the fast loop has its
\* answer; only an impact that rounds to nothing is dropped (the loop of analyze).
NobodyForgotten ==
    call # "idle" => \A e \in Edges(graph) :
        LET n == graph.edges[e].source
            m == graph.edges[e].target
        IN probability[n] > 0 /\ probability[m] = 0 =>
            \/ n \in pending
            \/ \E i \in DOMAIN queue : queue[i] = n
            \/ e \in todo \/ found
            \/ Reaching(probability[n], e) = 0

\* The search is sound at every turn: what it reports has a way that leads there, and
\* what it has not reported yet it will still come to.
SearchSound == PathsReal /\ NobodyForgotten
=============================================================================
