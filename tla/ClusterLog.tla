------------------------------- MODULE ClusterLog -------------------------------
(***************************************************************************)
(* RaftStateSynchronizer of src/continuityos/cluster.py, as service.py     *)
(* holds it: one leader whose log lives in memory, and peers registered    *)
(* when the application is created.  A synchronization answers with how    *)
(* many entries follow the index the request names and with the root; the  *)
(* entries themselves never leave the leader.  The command line appends to *)
(* the log; the service only synchronizes, over a log that stays empty.    *)
(***************************************************************************)
EXTENDS Naturals, Sequences

CONSTANTS
    Peers,        \* peer ids a synchronization may name
    Registered,   \* the peers create_app registers
    Commands,     \* command types
    Payloads,     \* payload digests
    MaxLog        \* bound on the log

ASSUME ClusterAssumption == Registered \subseteq Peers /\ MaxLog \in Nat

VARIABLES
    log,        \* the leader's log
    peers,      \* peers: id |-> what the leader records of it
    counted,    \* the index each peer has counted up to (external)
    restarted   \* history: the leader lost its log

clusterVars == <<log, peers, counted, restarted>>

-----------------------------------------------------------------------------

\* compute_merkle_root(): the digest of the payload digests, in order.  Neither
\* index nor command type enters it.
Root(l) == [i \in DOMAIN l |-> l[i].payload]

\* register_peer() for the peers the service knows.
Fresh(l) == [p \in Registered |-> [last |-> 0, root |-> Root(l)]]

ClusterInit ==
    /\ log = <<>>
    /\ peers = Fresh(<<>>)
    /\ counted = [p \in Peers |-> 0]
    /\ restarted = FALSE

\* append_command()
AppendCommand(c, d) ==
    /\ Len(log) < MaxLog
    /\ log' = Append(log, [index |-> Len(log) + 1, command |-> c, payload |-> d])
    /\ UNCHANGED <<peers, counted, restarted>>

\* The entries of l after an index, in their order.
EntriesAfter(l, index) ==
    LET kept[i \in 0..Len(l)] == IF i = 0 THEN <<>>
                                 ELSE IF l[i].index > index THEN Append(kept[i - 1], l[i])
                                 ELSE kept[i - 1]
    IN kept[Len(l)]

\* Fault: the count starts where the leader believes the peer to be.
ReplicatedBelieved(p, index) ==
    Len(EntriesAfter(log, IF p \in DOMAIN peers THEN peers[p].last ELSE index))

\* entries_replicated: how many entries follow the index the request names.
Replicated(p, index) == Len(EntriesAfter(log, index))

\* A registered peer is recorded as holding the whole log, delivered or not.
Marked(p) == IF p \in DOMAIN peers THEN [peers EXCEPT ![p].last = Len(log)] ELSE peers

\* sync_with_peer(): the request gives the index the peer has counted up to, or none,
\* which means 0; the answer reaches the peer, which adds the count, or is lost.
SyncWithPeer(p, given) ==
    LET index == IF given THEN counted[p] ELSE 0 IN
    /\ peers' = Marked(p)
    /\ counted' \in {counted, [counted EXCEPT ![p] = index + Replicated(p, index)]}
    /\ UNCHANGED <<log, restarted>>

\* The service restarts: the log is gone and the peers are registered again.  One
\* restart is explored.
RestartLeader ==
    /\ log # <<>> /\ ~restarted
    /\ log' = <<>>
    /\ peers' = Fresh(<<>>)
    /\ restarted' = TRUE
    /\ UNCHANGED counted

ClusterNext ==
    \/ \E c \in Commands, d \in Payloads : AppendCommand(c, d)
    \/ \E p \in Peers, given \in BOOLEAN : SyncWithPeer(p, given)
    \/ RestartLeader

ClusterSpec == ClusterInit /\ [][ClusterNext]_clusterVars

-----------------------------------------------------------------------------

\* Until the leader restarts, the count of any next answer, added to the index it was
\* asked for, is the length of the leader's log, however many answers were lost and
\* whether or not the request named an index: the count follows the request, not the
\* index the leader has recorded, which is ahead of the peer once an answer is lost.
\* That index is never behind the peer and never ahead of the log (sync_with_peer).
CountsAddUp ==
    /\ \A p \in DOMAIN peers : peers[p].last <= Len(log)
    /\ ~restarted =>
           /\ \A p \in Peers : \A index \in {0, counted[p]} : index + Replicated(p, index) = Len(log)
           /\ \A p \in DOMAIN peers : counted[p] <= peers[p].last

=============================================================================
