------------------------------ MODULE MCServiceHub ------------------------------
(***************************************************************************)
(* The shared services of the application: event bus, rate limiter,        *)
(* cluster log, access control, tenant databases and diode federation.     *)
(* They share no state, so a behaviour follows one of them, its `area'.    *)
(***************************************************************************)
EXTENDS EventBus, RateLimiter, ClusterLog, AccessControl, TenantRecords, DiodeReports

VARIABLE area

hubVars == <<area, busVars, limiterVars, clusterVars, accessVars, evidenceVars, backendVars, diodeVars>>

\* One identity and request stand for an access control that is not followed.
Idle == [identity |-> [tenant |-> "own", roles |-> <<>>, clearance |-> 2, nation |-> "CAN",
                       compartments |-> {}, spelled |-> TRUE],
         request |-> [tenant |-> "own", permission |-> "read_public", rank |-> 2,
                      canadian |-> FALSE]]

Init ==
    /\ area \in {"bus", "limiter", "cluster", "access", "evidence", "backend", "diode"}
    /\ BusInit /\ LimiterInit /\ ClusterInit /\ EvidenceInit /\ BackendInit
    /\ DiodeInit /\ (area # "diode" => verifying)
    /\ IF area = "access" THEN AccessInit
       ELSE identity = Idle.identity /\ request = Idle.request

Next ==
    /\ UNCHANGED area
    /\ \/ area = "bus" /\ BusNext
             /\ UNCHANGED <<limiterVars, clusterVars, accessVars, evidenceVars, backendVars, diodeVars>>
       \/ area = "limiter" /\ LimiterNext
             /\ UNCHANGED <<busVars, clusterVars, accessVars, evidenceVars, backendVars, diodeVars>>
       \/ area = "cluster" /\ ClusterNext
             /\ UNCHANGED <<busVars, limiterVars, accessVars, evidenceVars, backendVars, diodeVars>>
       \/ area = "access" /\ AccessNext
             /\ UNCHANGED <<busVars, limiterVars, clusterVars, evidenceVars, backendVars, diodeVars>>
       \/ area = "evidence" /\ EvidenceNext
             /\ UNCHANGED <<busVars, limiterVars, clusterVars, accessVars, backendVars, diodeVars>>
       \/ area = "backend" /\ BackendNext
             /\ UNCHANGED <<busVars, limiterVars, clusterVars, accessVars, evidenceVars, diodeVars>>
       \/ area = "diode" /\ DiodeNext
             /\ UNCHANGED <<busVars, limiterVars, clusterVars, accessVars, evidenceVars, backendVars>>

Spec == Init /\ [][Next]_hubVars

\* Names of one and of two parts: "a" and "a:b" with "b:c" and "c" meet in "a:b:c",
\* and a plain owner can have two plain records.
OwnersMC == {<<"a">>, <<"a", "b">>, <<"d">>}
RecordIdsMC == {<<"c">>, <<"e">>, <<"b", "c">>}

\* Nothing tells two kinds of records apart.
KindsAlike == Permutations(Kinds)
=============================================================================
