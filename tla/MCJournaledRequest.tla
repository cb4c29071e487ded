--------------------------- MODULE MCJournaledRequest ---------------------------
(* Instances of JournaledRequest for TLC.                                  *)
EXTENDS JournaledRequest

\* Every kind of endpoint: a retried computation, a reserve proof, a decision
\* packet without key, and two bodies fetched under one key.
MixedAttempts == 1..6
MixedKinds == <<"compute", "compute", "proof", "packet", "fetch", "fetch">>
MixedKeys == <<"k", "k", "k", NoKey, "k", "k">>
MixedBodies == <<"x", "x", "x", "x", "x", "y">>
=============================================================================
