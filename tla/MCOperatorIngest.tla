---------------------------- MODULE MCOperatorIngest ----------------------------
(* Instances of OperatorIngest for TLC.                                    *)
EXTENDS OperatorIngest

Msg(t, a, n, e) == [tenant |-> t, asset |-> a, seq |-> n, event |-> e]

\* Two numbers of one asset, a second body under a used event id, a message
\* without key, and another tenant's asset.
MixedMessages ==
    {Msg("t1", "x", 1, "e1"), Msg("t1", "x", 2, "e1"), Msg("t1", "x", 2, NoEvent),
     Msg("t2", "x", 0, "e2")}

=============================================================================
