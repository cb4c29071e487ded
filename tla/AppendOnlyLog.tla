---------------------------- MODULE AppendOnlyLog -----------------------------
(***************************************************************************)
(* What the evidence ledger promises its callers: entries are committed    *)
(* one at a time at the end of a log that never changes otherwise, and     *)
(* only a committed entry is acknowledged.                                 *)
(***************************************************************************)
EXTENDS Naturals, Sequences

CONSTANT Entry

VARIABLES log, acknowledged

Committed == {log[i] : i \in 1..Len(log)}

Init == log = <<>> /\ acknowledged = {}

Commit(e) ==
    /\ e \notin Committed
    /\ log' = Append(log, e)
    /\ UNCHANGED acknowledged

Acknowledge(e) ==
    /\ e \in Committed
    /\ acknowledged' = acknowledged \cup {e}
    /\ UNCHANGED log

Next == \E e \in Entry : Commit(e) \/ Acknowledge(e)

Spec == Init /\ [][Next]_<<log, acknowledged>>
=============================================================================
