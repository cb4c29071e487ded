------------------------------ MODULE AtomicState ------------------------------
(***************************************************************************)
(* What the locked JSON store promises the service: claiming a sequence    *)
(* number and saving an idempotent response are single atomic steps.       *)
(***************************************************************************)
EXTENDS Naturals

VARIABLES
    idem,   \* slot |-> [fp, resp]: the saved response of an idempotency key
    seqs    \* counter name |-> the highest sequence number claimed

\* Claimable: the counter is new or the number is larger than the last claimed.
Newer(s, name, n) == name \in DOMAIN s => n > s[name]

\* The slot is free or holds the same request.
Free(m, slot, fp) == slot \in DOMAIN m => m[slot].fp = fp

Put(f, x, v) == [y \in DOMAIN f \cup {x} |-> IF y = x THEN v ELSE f[y]]

Claim(name, n) ==
    /\ Newer(seqs, name, n)
    /\ seqs' = Put(seqs, name, n)
    /\ UNCHANGED idem

Save(slot, fp, resp) ==
    /\ Free(idem, slot, fp)
    /\ idem' = Put(idem, slot, [fp |-> fp, resp |-> resp])
    /\ UNCHANGED seqs

=============================================================================
