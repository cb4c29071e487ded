------------------------------ MODULE DiodeReports ------------------------------
(***************************************************************************)
(* SCIFEnclaveFederator of src/continuityos/federation.py: an enclave      *)
(* packages the summaries of its corridors, the report crosses a one-way   *)
(* diode, where fields may be damaged or mixed up with those of another    *)
(* report, and headquarters ingests what arrives.  The digest and the      *)
(* signature are modelled by what they are taken over.                     *)
(***************************************************************************)
EXTENDS Naturals, Sequences

CONSTANTS
    Sites,        \* enclave ids
    States,       \* corridor states reported; "HEALTHY" among them
    NoState,      \* a corridor without a state
    NoValue,      \* no digest, no signature, nothing arrived
    Garbled,      \* what a damaged field holds
    Unreadable,   \* a damaged text that is no report at all
    MaxReports    \* bound on the reports created

ASSUME DiodeAssumption ==
    /\ "HEALTHY" \in States /\ NoState \notin States /\ MaxReports \in Nat
    /\ NoValue \notin {"malformed", "tampered", "invalid", "verified"}
    /\ Unreadable # NoValue /\ Garbled \notin States
    /\ \A s \in States \cup {Garbled} : /\ {Garbled, NoValue} \cap {<<"digest", s>>} = {}
                                       /\ Garbled # <<"signed", <<"digest", s>>>>

VARIABLES
    made,       \* the reports the enclaves created
    arrived,    \* what the diode delivers, or NoValue
    verifying,  \* headquarters holds the verifying key
    verdict     \* the answer of ingest_diode_report, or NoValue

diodeVars == <<made, arrived, verifying, verdict>>

-----------------------------------------------------------------------------

\* A corridor without a state is summarized as healthy.
Summary(c) == IF c = NoState THEN "HEALTHY" ELSE c

\* sha256 over the summaries: neither enclave nor classification enters it.
Digest(summary) == <<"digest", summary>>

\* signing_key.sign(digest): the signature binds the digest to the enclaves' key.
Signature(d) == <<"signed", d>>

\* create_tactical_report(), with a signing key or without.
CreateReport(site, c, keyed) ==
    LET d == Digest(Summary(c)) IN
    /\ Len(made) < MaxReports
    /\ made' = Append(made, [site |-> site, summary |-> Summary(c), digest |-> d,
                             signature |-> IF keyed THEN Signature(d) ELSE NoValue])
    /\ UNCHANGED <<arrived, verifying, verdict>>

\* Each field is that of some report that was made, or damaged; digest and signature
\* may be missing.
Mixed ==
    [site : {made[i].site : i \in DOMAIN made} \cup {Garbled},
     summary : {made[i].summary : i \in DOMAIN made} \cup {Garbled},
     digest : {made[i].digest : i \in DOMAIN made} \cup {Garbled, NoValue},
     signature : {made[i].signature : i \in DOMAIN made} \cup {Garbled, NoValue}]

\* The diode delivers a report, or a text that is none.
Cross ==
    /\ arrived = NoValue /\ made # <<>>
    /\ arrived' \in Mixed \cup {Unreadable}
    /\ UNCHANGED <<made, verifying, verdict>>

\* Fault: the signature is checked against nothing but its form.
SignatureGoodAny(r) == TRUE

\* verifying_key.verify(signature, digest)
SignatureGood(r) == r.signature = Signature(r.digest)

\* ingest_diode_report(): what does not parse is malformed; then the digest, then the
\* signature if there are a key and a signature; an unsigned report passes on its
\* digest alone.
Ingest ==
    /\ arrived # NoValue /\ verdict = NoValue
    /\ verdict' = IF arrived = Unreadable THEN "malformed"
                  ELSE IF arrived.digest # Digest(arrived.summary) THEN "tampered"
                  ELSE IF verifying /\ arrived.signature # NoValue /\ ~SignatureGood(arrived)
                  THEN "invalid" ELSE "verified"
    /\ UNCHANGED <<made, arrived, verifying>>

DiodeInit ==
    /\ made = <<>> /\ arrived = NoValue /\ verdict = NoValue
    /\ verifying \in BOOLEAN

DiodeNext ==
    \/ \E s \in Sites, c \in States \cup {NoState}, k \in BOOLEAN : CreateReport(s, c, k)
    \/ Cross \/ Ingest

DiodeSpec == DiodeInit /\ [][DiodeNext]_diodeVars

-----------------------------------------------------------------------------

\* A report taken as verified carries the summaries and the digest of one report that
\* was made, and, where a key and a signature are present, that report's signature: the
\* summaries are never accepted damaged, nor with the digest or the signature of other
\* ones.  Its site is not covered: the digest is over the summaries alone
\* (ingest_diode_report).
SealKept ==
    verdict = "verified" =>
        \E i \in DOMAIN made :
            /\ made[i].summary = arrived.summary /\ made[i].digest = arrived.digest
            /\ (verifying /\ arrived.signature # NoValue) => made[i].signature = arrived.signature

=============================================================================
