------------------------------ MODULE AccessControl ------------------------------
(***************************************************************************)
(* AccessControlEvaluator of src/continuityos/rbac.py behind the           *)
(* /v1/rbac/evaluate endpoint of service.py, and the SecurityLabel and     *)
(* CrossDomainFilter of sovereign.py.  A decision is taken for an identity *)
(* and a request; the steps take privileges away from the identity, as an  *)
(* administrator would between two requests.                               *)
(***************************************************************************)
EXTENDS Naturals, Sequences

CONSTANT Ranks   \* the levels tried, of the seven of DataClassification.level

ASSUME RanksAssumption == Ranks \subseteq 0..6 /\ 2 \in Ranks

VARIABLES
    identity,  \* tenant, roles in their order, clearance rank, nation, compartments, and
               \* whether the clearance was spelled as the enumeration spells it
    request    \* target tenant, permission, classification level, dissemination

accessVars == <<identity, request>>

Enclaves == {"own", "other"}

Roles == {"sovereign_commander", "tenant_admin", "operator_analyst",
          "security_auditor", "scif_airgap_operator", "nato_liaison_viewer"}

Permissions == {"read_public", "read_protected", "read_secret", "read_top_secret",
                "ingest_telemetry", "compile_plan", "trigger_wargame", "mutate_network",
                "verify_ledger", "export_cop", "manage_cluster", "admin_tenants"}

\* ROLE_PERMISSIONS
RolePermissions(role) ==
    CASE role = "sovereign_commander" -> Permissions
      [] role = "tenant_admin" -> Permissions \ {"read_top_secret", "admin_tenants"}
      [] role = "operator_analyst" ->
            {"read_public", "read_protected", "read_secret", "ingest_telemetry",
             "compile_plan", "trigger_wargame", "export_cop"}
      [] role = "security_auditor" ->
            {"read_public", "read_protected", "read_secret", "verify_ledger"}
      [] role = "scif_airgap_operator" ->
            {"read_public", "read_protected", "read_secret", "ingest_telemetry",
             "compile_plan", "manage_cluster", "verify_ledger"}
      [] role = "nato_liaison_viewer" -> {"read_public", "read_protected", "export_cop"}

-----------------------------------------------------------------------------

Holds(roles, r) == \E i \in DOMAIN roles : roles[i] = r

\* Fault: the loop assigns the role's permissions instead of adding them.
UserPermissionsLast(roles) ==
    IF roles = <<>> THEN {} ELSE RolePermissions(roles[Len(roles)])

\* user_perms: what any of the roles permits.
UserPermissions(roles) == UNION {RolePermissions(roles[i]) : i \in DOMAIN roles}

\* evaluate_access(): tenancy, permission, clearance and nationality, in order;
\* the first that fails is the reason given.
Decision(who, what) ==
    IF who.tenant # what.tenant /\ ~Holds(who.roles, "sovereign_commander") THEN "tenant"
    ELSE IF what.permission \notin UserPermissions(who.roles) THEN "permission"
    ELSE IF who.clearance < what.rank THEN "clearance"
    ELSE IF what.canadian /\ who.nation # "CAN" THEN "nation" ELSE "authorized"

\* /v1/rbac/evaluate: without a role it knows the identity is an operator analyst,
\* and a clearance it does not know is SECRET.
Endpoint(who) ==
    [who EXCEPT !.roles = IF @ = <<>> THEN <<"operator_analyst">> ELSE @,
                !.clearance = IF who.spelled THEN @ ELSE 4]

\* It names no classification (PROTECTED_B is meant) and no dissemination control.
EndpointDecision(who, what) ==
    Decision(Endpoint(who), [what EXCEPT !.rank = 2, !.canadian = FALSE])

-----------------------------------------------------------------------------
(* Security labels *)

FiveEyes == {"CAN", "USA", "GBR", "AUS", "NZL"}

\* is_authorized(): clearance, compartments, then every dissemination control.
LabelAuthorized(label, who) ==
    /\ who.clearance >= label.rank
    /\ label.compartments \subseteq who.compartments
    /\ label.controls \cap {"CANADIAN_EYES_ONLY", "CEO"} # {} => who.nation = "CAN"
    /\ label.controls \cap {"CAN_US_FVEY", "REL_TO_FVEY"} # {} => who.nation \in FiveEyes
    /\ "NOFORN" \in label.controls => who.nation = label.owner
    /\ "REL_TO_CAN" \in label.controls => who.nation \in {"CAN", label.owner}
    /\ label.releasable # {} => who.nation \in label.releasable \cup {label.owner}

SensitiveKeys == {"private_key", "internal_api_key", "raw_sensor_ip", "source_jwt", "hmac_secret"}

\* filter_payload(): the keys that reach the other domain, none when it is refused.
\* Only the payload's own keys are looked at, not those of nested values.
Transferred(keys, label, who) ==
    IF label.rank <= who.clearance /\ LabelAuthorized(label, who) THEN keys \ SensitiveKeys ELSE {}

\* Labels a Canadian owner may put on a payload.
Labels == [rank : {2}, compartments : SUBSET {"sigint"}, owner : {"CAN"},
           controls : {{"CEO"}, {"CAN_US_FVEY"}, {"NOFORN"}, {"REL_TO_CAN"}},
           releasable : {{}, {"GBR"}}]

-----------------------------------------------------------------------------

RoleLists == {<<>>} \cup {<<r>> : r \in Roles} \cup {<<r, q>> : r, q \in Roles}

AccessInit ==
    /\ identity \in [tenant : {"own"}, roles : RoleLists, clearance : Ranks,
                     nation : {"CAN", "USA"},
                     compartments : SUBSET {"sigint"}, spelled : BOOLEAN]
    /\ request \in [tenant : Enclaves, permission : Permissions, rank : Ranks, canadian : BOOLEAN]

Weaken(who) == identity' = who /\ UNCHANGED request

DropRole(i) ==
    /\ i \in DOMAIN identity.roles
    /\ Weaken([identity EXCEPT !.roles = SubSeq(@, 1, i - 1) \o SubSeq(@, i + 1, Len(@))])

LowerClearance == \E c \in Ranks : c < identity.clearance /\ Weaken([identity EXCEPT !.clearance = c])
LeaveNation == identity.nation = "CAN" /\ Weaken([identity EXCEPT !.nation = "USA"])
LeaveCompartment ==
    \E c \in identity.compartments : Weaken([identity EXCEPT !.compartments = @ \ {c}])
LeaveTenant == identity.tenant = request.tenant
               /\ \E t \in Enclaves \ {request.tenant} : Weaken([identity EXCEPT !.tenant = t])

AccessNext == (\E i \in 1..2 : DropRole(i)) \/ LowerClearance \/ LeaveNation
              \/ LeaveCompartment \/ LeaveTenant

AccessSpec == AccessInit /\ [][AccessNext]_accessVars

-----------------------------------------------------------------------------

Authorized == Decision(identity, request) = "authorized"
EndpointAuthorized == EndpointDecision(identity, request) = "authorized"

Payload == {"corridor", "private_key"}

\* No decision and no label lets more pass than before the step.
NothingGained ==
    /\ Authorized' => Authorized
    /\ (EndpointAuthorized' /\ identity'.roles # <<>>) => EndpointAuthorized
    /\ \A label \in Labels :
          Transferred(Payload, label, identity') \subseteq Transferred(Payload, label, identity)

\* What is refused stays refused once the identity has lost a role, a level of
\* clearance, its nationality, a compartment or its tenancy: the union over the roles,
\* the rank and the commander's exemption never work against each other
\* (evaluate_access), and no label of a Canadian owner lets more of a payload pass
\* (filter_payload).  The endpoint keeps this only while it knows one of the roles: an
\* identity that loses its last role becomes an operator analyst.
AccessMonotone == [][NothingGained]_accessVars

=============================================================================
