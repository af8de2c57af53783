-------------------------- MODULE InventoryDetectors --------------------------
(***************************************************************************)
(* The detectors over the inventory, and the recommendations beside them,  *)
(* on an in-memory graph that the inventory connectors fill in any order:  *)
(* nhi.go, least_privilege.go, privilege_escalation.go, shadow_mcp.go,     *)
(* agent_shadow_tool.go, attestation_missing.go and bom_incomplete.go of   *)
(* internal/detect/detectors.                                              *)
(*                                                                         *)
(* A detector is what it says of one identity: the severity of its alert,  *)
(* None for no alert, and the grants its summary names where it names any. *)
(* Time is a number of periods, and `now` does not move while the sources  *)
(* are read.                                                               *)
(***************************************************************************)
EXTENDS IdentityGraph, InventoryConnectors, RightSizing

CONSTANTS
    Now,            \* the detectors' clock
    StaleAfter,     \* how long an identity may go unused
    Escalating,     \* names and actions matchDangerous(Action) accepts; never Star
    Principals      \* the principals of the AWS export

ASSUME ClockAssumption == Now \in Nat /\ StaleAfter \in Nat
ASSUME EscalatingAssumption == Star \notin Escalating
ASSUME UsersAssumption == IAMUsers \subseteq IDs
ASSUME FieldsAssumption ==
    {"type", "source", "owner", "created", "runtime", "attestation"} \subseteq Fields

None == 0
Low == 2
Medium == 3
High == 4
Critical == 5

(* The age of the last use, or where none is known of the identity itself.  *)
Aged(node) ==
    IF node.lastUsed # 0 THEN node.lastUsed + StaleAfter <= Now
    ELSE node.fields["created"] # NoValue /\ AgeOf[node.fields["created"]] >= StaleAfter

StaleNHI(node) ==
    IF IsNHI(node) /\ Aged(node) THEN IF HasAdmin(node) THEN High ELSE Medium ELSE None

OverPrivilegedNHI(node) == IF IsNHI(node) /\ HasAdmin(node) THEN High ELSE None

OrphanedNHI(node) == IF IsNHI(node) /\ node.fields["owner"] = NoValue THEN Low ELSE None

(* It looks at every identity, a human too. *)
LeastPrivilege(node) ==
    LET unused == {p \in node.permissions : ~p.used}
    IN  IF unused = node.permissions \/ unused = {}
        THEN [severity |-> None, unused |-> {}, granted |-> 0]
        ELSE [severity |-> IF \E p \in unused : p.admin THEN High ELSE Medium,
              unused   |-> {p.name : p \in unused},
              granted  |-> Cardinality(node.permissions)]

(* The grants reported, each once: by its name, or by an action it allows. *)
PrivilegeEscalation(node) ==
    {p.name : p \in {q \in node.permissions :
                       IsNHI(node) /\ (q.name \in Escalating \/ q.actions \cap Escalating # {})}}

IsShadow(node) == node.fields["type"] = "mcp_server" /\ node.shadow

ShadowMCP(node) ==
    IF IsShadow(node) THEN IF HasAdmin(node) THEN Critical ELSE High ELSE None

(* The tools of all shadow servers, with what each server says of them. *)
ShadowTools(ids) == UNION {ids[id].permissions : id \in {i \in DOMAIN ids : IsShadow(ids[i])}}

AgentShadowTool(ids, id) ==
    LET node == ids[id]
        matched == {p \in node.permissions : \E t \in ShadowTools(ids) : t.name = p.name}
        risky == \E p \in matched :
                    p.admin \/ \E t \in ShadowTools(ids) : t.name = p.name /\ t.admin
    IN  IF ~IsAgent(node) \/ matched = {} THEN None ELSE IF risky THEN Critical ELSE High

Unattested(node) == node.fields["attestation"] \in {NoValue, "none"}

AttestationMissing(node) ==
    IF IsAgent(node) /\ (node.privileged \/ HasAdmin(node)) /\ Unattested(node) THEN High ELSE None

(* What the Agent-BOM of an agent lacks. *)
BOMIncomplete(node) ==
    {f \in {"owner", "runtime", "attestation"} :
        /\ IsAgent(node)
        /\ IF f = "attestation" THEN Unattested(node) ELSE node.fields[f] = NoValue}

-----------------------------------------------------------------------------
(* Properties. *)

SameType(a, b) == a.fields["type"] = b.fields["type"]

(* A further report about an identity, or about a server it uses, cannot    *)
(* talk a standing-privilege alert down: whatever connector speaks next,    *)
(* poorer or blind, the alerts over the union of what was reported stay at  *)
(* their severity, an owner or runtime once known is not asked for again,   *)
(* and an identity once seen alive is not stale for having been described   *)
(* again.  AddIdentity merges one field at a time; no detector is told.     *)
(* A source that gives an identity, or a server whose tools it uses,        *)
(* another type changes who judges it.                                     *)
VerdictsMoveOneWay ==
    [][(\A id \in DOMAIN identities : SameType(identities[id], identities'[id])) =>
         \A id \in DOMAIN identities :
           LET old == identities[id]
               new == identities'[id]
           IN  /\ OverPrivilegedNHI(old) <= OverPrivilegedNHI(new)
               /\ PrivilegeEscalation(old) \subseteq PrivilegeEscalation(new)
               /\ ShadowMCP(old) <= ShadowMCP(new)
               /\ AgentShadowTool(identities, id) <= AgentShadowTool(identities', id)
               /\ OrphanedNHI(new) <= OrphanedNHI(old)
               /\ BOMIncomplete(new) \ {"attestation"} \subseteq BOMIncomplete(old)
               /\ AttestationMissing(old) # None /\ Unattested(new) => AttestationMissing(new) # None
               /\ old.lastUsed # 0 /\ StaleNHI(old) = None => StaleNHI(new) = None]_vars

(* model.Permission.Used: a grant that any source has once seen in use is   *)
(* never listed for removal, however many inventories without usage data    *)
(* are read afterwards; and the alert that says "recommend revoking"        *)
(* (least_privilege.go) and the diff that revokes (remediate.go), which     *)
(* each work out the unused grants anew, list the same ones or are silent.  *)
RevokesNothingUsed ==
    [][\A id \in DOMAIN identities :
         LET alert == LeastPrivilege(identities'[id])
             diff  == Generate(identities'[id])
         IN  /\ \A p \in identities[id].permissions : p.used => p.name \notin alert.unused
             /\ alert.unused = diff.unused /\ alert.granted = diff.granted]_vars

Defaults(policy) ==
    {i \in DOMAIN policy.versions :
        LET v == policy.versions[i]
        IN  v.readable /\ (v.isDefault \/ v.id = policy.default)}

(* AWS has one version of a policy in force at a time. *)
ASSUME VersionsAssumption ==
    \A arn \in DOMAIN Policies : \A i, j \in Defaults(Policies[arn]) : i \in Nat /\ i = j

(* The statements a principal is under: those of its inline policies and of *)
(* the version in force of each policy attached to it.                      *)
InForceOn(p) ==
    (UNION {in.doc : in \in p.inline}) \cup
    (UNION {UNION {Policies[a.arn].versions[i].doc : i \in Defaults(Policies[a.arn])} :
              a \in {b \in p.attached : b.arn \in DOMAIN Policies}})

(* The store holds all that the connector said of p. *)
Absorbed(p) ==
    /\ p.arn \in DOMAIN identities
    /\ IsNHI(identities[p.arn])
    /\ \A q \in PrincipalToIdentity(p).permissions : \E r \in identities[p.arn].permissions :
          r.name = q.name /\ q.actions \subseteq r.actions /\ (q.admin => r.admin)

(* privilege_escalation.go and awspolicy.go between them: a principal that  *)
(* some statement in force allows an escalation action, or everything on    *)
(* every resource, is reported by privilege_escalation or, being admin, by  *)
(* over_privileged_nhi.  "*" on some resources is left to neither (README). *)
EscalationIsReported ==
    \A p \in Principals :
        (/\ Absorbed(p)
         /\ \E st \in InForceOn(p) :
               /\ st.effect = "Allow"
               /\ st.action \cap Escalating # {} \/ (Star \in st.action /\ st.everyResource))
        => \/ PrivilegeEscalation(identities[p.arn]) # {}
           \/ OverPrivilegedNHI(identities[p.arn]) # None

=============================================================================
