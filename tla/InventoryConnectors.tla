-------------------------- MODULE InventoryConnectors --------------------------
(***************************************************************************)
(* The inventory connectors of internal/ingest: what aws_iam (awsiam.go,   *)
(* awspolicy.go), gcp_iam, azure, agents and mcp hand to AddIdentity for   *)
(* one principal, agent or server of their export.                         *)
(*                                                                         *)
(* Names are members of small sets, so the tests the code makes on a name  *)
(* (is it an admin policy, a high-risk tool, which services does it name)  *)
(* and the hand-kept role tables are constants.  A policy document is the  *)
(* set of its statements: their order decides only the order of actions.   *)
(***************************************************************************)
EXTENDS Naturals, Sequences, IdentityModel

CONSTANTS
    Star,           \* the action "*"
    AdminNames,     \* policies and roles that are admin by their name or ARN
    HighRisk,       \* tools whose name isHighRiskTool accepts
    RoleActions,    \* the escalation actions each role is known to contain
    ServicesOf,     \* the services each grant's name is read as, "*" for all
    Policies        \* the managed policies of the AWS export, by ARN

ASSUME NamesAssumption ==
    /\ Star \in Actions
    /\ AdminNames \cup HighRisk \subseteq Names
    /\ RoleActions \in [Names -> SUBSET Actions]

Statement == [effect : {"Allow", "Deny"}, action : SUBSET Actions, notAction : SUBSET Actions,
              everyResource : BOOLEAN]

(* The fields a connector fills, the others empty; Privileged is HasAdmin. *)
Described(id, filled, lastUsed, shadow, permissions) ==
    [id          |-> id,
     fields      |-> [f \in Fields |-> IF f \in DOMAIN filled THEN filled[f] ELSE NoValue],
     lastUsed    |-> lastUsed,
     privileged  |-> HasAdmin([permissions |-> permissions]),
     shadow      |-> shadow,
     permissions |-> permissions]

-----------------------------------------------------------------------------
(* aws_iam *)

PolicyEffect(doc) ==
    LET allow == {st \in doc : st.effect = "Allow"}
    IN  [actions |-> UNION {st.action : st \in allow},
         admin   |-> \E st \in allow :
                        st.everyResource /\ (Star \in st.action \/ st.notAction # {})]

(* Mutant: the first version listed is taken for the one in force. *)
InForce_first(policy) == IF policy.versions = <<>> THEN {} ELSE policy.versions[1].doc

(* managedPolicyIndex: the first readable version that is the default one.  *)
(* A policy with none grants nothing that is known.                        *)
InForce(policy) ==
    LET default == {i \in DOMAIN policy.versions :
                      LET v == policy.versions[i]
                      IN  v.readable /\ (v.isDefault \/ v.id = policy.default)}
    IN  IF default = {} THEN {}
        ELSE policy.versions[CHOOSE i \in default : \A j \in default : i <= j].doc

AttachedGrant(a) ==
    LET effect == IF a.arn \in DOMAIN Policies THEN PolicyEffect(InForce(Policies[a.arn]))
                  ELSE PolicyEffect({})
    IN  [name |-> a.name, admin |-> a.name \in AdminNames \/ effect.admin, used |-> FALSE,
         actions |-> effect.actions]

InlineGrant(in) ==
    LET effect == PolicyEffect(in.doc)
    IN  [name |-> in.name, admin |-> in.name \in AdminNames \/ effect.admin, used |-> FALSE,
         actions |-> effect.actions]

PrincipalToIdentity(p) ==
    Described(p.arn,
              [type |-> "service_account", source |-> "aws_iam", owner |-> p.owner,
               created |-> p.created],
              p.lastUsed, FALSE,
              {AttachedGrant(a) : a \in p.attached} \cup {InlineGrant(in) : in \in p.inline})

(* AWSSIAMWithUsage and GCPIAMWithUsage: called is the set of services the  *)
(* principal was seen to call.                                             *)
WithUsage(in, called) ==
    [in EXCEPT !.permissions =
        {[p EXCEPT !.used = @ \/ ServicesOf[p.name] \cap called # {}
                              \/ ("*" \in ServicesOf[p.name] /\ called # {})] : p \in @}]

-----------------------------------------------------------------------------
(* gcp_iam and azure bind roles, agents and mcp list tools. *)

RoleGrant(role) ==
    [name |-> role, admin |-> role \in AdminNames, used |-> FALSE, actions |-> RoleActions[role]]

(* Neither export has a creation date; azure gives the latest expiry of a   *)
(* secret for LastUsed, gcp_iam nothing.                                   *)
RoleHolder(h) ==
    Described(h.id, [type |-> "service_account", source |-> h.source, owner |-> h.owner],
              h.expiry, FALSE, {RoleGrant(role) : role \in h.roles})

ToolGrant(tool, used) ==
    [name |-> tool, admin |-> tool \in HighRisk, used |-> used, actions |-> {}]

AgentIdentity(a) ==
    Described(a.id, [type |-> "agent", source |-> "agents", owner |-> a.owner,
                     runtime |-> a.runtime, created |-> a.created],
              0, FALSE, {ToolGrant(tool, tool \in a.usedTools) : tool \in a.tools})

MCPIdentity(s) ==
    Described(s.id, [type |-> "mcp_server", source |-> "mcp", owner |-> s.owner],
              0, ~s.sanctioned, {ToolGrant(tool, FALSE) : tool \in s.tools})

=============================================================================
