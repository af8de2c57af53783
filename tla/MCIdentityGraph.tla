--------------------------- MODULE MCIdentityGraph ---------------------------
(* A small estate for TLC: an IAM user, a GCP service account, an agent and  *)
(* an MCP server, each described by several exports that see different       *)
(* things about the same grant, or nothing.                                 *)
EXTENDS InventoryDetectors, TLC

CONSTANTS user, account, bot, server,       \* the identities
          l1, l2, l3                        \* log records, l1 and l2 about user

MCSubject == (l1 :> user) @@ (l2 :> user) @@ (l3 :> bot)
MCMarks == {{}, {bot}, {user, bot}}
MCAgeOf == [v \in {"old", "recent"} |-> IF v = "old" THEN 9 ELSE 1]
MCServicesOf == [n \in Names |-> IF n = "s3-deploy" THEN {"s3"}
                                 ELSE IF n = "roles/editor" THEN {"*"} ELSE {}]
MCRoleActions == [n \in Names |-> IF n = "roles/editor" THEN {"actas"} ELSE {}]

Says(effect, actions, not, everywhere) ==
    [effect |-> effect, action |-> actions, notAction |-> not, everyResource |-> everywhere]
Version(id, default, readable, doc) ==
    [id |-> id, isDefault |-> default, readable |-> readable, doc |-> doc]

(* A policy that was widened, and one whose default version is not marked.  *)
MCPolicies ==
    ("arn:deploy" :> [default |-> "v2",
        versions |-> <<Version("v1", FALSE, TRUE, {Says("Allow", {"read"}, {}, TRUE)}),
                       Version("v2", TRUE, TRUE, {Says("Allow", {"read", "passrole"}, {}, FALSE),
                                                  Says("Deny", {Star}, {}, TRUE)})>>]
  @@ "arn:ops" :> [default |-> "v1",
        versions |-> <<Version("v1", FALSE, TRUE, {Says("Allow", {}, {"read"}, TRUE)})>>])

Principal(attached, inline, created, last) ==
    [arn |-> user, owner |-> NoValue, created |-> created, lastUsed |-> last,
     attached |-> attached, inline |-> inline]

MCPrincipals ==
    {Principal({[name |-> "s3-deploy", arn |-> "arn:deploy"]},
               {[name |-> "scoped", doc |-> {Says("Allow", {Star}, {}, FALSE)}]}, "old", 0),
     Principal({[name |-> "s3-deploy", arn |-> "arn:deploy"], [name |-> "scoped", arn |-> "arn:ops"]},
               {}, "old", 0),
     Principal({[name |-> "s3-deploy", arn |-> "arn:unlisted"]}, {}, "recent", 8)}

Agent(owner, runtime, tools, used) ==
    AgentIdentity([id |-> bot, owner |-> owner, runtime |-> runtime, created |-> "old",
                   tools |-> tools, usedTools |-> used])

MCInventory ==
    {PrincipalToIdentity(p) : p \in MCPrincipals}
    \cup {WithUsage(PrincipalToIdentity(p), {"s3"}) : p \in {q \in MCPrincipals : q.lastUsed # 0}}
    \cup {WithUsage(RoleHolder([id |-> account, source |-> "gcp_iam", owner |-> "ops", expiry |-> 0,
                                roles |-> {"roles/editor"}]), called) : called \in {{}, {"s3"}}}
    \cup {Agent("ops", NoValue, {"search", "shell"}, {"search"}),
          Agent(NoValue, "bedrock", {"search", "shell"}, {"shell"}),
          Described(bot, [type |-> "agent", attestation |-> "none"], 0, FALSE, {})}
    \cup {MCPIdentity([id |-> server, owner |-> NoValue, sanctioned |-> known, tools |-> tools]) :
            known \in {FALSE}, tools \in {{"search"}}}
    \cup {MCPIdentity([id |-> server, owner |-> "ops", sanctioned |-> TRUE, tools |-> {"shell"}])}

=============================================================================
