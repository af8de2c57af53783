--------------------------- MODULE ClaimDetectors ---------------------------
(***************************************************************************)
(* The detectors that put side by side what several sources say of one      *)
(* agent: the node of its own name, which Passports, inventories, the bus   *)
(* and egress logs write, the node of the processes that claim its name,    *)
(* which the sensor and the bus write, and those of the processes that      *)
(* claim nothing, which only the sensor writes.  The state is those nodes;  *)
(* the detectors are operators over it.                                    *)
(*                                                                         *)
(* A destination is what matchLLM and isPublicDestination make of it.  An   *)
(* event is seen once whatever its time: a node has a set of them.          *)
(***************************************************************************)
EXTENDS Integers, FiniteSets, FiniteSetsExt

CONSTANTS
    Agents,         \* the agent:// names there are
    Procs,          \* the process names there are
    Providers,      \* what a model API's host is registered under
    ProviderOf,     \* the hosts of model APIs, each with its provider
    PublicHosts, PrivateHosts,  \* the other destinations
    Written,        \* the providers Passports name, as written, in lower case
    Declarations,   \* what a Passport may declare, sets of model entries
    MaxReports      \* bound: what the sources report

Models == DOMAIN ProviderOf
Destinations == Models \cup PublicHosts \cup PrivateHosts

(* A declaration without a provider is dropped where it is read              *)
(* (passport.go:59).                                                        *)
ASSUME DestinationsAssumption ==
    /\ ProviderOf \in [Models -> Providers] /\ "" \notin Providers \cup Written \cup Models
    /\ Models \cap (PublicHosts \cup PrivateHosts) = {} /\ PublicHosts \cap PrivateHosts = {}
    /\ \A d \in Declarations : d \subseteq [provider : Written, endpoint : Models \cup {""}]
ASSUME ReportsAssumption == MaxReports \in Nat

Own(a) == <<"own", a>>
Claimed(a) == <<"claimed", a>>
Proc(p) == <<"proc", p>>

EstablishedIDs == {Own(a) : a \in Agents}
ClaimedIDs == {Claimed(a) : a \in Agents}
ProcIDs == {Proc(p) : p \in Procs}
IDs == EstablishedIDs \cup ClaimedIDs \cup ProcIDs

Egress(to) == [type |-> "egress", source |-> "", to |-> to]
BusEvents == [type : {"web_blocked", "other"}, source : {"scopyx", "another"}, to : {""}]

VARIABLES
    nodes,      \* the identities of the graph, by ID
    reports     \* how many reports there were

vars == <<nodes, reports>>

NewNode ==
    [agent |-> FALSE, source |-> "", declared |-> {}, attestation |-> "", admin |-> FALSE,
     events |-> {}]

Node(id) == IF id \in DOMAIN nodes THEN nodes[id] ELSE NewNode

(* ensure, and one field or event more. *)
Put(id, node) ==
    /\ reports < MaxReports
    /\ reports' = reports + 1
    /\ nodes' = [i \in DOMAIN nodes \cup {id} |-> IF i = id THEN node ELSE nodes[i]]

Init == nodes = <<>> /\ reports = 0

LoadPassport(a, declared, attestation) ==
    Put(Own(a), [Node(Own(a)) EXCEPT
                    !.agent = TRUE, !.source = "passport",
                    !.declared = IF declared # {} THEN declared ELSE @,
                    !.attestation = IF attestation # "" THEN attestation ELSE @])

(* An inventory that lists the agent, with or without an admin grant. *)
LoadInventory(a, admin) ==
    Put(Own(a), [Node(Own(a)) EXCEPT !.agent = TRUE, !.source = "another", !.admin = @ \/ admin])

(* A line about a claimed name goes to that node, which is no agent. *)
BusEvent(id, e) ==
    Put(id, [Node(id) EXCEPT !.agent = id \notin ClaimedIDs, !.source = "another", !.events = @ \cup {e}])

EgressLog(a, to) ==
    Put(Own(a), [Node(Own(a)) EXCEPT !.events = @ \cup {Egress(to)}])

SensorFlow(id, to) ==
    Put(id, [Node(id) EXCEPT !.events = @ \cup {Egress(to)}])

Next ==
    \/ \E a \in Agents :
         \/ \E d \in Declarations, t \in {"", "none", "bound"} : LoadPassport(a, d, t)
         \/ \E admin \in BOOLEAN : LoadInventory(a, admin)
         \/ \E to \in Destinations : EgressLog(a, to)
    \/ \E id \in EstablishedIDs \cup ClaimedIDs, e \in BusEvents : BusEvent(id, e)
    \/ \E id \in ClaimedIDs \cup ProcIDs, to \in Destinations : SensorFlow(id, to)

Spec == Init /\ [][Next]_vars

-----------------------------------------------------------------------------
Info == 0
Medium == 2
High == 3
Critical == 4

Alert(detector, id, severity) == [detector |-> detector, id |-> id, severity |-> severity]

Seen(ids) == ids \cap DOMAIN nodes
EgressOf(id) == {e.to : e \in {x \in Node(id).events : x.type = "egress"}}
ModelsOf(id) == EgressOf(id) \cap Models

-----------------------------------------------------------------------------
Known(a) == Own(a) \in DOMAIN nodes

ClaimedAgentUnknown ==
    {Alert("claimed_agent_unknown", Claimed(a),
           IF ModelsOf(Claimed(a)) # {} THEN Critical ELSE High) :
       a \in {b \in Agents : Claimed(b) \in DOMAIN nodes /\ ~Known(b)}}

(* What a declaration covers, of the models that were reached. *)
Undeclared(reached, declared) ==
    {m \in reached : \A d \in declared : d.provider # ProviderOf[m] /\ d.endpoint # m}

Drifting(a) == Undeclared(ModelsOf(Claimed(a)), Node(Own(a)).declared)

ClaimedAgentDrift ==
    {Alert("claimed_agent_drift", Claimed(a), High) :
       a \in {b \in Agents : /\ Claimed(b) \in DOMAIN nodes
                             /\ Node(Own(b)).declared # {} /\ Drifting(b) # {}}}

UndeclaredLLM ==
    {Alert("undeclared_llm", id, IF nodes[id].admin THEN Critical ELSE High) :
       id \in {i \in DOMAIN nodes : /\ nodes[i].agent /\ nodes[i].declared # {}
                                    /\ Undeclared(ModelsOf(i), nodes[i].declared) # {}}}

-----------------------------------------------------------------------------
CarriesBusEvidence ==
    \E id \in DOMAIN nodes \ ClaimedIDs : \E e \in nodes[id].events : e.source # ""

(* Nothing but the claim carries the name. *)
Unspoken(a) == Node(Own(a)).events = {}

ClaimedAgentUnattested ==
    {Alert("claimed_agent_unattested", Claimed(a), IF Node(Own(a)).admin THEN High ELSE Medium) :
       a \in {b \in Agents : /\ CarriesBusEvidence
                             /\ Node(Own(b)).attestation \notin {"", "none"}
                             /\ Claimed(b) \in DOMAIN nodes /\ Unspoken(b)}}

-----------------------------------------------------------------------------
(* unrouted_egress. *)

Journal(a) == {e \in Node(Own(a)).events : e.source = "scopyx"}
Governed == {a \in Agents : Journal(a) # {}}
Refused(a) == \E e \in Journal(a) : e.type = "web_blocked"

CarriesSensorEvidence == Seen(ClaimedIDs \cup ProcIDs) # {}

(* Mutant: a model API ends the split. *)
PublicOf_stops(id) == IF ModelsOf(id) # {} THEN {} ELSE EgressOf(id) \cap PublicHosts

PublicOf(id) == EgressOf(id) \cap PublicHosts

Verdict(a) ==
    IF Claimed(a) \notin DOMAIN nodes THEN {Alert("unrouted_egress", Own(a), Info)}
    ELSE {Alert("unrouted_egress", Claimed(a),
                IF PublicOf(Claimed(a)) = {} THEN Info ELSE IF Refused(a) THEN High ELSE Medium)}

UnroutedEgress ==
    IF CarriesSensorEvidence THEN UNION {Verdict(a) : a \in Governed} ELSE {}

-----------------------------------------------------------------------------
(* Mutant: only what is known to be an agent is looked at. *)
ShadowAI_agents ==
    {Alert("shadow_ai", id, High) : id \in {i \in DOMAIN nodes : nodes[i].agent /\ ModelsOf(i) # {}}}

ShadowAI ==
    {Alert("shadow_ai", id, IF nodes[id].agent THEN High ELSE Medium) :
       id \in {i \in DOMAIN nodes : ModelsOf(i) # {}}}

UnmanagedEgress ==
    {Alert("unmanaged_egress", id, IF ModelsOf(id) # {} THEN High ELSE Medium) :
       id \in {i \in Seen(ProcIDs) : EgressOf(i) # {}}}

Alerts == UNION {ClaimedAgentUnknown, ClaimedAgentDrift, UndeclaredLLM, ClaimedAgentUnattested,
                 UnroutedEgress, ShadowAI, UnmanagedEgress}

-----------------------------------------------------------------------------
NodeRecord ==
    [agent : BOOLEAN, source : {"", "passport", "another"}, declared : Declarations \cup {{}},
     attestation : {"", "none", "bound"}, admin : BOOLEAN,
     events : SUBSET ({Egress(to) : to \in Destinations} \cup BusEvents)]

(* Type correctness: what the connectors of an estate do not write is no    *)
(* agent and carries none of their fields.                                  *)
TypeOK ==
    /\ DOMAIN nodes \subseteq IDs /\ nodes \in [DOMAIN nodes -> NodeRecord]
    /\ reports \in 0..MaxReports
    /\ \A id \in DOMAIN nodes : nodes[id].declared # {} => nodes[id].agent
    /\ \A id \in DOMAIN nodes \ EstablishedIDs :
         /\ ~nodes[id].agent /\ ~nodes[id].admin
         /\ nodes[id].declared = {} /\ nodes[id].attestation = ""

About(a, names) == {x \in Alerts : x.id \in {Own(a), Claimed(a)} /\ x.detector \in names}

(* Once the sensor ran, every governed agent is judged, and once.  What it  *)
(* is seen to reach directly is found: public hosts by unrouted_egress, the *)
(* model APIs that one leaves out by shadow_ai.                            *)
(* Taking the name off does not hide it: under the name of its process a    *)
(* flow to either is found at medium or above (unrouted_egress.go, what is  *)
(* deliberately not judged, and what it cannot see).                        *)
DirectEgressIsFound ==
    /\ \A a \in Governed :
         /\ CarriesSensorEvidence => Cardinality(About(a, {"unrouted_egress"})) = 1
         /\ EgressOf(Claimed(a)) \cap PublicHosts # {}
              => \E x \in About(a, {"unrouted_egress"}) : x.severity >= Medium
         /\ ModelsOf(Claimed(a)) # {}
              => \E x \in About(a, {"shadow_ai"}) : x.id = Claimed(a) /\ x.severity >= Medium
    /\ \A id \in Seen(ProcIDs) : EgressOf(id) \cap (PublicHosts \cup Models) # {}
         => \E x \in Alerts : x.id = id /\ x.severity >= Medium

SeverityAbout(detector, a) ==
    Max({-1} \cup {x.severity : x \in About(a, {detector})})

(* Seeing more of an agent's connections never lowers or withdraws what any *)
(* detector says of it.                                                     *)
SensorNeverSilences ==
    [][(\E id \in ClaimedIDs \cup ProcIDs, to \in Destinations : SensorFlow(id, to)) =>
         \A a \in Agents :
           \A d \in {"claimed_agent_unknown", "claimed_agent_drift", "claimed_agent_unattested",
                     "undeclared_llm", "unrouted_egress", "shadow_ai"} :
             SeverityAbout(d, a)' >= SeverityAbout(d, a)]_vars
=============================================================================
