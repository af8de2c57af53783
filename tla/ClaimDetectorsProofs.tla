------------------------ MODULE ClaimDetectorsProofs ------------------------
(***************************************************************************)
(* Proofs about ClaimDetectors and AIUsage, for every estate: the nodes are *)
(* well typed, no direct egress is left between two detectors, the report   *)
(* agrees with them, and nothing the sensor adds takes an alert back.       *)
(***************************************************************************)
EXTENDS AIUsage, FiniteSetTheorems, TLAPS

LEMMA NewNodeIsANode == NewNode \in NodeRecord /\ \A id \in IDs : TypeOK => Node(id) \in NodeRecord
  BY DEF NewNode, NodeRecord, Node, TypeOK

LEMMA OneMore == ASSUME NEW m \in Nat, NEW n \in 0..m, n < m PROVE n + 1 \in 0..m
  OBVIOUS

(* One report more: what Put keeps, given what it is handed. *)
LEMMA PuttingKeepsTypes ==
    ASSUME TypeOK, NEW id \in IDs, NEW node \in NodeRecord, Put(id, node),
           node.declared # {} => node.agent,
           id \notin EstablishedIDs =>
             ~node.agent /\ ~node.admin /\ node.declared = {} /\ node.attestation = ""
    PROVE  TypeOK'
<1>1. /\ DOMAIN nodes' = DOMAIN nodes \cup {id}
      /\ \A i \in DOMAIN nodes' : nodes'[i] = IF i = id THEN node ELSE nodes[i]
      /\ nodes' = [i \in DOMAIN nodes' |-> nodes'[i]]
  BY DEF Put
<1>2. reports' \in 0..MaxReports
  <2>1. MaxReports \in Nat /\ reports \in 0..MaxReports /\ reports < MaxReports /\ reports' = reports + 1
    BY ReportsAssumption DEF TypeOK, Put
  <2> QED BY <2>1, OneMore
<1>3. \A i \in DOMAIN nodes' : nodes'[i] \in NodeRecord
  BY <1>1 DEF TypeOK
<1>4. DOMAIN nodes' \subseteq IDs /\ nodes' \in [DOMAIN nodes' -> NodeRecord]
  BY <1>1, <1>3 DEF TypeOK
<1>5. \A i \in DOMAIN nodes' : nodes'[i].declared # {} => nodes'[i].agent
  BY <1>1 DEF TypeOK
<1>6. \A i \in DOMAIN nodes' \ EstablishedIDs :
        /\ ~nodes'[i].agent /\ ~nodes'[i].admin
        /\ nodes'[i].declared = {} /\ nodes'[i].attestation = ""
  BY <1>1 DEF TypeOK
<1> QED BY <1>2, <1>4, <1>5, <1>6 DEF TypeOK

LEMMA StepKeepsTypes == TypeOK /\ [Next]_vars => TypeOK'
<1> SUFFICES ASSUME TypeOK, [Next]_vars PROVE TypeOK'
  OBVIOUS
<1>0. \A a \in Agents : Own(a) \in IDs /\ Own(a) \in EstablishedIDs
  BY DEF IDs, EstablishedIDs
<1>1. CASE \E a \in Agents, d \in Declarations, t \in {"", "none", "bound"} : LoadPassport(a, d, t)
  <2> PICK a \in Agents, d \in Declarations, t \in {"", "none", "bound"} : LoadPassport(a, d, t)
    BY <1>1
  <2> DEFINE node == [Node(Own(a)) EXCEPT !.agent = TRUE, !.source = "passport",
                         !.declared = IF d # {} THEN d ELSE @,
                         !.attestation = IF t # "" THEN t ELSE @]
  <2>1. Node(Own(a)) \in NodeRecord
    BY <1>0, NewNodeIsANode
  <2>2. node \in NodeRecord /\ node.agent
    BY <2>1 DEF NodeRecord
  <2> QED BY <1>0, <2>2, PuttingKeepsTypes DEF LoadPassport
<1>2. CASE \E a \in Agents, admin \in BOOLEAN : LoadInventory(a, admin)
  <2> PICK a \in Agents, admin \in BOOLEAN : LoadInventory(a, admin)
    BY <1>2
  <2> DEFINE node == [Node(Own(a)) EXCEPT !.agent = TRUE, !.source = "another", !.admin = @ \/ admin]
  <2>1. Node(Own(a)) \in NodeRecord
    BY <1>0, NewNodeIsANode
  <2>2. node \in NodeRecord /\ node.agent
    BY <2>1 DEF NodeRecord
  <2> QED BY <1>0, <2>2, PuttingKeepsTypes DEF LoadInventory
<1>3. CASE \E a \in Agents, to \in Destinations : EgressLog(a, to)
  <2> PICK a \in Agents, to \in Destinations : EgressLog(a, to)
    BY <1>3
  <2> DEFINE node == [Node(Own(a)) EXCEPT !.events = @ \cup {Egress(to)}]
  <2>1. Node(Own(a)) \in NodeRecord
    BY <1>0, NewNodeIsANode
  <2>2. Node(Own(a)).declared # {} => Node(Own(a)).agent
    BY DEF TypeOK, Node, NewNode
  <2>3. node \in NodeRecord /\ (node.declared # {} => node.agent)
    BY <2>1, <2>2 DEF NodeRecord
  <2> QED BY <1>0, <2>3, PuttingKeepsTypes DEF EgressLog
<1>4. CASE \E id \in EstablishedIDs \cup ClaimedIDs, e \in BusEvents : BusEvent(id, e)
  <2> PICK id \in EstablishedIDs \cup ClaimedIDs, e \in BusEvents : BusEvent(id, e)
    BY <1>4
  <2> DEFINE node == [Node(id) EXCEPT !.agent = id \notin ClaimedIDs, !.source = "another",
                                      !.events = @ \cup {e}]
  <2>1. id \in IDs /\ Node(id) \in NodeRecord
    BY NewNodeIsANode DEF IDs
  <2>2. node \in NodeRecord
    BY <2>1 DEF NodeRecord
  <2>3. CASE id \in EstablishedIDs
    <3>1. id \notin ClaimedIDs
      BY <2>3 DEF EstablishedIDs, ClaimedIDs, Own, Claimed
    <3>2. node.agent
      BY <2>1, <3>1 DEF NodeRecord
    <3> QED BY <2>1, <2>2, <2>3, <3>2, PuttingKeepsTypes DEF BusEvent
  <2>4. CASE id \in ClaimedIDs
    <3>1. id \notin EstablishedIDs
      BY <2>4 DEF EstablishedIDs, ClaimedIDs, Own, Claimed
    <3>2. /\ ~Node(id).admin /\ Node(id).declared = {} /\ Node(id).attestation = ""
      BY <3>1 DEF TypeOK, Node, NewNode
    <3>3. ~node.agent /\ ~node.admin /\ node.declared = {} /\ node.attestation = ""
      BY <2>1, <2>4, <3>2 DEF NodeRecord
    <3> QED BY <2>1, <2>2, <3>3, PuttingKeepsTypes DEF BusEvent
  <2> QED BY <2>3, <2>4
<1>5. CASE \E id \in ClaimedIDs \cup ProcIDs, to \in Destinations : SensorFlow(id, to)
  <2> PICK id \in ClaimedIDs \cup ProcIDs, to \in Destinations : SensorFlow(id, to)
    BY <1>5
  <2> DEFINE node == [Node(id) EXCEPT !.events = @ \cup {Egress(to)}]
  <2>1. id \in IDs /\ id \notin EstablishedIDs /\ Node(id) \in NodeRecord
    BY NewNodeIsANode DEF IDs, EstablishedIDs, ClaimedIDs, ProcIDs, Own, Claimed, Proc
  <2>2. ~Node(id).agent /\ ~Node(id).admin /\ Node(id).declared = {} /\ Node(id).attestation = ""
    BY <2>1 DEF TypeOK, Node, NewNode
  <2>3. node \in NodeRecord /\ ~node.agent /\ ~node.admin /\ node.declared = {} /\ node.attestation = ""
    BY <2>1, <2>2 DEF NodeRecord
  <2> QED BY <2>1, <2>3, PuttingKeepsTypes DEF SensorFlow
<1>6. CASE UNCHANGED vars
  BY <1>6 DEF vars, TypeOK, NodeRecord
<1> QED BY <1>1, <1>2, <1>3, <1>4, <1>5, <1>6 DEF Next

(* Type correctness: only Passports, inventories and the bus make a node an *)
(* agent (store.go, AddIdentity), and a process's node is none.            *)
THEOREM TypeCorrect == Spec => []TypeOK
<1>1. Init => TypeOK
  BY ReportsAssumption DEF Init, TypeOK
<1> QED BY <1>1, StepKeepsTypes, PTL DEF Spec

-----------------------------------------------------------------------------
(* An alert names the detector it is from. *)
LEMMA EachNamesItself ==
    /\ \A x \in ClaimedAgentUnknown : x.detector = "claimed_agent_unknown"
    /\ \A x \in ClaimedAgentDrift : x.detector = "claimed_agent_drift"
    /\ \A x \in UndeclaredLLM : x.detector = "undeclared_llm"
    /\ \A x \in ClaimedAgentUnattested : x.detector = "claimed_agent_unattested"
    /\ \A x \in UnroutedEgress : x.detector = "unrouted_egress"
    /\ \A x \in ShadowAI : x.detector = "shadow_ai"
    /\ \A x \in UnmanagedEgress : x.detector = "unmanaged_egress"
<1>1. \A d, i, s : Alert(d, i, s).detector = d
  BY DEF Alert
<1>2. \A a \in Agents : \A x \in Verdict(a) : x.detector = "unrouted_egress"
  BY <1>1 DEF Verdict
<1>3. \A x \in UnroutedEgress : x.detector = "unrouted_egress"
  BY <1>2 DEF UnroutedEgress, Governed
<1>4. /\ \A x \in ClaimedAgentUnknown : x.detector = "claimed_agent_unknown"
      /\ \A x \in ClaimedAgentDrift : x.detector = "claimed_agent_drift"
      /\ \A x \in UndeclaredLLM : x.detector = "undeclared_llm"
  BY <1>1 DEF ClaimedAgentUnknown, ClaimedAgentDrift, UndeclaredLLM
<1>5. \A x \in ClaimedAgentUnattested : x.detector = "claimed_agent_unattested"
  <2>1. \A x \in ClaimedAgentUnattested : \E a \in Agents :
          x = Alert("claimed_agent_unattested", Claimed(a), IF Node(Own(a)).admin THEN High ELSE Medium)
    BY Zenon DEF ClaimedAgentUnattested
  <2> QED BY <1>1, <2>1
<1>6. /\ \A x \in ShadowAI : x.detector = "shadow_ai"
      /\ \A x \in UnmanagedEgress : x.detector = "unmanaged_egress"
  BY <1>1 DEF ShadowAI, UnmanagedEgress
<1> QED BY <1>3, <1>4, <1>5, <1>6

LEMMA WhatFlagsShadowAI ==
    \A id \in DOMAIN nodes : Flagged("shadow_ai", id) <=> ModelsOf(id) # {}
<1> TAKE id \in DOMAIN nodes
<1>1. Flagged("shadow_ai", id) <=> \E x \in ShadowAI : x.id = id
  BY EachNamesItself DEF Flagged, Alerts
<1>2. \A d, i, s : Alert(d, i, s).id = i
  BY DEF Alert
<1>3. (\E x \in ShadowAI : x.id = id) <=> ModelsOf(id) # {}
  BY <1>2 DEF ShadowAI
<1> QED BY <1>1, <1>3

LEMMA WhatFlagsUndeclared ==
    \A id \in DOMAIN nodes :
       Flagged("undeclared_llm", id)
         <=> nodes[id].agent /\ nodes[id].declared # {}
             /\ Undeclared(ModelsOf(id), nodes[id].declared) # {}
<1> TAKE id \in DOMAIN nodes
<1>1. Flagged("undeclared_llm", id) <=> \E x \in UndeclaredLLM : x.id = id
  BY EachNamesItself DEF Flagged, Alerts
<1>2. \A d, i, s : Alert(d, i, s).id = i
  BY DEF Alert
<1>3. (\E x \in UndeclaredLLM : x.id = id)
        <=> /\ nodes[id].agent /\ nodes[id].declared # {}
            /\ Undeclared(ModelsOf(id), nodes[id].declared) # {}
  BY <1>2 DEF UndeclaredLLM
<1> QED BY <1>1, <1>3

-----------------------------------------------------------------------------
(* The rows of subjects, by what they hold. *)

IsDeclared(id, p) == p \in DeclaredOf(id) \/ CoveredByEndpoint(id, p)
SeenHow(id, p) == IF p \in SeenOf(id) THEN "egress" ELSE NotReached(id)
Named(id) == DeclaredOf(id) \cup SeenOf(id)

(* A row of id and p holds what they call for. *)
IsARowOf(r, id, p) ==
    /\ r.subject = id /\ r.provider = p
    /\ (r.declared <=> IsDeclared(id, p)) /\ r.seen = SeenHow(id, p)
    /\ r.gap = "seen_not_declared" <=> ~IsDeclared(id, p) /\ DeclaredOf(id) # {}
    /\ r.gap = "seen_no_declaration" <=> ~IsDeclared(id, p) /\ DeclaredOf(id) = {}

LEMMA WhatARowHolds ==
    ASSUME NEW scan, NEW id, NEW p
    PROVE  IsARowOf(SubjectRow(id, p, scan), id, p)
<1> DEFINE r == SubjectRow(id, p, scan)
<1>1. /\ r.subject = id /\ r.provider = p /\ r.seen = SeenHow(id, p)
      /\ r.declared <=> IsDeclared(id, p)
  BY DEF SubjectRow, IsDeclared, SeenHow
<1>2. /\ r.gap = "seen_not_declared" <=> ~IsDeclared(id, p) /\ DeclaredOf(id) # {}
      /\ r.gap = "seen_no_declaration" <=> ~IsDeclared(id, p) /\ DeclaredOf(id) = {}
  <2>1. CASE IsDeclared(id, p)
    BY <2>1 DEF SubjectRow, IsDeclared, Gap
  <2>2. CASE ~IsDeclared(id, p)
    BY <2>2 DEF SubjectRow, IsDeclared, Gap
  <2> QED BY <2>1, <2>2
<1> QED BY <1>1, <1>2, Zenon DEF IsARowOf

LEMMA WhatAnEmptyRowHolds ==
    ASSUME NEW id
    PROVE  /\ EmptyRow(id).subject = id /\ EmptyRow(id).provider = "" /\ ~EmptyRow(id).declared
           /\ EmptyRow(id).seen = NotReached(id)
           /\ EmptyRow(id).gap \notin {"seen_not_declared", "seen_no_declaration"}
  BY DEF EmptyRow

LEMMA NotReachedIsNotEgress == \A id : NotReached(id) # "egress"
  BY DEF NotReached

LEMMA WhichRowsThereAre ==
    ASSUME NEW scan, NEW r
    PROVE  r \in SubjectRows(scan) <=>
             \/ \E id \in DOMAIN nodes : \E p \in Named(id) : r = SubjectRow(id, p, scan)
             \/ \E id \in DOMAIN nodes : nodes[id].agent /\ Named(id) = {} /\ r = EmptyRow(id)
<1> DEFINE pairs == UNION {{id} \X Named(id) : id \in DOMAIN nodes}
<1>1. \A id \in DOMAIN nodes : \A p \in Named(id) : <<id, p>> \in pairs
  OBVIOUS
<1>2. \A x \in pairs : x[1] \in DOMAIN nodes /\ x[2] \in Named(x[1])
  OBVIOUS
<1>3. SubjectRows(scan) =
        {SubjectRow(x[1], x[2], scan) : x \in pairs}
        \cup {EmptyRow(id) : id \in {i \in DOMAIN nodes : nodes[i].agent /\ Named(i) = {}}}
  BY DEF SubjectRows, Named
<1> HIDE DEF pairs
<1>4. (\E x \in pairs : r = SubjectRow(x[1], x[2], scan))
        <=> \E id \in DOMAIN nodes : \E p \in Named(id) : r = SubjectRow(id, p, scan)
  <2>1. ASSUME NEW id \in DOMAIN nodes, NEW p \in Named(id), r = SubjectRow(id, p, scan)
        PROVE  \E x \in pairs : r = SubjectRow(x[1], x[2], scan)
    <3>1. <<id, p>> \in pairs /\ <<id, p>>[1] = id /\ <<id, p>>[2] = p
      BY <1>1
    <3> QED BY <2>1, <3>1
  <2> QED BY <1>2, <2>1
<1> QED BY <1>3, <1>4

IsAnEmptyRow(r) ==
    /\ nodes[r.subject].agent /\ Named(r.subject) = {}
    /\ r.provider = "" /\ ~r.declared /\ r.seen # "egress"
    /\ r.gap \notin {"seen_not_declared", "seen_no_declaration"}

LEMMA EveryRow ==
    ASSUME NEW scan, NEW r \in SubjectRows(scan)
    PROVE  /\ r.subject \in DOMAIN nodes
           /\ \/ r.provider \in Named(r.subject) /\ IsARowOf(r, r.subject, r.provider)
              \/ IsAnEmptyRow(r)
<1>1. CASE \E i \in DOMAIN nodes : \E p \in Named(i) : r = SubjectRow(i, p, scan)
  <2> PICK i \in DOMAIN nodes : \E p \in Named(i) : r = SubjectRow(i, p, scan)
    BY <1>1
  <2> PICK p \in Named(i) : r = SubjectRow(i, p, scan)
    OBVIOUS
  <2>1. IsARowOf(SubjectRow(i, p, scan), i, p)
    BY WhatARowHolds
  <2>2. r.subject = i /\ r.provider = p
    BY <2>1 DEF IsARowOf
  <2> QED BY <2>1, <2>2
<1>2. CASE \E i \in DOMAIN nodes : nodes[i].agent /\ Named(i) = {} /\ r = EmptyRow(i)
  <2> PICK i \in DOMAIN nodes : nodes[i].agent /\ Named(i) = {} /\ r = EmptyRow(i)
    BY <1>2
  <2>1. /\ EmptyRow(i).subject = i /\ EmptyRow(i).provider = "" /\ ~EmptyRow(i).declared
        /\ EmptyRow(i).seen # "egress"
        /\ EmptyRow(i).gap \notin {"seen_not_declared", "seen_no_declaration"}
    BY WhatAnEmptyRowHolds, NotReachedIsNotEgress
  <2> QED BY <2>1 DEF IsAnEmptyRow
<1> QED BY <1>1, <1>2, WhichRowsThereAre

LEMMA EveryPair ==
    ASSUME NEW scan, NEW id \in DOMAIN nodes, NEW p \in Named(id)
    PROVE  \E r \in SubjectRows(scan) : IsARowOf(r, id, p)
<1>1. SubjectRow(id, p, scan) \in SubjectRows(scan)
  BY WhichRowsThereAre
<1>2. IsARowOf(SubjectRow(id, p, scan), id, p)
  BY WhatARowHolds
<1> QED BY <1>1, <1>2

(* How a row reads off the declaration and what was reached. *)
LEMMA SeenHowIsEgress == \A id, p : SeenHow(id, p) = "egress" <=> p \in SeenOf(id)
  BY NotReachedIsNotEgress DEF SeenHow

LEMMA WhatIsNotCovered ==
    ASSUME NEW id, NEW p
    PROVE  ~IsDeclared(id, p) /\ p \in SeenOf(id)
             <=> p \notin DeclaredOf(id)
                 /\ \E m \in ModelsOf(id) : ProviderOf[m] = p /\ m \notin EndpointsOf(id)
  BY DEF IsDeclared, CoveredByEndpoint, HostsOf, SeenOf

(* The first conjunct: shadow_ai and the column "seen". *)
LEMMA SeenAgrees ==
    ASSUME NEW scan, NEW id \in DOMAIN nodes
    PROVE  Flagged("shadow_ai", id)
             <=> \E r \in SubjectRows(scan) : r.subject = id /\ r.seen = "egress"
<1>1. Flagged("shadow_ai", id) <=> SeenOf(id) # {}
  BY WhatFlagsShadowAI DEF SeenOf
<1>2. ASSUME NEW p \in SeenOf(id)
      PROVE  \E r \in SubjectRows(scan) : r.subject = id /\ r.seen = "egress"
  BY EveryPair, SeenHowIsEgress DEF Named, IsARowOf
<1>3. ASSUME NEW r \in SubjectRows(scan), r.subject = id, r.seen = "egress"
      PROVE  SeenOf(id) # {}
  BY <1>3, EveryRow, SeenHowIsEgress DEF IsARowOf, IsAnEmptyRow
<1> QED BY <1>1, <1>2, <1>3

(* The second: undeclared_llm and the gap of a declaration that falls short. *)
LEMMA DeclaredAgrees ==
    ASSUME TypeOK, NEW scan, NEW id \in DOMAIN nodes, AsRegistered(id)
    PROVE  Flagged("undeclared_llm", id)
             <=> \E r \in SubjectRows(scan) : r.subject = id /\ r.gap = "seen_not_declared"
<1> DEFINE short(p) == p \in SeenOf(id) /\ ~IsDeclared(id, p) /\ DeclaredOf(id) # {}
<1>1. /\ nodes[id] \in NodeRecord /\ Node(id) = nodes[id]
      /\ nodes[id].declared # {} => nodes[id].agent
  BY DEF TypeOK, Node
<1>2. \A d \in nodes[id].declared : d.provider \in Written /\ d.provider # ""
  <2>1. nodes[id].declared \in Declarations \cup {{}}
    BY <1>1 DEF NodeRecord
  <2>2. nodes[id].declared \subseteq [provider : Written, endpoint : Models \cup {""}]
    BY <2>1, DestinationsAssumption
  <2> QED BY <2>2, DestinationsAssumption
<1>3. /\ Entries(id) = nodes[id].declared
      /\ DeclaredOf(id) = {d.provider : d \in nodes[id].declared}
      /\ EndpointsOf(id) = {d.endpoint : d \in nodes[id].declared}
  <2>1. \A d \in nodes[id].declared : Normalized[d.provider] = d.provider
    BY <1>1 DEF AsRegistered
  <2>2. Entries(id) = nodes[id].declared
    BY <1>1, <1>2, <2>1 DEF Entries
  <2> QED BY <2>1, <2>2 DEF DeclaredOf, EndpointsOf
<1>4. Flagged("undeclared_llm", id) <=> \E p \in SeenOf(id) : short(p)
  <2>1. Flagged("undeclared_llm", id)
          <=> DeclaredOf(id) # {} /\ Undeclared(ModelsOf(id), nodes[id].declared) # {}
    BY <1>1, <1>3, WhatFlagsUndeclared
  <2>2. Undeclared(ModelsOf(id), nodes[id].declared)
          = {m \in ModelsOf(id) : ProviderOf[m] \notin DeclaredOf(id) /\ m \notin EndpointsOf(id)}
    BY <1>3 DEF Undeclared
  <2>3. \A m \in ModelsOf(id) : ProviderOf[m] \in SeenOf(id)
    BY DEF SeenOf
  <2> QED BY <2>1, <2>2, <2>3, WhatIsNotCovered
<1>5. ASSUME NEW p \in SeenOf(id), short(p)
      PROVE  \E r \in SubjectRows(scan) : r.subject = id /\ r.gap = "seen_not_declared"
  BY <1>5, EveryPair DEF Named, IsARowOf
<1>6. ASSUME NEW r \in SubjectRows(scan), r.subject = id, r.gap = "seen_not_declared"
      PROVE  \E p \in SeenOf(id) : short(p)
  <2>1. r.provider \in Named(id) /\ IsARowOf(r, id, r.provider)
    BY <1>6, EveryRow DEF IsAnEmptyRow
  <2>2. ~IsDeclared(id, r.provider) /\ DeclaredOf(id) # {}
    BY <1>6, <2>1 DEF IsARowOf
  <2> QED BY <2>1, <2>2 DEF Named, IsDeclared
<1> QED BY <1>4, <1>5, <1>6

(* The third: no declaration is on the node of a claim. *)
LEMMA ClaimsDeclareNothing ==
    ASSUME TypeOK, NEW scan, NEW r \in SubjectRows(scan), r.subject \in ClaimedIDs
    PROVE  r.gap = "seen_no_declaration"
<1> DEFINE id == r.subject
<1>1. id \in DOMAIN nodes /\ id \notin EstablishedIDs
  BY EveryRow DEF ClaimedIDs, EstablishedIDs, Own, Claimed
<1>2. ~nodes[id].agent /\ Node(id).declared = {}
  BY <1>1 DEF TypeOK, Node
<1>3. DeclaredOf(id) = {} /\ EndpointsOf(id) = {}
  BY <1>2 DEF Entries, DeclaredOf, EndpointsOf
<1>4. IsARowOf(r, id, r.provider)
  BY <1>2, EveryRow DEF IsAnEmptyRow
<1>5. ~IsDeclared(id, r.provider)
  BY <1>3 DEF IsDeclared, CoveredByEndpoint
<1> QED BY <1>3, <1>4, <1>5 DEF IsARowOf

(* The last: the table of providers and the rows of their subjects. *)
LEMMA TableAddsUp ==
    ASSUME NEW scan \in Scans, NEW table \in ProviderRows(scan)
    PROVE  LET about == {r \in SubjectRows(scan) : r.provider = table.provider}
               Covered(r) == CoveredByEndpoint(r.subject, r.provider)
           IN  /\ "declared_not_seen" \in table.gaps
                     <=> about # {} /\ \A r \in about : r.seen # "egress"
               /\ "seen_not_declared" \in table.gaps
                     => \A r \in about : ~r.declared \/ Covered(r)
               /\ about # {} /\ (\A r \in about : ~r.declared)
                     => "seen_not_declared" \in table.gaps
<1> DEFINE p == table.provider
           about == {r \in SubjectRows(scan) : r.provider = p}
<1>1. table.gaps = ProviderGaps(p, scan) /\ p \in Written \cup Providers /\ p # ""
  <2>1. PICK q \in Written \cup Providers : table = [provider |-> q, gaps |-> ProviderGaps(q, scan)]
    BY DEF ProviderRows
  <2> QED BY <2>1, DestinationsAssumption
<1>2. /\ "declared_not_seen" \in table.gaps <=> DeclaredBy(p) # {} /\ ObservedBy(p) = {}
      /\ "seen_not_declared" \in table.gaps <=> ObservedBy(p) # {} /\ DeclaredBy(p) = {}
  BY <1>1 DEF ProviderGaps
<1>3. \A r \in about : r.subject \in DOMAIN nodes /\ p \in Named(r.subject) /\ IsARowOf(r, r.subject, p)
  BY <1>1, EveryRow DEF IsAnEmptyRow
<1>4. \A id \in DOMAIN nodes : p \in Named(id) => \E r \in about : IsARowOf(r, id, p)
  BY EveryPair DEF IsARowOf
<1> HIDE DEF p, about
<1>5. about # {} <=> DeclaredBy(p) # {} \/ ObservedBy(p) # {}
  BY <1>3, <1>4 DEF Named, DeclaredBy, ObservedBy
<1>6. (\A r \in about : r.seen # "egress") <=> ObservedBy(p) = {}
  <2>1. \A r \in about : r.seen = "egress" <=> p \in SeenOf(r.subject)
    BY <1>3, SeenHowIsEgress DEF IsARowOf
  <2>2. \A id \in DOMAIN nodes : p \in SeenOf(id) => \E r \in about : r.subject = id
    BY <1>4 DEF Named, IsARowOf
  <2> QED BY <1>3, <2>1, <2>2 DEF ObservedBy
<1>7. DeclaredBy(p) = {} => \A r \in about : ~r.declared \/ CoveredByEndpoint(r.subject, p)
  BY <1>3 DEF IsARowOf, IsDeclared, DeclaredBy
<1>8. (\A r \in about : ~r.declared) => DeclaredBy(p) = {}
  <2>1. \A id \in DOMAIN nodes : p \in DeclaredOf(id) => \E r \in about : r.declared
    BY <1>4 DEF Named, IsARowOf, IsDeclared
  <2> QED BY <2>1 DEF DeclaredBy
<1>9. \A r \in about : r.provider = p
  BY DEF about
<1>10. /\ "declared_not_seen" \in table.gaps <=> about # {} /\ \A r \in about : r.seen # "egress"
       /\ "seen_not_declared" \in table.gaps
            => \A r \in about : ~r.declared \/ CoveredByEndpoint(r.subject, r.provider)
       /\ about # {} /\ (\A r \in about : ~r.declared) => "seen_not_declared" \in table.gaps
  BY <1>2, <1>5, <1>6, <1>7, <1>8, <1>9
<1> QED BY <1>10 DEF about, p

(* subjects.go:195-197: whatever Passports declare, under whatever           *)
(* registered names and endpoints, and whatever was reached, the report and *)
(* the detectors judge it alike.                                           *)
THEOREM ReportAgrees == Spec => []ReportAgreesWithDetectors
<1>1. ASSUME TypeOK PROVE ReportAgreesWithDetectors
  <2>1. \A scan \in Scans : \A id \in DOMAIN nodes :
          LET about == {r \in SubjectRows(scan) : r.subject = id}
          IN  /\ Flagged("shadow_ai", id) <=> \E r \in about : r.seen = "egress"
              /\ AsRegistered(id) =>
                   (Flagged("undeclared_llm", id) <=> \E r \in about : r.gap = "seen_not_declared")
              /\ id \in ClaimedIDs => \A r \in about : r.gap = "seen_no_declaration"
    BY <1>1, SeenAgrees, DeclaredAgrees, ClaimsDeclareNothing
  <2> QED BY <2>1, TableAddsUp DEF ReportAgreesWithDetectors
<1> QED BY <1>1, TypeCorrect, PTL

-----------------------------------------------------------------------------
LEMMA FieldsOfAlerts ==
    \A d, i, s : Alert(d, i, s).id = i /\ Alert(d, i, s).severity = s
  BY DEF Alert

LEMMA ReachedIsThere == \A id : EgressOf(id) # {} => id \in DOMAIN nodes
  BY DEF EgressOf, Node, NewNode

LEMMA NamesDiffer ==
    \A a, b \in Agents : Own(a) # Claimed(b) /\ (Own(a) = Own(b) => a = b)
                         /\ (Claimed(a) = Claimed(b) => a = b)
  BY DEF Own, Claimed

(* A governed agent has one verdict, under one of its two names. *)
LEMMA OneVerdict ==
    ASSUME NEW a \in Governed
    PROVE  /\ a \in Agents
           /\ \E x : Verdict(a) = {x} /\ x.id \in {Own(a), Claimed(a)}
           /\ CarriesSensorEvidence => About(a, {"unrouted_egress"}) = Verdict(a)
<1>1. \A b : \E x : Verdict(b) = {x} /\ x.id \in {Own(b), Claimed(b)}
  <2> TAKE b
  <2>1. CASE Claimed(b) \notin DOMAIN nodes
    BY <2>1, FieldsOfAlerts DEF Verdict
  <2>2. CASE Claimed(b) \in DOMAIN nodes
    BY <2>2, FieldsOfAlerts DEF Verdict
  <2> QED BY <2>1, <2>2
<1>2. a \in Agents
  BY DEF Governed
<1>3. ASSUME CarriesSensorEvidence PROVE About(a, {"unrouted_egress"}) = Verdict(a)
  <2>1. About(a, {"unrouted_egress"}) = {x \in UnroutedEgress : x.id \in {Own(a), Claimed(a)}}
    BY EachNamesItself DEF About, Alerts
  <2>2. UnroutedEgress = UNION {Verdict(b) : b \in Governed}
    BY <1>3 DEF UnroutedEgress
  <2>3. \A b \in Governed : b \in Agents
    BY DEF Governed
  <2>4. \A b \in Governed : \A x : x \in Verdict(b) /\ x.id \in {Own(a), Claimed(a)} => b = a
    BY <1>1, <1>2, <2>3, NamesDiffer
  <2>5. \A x : x \in Verdict(a) => x.id \in {Own(a), Claimed(a)}
    BY <1>1
  <2> QED BY <2>1, <2>2, <2>4, <2>5
<1> QED BY <1>1, <1>2, <1>3

LEMMA ProcessesAreFound ==
    ASSUME NEW id \in Seen(ProcIDs), EgressOf(id) # {}
    PROVE  \E x \in Alerts : x.id = id /\ x.severity >= Medium
<1> DEFINE x == Alert("unmanaged_egress", id, IF ModelsOf(id) # {} THEN High ELSE Medium)
<1>1. x \in UnmanagedEgress
  BY DEF UnmanagedEgress
<1>2. x.id = id /\ x.severity = (IF ModelsOf(id) # {} THEN High ELSE Medium)
  BY FieldsOfAlerts
<1>3. x.severity >= Medium
  BY <1>2 DEF High, Medium
<1>4. x \in Alerts
  BY <1>1 DEF Alerts
<1> QED BY <1>2, <1>3, <1>4

(* unrouted_egress.go: a governed agent is judged once, and what it, or a   *)
(* process that hides its name, reaches directly is found at medium or     *)
(* above, whatever else the sources reported and in whatever order.        *)
THEOREM DirectEgress == Spec => []DirectEgressIsFound
<1>1. \A a \in Governed :
        CarriesSensorEvidence => Cardinality(About(a, {"unrouted_egress"})) = 1
  BY OneVerdict, FS_Singleton
<1>2. ASSUME NEW a \in Governed, EgressOf(Claimed(a)) \cap PublicHosts # {}
      PROVE  \E x \in About(a, {"unrouted_egress"}) : x.severity >= Medium
  <2>1. Claimed(a) \in DOMAIN nodes /\ Claimed(a) \in ClaimedIDs
    BY <1>2, OneVerdict, ReachedIsThere DEF ClaimedIDs
  <2>2. CarriesSensorEvidence
    BY <2>1 DEF CarriesSensorEvidence, Seen
  <2> DEFINE x == Alert("unrouted_egress", Claimed(a), IF Refused(a) THEN High ELSE Medium)
  <2>3. Verdict(a) = {x}
    BY <1>2, <2>1 DEF Verdict, PublicOf
  <2>4. x.severity >= Medium
    BY FieldsOfAlerts DEF High, Medium
  <2> QED BY <2>2, <2>3, <2>4, OneVerdict
<1>3. ASSUME NEW a \in Governed, ModelsOf(Claimed(a)) # {}
      PROVE  \E x \in About(a, {"shadow_ai"}) : x.id = Claimed(a) /\ x.severity >= Medium
  <2>1. Claimed(a) \in DOMAIN nodes
    BY <1>3, ReachedIsThere DEF ModelsOf
  <2> DEFINE x == Alert("shadow_ai", Claimed(a), IF nodes[Claimed(a)].agent THEN High ELSE Medium)
  <2>2. x \in ShadowAI
    BY <1>3, <2>1 DEF ShadowAI
  <2>3. x.id = Claimed(a) /\ x.severity = (IF nodes[Claimed(a)].agent THEN High ELSE Medium)
    BY FieldsOfAlerts
  <2>4. x.severity >= Medium
    BY <2>3 DEF High, Medium
  <2>5. x \in Alerts /\ x.detector = "shadow_ai"
    BY <2>2, EachNamesItself DEF Alerts
  <2> QED BY <2>3, <2>4, <2>5 DEF About
<1>4. \A id \in Seen(ProcIDs) : EgressOf(id) \cap (PublicHosts \cup Models) # {}
        => \E x \in Alerts : x.id = id /\ x.severity >= Medium
  BY ProcessesAreFound
<1>5. DirectEgressIsFound
  BY <1>1, <1>2, <1>3, <1>4 DEF DirectEgressIsFound
<1> QED BY <1>5, PTL

-----------------------------------------------------------------------------
(* What a flow more does to what the detectors say of an agent. *)

(* A flow goes to a node no connector writes, and is one event more. *)
LEMMA FlowGrows ==
    ASSUME TypeOK, NEW id \in ClaimedIDs \cup ProcIDs, NEW to, SensorFlow(id, to)
    PROVE  /\ DOMAIN nodes' = DOMAIN nodes \cup {id}
           /\ \A i \in DOMAIN nodes :
                /\ i # id => nodes'[i] = nodes[i]
                /\ nodes'[i].agent = nodes[i].agent /\ nodes'[i].admin = nodes[i].admin
                /\ nodes'[i].declared = nodes[i].declared
                /\ nodes[i].events \subseteq nodes'[i].events
<1> DEFINE node == [Node(id) EXCEPT !.events = @ \cup {Egress(to)}]
<1>1. /\ DOMAIN nodes' = DOMAIN nodes \cup {id}
      /\ \A i \in DOMAIN nodes' : nodes'[i] = IF i = id THEN node ELSE nodes[i]
  BY DEF SensorFlow, Put
<1>2. ASSUME id \in DOMAIN nodes
      PROVE  /\ node.agent = nodes[id].agent /\ node.admin = nodes[id].admin
             /\ node.declared = nodes[id].declared /\ nodes[id].events \subseteq node.events
  BY <1>2 DEF Node, TypeOK, NodeRecord
<1> HIDE DEF node
<1> QED BY <1>1, <1>2

LEMMA FlowShowsMore ==
    ASSUME TypeOK, NEW id \in ClaimedIDs \cup ProcIDs, NEW to, SensorFlow(id, to)
    PROVE  /\ \A i : EgressOf(i) \subseteq EgressOf(i)'
           /\ \A i : ModelsOf(i) \subseteq ModelsOf(i)'
           /\ \A a \in Agents : Node(Own(a))' = Node(Own(a)) /\ (Known(a)' <=> Known(a))
           /\ CarriesBusEvidence => CarriesBusEvidence'
           /\ CarriesSensorEvidence'
<1>1. /\ DOMAIN nodes' = DOMAIN nodes \cup {id}
      /\ \A i \in DOMAIN nodes :
           /\ i # id => nodes'[i] = nodes[i]
           /\ nodes[i].events \subseteq nodes'[i].events
  BY FlowGrows
<1>2. \A i : EgressOf(i) \subseteq EgressOf(i)'
  BY <1>1 DEF EgressOf, Node, NewNode
<1>3. \A i : ModelsOf(i) \subseteq ModelsOf(i)'
  BY <1>2 DEF ModelsOf
<1>4. ASSUME NEW a \in Agents PROVE Own(a) # id
  BY DEF ClaimedIDs, ProcIDs, Own, Claimed, Proc
<1>5. ASSUME NEW a \in Agents PROVE Node(Own(a))' = Node(Own(a)) /\ (Known(a)' <=> Known(a))
  <2>1. Own(a) \in DOMAIN nodes' <=> Own(a) \in DOMAIN nodes
    BY <1>1, <1>4
  <2>2. Own(a) \in DOMAIN nodes => nodes'[Own(a)] = nodes[Own(a)]
    BY <1>1, <1>4
  <2>3. Node(Own(a))' = IF Own(a) \in DOMAIN nodes' THEN nodes'[Own(a)] ELSE NewNode
    BY DEF Node, Own, NewNode
  <2>4. Node(Own(a)) = IF Own(a) \in DOMAIN nodes THEN nodes[Own(a)] ELSE NewNode
    BY DEF Node
  <2>5. Node(Own(a))' = Node(Own(a))
    BY <2>1, <2>2, <2>3, <2>4
  <2>6. Known(a)' <=> Own(a) \in DOMAIN nodes'
    BY DEF Known, Own
  <2> QED BY <2>1, <2>5, <2>6 DEF Known
<1>6. CarriesBusEvidence => CarriesBusEvidence'
  BY <1>1 DEF CarriesBusEvidence
<1>7. CarriesSensorEvidence'
  BY <1>1 DEF CarriesSensorEvidence, Seen
<1> QED BY <1>2, <1>3, <1>5, <1>6, <1>7

(* Every alert of S about an agent has one of T that is as severe. *)
Outspoken(S, T) ==
    \A a \in Agents : \A x \in S : x.id \in {Own(a), Claimed(a)} =>
        \E y \in T : y.id \in {Own(a), Claimed(a)} /\ y.severity >= x.severity

LEMMA ClaimsRise ==
    ASSUME TypeOK, NEW id \in ClaimedIDs \cup ProcIDs, NEW to, SensorFlow(id, to)
    PROVE  /\ Outspoken(ClaimedAgentUnknown, ClaimedAgentUnknown')
           /\ Outspoken(ClaimedAgentDrift, ClaimedAgentDrift')
           /\ Outspoken(ClaimedAgentUnattested, ClaimedAgentUnattested')
<1>1. /\ \A i : ModelsOf(i) \subseteq ModelsOf(i)'
      /\ \A a \in Agents : Node(Own(a))' = Node(Own(a)) /\ (Known(a)' <=> Known(a))
      /\ CarriesBusEvidence => CarriesBusEvidence'
      /\ DOMAIN nodes \subseteq DOMAIN nodes'
  BY FlowShowsMore, FlowGrows
<1>2. Outspoken(ClaimedAgentUnknown, ClaimedAgentUnknown')
  <2>1. ASSUME NEW x \in ClaimedAgentUnknown
        PROVE  \E y \in ClaimedAgentUnknown' : y.id = x.id /\ y.severity >= x.severity
    <3>1. PICK a \in Agents :
            /\ Claimed(a) \in DOMAIN nodes /\ ~Known(a)
            /\ x = Alert("claimed_agent_unknown", Claimed(a),
                         IF ModelsOf(Claimed(a)) # {} THEN Critical ELSE High)
      BY <2>1 DEF ClaimedAgentUnknown
    <3> DEFINE y == Alert("claimed_agent_unknown", Claimed(a),
                          IF ModelsOf(Claimed(a))' # {} THEN Critical ELSE High)
    <3>2. y \in ClaimedAgentUnknown'
      BY <1>1, <3>1 DEF ClaimedAgentUnknown, Claimed
    <3>3. y.id = x.id /\ y.severity >= x.severity
      BY <1>1, <3>1, FieldsOfAlerts DEF Critical, High
    <3> QED BY <3>2, <3>3
  <2> QED BY <2>1 DEF Outspoken
<1>3. Outspoken(ClaimedAgentDrift, ClaimedAgentDrift')
  <2>1. ASSUME NEW x \in ClaimedAgentDrift PROVE x \in ClaimedAgentDrift' /\ x.severity = High
    <3>1. PICK a \in Agents :
            /\ Claimed(a) \in DOMAIN nodes /\ Node(Own(a)).declared # {} /\ Drifting(a) # {}
            /\ x = Alert("claimed_agent_drift", Claimed(a), High)
      BY <2>1 DEF ClaimedAgentDrift
    <3>2. Drifting(a)' # {}
      BY <1>1, <3>1 DEF Drifting, Undeclared, Claimed
    <3> QED BY <1>1, <3>1, <3>2, FieldsOfAlerts DEF ClaimedAgentDrift
  <2> QED BY <2>1 DEF Outspoken, High
<1>4. Outspoken(ClaimedAgentUnattested, ClaimedAgentUnattested')
  <2>1. ASSUME NEW x \in ClaimedAgentUnattested
        PROVE  x \in ClaimedAgentUnattested' /\ x.severity \in {High, Medium}
    <3>1. PICK a \in Agents :
            /\ CarriesBusEvidence /\ Node(Own(a)).attestation \notin {"", "none"}
            /\ Claimed(a) \in DOMAIN nodes /\ Unspoken(a)
            /\ x = Alert("claimed_agent_unattested", Claimed(a),
                         IF Node(Own(a)).admin THEN High ELSE Medium)
      BY <2>1 DEF ClaimedAgentUnattested
    <3>2. x = Alert("claimed_agent_unattested", Claimed(a),
                    IF Node(Own(a))'.admin THEN High ELSE Medium)
      BY <1>1, <3>1
    <3>3. /\ CarriesBusEvidence' /\ Node(Own(a))'.attestation \notin {"", "none"}
          /\ Claimed(a) \in DOMAIN nodes' /\ Unspoken(a)'
      BY <1>1, <3>1 DEF Unspoken
    <3>4. x \in ClaimedAgentUnattested'
      BY <3>2, <3>3, Zenon DEF ClaimedAgentUnattested, Claimed, Own, High, Medium
    <3>5. CASE Node(Own(a)).admin
      <4>1. x = Alert("claimed_agent_unattested", Claimed(a), High)
        BY <3>1, <3>5
      <4>2. x.severity = High
        BY <4>1, FieldsOfAlerts
      <4> QED BY <3>4, <4>2
    <3>6. CASE ~Node(Own(a)).admin
      <4>1. x = Alert("claimed_agent_unattested", Claimed(a), Medium)
        BY <3>1, <3>6
      <4>2. x.severity = Medium
        BY <4>1, FieldsOfAlerts
      <4> QED BY <3>4, <4>2
    <3> QED BY <3>5, <3>6
  <2> QED BY <2>1 DEF Outspoken, High, Medium
<1> QED BY <1>2, <1>3, <1>4

LEMMA ReachRises ==
    ASSUME TypeOK, NEW id \in ClaimedIDs \cup ProcIDs, NEW to, SensorFlow(id, to)
    PROVE  /\ Outspoken(UndeclaredLLM, UndeclaredLLM') /\ Outspoken(ShadowAI, ShadowAI')
           /\ Outspoken(UnroutedEgress, UnroutedEgress')
<1>1. /\ \A i : ModelsOf(i) \subseteq ModelsOf(i)' /\ EgressOf(i) \subseteq EgressOf(i)'
      /\ \A a \in Agents : Node(Own(a))' = Node(Own(a))
      /\ CarriesSensorEvidence'
      /\ DOMAIN nodes \subseteq DOMAIN nodes'
      /\ \A i \in DOMAIN nodes :
           /\ nodes'[i].agent = nodes[i].agent /\ nodes'[i].admin = nodes[i].admin
           /\ nodes'[i].declared = nodes[i].declared
  BY FlowShowsMore, FlowGrows
<1>2. Outspoken(UndeclaredLLM, UndeclaredLLM')
  <2>1. ASSUME NEW x \in UndeclaredLLM
        PROVE  x \in UndeclaredLLM' /\ x.severity \in {Critical, High}
    <3>1. PICK i \in DOMAIN nodes :
            /\ nodes[i].agent /\ nodes[i].declared # {}
            /\ Undeclared(ModelsOf(i), nodes[i].declared) # {}
            /\ x = Alert("undeclared_llm", i, IF nodes[i].admin THEN Critical ELSE High)
      BY <2>1 DEF UndeclaredLLM
    <3>2. Undeclared(ModelsOf(i)', nodes'[i].declared) # {}
      BY <1>1, <3>1 DEF Undeclared
    <3> QED BY <1>1, <3>1, <3>2, FieldsOfAlerts DEF UndeclaredLLM, Undeclared
  <2> QED BY <2>1 DEF Outspoken, Critical, High
<1>3. Outspoken(ShadowAI, ShadowAI')
  <2>1. ASSUME NEW x \in ShadowAI PROVE x \in ShadowAI' /\ x.severity \in {High, Medium}
    <3>1. PICK i \in DOMAIN nodes :
            /\ ModelsOf(i) # {}
            /\ x = Alert("shadow_ai", i, IF nodes[i].agent THEN High ELSE Medium)
      BY <2>1 DEF ShadowAI
    <3>2. ModelsOf(i)' # {}
      BY <1>1, <3>1
    <3> QED BY <1>1, <3>1, <3>2, FieldsOfAlerts DEF ShadowAI
  <2> QED BY <2>1 DEF Outspoken, High, Medium
<1>4. Outspoken(UnroutedEgress, UnroutedEgress')
  <2>1. \A a \in Agents : Journal(a)' = Journal(a) /\ Refused(a)' = Refused(a)
    BY <1>1 DEF Journal, Refused
  <2>2. Governed' = Governed
    BY <2>1 DEF Governed
  <2>3. UnroutedEgress' = UNION {Verdict(b)' : b \in Governed}
    BY <1>1, <2>2 DEF UnroutedEgress
  <2>4. ASSUME NEW b \in Agents
        PROVE  /\ \A x \in Verdict(b) : x.id \in {Own(b), Claimed(b)}
               /\ \A x \in Verdict(b) : \E y \in Verdict(b)' :
                    y.id \in {Own(b), Claimed(b)} /\ y.severity >= x.severity
    <3>1. PublicOf(Claimed(b)) \subseteq PublicOf(Claimed(b))'
      BY <1>1 DEF PublicOf, Claimed
    <3>2. CASE Claimed(b) \notin DOMAIN nodes
      <4>1. Verdict(b) = {Alert("unrouted_egress", Own(b), Info)}
        BY <3>2 DEF Verdict
      <4>2. \E y \in Verdict(b)' : y.id \in {Own(b), Claimed(b)} /\ y.severity \in {Info, Medium, High}
        BY FieldsOfAlerts DEF Verdict, Claimed
      <4> QED BY <4>1, <4>2, FieldsOfAlerts DEF Info, Medium, High
    <3>3. CASE Claimed(b) \in DOMAIN nodes
      <4>1. Verdict(b) = {Alert("unrouted_egress", Claimed(b),
                  IF PublicOf(Claimed(b)) = {} THEN Info ELSE IF Refused(b) THEN High ELSE Medium)}
        BY <3>3 DEF Verdict
      <4>2. Verdict(b)' = {Alert("unrouted_egress", Claimed(b),
                  IF PublicOf(Claimed(b))' = {} THEN Info ELSE IF Refused(b) THEN High ELSE Medium)}
        BY <1>1, <2>1, <3>3 DEF Verdict, Claimed
      <4> QED BY <3>1, <4>1, <4>2, FieldsOfAlerts DEF Info, Medium, High
    <3> QED BY <3>2, <3>3
  <2>5. ASSUME NEW a \in Agents, NEW x \in UnroutedEgress, x.id \in {Own(a), Claimed(a)}
        PROVE  \E y \in UnroutedEgress' : y.id \in {Own(a), Claimed(a)} /\ y.severity >= x.severity
    <3>1. PICK b \in Governed : x \in Verdict(b)
      BY <2>5 DEF UnroutedEgress
    <3>2. b \in Agents /\ b = a
      BY <2>4, <2>5, <3>1, NamesDiffer DEF Governed
    <3> QED BY <2>3, <2>4, <3>1, <3>2
  <2> QED BY <2>5 DEF Outspoken
<1> QED BY <1>2, <1>3, <1>4

(* The greatest severity of some alerts. *)
LEMMA HighestOf ==
    ASSUME NEW S \in SUBSET {0, 2, 3, 4}
    PROVE  Max({-1} \cup S) \in {-1} \cup S /\ \A x \in S : Max({-1} \cup S) >= x
<1> DEFINE T == {-1} \cup S
           IsMax(m) == m \in T /\ \A y \in T : m >= y
<1>1. \E m : IsMax(m)
  <2>1. CASE 4 \in S
    <3>1. IsMax(4)
      BY <2>1
    <3> QED BY <3>1
  <2>2. CASE 4 \notin S /\ 3 \in S
    <3>1. IsMax(3)
      BY <2>2
    <3> QED BY <3>1
  <2>3. CASE 4 \notin S /\ 3 \notin S /\ 2 \in S
    <3>1. IsMax(2)
      BY <2>3
    <3> QED BY <3>1
  <2>4. CASE 4 \notin S /\ 3 \notin S /\ 2 \notin S /\ 0 \in S
    <3>1. IsMax(0)
      BY <2>4
    <3> QED BY <3>1
  <2>5. CASE S = {}
    <3>1. IsMax(-1)
      BY <2>5
    <3> QED BY <3>1
  <2> QED BY <2>1, <2>2, <2>3, <2>4, <2>5
<1>2. Max(T) = CHOOSE m : IsMax(m)
  BY DEF Max
<1>3. IsMax(Max(T))
  <2> HIDE DEF IsMax
  <2> QED BY <1>1, <1>2
<1> QED BY <1>3

SeveritiesKnown == \A x \in Alerts : x.severity \in {0, 2, 3, 4}

LEMMA SeveritiesOf == SeveritiesKnown
<1> USE FieldsOfAlerts DEF Info, Medium, High, Critical
<1>1. \A x \in ClaimedAgentUnknown : x.severity \in {0, 2, 3, 4}
  BY DEF ClaimedAgentUnknown
<1>2. \A x \in ClaimedAgentDrift : x.severity \in {0, 2, 3, 4}
  BY DEF ClaimedAgentDrift
<1>3. \A x \in UndeclaredLLM : x.severity \in {0, 2, 3, 4}
  BY DEF UndeclaredLLM
<1>4. \A x \in ClaimedAgentUnattested : x.severity \in {0, 2, 3, 4}
  <2> TAKE x \in ClaimedAgentUnattested
  <2>1. PICK a \in Agents :
          x = Alert("claimed_agent_unattested", Claimed(a),
                    IF Node(Own(a)).admin THEN High ELSE Medium)
    BY Zenon DEF ClaimedAgentUnattested
  <2>2. CASE Node(Own(a)).admin
    BY <2>1, <2>2
  <2>3. CASE ~Node(Own(a)).admin
    BY <2>1, <2>3
  <2> QED BY <2>2, <2>3
<1>5. \A x \in UnroutedEgress : x.severity \in {0, 2, 3, 4}
  <2>1. \A a \in Agents : \A x \in Verdict(a) : x.severity \in {0, 2, 3, 4}
    BY DEF Verdict
  <2> QED BY <2>1 DEF UnroutedEgress, Governed
<1>6. \A x \in ShadowAI : x.severity \in {0, 2, 3, 4}
  BY DEF ShadowAI
<1>7. \A x \in UnmanagedEgress : x.severity \in {0, 2, 3, 4}
  BY DEF UnmanagedEgress
<1> QED BY <1>1, <1>2, <1>3, <1>4, <1>5, <1>6, <1>7 DEF Alerts, SeveritiesKnown

(* What is said of an agent by a detector, in terms of its alerts. *)
AboutIsOfTheDetector ==
    \A a : /\ About(a, {"claimed_agent_unknown"})
                = {x \in ClaimedAgentUnknown : x.id \in {Own(a), Claimed(a)}}
           /\ About(a, {"claimed_agent_drift"})
                = {x \in ClaimedAgentDrift : x.id \in {Own(a), Claimed(a)}}
           /\ About(a, {"claimed_agent_unattested"})
                = {x \in ClaimedAgentUnattested : x.id \in {Own(a), Claimed(a)}}
           /\ About(a, {"undeclared_llm"}) = {x \in UndeclaredLLM : x.id \in {Own(a), Claimed(a)}}
           /\ About(a, {"unrouted_egress"}) = {x \in UnroutedEgress : x.id \in {Own(a), Claimed(a)}}
           /\ About(a, {"shadow_ai"}) = {x \in ShadowAI : x.id \in {Own(a), Claimed(a)}}

LEMMA AboutItself == AboutIsOfTheDetector
BY EachNamesItself DEF AboutIsOfTheDetector, About, Alerts

AgentDetectors == {"claimed_agent_unknown", "claimed_agent_drift", "claimed_agent_unattested",
                   "undeclared_llm", "unrouted_egress", "shadow_ai"}

(* About(a, {d}) before and after a flow. *)
LEMMA AboutRises ==
    ASSUME TypeOK, NEW id \in ClaimedIDs \cup ProcIDs, NEW to, SensorFlow(id, to),
           NEW a \in Agents, NEW d \in AgentDetectors
    PROVE  \A x \in About(a, {d}) : \E y \in About(a, {d})' : y.severity >= x.severity
<1>1. /\ Outspoken(ClaimedAgentUnknown, ClaimedAgentUnknown')
      /\ Outspoken(ClaimedAgentDrift, ClaimedAgentDrift')
      /\ Outspoken(ClaimedAgentUnattested, ClaimedAgentUnattested')
      /\ Outspoken(UndeclaredLLM, UndeclaredLLM') /\ Outspoken(ShadowAI, ShadowAI')
      /\ Outspoken(UnroutedEgress, UnroutedEgress')
  BY ClaimsRise, ReachRises
<1>2. AboutIsOfTheDetector /\ AboutIsOfTheDetector'
  BY AboutItself, PTL
<1> DEFINE names == {Own(a), Claimed(a)}
<1>3. ASSUME NEW S, NEW T, Outspoken(S, T)
      PROVE  \A x \in {z \in S : z.id \in names} :
               \E y \in {z \in T : z.id \in names} : y.severity >= x.severity
  BY <1>3 DEF Outspoken
<1> HIDE DEF names
<1>4. /\ About(a, {"claimed_agent_unknown"}) = {x \in ClaimedAgentUnknown : x.id \in names}
      /\ About(a, {"claimed_agent_drift"}) = {x \in ClaimedAgentDrift : x.id \in names}
      /\ About(a, {"claimed_agent_unattested"}) = {x \in ClaimedAgentUnattested : x.id \in names}
      /\ About(a, {"undeclared_llm"}) = {x \in UndeclaredLLM : x.id \in names}
      /\ About(a, {"unrouted_egress"}) = {x \in UnroutedEgress : x.id \in names}
      /\ About(a, {"shadow_ai"}) = {x \in ShadowAI : x.id \in names}
  BY <1>2 DEF AboutIsOfTheDetector, names
<1>5. /\ About(a, {"claimed_agent_unknown"})' = {x \in ClaimedAgentUnknown' : x.id \in names}
      /\ About(a, {"claimed_agent_drift"})' = {x \in ClaimedAgentDrift' : x.id \in names}
      /\ About(a, {"claimed_agent_unattested"})' = {x \in ClaimedAgentUnattested' : x.id \in names}
      /\ About(a, {"undeclared_llm"})' = {x \in UndeclaredLLM' : x.id \in names}
      /\ About(a, {"unrouted_egress"})' = {x \in UnroutedEgress' : x.id \in names}
      /\ About(a, {"shadow_ai"})' = {x \in ShadowAI' : x.id \in names}
  BY <1>2 DEF AboutIsOfTheDetector, names, Own, Claimed
<1>6. CASE d = "claimed_agent_unknown"
  BY <1>1, <1>3, <1>4, <1>5, <1>6
<1>7. CASE d = "claimed_agent_drift"
  BY <1>1, <1>3, <1>4, <1>5, <1>7
<1>8. CASE d = "claimed_agent_unattested"
  BY <1>1, <1>3, <1>4, <1>5, <1>8
<1>9. CASE d = "undeclared_llm"
  BY <1>1, <1>3, <1>4, <1>5, <1>9
<1>10. CASE d = "unrouted_egress"
  BY <1>1, <1>3, <1>4, <1>5, <1>10
<1>11. CASE d = "shadow_ai"
  BY <1>1, <1>3, <1>4, <1>5, <1>11
<1> QED BY <1>6, <1>7, <1>8, <1>9, <1>10, <1>11 DEF AgentDetectors

(* In every estate, what the sensor adds about an agent's connections lowers *)
(* the severity of no detector's alert about it, and withdraws none.       *)
THEOREM SensorsOnlyRaise == Spec => SensorNeverSilences
<1>1. ASSUME TypeOK, NEW id \in ClaimedIDs \cup ProcIDs, NEW to, SensorFlow(id, to),
             NEW a \in Agents, NEW d \in AgentDetectors
      PROVE  SeverityAbout(d, a)' >= SeverityAbout(d, a)
  <2> DEFINE S == {x.severity : x \in About(a, {d})}
             T == {x.severity : x \in About(a, {d})'}
  <2>1. SeveritiesKnown /\ SeveritiesKnown'
    BY SeveritiesOf, PTL
  <2>2. S \in SUBSET {0, 2, 3, 4}
    BY <2>1 DEF SeveritiesKnown, About
  <2>3. T \in SUBSET {0, 2, 3, 4}
    BY <2>1 DEF SeveritiesKnown, About
  <2>4. \A s \in S : \E t \in T : t >= s
    BY <1>1, AboutRises
  <2> DEFINE m == Max({-1} \cup S)
             n == Max({-1} \cup T)
  <2>5. SeverityAbout(d, a) = m /\ SeverityAbout(d, a)' = n
    BY DEF SeverityAbout
  <2>6. m \in {-1} \cup S /\ n \in {-1} \cup T /\ \A t \in T : n >= t
    BY <2>2, <2>3, HighestOf
  <2> HIDE DEF S, T, m, n
  <2>7. CASE m = -1
    BY <2>3, <2>5, <2>6, <2>7
  <2>8. CASE m \in S
    <3>1. PICK t \in T : t >= m
      BY <2>4, <2>8
    <3>2. n >= t /\ n \in {-1, 0, 2, 3, 4} /\ t \in {0, 2, 3, 4} /\ m \in {0, 2, 3, 4}
      BY <2>2, <2>3, <2>6, <2>8
    <3> QED BY <2>5, <3>1, <3>2
  <2> QED BY <2>6, <2>7, <2>8
<1> DEFINE Never == (\E id \in ClaimedIDs \cup ProcIDs, to \in Destinations : SensorFlow(id, to)) =>
                      \A a \in Agents :
                        \A d \in AgentDetectors : SeverityAbout(d, a)' >= SeverityAbout(d, a)
<1>2. TypeOK => [Never]_vars
  BY <1>1
<1> QED BY <1>2, TypeCorrect, PTL DEF SensorNeverSilences, AgentDetectors

=============================================================================
