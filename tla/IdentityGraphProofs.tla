------------------------- MODULE IdentityGraphProofs -------------------------
(***************************************************************************)
(* Proofs about the in-memory identity graph, for every set of identities, *)
(* records and inventory entries: the graph keeps its types, its evidence   *)
(* and its index, it implements the ledger of EvidenceLedger, and what it   *)
(* keeps is what the verdicts of the detectors over the inventory rest on.  *)
(***************************************************************************)
EXTENDS InventoryDetectors, TLAPS

(* The set-valued part of the node rules is well typed. *)
LEMMA FoldGrantType ==
    ASSUME NEW n \in Names, NEW reports \in SUBSET Permission
    PROVE  FoldGrant(n, reports) \in Permission
BY DEF FoldGrant, Permission

(* mergePermissions yields permissions when given permissions. *)
LEMMA MergePermissionsType ==
    ASSUME NEW a \in SUBSET Permission, NEW b \in SUBSET Permission
    PROVE  MergePermissions(a, b) \in SUBSET Permission
<1>1. a \cup b \in SUBSET Permission
  OBVIOUS
<1>2. \A p \in a \cup b : p.name \in Names
  BY <1>1 DEF Permission
<1>3. QED
  BY <1>1, <1>2, FoldGrantType DEF MergePermissions

(* A node just created is a node. *)
LEMMA NewNodeType ==
    ASSUME NEW b \in BOOLEAN
    PROVE  NewNode(b) \in Node
BY DEF NewNode, Node

(* ensure returns a node, the one on record or a new one. *)
LEMMA EnsureType ==
    ASSUME NEW ids, ids \in [DOMAIN ids -> Node], NEW priv, NEW i
    PROVE  Ensure(ids, priv, i) \in Node
<1>1. (i \in priv) \in BOOLEAN
  OBVIOUS
<1>2. NewNode(i \in priv) \in Node
  BY <1>1, NewNodeType
<1>3. QED
  BY <1>2 DEF Ensure

(* The body of AddIdentity keeps a node a node. *)
LEMMA MergeNodeType ==
    ASSUME NEW node \in Node, NEW in \in Entry
    PROVE  MergeNode(node, in) \in Node
<1>1. MergeFields(node.fields, in.fields) \in [Fields -> Values \cup {NoValue}]
  BY DEF MergeFields, Node, Entry
<1>2. MergePermissions(node.permissions, in.permissions) \in SUBSET Permission
  BY MergePermissionsType DEF Node, Entry
<1>3. QED
  BY <1>1, <1>2 DEF MergeNode, Node, Entry

(* An event is appended to a node. *)
LEMMA AppendEventType ==
    ASSUME NEW node \in Node, NEW e \in Event
    PROVE  [node EXCEPT !.events = Append(@, e)] \in Node
<1>1. node.events \in Seq(Event)
  BY DEF Node
<1>2. Append(node.events, e) \in Seq(Event)
  BY <1>1
<1>3. QED
  BY <1>2 DEF Node

(* What is under each ID once a node is written under one of them. *)
LEMMA PutAt ==
    ASSUME NEW ids, NEW i, NEW node
    PROVE  /\ DOMAIN Put(ids, i, node) = DOMAIN ids \cup {i}
           /\ Put(ids, i, node)[i] = node
           /\ \A j \in DOMAIN ids : j # i => Put(ids, i, node)[j] = ids[j]
BY DEF Put

(* Writing a node under one ID keeps the map well typed. *)
LEMMA PutType ==
    ASSUME NEW ids, ids \in [DOMAIN ids -> Node], DOMAIN ids \subseteq IDs,
           NEW i \in IDs, NEW node \in Node
    PROVE  /\ DOMAIN Put(ids, i, node) \subseteq IDs
           /\ Put(ids, i, node) \in [DOMAIN Put(ids, i, node) -> Node]
BY DEF Put

(* A parsed record is an event. *)
LEMMA ParsedType ==
    ASSUME NEW r \in Records, NEW n \in Nat
    PROVE  Parsed(r, n) \in Event
BY DEF Parsed, Event

LEMMA InitType == Init => TypeOK
BY MarksAssumption DEF Init, TypeOK

LEMMA NextType == TypeOK /\ [Next]_vars => TypeOK'
<1> SUFFICES ASSUME TypeOK, [Next]_vars PROVE TypeOK'
  OBVIOUS
<1>1. ASSUME NEW r \in Records, AddEvent(r) PROVE TypeOK'
  <2>1. Parsed(r, parses + 1) \in Event
    BY ParsedType DEF TypeOK
  <2>2. Subject[r] \in IDs
    BY SubjectAssumption
  <2>3. Ensure(identities, privileged, Subject[r]) \in Node
    BY EnsureType DEF TypeOK
  <2> DEFINE node == [Ensure(identities, privileged, Subject[r]) EXCEPT
                        !.events = Append(@, Parsed(r, parses + 1))]
  <2>4. node \in Node
    BY <2>1, <2>3, AppendEventType
  <2>5. identities' = Put(identities, Subject[r], node)
    BY <1>1 DEF AddEvent, WithEvent
  <2> HIDE DEF node
  <2>6. DOMAIN identities' \subseteq IDs /\ identities' \in [DOMAIN identities' -> Node]
    <3>1. identities \in [DOMAIN identities -> Node] /\ DOMAIN identities \subseteq IDs
      BY DEF TypeOK
    <3>2. QED
      BY <2>2, <2>4, <2>5, <3>1, PutType
  <2>7. seenEvents' \in SUBSET Event /\ parses' \in Nat /\ privileged' \in SUBSET IDs
    BY <1>1, <2>1 DEF TypeOK, AddEvent
  <2>8. QED
    BY <2>6, <2>7 DEF TypeOK
<1>2. ASSUME NEW in \in Inventory, AddIdentity(in) PROVE TypeOK'
  <2>1. in \in Entry /\ in.id \in IDs
    BY InventoryAssumption DEF Entry
  <2>2. MergeNode(Ensure(identities, privileged, in.id), in) \in Node
    BY <2>1, EnsureType, MergeNodeType DEF TypeOK
  <2>3. identities' = Put(identities, in.id, MergeNode(Ensure(identities, privileged, in.id), in))
    BY <1>2 DEF AddIdentity, WithIdentity
  <2>4. DOMAIN identities' \subseteq IDs /\ identities' \in [DOMAIN identities' -> Node]
    <3>1. identities \in [DOMAIN identities -> Node] /\ DOMAIN identities \subseteq IDs
      BY DEF TypeOK
    <3>2. QED
      BY <2>1, <2>2, <2>3, <3>1, PutType
  <2>5. QED
    BY <1>2, <2>4 DEF TypeOK, AddIdentity
<1>3. ASSUME NEW marks \in Marks, MarkPrivileged(marks) PROVE TypeOK'
  <2>1. ASSUME NEW i \in DOMAIN identities
        PROVE  [identities[i] EXCEPT !.privileged = @ \/ i \in marks] \in Node
    <3>1. identities[i] \in Node
      BY DEF TypeOK
    <3>2. (identities[i].privileged \/ i \in marks) \in BOOLEAN
      OBVIOUS
    <3>3. QED
      BY <3>1, <3>2 DEF Node
  <2>2. QED
    BY <1>3, <2>1, MarksAssumption DEF TypeOK, MarkPrivileged
<1>4. CASE UNCHANGED vars
  BY <1>4 DEF TypeOK, vars
<1>5. QED
  BY <1>1, <1>2, <1>3, <1>4 DEF Next

(* Every reachable store is well typed: graph.Store never holds an identity *)
(* that no source named, whatever the sources are.                          *)
THEOREM TypeCorrect == Spec => []TypeOK
BY InitType, NextType, PTL DEF Spec

-----------------------------------------------------------------------------
(* What each action does to the node under an ID, for the invariants below. *)

(* An event call leaves every other node alone and appends to its subject.  *)
LEMMA AddEventAt ==
    ASSUME TypeOK, NEW r \in Records, AddEvent(r)
    PROVE  /\ DOMAIN identities' = DOMAIN identities \cup {Subject[r]}
           /\ \A j \in DOMAIN identities : j # Subject[r] => identities'[j] = identities[j]
           /\ LET node == Ensure(identities, privileged, Subject[r])
              IN  /\ node \in Node
                  /\ identities'[Subject[r]] =
                       [node EXCEPT !.events = Append(@, Parsed(r, parses + 1))]
<1>1. Ensure(identities, privileged, Subject[r]) \in Node
  BY EnsureType DEF TypeOK
<1> DEFINE node == Ensure(identities, privileged, Subject[r])
           after == [node EXCEPT !.events = Append(@, Parsed(r, parses + 1))]
<1>2. identities' = Put(identities, Subject[r], after)
  BY DEF AddEvent, WithEvent
<1> HIDE DEF after
<1>3. /\ DOMAIN identities' = DOMAIN identities \cup {Subject[r]}
      /\ identities'[Subject[r]] = after
      /\ \A j \in DOMAIN identities : j # Subject[r] => identities'[j] = identities[j]
  BY <1>2 DEF Put
<1>4. QED
  BY <1>1, <1>3 DEF after

(* An inventory call leaves every other node alone and merges into its own. *)
LEMMA AddIdentityAt ==
    ASSUME TypeOK, NEW in \in Inventory, AddIdentity(in)
    PROVE  /\ DOMAIN identities' = DOMAIN identities \cup {in.id}
           /\ \A j \in DOMAIN identities : j # in.id => identities'[j] = identities[j]
           /\ LET node == Ensure(identities, privileged, in.id)
              IN  node \in Node /\ identities'[in.id] = MergeNode(node, in)
<1>1. Ensure(identities, privileged, in.id) \in Node
  BY EnsureType DEF TypeOK
<1> DEFINE after == MergeNode(Ensure(identities, privileged, in.id), in)
<1>2. identities' = Put(identities, in.id, after)
  BY DEF AddIdentity, WithIdentity
<1> HIDE DEF after
<1>3. /\ DOMAIN identities' = DOMAIN identities \cup {in.id}
      /\ identities'[in.id] = after
      /\ \A j \in DOMAIN identities : j # in.id => identities'[j] = identities[j]
  BY <1>2 DEF Put
<1>4. QED
  BY <1>1, <1>3 DEF after

-----------------------------------------------------------------------------
(* Folding all reports of each name leaves one permission per name. *)
LEMMA MergeListsOnce ==
    ASSUME NEW a, NEW b
    PROVE  \A p, q \in MergePermissions(a, b) : p.name = q.name => p = q
<1> SUFFICES ASSUME NEW p \in MergePermissions(a, b), NEW q \in MergePermissions(a, b),
                    p.name = q.name
             PROVE  p = q
  OBVIOUS
<1>1. PICK n : p = FoldGrant(n, a \cup b)
  BY DEF MergePermissions
<1>2. PICK m : q = FoldGrant(m, a \cup b)
  BY DEF MergePermissions
<1>3. p.name = n /\ q.name = m
  BY <1>1, <1>2 DEF FoldGrant
<1>4. QED
  BY <1>1, <1>2, <1>3

(* No sequence of store calls lists a permission name twice: replaying an   *)
(* inventory cannot double a grant, whatever the connectors report.         *)
THEOREM GrantsOnce == Spec => []GrantsListedOnce
<1>1. Init => GrantsListedOnce
  BY DEF Init, GrantsListedOnce
<1>2. TypeOK /\ GrantsListedOnce /\ [Next]_vars => GrantsListedOnce'
  <2> SUFFICES ASSUME TypeOK, GrantsListedOnce, [Next]_vars, NEW id \in DOMAIN identities'
               PROVE  \A p, q \in identities'[id].permissions : p.name = q.name => p = q
    BY DEF GrantsListedOnce
  <2>1. ASSUME NEW r \in Records, AddEvent(r)
        PROVE  \A p, q \in identities'[id].permissions : p.name = q.name => p = q
    <3>1. CASE id # Subject[r]
      BY <2>1, <3>1, AddEventAt DEF GrantsListedOnce
    <3>2. CASE id = Subject[r]
      <4>1. identities'[id].permissions = Ensure(identities, privileged, id).permissions
        BY <2>1, <3>2, AddEventAt DEF Node
      <4>2. QED
        BY <4>1 DEF Ensure, NewNode, GrantsListedOnce
    <3>3. QED
      BY <3>1, <3>2
  <2>2. ASSUME NEW in \in Inventory, AddIdentity(in)
        PROVE  \A p, q \in identities'[id].permissions : p.name = q.name => p = q
    <3>1. CASE id # in.id
      BY <2>2, <3>1, AddIdentityAt DEF GrantsListedOnce
    <3>2. CASE id = in.id
      <4>1. identities'[id].permissions =
              MergePermissions(Ensure(identities, privileged, id).permissions, in.permissions)
        <5>1. identities'[in.id] = MergeNode(Ensure(identities, privileged, in.id), in)
          BY <2>2, AddIdentityAt
        <5>2. QED
          BY <5>1, <3>2 DEF MergeNode
      <4>2. QED
        BY <4>1, MergeListsOnce
    <3>3. QED
      BY <3>1, <3>2
  <2>3. ASSUME NEW marks \in Marks, MarkPrivileged(marks)
        PROVE  \A p, q \in identities'[id].permissions : p.name = q.name => p = q
    <3>1. id \in DOMAIN identities /\ identities[id] \in Node
      BY <2>3 DEF MarkPrivileged, TypeOK
    <3>2. identities'[id].permissions = identities[id].permissions
      BY <2>3, <3>1 DEF MarkPrivileged, Node
    <3>3. QED
      BY <3>1, <3>2 DEF GrantsListedOnce
  <2>4. CASE UNCHANGED vars
    BY <2>4 DEF vars, GrantsListedOnce
  <2>5. QED
    BY <2>1, <2>2, <2>3, <2>4 DEF Next
<1>3. QED
  BY <1>1, <1>2, TypeCorrect, PTL DEF Spec

(* An identity the operator named is privileged, in whichever order the     *)
(* name and the identity reached the store (New before, MarkPrivileged      *)
(* after).                                                                  *)
THEOREM MarksHold == Spec => []OperatorMarksHold
<1>1. Init => OperatorMarksHold
  BY DEF Init, OperatorMarksHold
<1>2. TypeOK /\ OperatorMarksHold /\ [Next]_vars => OperatorMarksHold'
  <2> SUFFICES ASSUME TypeOK, OperatorMarksHold, [Next]_vars,
                      NEW id \in DOMAIN identities', id \in privileged'
               PROVE  identities'[id].privileged
    BY DEF OperatorMarksHold
  <2>0. ASSUME id \in privileged PROVE Ensure(identities, privileged, id).privileged
    BY <2>0 DEF Ensure, NewNode, OperatorMarksHold
  <2>1. ASSUME NEW r \in Records, AddEvent(r) PROVE identities'[id].privileged
    <3>1. id \in privileged
      BY <2>1 DEF AddEvent
    <3>2. CASE id # Subject[r]
      <4>1. id \in DOMAIN identities /\ identities'[id] = identities[id]
        BY <2>1, <3>2, AddEventAt
      <4>2. QED
        BY <3>1, <4>1 DEF OperatorMarksHold
    <3>3. CASE id = Subject[r]
      <4>1. identities'[id].privileged = Ensure(identities, privileged, id).privileged
        BY <2>1, <3>3, AddEventAt DEF Node
      <4>2. QED
        BY <2>0, <3>1, <4>1
    <3>4. QED
      BY <3>2, <3>3
  <2>2. ASSUME NEW in \in Inventory, AddIdentity(in) PROVE identities'[id].privileged
    <3>1. id \in privileged
      BY <2>2 DEF AddIdentity
    <3>2. CASE id # in.id
      <4>1. id \in DOMAIN identities /\ identities'[id] = identities[id]
        BY <2>2, <3>2, AddIdentityAt
      <4>2. QED
        BY <3>1, <4>1 DEF OperatorMarksHold
    <3>3. CASE id = in.id
      <4>1. identities'[in.id] = MergeNode(Ensure(identities, privileged, in.id), in)
        BY <2>2, AddIdentityAt
      <4>2. QED
        <5>1. identities'[id].privileged =
                (Ensure(identities, privileged, id).privileged \/ in.privileged)
          BY <3>3, <4>1 DEF MergeNode
        <5>2. QED
          BY <2>0, <3>1, <5>1
    <3>4. QED
      BY <3>2, <3>3
  <2>3. ASSUME NEW marks \in Marks, MarkPrivileged(marks)
        PROVE  identities'[id].privileged
    <3>1. id \in DOMAIN identities /\ identities[id] \in Node
      BY <2>3 DEF MarkPrivileged, TypeOK
    <3>2. identities'[id].privileged = (identities[id].privileged \/ id \in marks)
      BY <2>3, <3>1 DEF MarkPrivileged, Node
    <3>3. id \in privileged \/ id \in marks
      BY <2>3 DEF MarkPrivileged
    <3>4. QED
      BY <3>1, <3>2, <3>3 DEF OperatorMarksHold
  <2>4. CASE UNCHANGED vars
    BY <2>4 DEF vars, OperatorMarksHold
  <2>5. QED
    BY <2>1, <2>2, <2>3, <2>4 DEF Next
<1>3. QED
  BY <1>1, <1>2, TypeCorrect, PTL DEF Spec

-----------------------------------------------------------------------------
(* Parsed gives the zone 0 to every record but those of FreshZones. *)
HasInternedZone(e) == e.record \notin FreshZones => e.zone = 0

(* Every held event is in the dedupe set and, those of FreshZones apart,    *)
(* carries an interned zone: what makes a lookup in the set as good as a    *)
(* lookup by natural key.                                                   *)
HeldAreSeen ==
    \A id \in DOMAIN identities : \A i \in 1..Len(identities[id].events) :
        /\ identities[id].events[i] \in seenEvents
        /\ HasInternedZone(identities[id].events[i])

EventsInv == HeldAreSeen /\ EventsCountedOnce

(* The conjuncts of EventsInv for one slice of events about id. *)
SliceOK(seen, id, evs) ==
    /\ \A i \in 1..Len(evs) : evs[i] \in seen /\ HasInternedZone(evs[i])
    /\ \A i \in 1..Len(evs) : Subject[evs[i].record] = id
    /\ \A i, j \in 1..Len(evs) :
          evs[i].record = evs[j].record => i = j \/ evs[i].record \in FreshZones

LEMMA EventsInvBySlice ==
    EventsInv <=> \A id \in DOMAIN identities : SliceOK(seenEvents, id, identities[id].events)
BY DEF EventsInv, HeldAreSeen, EventsCountedOnce, NaturalKey, SliceOK

(* Appending an event that the dedupe set does not hold. *)
LEMMA AppendUnseen ==
    ASSUME NEW id, NEW evs \in Seq(Event), SliceOK(seenEvents, id, evs),
           NEW e \in Event, e \notin seenEvents, HasInternedZone(e), Subject[e.record] = id
    PROVE  SliceOK(seenEvents \cup {e}, id, Append(evs, e))
<1> DEFINE new == Append(evs, e)
<1>1. /\ Len(new) = Len(evs) + 1 /\ Len(evs) \in Nat
      /\ \A i \in 1..Len(evs) : new[i] = evs[i] /\ evs[i] \in Event
      /\ new[Len(evs) + 1] = e
  OBVIOUS
<1>2. ASSUME NEW i \in 1..Len(evs), e.record \notin FreshZones
      PROVE  evs[i].record # e.record
  <2>1. evs[i] # e /\ evs[i] \in Event /\ HasInternedZone(evs[i])
    BY <1>1 DEF SliceOK
  <2>2. QED
    BY <1>2, <2>1 DEF Event, HasInternedZone
<1>3. ASSUME NEW i \in 1..Len(new)
      PROVE  /\ new[i] \in seenEvents \cup {e} /\ HasInternedZone(new[i])
             /\ Subject[new[i].record] = id
  <2>1. CASE i \in 1..Len(evs)
    BY <1>1, <2>1 DEF SliceOK
  <2>2. CASE i = Len(evs) + 1
    BY <1>1, <2>2
  <2>3. QED
    BY <1>1, <2>1, <2>2
<1>4. ASSUME NEW i \in 1..Len(new), NEW j \in 1..Len(new), new[i].record = new[j].record
      PROVE  i = j \/ new[i].record \in FreshZones
  <2>1. CASE i \in 1..Len(evs) /\ j \in 1..Len(evs)
    BY <1>1, <1>4, <2>1 DEF SliceOK
  <2>2. CASE i = Len(evs) + 1 /\ j \in 1..Len(evs)
    BY <1>1, <1>2, <1>4, <2>2
  <2>3. CASE i \in 1..Len(evs) /\ j = Len(evs) + 1
    BY <1>1, <1>2, <1>4, <2>3
  <2>4. CASE i = Len(evs) + 1 /\ j = Len(evs) + 1
    BY <2>4
  <2>5. QED
    BY <1>1, <2>1, <2>2, <2>3, <2>4
<1> HIDE DEF new
<1>5. SliceOK(seenEvents \cup {e}, id, new)
  BY <1>3, <1>4 DEF SliceOK
<1>6. QED
  BY <1>5 DEF new

(* A slice that was in order stays in order when the dedupe set grows. *)
LEMMA SliceKept ==
    ASSUME NEW id, NEW evs, NEW S, NEW T, SliceOK(S, id, evs), S \subseteq T
    PROVE  SliceOK(T, id, evs)
BY DEF SliceOK

(* A node just created has no events. *)
LEMMA EnsureSlice ==
    ASSUME TypeOK, EventsInv, NEW id
    PROVE  SliceOK(seenEvents, id, Ensure(identities, privileged, id).events)
<1>1. CASE id \in DOMAIN identities
  BY <1>1, EventsInvBySlice DEF Ensure
<1>2. CASE id \notin DOMAIN identities
  <2>1. Ensure(identities, privileged, id).events = << >>
    BY <1>2 DEF Ensure, NewNode
  <2>2. QED
    BY <2>1 DEF SliceOK
<1>3. QED
  BY <1>1, <1>2

(* No sequence of replays counts an event twice: every record whose parses  *)
(* share a zone is held once at most.                                       *)
THEOREM EventsOnce == Spec => []EventsCountedOnce
<1>1. Init => EventsInv
  BY DEF Init, EventsInv, HeldAreSeen, EventsCountedOnce
<1>2. TypeOK /\ EventsInv /\ [Next]_vars => EventsInv'
  <2> SUFFICES ASSUME TypeOK, EventsInv, [Next]_vars, NEW id \in DOMAIN identities'
               PROVE  SliceOK(seenEvents', id, identities'[id].events)
    BY DEF EventsInv, HeldAreSeen, EventsCountedOnce, NaturalKey, SliceOK
  <2>1. ASSUME NEW r \in Records, AddEvent(r)
        PROVE  SliceOK(seenEvents', id, identities'[id].events)
    <3> DEFINE e == Parsed(r, parses + 1)
    <3>1. /\ e \in Event /\ HasInternedZone(e) /\ e.record = r /\ e \notin seenEvents
          /\ seenEvents' = seenEvents \cup {e}
      BY <2>1 DEF AddEvent, Parsed, Event, HasInternedZone, TypeOK
    <3> HIDE DEF e
    <3>2. CASE id # Subject[r]
      <4>1. id \in DOMAIN identities /\ identities'[id] = identities[id]
        BY <2>1, <3>2, AddEventAt
      <4>2. SliceOK(seenEvents, id, identities[id].events)
        BY <4>1, EventsInvBySlice
      <4>3. SliceOK(seenEvents \cup {e}, id, identities[id].events)
        BY <4>2, SliceKept
      <4>4. QED
        BY <3>1, <4>1, <4>3
    <3>3. CASE id = Subject[r]
      <4>1. /\ Ensure(identities, privileged, id).events \in Seq(Event)
            /\ identities'[id].events = Append(Ensure(identities, privileged, id).events, e)
        BY <2>1, <3>3, AddEventAt DEF Node, e
      <4>2. SliceOK(seenEvents, id, Ensure(identities, privileged, id).events)
        BY EnsureSlice
      <4>3. Subject[e.record] = id
        BY <3>1, <3>3
      <4> DEFINE evs == Ensure(identities, privileged, id).events
      <4>4. SliceOK(seenEvents \cup {e}, id, Append(evs, e))
        <5> HIDE DEF evs
        <5>1. evs \in Seq(Event) /\ SliceOK(seenEvents, id, evs)
          BY <4>1, <4>2 DEF evs
        <5>2. QED
          BY <3>1, <4>3, <5>1, AppendUnseen
      <4>5. QED
        BY <3>1, <4>1, <4>4
    <3>4. QED
      BY <3>2, <3>3
  <2>2. ASSUME NEW in \in Inventory, AddIdentity(in)
        PROVE  SliceOK(seenEvents', id, identities'[id].events)
    <3>1. seenEvents' = seenEvents
      BY <2>2 DEF AddIdentity
    <3>2. CASE id # in.id
      <4>1. id \in DOMAIN identities /\ identities'[id] = identities[id]
        BY <2>2, <3>2, AddIdentityAt
      <4>2. QED
        BY <3>1, <4>1, EventsInvBySlice DEF SliceOK
    <3>3. CASE id = in.id
      <4>1. identities'[in.id] = MergeNode(Ensure(identities, privileged, in.id), in)
        BY <2>2, AddIdentityAt
      <4>2. identities'[id].events = Ensure(identities, privileged, id).events
        BY <3>3, <4>1 DEF MergeNode
      <4>3. QED
        BY <3>1, <4>2, EnsureSlice DEF SliceOK
    <3>4. QED
      BY <3>2, <3>3
  <2>3. ASSUME NEW marks \in Marks, MarkPrivileged(marks)
        PROVE  SliceOK(seenEvents', id, identities'[id].events)
    <3>1. id \in DOMAIN identities /\ identities[id] \in Node /\ seenEvents' = seenEvents
      BY <2>3 DEF MarkPrivileged, TypeOK
    <3>2. identities'[id].events = identities[id].events
      BY <2>3, <3>1 DEF MarkPrivileged, Node
    <3>3. QED
      BY <3>1, <3>2, EventsInvBySlice DEF SliceOK
  <2>4. CASE UNCHANGED vars
    BY <2>4, EventsInvBySlice DEF vars, SliceOK
  <2>5. QED
    BY <2>1, <2>2, <2>3, <2>4 DEF Next
<1>3. EventsInv => EventsCountedOnce
  BY DEF EventsInv
<1>4. QED
  BY <1>1, <1>2, <1>3, TypeCorrect, PTL DEF Spec

-----------------------------------------------------------------------------
(* A node knows what it knew. *)
LEMMA RetainsSelf == ASSUME NEW node \in Node PROVE Retains(node, node)
BY DEF Retains, Node

(* mergePermissions keeps every report of a grant, folded with the others. *)
LEMMA MergePermissionsRetains ==
    ASSUME NEW a, NEW b, NEW p \in a
    PROVE  \E q \in MergePermissions(a, b) :
              /\ q.name = p.name
              /\ p.admin => q.admin
              /\ p.used => q.used
              /\ p.actions \subseteq q.actions
<1> DEFINE q == FoldGrant(p.name, a \cup b)
<1>1. q \in MergePermissions(a, b)
  BY DEF MergePermissions
<1>2. q.name = p.name /\ (p.admin => q.admin) /\ (p.used => q.used)
  BY DEF FoldGrant
<1>3. p.actions \subseteq q.actions
  BY DEF FoldGrant
<1>4. QED
  BY <1>1, <1>2, <1>3

(* The body of AddIdentity loses nothing the node knew. *)
LEMMA MergeNodeRetains ==
    ASSUME NEW node \in Node, NEW in \in Entry
    PROVE  Retains(node, MergeNode(node, in))
<1> DEFINE new == MergeNode(node, in)
<1>1. \A f \in Fields : node.fields[f] # NoValue => new.fields[f] # NoValue
  BY DEF MergeNode, MergeFields
<1>2. /\ node.lastUsed <= new.lastUsed
      /\ node.privileged => new.privileged
      /\ node.shadow => new.shadow
      /\ new.permissions = MergePermissions(node.permissions, in.permissions)
      /\ new.events = node.events
  BY DEF MergeNode, Node, Entry
<1>3. Len(node.events) <= Len(new.events)
  BY <1>2 DEF Node
<1> HIDE DEF new
<1>4. Retains(node, new)
  BY <1>1, <1>2, <1>3, MergePermissionsRetains DEF Retains
<1>5. QED
  BY <1>4 DEF new

(* An appended event leaves the earlier ones in place. *)
LEMMA AppendRetains ==
    ASSUME NEW node \in Node, NEW e \in Event
    PROVE  Retains(node, [node EXCEPT !.events = Append(@, e)])
<1> DEFINE new == [node EXCEPT !.events = Append(@, e)]
<1>1. /\ new.fields = node.fields /\ new.lastUsed = node.lastUsed
      /\ new.privileged = node.privileged /\ new.shadow = node.shadow
      /\ new.permissions = node.permissions /\ new.events = Append(node.events, e)
      /\ node.events \in Seq(Event) /\ node.lastUsed \in Nat
  BY DEF Node
<1>2. /\ Len(node.events) <= Len(new.events)
      /\ \A i \in 1..Len(node.events) : new.events[i] = node.events[i]
  BY <1>1
<1> HIDE DEF new
<1>3. Retains(node, new)
  BY <1>1, <1>2 DEF Retains
<1>4. QED
  BY <1>3 DEF new

(* No call on the store erases evidence, whatever the connectors report and *)
(* in whatever order: the direction store.go:107-109 calls the safe one.    *)
THEOREM EvidenceKept == Spec => EvidenceRetained
<1> DEFINE Kept == \A id \in DOMAIN identities :
                      id \in DOMAIN identities' /\ Retains(identities[id], identities'[id])
<1>1. TypeOK /\ [Next]_vars => [Kept]_vars
  <2> SUFFICES ASSUME TypeOK, Next, NEW id \in DOMAIN identities
               PROVE  id \in DOMAIN identities' /\ Retains(identities[id], identities'[id])
    OBVIOUS
  <2>0. identities[id] \in Node
    BY DEF TypeOK
  <2>1. ASSUME NEW r \in Records, AddEvent(r)
        PROVE  id \in DOMAIN identities' /\ Retains(identities[id], identities'[id])
    <3>1. id \in DOMAIN identities' /\ Parsed(r, parses + 1) \in Event
      <4>1. parses + 1 \in Nat
        BY DEF TypeOK
      <4>2. Parsed(r, parses + 1) \in Event
        BY <4>1, ParsedType
      <4>3. id \in DOMAIN identities'
        BY <2>1, AddEventAt
      <4>4. QED
        BY <4>2, <4>3
    <3>2. CASE id # Subject[r]
      BY <2>0, <2>1, <3>1, <3>2, AddEventAt, RetainsSelf
    <3>3. CASE id = Subject[r]
      <4>1. Ensure(identities, privileged, Subject[r]) = identities[id]
        BY <3>3 DEF Ensure
      <4>2. identities'[id] = [identities[id] EXCEPT !.events = Append(@, Parsed(r, parses + 1))]
        BY <2>1, <3>3, <4>1, AddEventAt
      <4>3. QED
        BY <2>0, <3>1, <4>2, AppendRetains
    <3>4. QED
      BY <3>2, <3>3
  <2>2. ASSUME NEW in \in Inventory, AddIdentity(in)
        PROVE  id \in DOMAIN identities' /\ Retains(identities[id], identities'[id])
    <3>1. id \in DOMAIN identities' /\ in \in Entry
      BY <2>2, AddIdentityAt, InventoryAssumption
    <3>2. CASE id # in.id
      BY <2>0, <2>2, <3>1, <3>2, AddIdentityAt, RetainsSelf
    <3>3. CASE id = in.id
      <4>1. Ensure(identities, privileged, in.id) = identities[id]
        BY <3>3 DEF Ensure
      <4>2. identities'[id] = MergeNode(identities[id], in)
        BY <2>2, <3>3, <4>1, AddIdentityAt
      <4>3. QED
        BY <2>0, <3>1, <4>2, MergeNodeRetains
    <3>4. QED
      BY <3>2, <3>3
  <2>3. ASSUME NEW marks \in Marks, MarkPrivileged(marks)
        PROVE  id \in DOMAIN identities' /\ Retains(identities[id], identities'[id])
    <3> DEFINE new == [identities[id] EXCEPT !.privileged = @ \/ id \in marks]
    <3>1. id \in DOMAIN identities' /\ identities'[id] = new
      BY <2>3 DEF MarkPrivileged
    <3>2. /\ new.fields = identities[id].fields /\ new.lastUsed = identities[id].lastUsed
          /\ identities[id].privileged => new.privileged
          /\ new.shadow = identities[id].shadow /\ new.events = identities[id].events
          /\ new.permissions = identities[id].permissions
      BY <2>0 DEF Node
    <3> HIDE DEF new
    <3>3. Retains(identities[id], new)
      BY <2>0, <3>2, RetainsSelf DEF Retains
    <3>4. QED
      BY <3>1, <3>3
  <2>4. QED
    BY <2>1, <2>2, <2>3 DEF Next
<1>2. [][Kept]_vars => EvidenceRetained
  BY DEF EvidenceRetained
<1>3. QED
  BY <1>1, <1>2, TypeCorrect, PTL DEF Spec

-----------------------------------------------------------------------------
(* The store implements the ledger: every call adds the facts it was given,  *)
(* and the marks of those it names, and nothing else.                      *)

NodeFacts(id, node) ==
    EntryFacts(id, node) \cup {<<"event", id, node.events[i]>> : i \in 1..Len(node.events)}

GrantFacts(id, grants) ==
       {<<"granted", id, p.name>> : p \in grants}
  \cup {<<"admin", id, p.name>> : p \in {q \in grants : q.admin}}
  \cup {<<"used", id, p.name>> : p \in {q \in grants : q.used}}
  \cup UNION {{<<"allows", id, p.name, a>> : a \in p.actions} : p \in grants}

FlagFacts(id, node) ==
       {<<"known", id>>}
  \cup {<<"privileged", id>> : x \in {y \in {id} : node.privileged}}
  \cup {<<"shadow", id>> : x \in {y \in {id} : node.shadow}}

LEMMA StoreIsItsNodes ==
    StoreFacts = UNION {NodeFacts(id, identities[id]) : id \in DOMAIN identities}
BY DEF StoreFacts, NodeFacts

LEMMA EntryIsFlagsAndGrants ==
    ASSUME NEW id, NEW node
    PROVE  EntryFacts(id, node) = FlagFacts(id, node) \cup GrantFacts(id, node.permissions)
BY DEF EntryFacts, FlagFacts, GrantFacts

(* What a merged permission says is what some report of that name said. *)
SaysWhatAll(merged, all) ==
    /\ \A p \in all : \E q \in merged : q.name = p.name
    /\ \A q \in merged :
         /\ \E p \in all : p.name = q.name
         /\ q.admin <=> \E p \in all : p.name = q.name /\ p.admin
         /\ q.used <=> \E p \in all : p.name = q.name /\ p.used
         /\ \A x : x \in q.actions <=> \E p \in all : p.name = q.name /\ x \in p.actions

LEMMA MergedSays ==
    ASSUME NEW a \in SUBSET Permission, NEW b \in SUBSET Permission
    PROVE  SaysWhatAll(MergePermissions(a, b), a \cup b)
<1> DEFINE all == a \cup b
<1>1. MergePermissions(a, b) = {FoldGrant(name, all) : name \in {p.name : p \in all}}
  BY DEF MergePermissions
<1>2. ASSUME NEW n
      PROVE  /\ FoldGrant(n, all).name = n
             /\ FoldGrant(n, all).admin <=> \E p \in all : p.name = n /\ p.admin
             /\ FoldGrant(n, all).used <=> \E p \in all : p.name = n /\ p.used
             /\ \A x : x \in FoldGrant(n, all).actions
                         <=> \E p \in all : p.name = n /\ x \in p.actions
  BY DEF FoldGrant
<1> HIDE DEF all
<1>3. ASSUME NEW p \in all PROVE \E q \in MergePermissions(a, b) : q.name = p.name
  BY <1>1, <1>2
<1>4. ASSUME NEW q \in MergePermissions(a, b)
      PROVE  /\ \E p \in all : p.name = q.name
             /\ q.admin <=> \E p \in all : p.name = q.name /\ p.admin
             /\ q.used <=> \E p \in all : p.name = q.name /\ p.used
             /\ \A x : x \in q.actions <=> \E p \in all : p.name = q.name /\ x \in p.actions
  <2>1. PICK p \in all : q = FoldGrant(p.name, all)
    BY <1>1
  <2> QED BY <1>2, <2>1
<1> QED BY <1>3, <1>4 DEF all, SaysWhatAll

(* mergePermissions loses no fact about a grant, and makes none up. *)
LEMMA MergeGrantFacts ==
    ASSUME NEW id, NEW a \in SUBSET Permission, NEW b \in SUBSET Permission
    PROVE  GrantFacts(id, MergePermissions(a, b)) = GrantFacts(id, a) \cup GrantFacts(id, b)
<1> DEFINE m == MergePermissions(a, b)
           all == a \cup b
<1>1. SaysWhatAll(m, all)
  BY MergedSays
<1> HIDE DEF m
<1>2. GrantFacts(id, a) \cup GrantFacts(id, b) = GrantFacts(id, all)
  BY DEF GrantFacts
<1> HIDE DEF all
<1>3. {<<"granted", id, p.name>> : p \in m} = {<<"granted", id, p.name>> : p \in all}
  BY <1>1 DEF SaysWhatAll
<1>4. {<<"admin", id, p.name>> : p \in {q \in m : q.admin}}
        = {<<"admin", id, p.name>> : p \in {q \in all : q.admin}}
  BY <1>1 DEF SaysWhatAll
<1>5. {<<"used", id, p.name>> : p \in {q \in m : q.used}}
        = {<<"used", id, p.name>> : p \in {q \in all : q.used}}
  BY <1>1 DEF SaysWhatAll
<1>6. UNION {{<<"allows", id, p.name, x>> : x \in p.actions} : p \in m}
        = UNION {{<<"allows", id, p.name, x>> : x \in p.actions} : p \in all}
  BY <1>1 DEF SaysWhatAll
<1>7. GrantFacts(id, m) = GrantFacts(id, all)
  BY <1>3, <1>4, <1>5, <1>6 DEF GrantFacts
<1> QED BY <1>2, <1>7 DEF m

(* AddIdentity's merge adds the facts of the entry to those of the node. *)
LEMMA MergeNodeFacts ==
    ASSUME NEW id, NEW node \in Node, NEW in \in Entry
    PROVE  NodeFacts(id, MergeNode(node, in)) = NodeFacts(id, node) \cup EntryFacts(id, in)
<1> DEFINE new == MergeNode(node, in)
<1>1. /\ new.events = node.events
      /\ new.permissions = MergePermissions(node.permissions, in.permissions)
      /\ new.privileged <=> node.privileged \/ in.privileged
      /\ new.shadow <=> node.shadow \/ in.shadow
  BY DEF MergeNode
<1>2. node.permissions \in SUBSET Permission /\ in.permissions \in SUBSET Permission
  BY DEF Node, Entry
<1> HIDE DEF new
<1>3. FlagFacts(id, new) = FlagFacts(id, node) \cup FlagFacts(id, in)
  BY <1>1 DEF FlagFacts
<1>4. GrantFacts(id, new.permissions)
        = GrantFacts(id, node.permissions) \cup GrantFacts(id, in.permissions)
  BY <1>1, <1>2, MergeGrantFacts
<1> QED BY <1>1, <1>3, <1>4, EntryIsFlagsAndGrants DEF NodeFacts, new

(* AddEvent's append adds the event. *)
LEMMA AppendFacts ==
    ASSUME NEW id, NEW node \in Node, NEW e \in Event
    PROVE  NodeFacts(id, [node EXCEPT !.events = Append(@, e)])
             = NodeFacts(id, node) \cup {<<"event", id, e>>}
<1> DEFINE new == [node EXCEPT !.events = Append(@, e)]
           evs == node.events
<1>1. /\ new.privileged = node.privileged /\ new.shadow = node.shadow
      /\ new.permissions = node.permissions /\ new.events = Append(evs, e)
      /\ evs \in Seq(Event)
  BY DEF Node
<1> HIDE DEF new, evs
<1>2. /\ Len(Append(evs, e)) = Len(evs) + 1 /\ Len(evs) \in Nat
      /\ Append(evs, e)[Len(evs) + 1] = e
      /\ \A i \in 1..Len(evs) : Append(evs, e)[i] = evs[i]
  BY <1>1
<1>3. 1..(Len(evs) + 1) = (1..Len(evs)) \cup {Len(evs) + 1}
  BY <1>2
<1>4. {<<"event", id, new.events[i]>> : i \in 1..Len(new.events)}
        = {<<"event", id, evs[i]>> : i \in 1..Len(evs)} \cup {<<"event", id, e>>}
  BY <1>1, <1>2, <1>3
<1>5. EntryFacts(id, new) = EntryFacts(id, node)
  BY <1>1 DEF EntryFacts
<1> QED BY <1>4, <1>5 DEF NodeFacts, new, evs

(* Among the facts of a node only its own says that somebody is known. *)
LEMMA KnownOnlyItself ==
    ASSUME NEW id, NEW node, NEW j
    PROVE  <<"known", j>> \in NodeFacts(id, node) <=> j = id
BY DEF NodeFacts, EntryFacts

(* Writing a node that says all that the one under its ID said adds what it  *)
(* says to the store's facts.                                              *)
LEMMA PutFacts ==
    ASSUME NEW id, NEW node,
           DOMAIN identities' = DOMAIN identities \cup {id}, identities'[id] = node,
           \A j \in DOMAIN identities : j # id => identities'[j] = identities[j],
           id \in DOMAIN identities => NodeFacts(id, identities[id]) \subseteq NodeFacts(id, node)
    PROVE  StoreFacts' = StoreFacts \cup NodeFacts(id, node)
<1>1. StoreFacts' = UNION {NodeFacts(j, identities'[j]) : j \in DOMAIN identities'}
  BY DEF StoreFacts, NodeFacts
<1>2. UNION {NodeFacts(j, identities'[j]) : j \in DOMAIN identities'}
        = (UNION {NodeFacts(j, identities[j]) : j \in DOMAIN identities}) \cup NodeFacts(id, node)
  OBVIOUS
<1> QED BY <1>1, <1>2, StoreIsItsNodes

(* Who is known is who is in the store. *)
LEMMA KnownAreThere ==
    ASSUME NEW j
    PROVE  <<"known", j>> \in StoreFacts <=> j \in DOMAIN identities
BY StoreIsItsNodes, KnownOnlyItself

(* A report about id that says it is known, in the terms of the ledger. *)
LEMMA ReportAddsItsFacts ==
    ASSUME TypeOK, OperatorMarksHold, NEW id \in IDs, NEW node, NEW facts,
           DOMAIN identities' = DOMAIN identities \cup {id}, identities'[id] = node,
           \A j \in DOMAIN identities : j # id => identities'[j] = identities[j],
           NodeFacts(id, node)
             = NodeFacts(id, Ensure(identities, privileged, id)) \cup facts,
           \A j : <<"known", j>> \in facts <=> j = id
    PROVE  StoreFacts' = Ledger!Closed(StoreFacts \cup facts, privileged)
<1> DEFINE old == NodeFacts(id, Ensure(identities, privileged, id))
<1>1. id \in DOMAIN identities => Ensure(identities, privileged, id) = identities[id]
  BY DEF Ensure
<1>2. StoreFacts' = StoreFacts \cup old \cup facts
  BY <1>1, PutFacts
<1>3. ASSUME id \in DOMAIN identities PROVE old \subseteq StoreFacts
  BY <1>1, <1>3, StoreIsItsNodes
<1>4. ASSUME id \notin DOMAIN identities
      PROVE  \A f : f \in old <=> f = <<"known", id>> \/ (id \in privileged /\ f = <<"privileged", id>>)
  <2>1. Ensure(identities, privileged, id) = NewNode(id \in privileged)
    BY <1>4 DEF Ensure
  <2>2. ASSUME NEW b \in BOOLEAN
        PROVE  \A f : f \in NodeFacts(id, NewNode(b)) <=>
                        f = <<"known", id>> \/ (b /\ f = <<"privileged", id>>)
    <3> DEFINE n == NewNode(b)
    <3>1. n.permissions = {} /\ n.privileged = b /\ n.shadow = FALSE /\ n.events = <<>>
      BY DEF NewNode
    <3> HIDE DEF n
    <3>2. 1..Len(n.events) = {}
      BY <3>1
    <3>3. \A f : f \in NodeFacts(id, n) <=>
                   f = <<"known", id>> \/ (b /\ f = <<"privileged", id>>)
      BY <3>1, <3>2 DEF NodeFacts, EntryFacts
    <3> QED BY <3>3 DEF n
  <2>3. CASE id \in privileged
    <3>1. Ensure(identities, privileged, id) = NewNode(TRUE)
      BY <2>1, <2>3 DEF NewNode
    <3> QED BY <2>2, <2>3, <3>1
  <2>4. CASE id \notin privileged
    <3>0. (id \in privileged) = FALSE
      BY <2>4
    <3>1. Ensure(identities, privileged, id) = NewNode(FALSE)
      BY <2>1, <3>0
    <3> QED BY <2>2, <2>4, <3>1
  <2> QED BY <2>3, <2>4
<1>5. ASSUME NEW j \in DOMAIN identities, j \in privileged
      PROVE  <<"privileged", j>> \in StoreFacts
  <2>1. identities[j].privileged
    BY <1>5 DEF OperatorMarksHold
  <2>2. <<"privileged", j>> \in NodeFacts(j, identities[j])
    BY <2>1 DEF NodeFacts, EntryFacts
  <2> QED BY <2>2, StoreIsItsNodes
<1>6. \A j : <<"known", j>> \in StoreFacts \cup facts <=> j \in DOMAIN identities \cup {id}
  BY KnownAreThere
<1> HIDE DEF old
<1>7. ASSUME NEW f
      PROVE  f \in StoreFacts' <=> f \in Ledger!Closed(StoreFacts \cup facts, privileged)
  <2>1. f \in Ledger!Closed(StoreFacts \cup facts, privileged) <=>
          \/ f \in StoreFacts \cup facts
          \/ \E j \in privileged : j \in DOMAIN identities \cup {id} /\ f = <<"privileged", j>>
    <3>1. f \in Ledger!Closed(StoreFacts \cup facts, privileged) <=>
            \/ f \in StoreFacts \cup facts
            \/ \E j \in privileged : <<"known", j>> \in StoreFacts \cup facts
                                     /\ f = <<"privileged", j>>
      BY DEF Ledger!Closed, Ledger!Known, Ledger!Privileged
    <3> QED BY <1>6, <3>1, Zenon
  <2>2. CASE id \in DOMAIN identities
    BY <1>2, <1>3, <1>5, <2>1, <2>2
  <2>3. CASE id \notin DOMAIN identities
    BY <1>2, <1>4, <1>5, <2>1, <2>3
  <2> QED BY <2>2, <2>3
<1> QED BY <1>7 DEF Ledger!Closed

ParsesBounded == parses <= MaxParses

LedgerInv == TypeOK /\ OperatorMarksHold /\ ParsesBounded

LEMMA LedgerStep == LedgerInv /\ [Next]_vars => [Ledger!Next]_(Ledger!vars)
<1> SUFFICES ASSUME LedgerInv, [Next]_vars PROVE Ledger!Next \/ UNCHANGED Ledger!vars
  OBVIOUS
<1> USE DEF LedgerInv
<1>1. CASE UNCHANGED vars
  BY <1>1 DEF vars, Ledger!vars, StoreFacts
<1>2. ASSUME NEW r \in Records, AddEvent(r) PROVE Ledger!Next
  <2> DEFINE e == Parsed(r, parses + 1)
             id == Subject[r]
             node == Ensure(identities, privileged, id)
  <2>1. e \in Event /\ id \in IDs /\ node \in Node
    BY ParsedType, EnsureType, SubjectAssumption DEF TypeOK
  <2>2. /\ DOMAIN identities' = DOMAIN identities \cup {id}
        /\ \A j \in DOMAIN identities : j # id => identities'[j] = identities[j]
        /\ identities'[id] = [node EXCEPT !.events = Append(@, e)]
        /\ privileged' = privileged
    BY <1>2, AddEventAt DEF AddEvent
  <2>3. EventFacts(id, e) \in ReportableFacts
    <3>1. \E n \in 1..(MaxParses + 1) : e = Parsed(r, n)
      <4>1. CASE r \in FreshZones
        <5>1. parses + 1 \in 1..(MaxParses + 1)
          BY <1>2, <4>1, ZonesAssumption DEF AddEvent, TypeOK
        <5> QED BY <5>1
      <4>2. CASE r \notin FreshZones
        <5>1. e = Parsed(r, 1) /\ 1 \in 1..(MaxParses + 1)
          BY <4>2, ZonesAssumption DEF Parsed
        <5> QED BY <5>1
      <4> QED BY <4>1, <4>2
    <3>2. PICK n \in 1..(MaxParses + 1) : e = Parsed(r, n)
      BY <3>1
    <3> QED BY <3>2 DEF ReportableFacts
  <2> HIDE DEF e, id, node
  <2>4. NodeFacts(id, [node EXCEPT !.events = Append(@, e)])
          = NodeFacts(id, node) \cup EventFacts(id, e)
    <3>1. <<"known", id>> \in NodeFacts(id, node)
      BY KnownOnlyItself
    <3> QED BY <2>1, <3>1, AppendFacts DEF EventFacts
  <2>5. \A j : <<"known", j>> \in EventFacts(id, e) <=> j = id
    BY DEF EventFacts
  <2>6. StoreFacts' = Ledger!Closed(StoreFacts \cup EventFacts(id, e), privileged)
    BY <2>1, <2>2, <2>4, <2>5, ReportAddsItsFacts DEF node
  <2> QED BY <2>2, <2>3, <2>6 DEF Ledger!Next, Ledger!Report
<1>3. ASSUME NEW in \in Inventory, AddIdentity(in) PROVE Ledger!Next
  <2> DEFINE id == in.id
             node == Ensure(identities, privileged, id)
  <2>1. in \in Entry /\ id \in IDs /\ node \in Node
    BY EnsureType, InventoryAssumption DEF TypeOK, Entry
  <2>2. /\ DOMAIN identities' = DOMAIN identities \cup {id}
        /\ \A j \in DOMAIN identities : j # id => identities'[j] = identities[j]
        /\ identities'[id] = MergeNode(node, in)
        /\ privileged' = privileged
    BY <1>3, AddIdentityAt DEF AddIdentity
  <2>3. EntryFacts(id, in) \in ReportableFacts
    BY DEF ReportableFacts
  <2> HIDE DEF id, node
  <2>4. NodeFacts(id, MergeNode(node, in)) = NodeFacts(id, node) \cup EntryFacts(id, in)
    BY <2>1, MergeNodeFacts
  <2>5. \A j : <<"known", j>> \in EntryFacts(id, in) <=> j = id
    BY DEF EntryFacts
  <2>6. StoreFacts' = Ledger!Closed(StoreFacts \cup EntryFacts(id, in), privileged)
    BY <2>1, <2>2, <2>4, <2>5, ReportAddsItsFacts DEF node
  <2> QED BY <2>2, <2>3, <2>6 DEF Ledger!Next, Ledger!Report
<1>4. ASSUME NEW marks \in Marks, MarkPrivileged(marks) PROVE Ledger!Next
  <2>1. marks \in SUBSET IDs
    BY MarksAssumption
  <2>2. /\ privileged' = privileged \cup marks
        /\ DOMAIN identities' = DOMAIN identities
        /\ \A j \in DOMAIN identities :
             /\ identities'[j].privileged <=> identities[j].privileged \/ j \in marks
             /\ identities'[j].shadow = identities[j].shadow
             /\ identities'[j].permissions = identities[j].permissions
             /\ identities'[j].events = identities[j].events
    BY <1>4 DEF MarkPrivileged, TypeOK, Node
  <2>3. ASSUME NEW j \in DOMAIN identities
        PROVE  \A f : f \in NodeFacts(j, identities'[j]) <=>
                 f \in NodeFacts(j, identities[j]) \/ (j \in marks /\ f = <<"privileged", j>>)
    BY <2>2 DEF NodeFacts, EntryFacts
  <2>4. StoreFacts' = UNION {NodeFacts(j, identities'[j]) : j \in DOMAIN identities}
    BY <2>2 DEF StoreFacts, NodeFacts
  <2>5. ASSUME NEW j \in DOMAIN identities, j \in privileged
        PROVE  <<"privileged", j>> \in StoreFacts
    <3>1. <<"privileged", j>> \in NodeFacts(j, identities[j])
      BY <2>5 DEF NodeFacts, EntryFacts, OperatorMarksHold
    <3> QED BY <3>1, StoreIsItsNodes
  <2>6. ASSUME NEW f
        PROVE  f \in StoreFacts' <=> f \in Ledger!Closed(StoreFacts, privileged')
    <3>1. f \in Ledger!Closed(StoreFacts, privileged') <=>
            \/ f \in StoreFacts
            \/ \E j \in privileged \cup marks : j \in DOMAIN identities /\ f = <<"privileged", j>>
      <4>1. f \in Ledger!Closed(StoreFacts, privileged \cup marks) <=>
              \/ f \in StoreFacts
              \/ \E j \in privileged \cup marks : <<"known", j>> \in StoreFacts
                                                /\ f = <<"privileged", j>>
        BY DEF Ledger!Closed, Ledger!Known, Ledger!Privileged
      <4> QED BY <2>2, <4>1, KnownAreThere
    <3>2. f \in StoreFacts' <=>
            \/ f \in StoreFacts
            \/ \E j \in DOMAIN identities : j \in marks /\ f = <<"privileged", j>>
      BY <2>3, <2>4, StoreIsItsNodes
    <3> QED BY <2>5, <3>1, <3>2
  <2>7. StoreFacts' = Ledger!Closed(StoreFacts, privileged')
    BY <2>6 DEF Ledger!Closed
  <2> QED BY <2>1, <2>2, <2>7 DEF Ledger!Next, Ledger!Mark
<1> QED BY <1>1, <1>2, <1>3, <1>4 DEF Next

(* In every estate and every order of its sources, the store is the ledger:   *)
(* each call adds the facts of its report, and the marks of who is known.  *)
THEOREM StoreImplementsLedger == Spec => ImplementsLedger
<1>1. Init => Ledger!Init
  BY MarksAssumption DEF Init, Ledger!Init, StoreFacts
<1>2. Init => ParsesBounded
  BY ZonesAssumption DEF Init, ParsesBounded
<1>3. TypeOK /\ ParsesBounded /\ [Next]_vars => ParsesBounded'
  BY ZonesAssumption DEF TypeOK, ParsesBounded, Next, vars, AddEvent, AddIdentity, MarkPrivileged
<1> QED BY <1>1, <1>2, <1>3, LedgerStep, TypeCorrect, MarksHold, PTL
        DEF Spec, ImplementsLedger, Ledger!Spec, LedgerInv

-----------------------------------------------------------------------------
(* The detectors over the inventory, for every estate. *)

(* One step, as far as the detectors can tell. *)
Kept ==
    \A id \in DOMAIN identities :
        id \in DOMAIN identities' /\ Retains(identities[id], identities'[id])

LEMMA StepsKeep == Spec => [][Kept]_vars
<1>1. EvidenceRetained => [][Kept]_vars
  BY DEF EvidenceRetained, Kept
<1> QED BY <1>1, EvidenceKept, PTL

-----------------------------------------------------------------------------
(* The alert and the diff work from one set of unused grants. *)
LEMMA AlertIsDiff ==
    ASSUME NEW node
    PROVE  /\ LeastPrivilege(node).unused = Generate(node).unused
           /\ LeastPrivilege(node).granted = Generate(node).granted
<1> DEFINE unused == {p \in node.permissions : ~p.used}
           names == {p.name : p \in unused}
<1>1. /\ unused # node.permissions <=> \E p \in node.permissions : p.used
      /\ unused = {} <=> names = {}
  OBVIOUS
<1>2. Unused(node) = names
  BY DEF Unused
<1>3. CASE unused = node.permissions \/ unused = {}
  <2>1. LeastPrivilege(node) = [severity |-> None, unused |-> {}, granted |-> 0]
    BY <1>3 DEF LeastPrivilege
  <2>2. Generate(node) = NoRecommendation
    BY <1>1, <1>2, <1>3 DEF Generate
  <2> QED BY <2>1, <2>2 DEF NoRecommendation
<1>4. CASE ~(unused = node.permissions \/ unused = {})
  <2>1. /\ LeastPrivilege(node).unused = names
        /\ LeastPrivilege(node).granted = Cardinality(node.permissions)
    BY <1>4 DEF LeastPrivilege
  <2>2. /\ Generate(node).unused = names
        /\ Generate(node).granted = Cardinality(node.permissions)
    BY <1>1, <1>2, <1>4 DEF Generate
  <2> QED BY <2>1, <2>2
<1> QED BY <1>3, <1>4

(* least_privilege.go and remediate.go: in every estate and every order of   *)
(* its sources, a grant once seen in use is never listed for removal, and   *)
(* the alert and the diff list the same grants.                            *)
THEOREM NothingUsedIsRevoked == Spec => RevokesNothingUsed
<1> DEFINE Right ==
      \A id \in DOMAIN identities :
         LET alert == LeastPrivilege(identities'[id])
             diff  == Generate(identities'[id])
         IN  /\ \A p \in identities[id].permissions : p.used => p.name \notin alert.unused
             /\ alert.unused = diff.unused /\ alert.granted = diff.granted
<1>1. GrantsListedOnce' /\ [Kept]_vars => [Right]_vars
  <2> SUFFICES ASSUME GrantsListedOnce', Kept, NEW id \in DOMAIN identities
               PROVE  /\ \A p \in identities[id].permissions :
                            p.used => p.name \notin LeastPrivilege(identities'[id]).unused
                      /\ LeastPrivilege(identities'[id]).unused = Generate(identities'[id]).unused
                      /\ LeastPrivilege(identities'[id]).granted = Generate(identities'[id]).granted
    OBVIOUS
  <2> DEFINE new == identities'[id]
  <2>1. id \in DOMAIN identities' /\ Retains(identities[id], new)
    BY DEF Kept
  <2>2. \A n \in LeastPrivilege(new).unused : \E q \in new.permissions : q.name = n /\ ~q.used
    BY DEF LeastPrivilege
  <2>3. \A p, q \in new.permissions : p.name = q.name => p = q
    BY <2>1 DEF GrantsListedOnce
  <2>4. \A p \in identities[id].permissions :
          p.used => \E q \in new.permissions : q.name = p.name /\ q.used
    BY <2>1 DEF Retains
  <2>5. \A p \in identities[id].permissions : p.used => p.name \notin LeastPrivilege(new).unused
    BY <2>2, <2>3, <2>4
  <2> QED BY <2>5, AlertIsDiff
<1>2. [][Right]_vars => RevokesNothingUsed
  BY DEF RevokesNothingUsed
<1> QED BY <1>1, <1>2, StepsKeep, GrantsOnce, PTL

-----------------------------------------------------------------------------
LEMMA AdminStays ==
    ASSUME NEW old, NEW new, Retains(old, new) PROVE HasAdmin(old) => HasAdmin(new)
  BY DEF Retains, HasAdmin

(* What the detectors of one node say of it, before and after. *)
LEMMA NodeVerdicts ==
    ASSUME NEW old \in Node, NEW new \in Node, Retains(old, new), SameType(old, new)
    PROVE  /\ OverPrivilegedNHI(old) <= OverPrivilegedNHI(new)
           /\ PrivilegeEscalation(old) \subseteq PrivilegeEscalation(new)
           /\ ShadowMCP(old) <= ShadowMCP(new)
           /\ OrphanedNHI(new) <= OrphanedNHI(old)
           /\ BOMIncomplete(new) \ {"attestation"} \subseteq BOMIncomplete(old)
           /\ AttestationMissing(old) # None /\ Unattested(new) => AttestationMissing(new) # None
           /\ old.lastUsed # 0 /\ StaleNHI(old) = None => StaleNHI(new) = None
<1>1. /\ IsNHI(old) <=> IsNHI(new)
      /\ IsAgent(old) <=> IsAgent(new)
      /\ IsShadow(old) => IsShadow(new)
  BY DEF SameType, IsNHI, IsAgent, IsShadow, Retains
<1>2. HasAdmin(old) => HasAdmin(new)
  BY AdminStays
<1>3. \A f \in {"owner", "runtime"} : new.fields[f] = NoValue => old.fields[f] = NoValue
  BY FieldsAssumption DEF Retains
<1>4. OverPrivilegedNHI(old) <= OverPrivilegedNHI(new)
  BY <1>1, <1>2 DEF OverPrivilegedNHI, High, None
<1>5. PrivilegeEscalation(old) \subseteq PrivilegeEscalation(new)
  <2> SUFFICES ASSUME NEW n \in PrivilegeEscalation(old) PROVE n \in PrivilegeEscalation(new)
    OBVIOUS
  <2>1. PICK p \in old.permissions :
          /\ p.name = n /\ IsNHI(old)
          /\ p.name \in Escalating \/ p.actions \cap Escalating # {}
    BY DEF PrivilegeEscalation
  <2>2. PICK q \in new.permissions : q.name = n /\ p.actions \subseteq q.actions
    BY <2>1 DEF Retains
  <2> QED BY <1>1, <2>1, <2>2 DEF PrivilegeEscalation
<1>6. ShadowMCP(old) <= ShadowMCP(new)
  BY <1>1, <1>2 DEF ShadowMCP, Critical, High, None
<1>7. OrphanedNHI(new) <= OrphanedNHI(old)
  BY <1>1, <1>3 DEF OrphanedNHI, Low, None
<1>8. BOMIncomplete(new) \ {"attestation"} \subseteq BOMIncomplete(old)
  BY <1>1, <1>3 DEF BOMIncomplete
<1>9. AttestationMissing(old) # None /\ Unattested(new) => AttestationMissing(new) # None
  BY <1>1, <1>2 DEF AttestationMissing, Retains, High, None
<1>10. old.lastUsed # 0 /\ StaleNHI(old) = None => StaleNHI(new) = None
  <2>1. /\ old.lastUsed \in Nat /\ new.lastUsed \in Nat /\ Now \in Nat /\ StaleAfter \in Nat
        /\ old.lastUsed <= new.lastUsed
    BY ClockAssumption DEF Node, Retains
  <2>2. old.lastUsed # 0 /\ ~Aged(old) => ~Aged(new)
    BY <2>1 DEF Aged
  <2> QED BY <1>1, <2>2 DEF StaleNHI, High, Medium, None
<1> QED BY <1>4, <1>5, <1>6, <1>7, <1>8, <1>9, <1>10

(* A server that is still a server keeps its tools and what was said of them. *)
LEMMA ToolsStay ==
    ASSUME Kept, \A id \in DOMAIN identities : SameType(identities[id], identities'[id]),
           NEW t \in ShadowTools(identities)
    PROVE  \E u \in ShadowTools(identities') : u.name = t.name /\ (t.admin => u.admin)
<1>1. PICK s \in DOMAIN identities : IsShadow(identities[s]) /\ t \in identities[s].permissions
  BY DEF ShadowTools
<1>2. s \in DOMAIN identities' /\ Retains(identities[s], identities'[s])
  BY DEF Kept
<1>3. IsShadow(identities'[s])
  BY <1>1, <1>2 DEF SameType, IsShadow, Retains
<1>4. PICK u \in identities'[s].permissions : u.name = t.name /\ (t.admin => u.admin)
  BY <1>1, <1>2 DEF Retains
<1>5. u \in ShadowTools(identities')
  BY <1>2, <1>3, <1>4 DEF ShadowTools
<1> QED BY <1>4, <1>5

LEMMA ShadowToolVerdict ==
    ASSUME Kept, \A id \in DOMAIN identities : SameType(identities[id], identities'[id]),
           NEW id \in DOMAIN identities
    PROVE  AgentShadowTool(identities, id) <= AgentShadowTool(identities', id)
<1> DEFINE Matched(ids) == {p \in ids[id].permissions : \E t \in ShadowTools(ids) : t.name = p.name}
           Risky(ids) == \E p \in Matched(ids) :
                            p.admin \/ \E t \in ShadowTools(ids) : t.name = p.name /\ t.admin
           Says(ids) == IF ~IsAgent(ids[id]) \/ Matched(ids) = {} THEN None
                        ELSE IF Risky(ids) THEN Critical ELSE High
<1>1. AgentShadowTool(identities, id) = Says(identities)
  BY DEF AgentShadowTool
<1>2. AgentShadowTool(identities', id) = Says(identities')
  BY DEF AgentShadowTool
<1>3. id \in DOMAIN identities' /\ Retains(identities[id], identities'[id])
  BY DEF Kept
<1>4. IsAgent(identities[id]) => IsAgent(identities'[id])
  BY DEF SameType, IsAgent
<1>5. \A p \in Matched(identities) : \E q \in Matched(identities') :
        q.name = p.name /\ (p.admin => q.admin)
  <2> TAKE p \in Matched(identities)
  <2>1. PICK q \in identities'[id].permissions : q.name = p.name /\ (p.admin => q.admin)
    BY <1>3 DEF Retains
  <2>2. PICK t \in ShadowTools(identities) : t.name = p.name
    OBVIOUS
  <2>3. \E u \in ShadowTools(identities') : u.name = q.name
    BY <2>1, <2>2, ToolsStay
  <2> QED BY <2>1, <2>3
<1>6. Risky(identities) => Risky(identities')
  <2> SUFFICES ASSUME NEW p \in Matched(identities),
                      p.admin \/ \E t \in ShadowTools(identities) : t.name = p.name /\ t.admin
               PROVE  Risky(identities')
    OBVIOUS
  <2>1. PICK q \in Matched(identities') : q.name = p.name /\ (p.admin => q.admin)
    BY <1>5
  <2>2. CASE p.admin
    BY <2>1, <2>2
  <2>3. CASE \E t \in ShadowTools(identities) : t.name = p.name /\ t.admin
    <3>1. \E u \in ShadowTools(identities') : u.name = q.name /\ u.admin
      BY <2>1, <2>3, ToolsStay
    <3> QED BY <3>1
  <2> QED BY <2>2, <2>3
<1>7. Matched(identities) # {} => Matched(identities') # {}
  BY <1>5
<1> HIDE DEF Matched, Risky
<1>8. Says(identities) <= Says(identities')
  BY <1>4, <1>6, <1>7 DEF Critical, High, None
<1> QED BY <1>1, <1>2, <1>8

(* AddIdentity under the detectors: in every estate, a further report about *)
(* an identity or about a server it uses talks no standing alert down.      *)
THEOREM VerdictsOnlyRise == Spec => VerdictsMoveOneWay
<1> DEFINE OneWay ==
      (\A id \in DOMAIN identities : SameType(identities[id], identities'[id])) =>
         \A id \in DOMAIN identities :
           LET old == identities[id]
               new == identities'[id]
           IN  /\ OverPrivilegedNHI(old) <= OverPrivilegedNHI(new)
               /\ PrivilegeEscalation(old) \subseteq PrivilegeEscalation(new)
               /\ ShadowMCP(old) <= ShadowMCP(new)
               /\ AgentShadowTool(identities, id) <= AgentShadowTool(identities', id)
               /\ OrphanedNHI(new) <= OrphanedNHI(old)
               /\ BOMIncomplete(new) \ {"attestation"} \subseteq BOMIncomplete(old)
               /\ AttestationMissing(old) # None /\ Unattested(new) => AttestationMissing(new) # None
               /\ old.lastUsed # 0 /\ StaleNHI(old) = None => StaleNHI(new) = None
<1>1. TypeOK /\ TypeOK' /\ [Kept]_vars => [OneWay]_vars
  <2> SUFFICES ASSUME TypeOK, TypeOK', Kept PROVE OneWay
    OBVIOUS
  <2>1. \A id \in DOMAIN identities :
          /\ identities[id] \in Node /\ identities'[id] \in Node
          /\ Retains(identities[id], identities'[id])
    BY DEF TypeOK, Kept
  <2> QED BY <2>1, NodeVerdicts, ShadowToolVerdict
<1>2. [][OneWay]_vars => VerdictsMoveOneWay
  BY DEF VerdictsMoveOneWay
<1> QED BY <1>1, <1>2, StepsKeep, TypeCorrect, PTL

-----------------------------------------------------------------------------
(* What a statement asks to be reported. *)
Dangerous(st) ==
    /\ st.effect = "Allow"
    /\ st.action \cap Escalating # {} \/ (Star \in st.action /\ st.everyResource)

LEMMA EffectOfStatement ==
    ASSUME NEW doc, NEW st \in doc, Dangerous(st)
    PROVE  PolicyEffect(doc).actions \cap Escalating # {} \/ PolicyEffect(doc).admin
BY DEF Dangerous, PolicyEffect

LEMMA VersionInForce ==
    ASSUME NEW arn \in DOMAIN Policies, NEW i \in Defaults(Policies[arn])
    PROVE  InForce(Policies[arn]) = Policies[arn].versions[i].doc
<1> DEFINE policy == Policies[arn]
           default == {k \in DOMAIN policy.versions :
                         LET v == policy.versions[k]
                         IN  v.readable /\ (v.isDefault \/ v.id = policy.default)}
<1>1. default = {i} /\ i \in Nat
  BY VersionsAssumption DEF Defaults
<1>2. InForce(policy) = policy.versions[CHOOSE k \in default : \A j \in default : k <= j].doc
  BY <1>1 DEF InForce
<1>3. (CHOOSE k \in default : \A j \in default : k <= j) = i
  <2>1. i \in default /\ \A j \in default : i <= j
    BY <1>1
  <2>2. (CHOOSE k \in default : \A j \in default : k <= j) \in default
    BY <2>1
  <2> QED BY <1>1, <2>2
<1> QED BY <1>2, <1>3

(* The grant a dangerous statement becomes says so. *)
LEMMA GrantOfStatement ==
    ASSUME NEW p, NEW st \in InForceOn(p), Dangerous(st)
    PROVE  \E q \in PrincipalToIdentity(p).permissions :
              q.actions \cap Escalating # {} \/ q.admin
<1>1. PrincipalToIdentity(p).permissions =
        {AttachedGrant(a) : a \in p.attached} \cup {InlineGrant(in) : in \in p.inline}
  BY DEF PrincipalToIdentity, Described
<1>2. CASE \E in \in p.inline : st \in in.doc
  <2>1. PICK in \in p.inline : st \in in.doc
    BY <1>2
  <2>2. /\ InlineGrant(in).actions = PolicyEffect(in.doc).actions
        /\ PolicyEffect(in.doc).admin => InlineGrant(in).admin
    BY DEF InlineGrant
  <2> QED BY <1>1, <2>1, <2>2, EffectOfStatement
<1>3. CASE \E a \in p.attached : /\ a.arn \in DOMAIN Policies
                                 /\ \E i \in Defaults(Policies[a.arn]) :
                                      st \in Policies[a.arn].versions[i].doc
  <2>1. PICK a \in p.attached : /\ a.arn \in DOMAIN Policies
                                /\ \E i \in Defaults(Policies[a.arn]) :
                                     st \in Policies[a.arn].versions[i].doc
    BY <1>3
  <2> DEFINE doc == InForce(Policies[a.arn])
  <2>2. st \in doc
    BY <2>1, VersionInForce
  <2>3. /\ AttachedGrant(a).actions = PolicyEffect(doc).actions
        /\ PolicyEffect(doc).admin => AttachedGrant(a).admin
    BY <2>1 DEF AttachedGrant
  <2> QED BY <1>1, <2>2, <2>3, EffectOfStatement
<1> QED BY <1>2, <1>3 DEF InForceOn

(* awspolicy.go with the two detectors: for every policy, version and        *)
(* principal, what a statement in force allows reaches one of them.         *)
THEOREM EscalationReported == Spec => []EscalationIsReported
<1>1. EscalationIsReported
  <2> SUFFICES ASSUME NEW p \in Principals, Absorbed(p), NEW st \in InForceOn(p), Dangerous(st)
               PROVE  \/ PrivilegeEscalation(identities[p.arn]) # {}
                      \/ OverPrivilegedNHI(identities[p.arn]) # None
    BY DEF EscalationIsReported, Dangerous
  <2> DEFINE node == identities[p.arn]
  <2>1. PICK q \in PrincipalToIdentity(p).permissions :
          q.actions \cap Escalating # {} \/ q.admin
    BY GrantOfStatement
  <2>2. PICK r \in node.permissions : q.actions \subseteq r.actions /\ (q.admin => r.admin)
    BY DEF Absorbed
  <2>3. IsNHI(node)
    BY DEF Absorbed
  <2>4. CASE q.actions \cap Escalating # {}
    <3>1. r.name \in PrivilegeEscalation(node)
      BY <2>2, <2>3, <2>4 DEF PrivilegeEscalation
    <3> QED BY <3>1
  <2>5. CASE q.admin
    BY <2>2, <2>3, <2>5 DEF OverPrivilegedNHI, HasAdmin, High, None
  <2> QED BY <2>1, <2>4, <2>5
<1> QED BY <1>1, PTL

=============================================================================
