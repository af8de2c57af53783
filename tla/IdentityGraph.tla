---------------------------- MODULE IdentityGraph ----------------------------
(***************************************************************************)
(* The in-memory identity graph: graph.Store of internal/graph/store.go.   *)
(*                                                                         *)
(* Sources feed the store one event (AddEvent) or one inventory entry      *)
(* (AddIdentity) at a time, in whatever order the command line names them, *)
(* and the operator's --privileged set arrives before (New) or after       *)
(* (MarkPrivileged) the identities it names.                               *)
(*                                                                         *)
(* Data is abstracted as in IdentityModel.  The order of a permission      *)
(* slice is left out; that a name occurs once in it is not.  No connector  *)
(* fills Identity.Events, so AddIdentity never appends any.                *)
(***************************************************************************)
EXTENDS Naturals, Sequences, IdentityModel

CONSTANTS
    IDs,            \* identity IDs
    Records,        \* records (lines) of the event sources
    Subject,        \* the identity each record is about
    FreshZones,     \* records whose offset is neither the local zone's nor whole hours
    MaxParses,      \* bound: how many records of FreshZones are parsed
    Marks,          \* the sets the operator may pass as --privileged
    Inventory       \* the inventory entries the connectors produce

(* One inventory entry, as a connector hands it to AddIdentity. *)
Entry == [id : IDs, fields : [Fields -> Values \cup {NoValue}], lastUsed : Nat,
          privileged : BOOLEAN, shadow : BOOLEAN, permissions : SUBSET Permission]

(* A parsed record.  model.Event is compared field by field, and time.Time *)
(* compares the pointer to its zone: the local zone is one object and so is *)
(* each zone of whole hours (zone 0 stands for either); any other offset   *)
(* gets a zone object of its own per parse.                                *)
Event == [record : Records, zone : Nat]

Node == [fields : [Fields -> Values \cup {NoValue}], lastUsed : Nat, privileged : BOOLEAN,
         shadow : BOOLEAN, permissions : SUBSET Permission, events : Seq(Event)]

ASSUME SubjectAssumption   == Subject \in [Records -> IDs]
ASSUME InventoryAssumption == Inventory \subseteq Entry
ASSUME MarksAssumption     == Marks \subseteq SUBSET IDs
ASSUME ZonesAssumption     == FreshZones \subseteq Records /\ MaxParses \in Nat

VARIABLES
    privileged,     \* Store.privileged, the operator's set
    identities,     \* Store.identities, a function on the IDs it holds
    seenEvents,     \* Store.seenEvents
    parses          \* how many zone objects time.Parse has allocated

vars == <<privileged, identities, seenEvents, parses>>

-----------------------------------------------------------------------------
(* The rules of the merge. *)

(* mergePermission and unionActions, for every report of one grant. *)
FoldGrant(name, reports) ==
    LET same == {p \in reports : p.name = name}
    IN  [name    |-> name,
         admin   |-> \E p \in same : p.admin,
         used    |-> \E p \in same : p.used,
         actions |-> UNION {p.actions : p \in same}]

(* Mutant: the later report of a grant replaces the earlier one. *)
MergePermissions_lastWins(existing, in) ==
    {p \in existing : \A q \in in : q.name # p.name} \cup in

MergePermissions(existing, in) ==
    LET reports == existing \cup in
    IN  {FoldGrant(name, reports) : name \in {p.name : p \in reports}}

(* Mutant: an empty incoming field clears the one on record. *)
MergeFields_clear(old, new) == [f \in Fields |-> new[f]]

MergeFields(old, new) == [f \in Fields |-> IF new[f] # NoValue THEN new[f] ELSE old[f]]

(* Mutant: a server found in a registry is no longer one seen unsanctioned. *)
MergeNode_shadow(node, in) ==
    [fields      |-> MergeFields(node.fields, in.fields),
     lastUsed    |-> IF in.lastUsed > node.lastUsed THEN in.lastUsed ELSE node.lastUsed,
     privileged  |-> node.privileged \/ in.privileged,
     shadow      |-> in.shadow,
     permissions |-> MergePermissions(node.permissions, in.permissions),
     events      |-> node.events]

(* The body of AddIdentity on the node it merges into. *)
MergeNode(node, in) ==
    [fields      |-> MergeFields(node.fields, in.fields),
     lastUsed    |-> IF in.lastUsed > node.lastUsed THEN in.lastUsed ELSE node.lastUsed,
     privileged  |-> node.privileged \/ in.privileged,
     shadow      |-> node.shadow \/ in.shadow,
     permissions |-> MergePermissions(node.permissions, in.permissions),
     events      |-> node.events]

NewNode(priv) ==
    [fields |-> [f \in Fields |-> NoValue], lastUsed |-> 0, privileged |-> priv,
     shadow |-> FALSE, permissions |-> {}, events |-> <<>>]

Ensure(ids, priv, id) == IF id \in DOMAIN ids THEN ids[id] ELSE NewNode(id \in priv)

(* The identities map with node under id, whether or not id was in it. *)
Put(ids, id, node) == [i \in DOMAIN ids \cup {id} |-> IF i = id THEN node ELSE ids[i]]

WithIdentity(ids, priv, in) == Put(ids, in.id, MergeNode(Ensure(ids, priv, in.id), in))

WithEvent(ids, priv, id, e) ==
    LET node == Ensure(ids, priv, id)
    IN  Put(ids, id, [node EXCEPT !.events = Append(@, e)])

(* What parsing a record yields, the n-th time a zone object is needed. *)
Parsed(r, n) == [record |-> r, zone |-> IF r \in FreshZones THEN n ELSE 0]

-----------------------------------------------------------------------------
Init ==
    /\ privileged \in Marks
    /\ identities = [i \in {} |-> NewNode(FALSE)]
    /\ seenEvents = {}
    /\ parses = 0

(* Mutant: the natural key is not looked up before the append. *)
AddEvent_noDedupe(r) ==
    LET e == Parsed(r, parses + 1)
    IN  /\ r \in FreshZones => parses < MaxParses
        /\ parses' = IF r \in FreshZones THEN parses + 1 ELSE parses
        /\ seenEvents' = seenEvents \cup {e}
        /\ identities' = WithEvent(identities, privileged, Subject[r], e)
        /\ UNCHANGED privileged

(* A source reader parses record r and adds the event.  An event already   *)
(* seen is dropped: that early return changes nothing the store keeps.     *)
AddEvent(r) ==
    LET e == Parsed(r, parses + 1)
    IN  /\ r \in FreshZones => parses < MaxParses
        /\ parses' = IF r \in FreshZones THEN parses + 1 ELSE parses
        /\ e \notin seenEvents
        /\ seenEvents' = seenEvents \cup {e}
        /\ identities' = WithEvent(identities, privileged, Subject[r], e)
        /\ UNCHANGED privileged

AddIdentity(in) ==
    /\ identities' = WithIdentity(identities, privileged, in)
    /\ UNCHANGED <<privileged, seenEvents, parses>>

(* Mutant: marking creates the identities it names. *)
MarkPrivileged_invents(marks) ==
    /\ privileged' = privileged \cup marks
    /\ identities' = [i \in DOMAIN identities \cup marks |->
                        [Ensure(identities, privileged, i) EXCEPT
                           !.privileged = @ \/ i \in marks]]
    /\ UNCHANGED <<seenEvents, parses>>

(* Mutant: the presence check is dropped, and a name that is not in the     *)
(* graph gets a node that is nothing but its flag.                         *)
MarkPrivileged_unchecked(marks) ==
    /\ privileged' = privileged \cup marks
    /\ identities' = [i \in DOMAIN identities \cup marks |->
                        IF i \in DOMAIN identities
                        THEN [identities[i] EXCEPT !.privileged = @ \/ i \in marks]
                        ELSE [privileged |-> TRUE]]
    /\ UNCHANGED <<seenEvents, parses>>

MarkPrivileged(marks) ==
    /\ privileged' = privileged \cup marks
    /\ identities' = [i \in DOMAIN identities |->
                        [identities[i] EXCEPT !.privileged = @ \/ i \in marks]]
    /\ UNCHANGED <<seenEvents, parses>>

Next ==
    \/ \E r \in Records : AddEvent(r)
    \/ \E in \in Inventory : AddIdentity(in)
    \/ \E marks \in Marks : MarkPrivileged(marks)

Spec == Init /\ [][Next]_vars

-----------------------------------------------------------------------------
(* Properties. *)

TypeOK ==
    /\ privileged \in SUBSET IDs
    /\ DOMAIN identities \subseteq IDs
    /\ identities \in [DOMAIN identities -> Node]
    /\ seenEvents \in SUBSET Event
    /\ parses \in Nat

(* The natural key of an event, the time taken as the instant it denotes. *)
NaturalKey(e) == e.record

(* AddEvent: replaying a source counts no event twice (store.go:36-42), so *)
(* a threshold detector never sees one challenge as two.  An identity      *)
(* holds only events about itself.  A timestamp whose zone is a new object *)
(* per parse is another key each time, and such a record is left out: it   *)
(* is counted as often as it is read.                                      *)
EventsCountedOnce ==
    \A id \in DOMAIN identities :
        LET evs == identities[id].events
        IN  /\ \A i \in 1..Len(evs) : Subject[evs[i].record] = id
            /\ \A i, j \in 1..Len(evs) :
                  NaturalKey(evs[i]) = NaturalKey(evs[j]) =>
                    i = j \/ evs[i].record \in FreshZones

(* mergePermissions: re-reading an inventory, or a second connector        *)
(* describing the same grant, never lists a permission name twice, which   *)
(* would double the counts least_privilege reports.                        *)
GrantsListedOnce ==
    \A id \in DOMAIN identities : \A p, q \in identities[id].permissions :
        p.name = q.name => p = q

(* MarkPrivileged and New: an identity the operator named is privileged    *)
(* whether it was ingested before or after the set arrived.                *)
OperatorMarksHold ==
    \A id \in DOMAIN identities \cap privileged : identities[id].privileged

(* Node b knows everything node a knew: the direction mergePermission's    *)
(* comment calls the safe one.                                             *)
Retains(a, b) ==
    /\ \A f \in Fields : a.fields[f] # NoValue => b.fields[f] # NoValue
    /\ a.lastUsed <= b.lastUsed
    /\ a.privileged => b.privileged
    /\ a.shadow => b.shadow
    /\ \A p \in a.permissions : \E q \in b.permissions :
          /\ q.name = p.name
          /\ p.admin => q.admin
          /\ p.used => q.used
          /\ p.actions \subseteq q.actions
    /\ Len(a.events) <= Len(b.events)
    /\ \A i \in 1..Len(a.events) : b.events[i] = a.events[i]

(* No call on the store erases evidence: no identity, event, grant, admin, *)
(* used or shadow observation, action or field value is ever lost, however *)
(* the sources are ordered.                                                *)
EvidenceRetained ==
    [][\A id \in DOMAIN identities :
          id \in DOMAIN identities' /\ Retains(identities[id], identities'[id])]_vars

-----------------------------------------------------------------------------
(* The store as a ledger of facts. *)

EntryFacts(id, node) ==
       {<<"known", id>>}
  \cup {<<"privileged", id>> : x \in {y \in {id} : node.privileged}}
  \cup {<<"shadow", id>> : x \in {y \in {id} : node.shadow}}
  \cup {<<"granted", id, p.name>> : p \in node.permissions}
  \cup {<<"admin", id, p.name>> : p \in {q \in node.permissions : q.admin}}
  \cup {<<"used", id, p.name>> : p \in {q \in node.permissions : q.used}}
  \cup UNION {{<<"allows", id, p.name, a>> : a \in p.actions} : p \in node.permissions}

EventFacts(id, e) == {<<"known", id>>, <<"event", id, e>>}

StoreFacts ==
    UNION {EntryFacts(id, identities[id]) \cup
             {<<"event", id, identities[id].events[i]>> : i \in 1..Len(identities[id].events)} :
                id \in DOMAIN identities}

ReportableFacts ==
       {EntryFacts(in.id, in) : in \in Inventory}
  \cup {EventFacts(Subject[r], Parsed(r, n)) : r \in Records, n \in 1..(MaxParses + 1)}

Ledger == INSTANCE EvidenceLedger
            WITH Submissions <- ReportableFacts, ledger <- StoreFacts, marked <- privileged

(* Every call adds exactly the facts it was given: the graph a detector    *)
(* reads holds all that the sources reported and nothing they did not.     *)
ImplementsLedger == Ledger!Spec

=============================================================================
