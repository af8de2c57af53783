--------------------------- MODULE DelegationChain ---------------------------
(***************************************************************************)
(* Delegation chains: graph.WalkDelegationChain and graph.BlastRadius of   *)
(* internal/graph/store.go, the copy of both that the dashboard page runs  *)
(* (getDelegationChain and computeBlastRadius in                           *)
(* internal/server/dashboard.go), and the two detectors that share the     *)
(* admin an agent can reach between them.                                  *)
(*                                                                         *)
(* The server walks when the detectors run, which is before it serves; the *)
(* page walks what it was served.  A walk takes one step per entry of an   *)
(* on_behalf_of array, as the code's loops do.  The set the code calls     *)
(* seen is the set of the chain's links, and is not kept a second time.    *)
(***************************************************************************)
EXTENDS Naturals, Sequences, FiniteSets, SequencesExt

CONSTANTS
    IDs,            \* identity ids, whatever on_behalf_of may name included
    Blank,          \* the empty string, which is how the server says "no next"
    Null,           \* null, which is how the page says it
    Permissions,    \* what an identity may be granted: [name, admin] records
    Graphs,         \* the graphs a walk may meet
    Starts          \* bound: the identities that are walked from

Node == [agent : BOOLEAN, onBehalfOf : Seq(IDs), permissions : Seq(Permissions)]

ASSUME IdsAssumption    == Blank \in IDs /\ Null \notin IDs /\ Starts \subseteq IDs
ASSUME GraphsAssumption == \A g \in Graphs : DOMAIN g \subseteq IDs /\ g \in [DOMAIN g -> Node]

Walkers == {"server", "page"}

VARIABLES
    index,          \* the identities of the graph, by id
    start,          \* the id both walk from
    status,         \* of each walk: "looking", "adding" or "done"
    chain,          \* its chain so far
    cur,            \* the link it is at
    i,              \* the entry of that link's array it adds next, from the end
    next            \* the last entry of that array that was new

vars == <<index, start, status, chain, cur, i, next>>

NoNext(w) == IF w = "server" THEN Blank ELSE Null

Init ==
    /\ index \in Graphs
    /\ start \in Starts
    /\ status = [w \in Walkers |-> "looking"]
    /\ chain = [w \in Walkers |-> <<start>>]
    /\ cur = [w \in Walkers |-> start]
    /\ i = [w \in Walkers |-> 0]
    /\ next = [w \in Walkers |-> NoNext(w)]

MayStep(w) == w = "page" => status["server"] = "done"

(* There is something to add from: the page also stops at an empty array.  *)
HasArray(w) ==
    cur[w] \in DOMAIN index /\ (w = "page" => index[cur[w]].onBehalfOf # <<>>)

Look(w) ==
    /\ MayStep(w) /\ status[w] = "looking" /\ HasArray(w)
    /\ status' = [status EXCEPT ![w] = "adding"]
    /\ i' = [i EXCEPT ![w] = Len(index[cur[w]].onBehalfOf)]
    /\ next' = [next EXCEPT ![w] = NoNext(w)]
    /\ UNCHANGED <<index, start, chain, cur>>

LinkMissing(w) ==
    /\ MayStep(w) /\ status[w] = "looking" /\ ~HasArray(w)
    /\ status' = [status EXCEPT ![w] = "done"]
    /\ UNCHANGED <<index, start, chain, cur, i, next>>

(* Mutant: an entry the chain has already is added again. *)
AddEntry_again(w) ==
    LET p == index[cur[w]].onBehalfOf[i[w]]
    IN  /\ status[w] = "adding" /\ i[w] > 0
        /\ Len(chain[w]) <= 2 * Cardinality(IDs)
        /\ chain' = [chain EXCEPT ![w] = Append(@, p)]
        /\ next' = [next EXCEPT ![w] = p]
        /\ i' = [i EXCEPT ![w] = @ - 1]
        /\ UNCHANGED <<index, start, status, cur>>

(* Mutant: an entry is the next link whether it is new or not. *)
AddEntry_follows(w) ==
    LET p == index[cur[w]].onBehalfOf[i[w]]
    IN  /\ status[w] = "adding" /\ i[w] > 0
        /\ chain' = [chain EXCEPT ![w] = IF p \in ToSet(@) THEN @ ELSE Append(@, p)]
        /\ next' = [next EXCEPT ![w] = p]
        /\ i' = [i EXCEPT ![w] = @ - 1]
        /\ UNCHANGED <<index, start, status, cur>>

(* Mutant: the page goes on from the first new entry and not the last. *)
AddEntry_pageFirst(w) ==
    LET p == index[cur[w]].onBehalfOf[i[w]]
        new == p \notin ToSet(chain[w])
    IN  /\ status[w] = "adding" /\ i[w] > 0
        /\ chain' = [chain EXCEPT ![w] = IF new THEN Append(@, p) ELSE @]
        /\ next' = [next EXCEPT ![w] = IF new /\ (w = "server" \/ @ = Null) THEN p ELSE @]
        /\ i' = [i EXCEPT ![w] = @ - 1]
        /\ UNCHANGED <<index, start, status, cur>>

(* Mutant: the walk goes on from the immediate principal and not the root. *)
AddEntry_immediate(w) ==
    LET p == index[cur[w]].onBehalfOf[i[w]]
        new == p \notin ToSet(chain[w])
    IN  /\ status[w] = "adding" /\ i[w] > 0
        /\ chain' = [chain EXCEPT ![w] = IF new THEN Append(@, p) ELSE @]
        /\ next' = [next EXCEPT ![w] = IF new /\ @ = NoNext(w) THEN p ELSE @]
        /\ i' = [i EXCEPT ![w] = @ - 1]
        /\ UNCHANGED <<index, start, status, cur>>

AddEntry(w) ==
    LET p == index[cur[w]].onBehalfOf[i[w]]
        new == p \notin ToSet(chain[w])
    IN  /\ status[w] = "adding" /\ i[w] > 0
        /\ chain' = [chain EXCEPT ![w] = IF new THEN Append(@, p) ELSE @]
        /\ next' = [next EXCEPT ![w] = IF new THEN p ELSE @]
        /\ i' = [i EXCEPT ![w] = @ - 1]
        /\ UNCHANGED <<index, start, status, cur>>

Continue(w) ==
    /\ status[w] = "adding" /\ i[w] = 0 /\ next[w] # NoNext(w)
    /\ status' = [status EXCEPT ![w] = "looking"]
    /\ cur' = [cur EXCEPT ![w] = next[w]]
    /\ UNCHANGED <<index, start, chain, i, next>>

NothingNew(w) ==
    /\ status[w] = "adding" /\ i[w] = 0 /\ next[w] = NoNext(w)
    /\ status' = [status EXCEPT ![w] = "done"]
    /\ UNCHANGED <<index, start, chain, cur, i, next>>

Step(w) == Look(w) \/ LinkMissing(w) \/ AddEntry(w) \/ Continue(w) \/ NothingNew(w)

Next == \E w \in Walkers : Step(w)

(* A walk is a loop nothing interrupts. *)
Spec == Init /\ [][Next]_vars /\ \A w \in Walkers : WF_vars(Step(w))

-----------------------------------------------------------------------------
(* What is made of a chain. *)

HasAdmin(id) ==
    id \in DOMAIN index /\ \E p \in ToSet(index[id].permissions) : p.admin

(* The first link with an admin grant, if there is one. *)
AdminInChain(links) ==
    LET admins == {k \in DOMAIN links : HasAdmin(links[k])}
    IN  {links[k] : k \in {m \in admins : \A n \in admins : m <= n}}

(* ExcessiveAgency.Detect and OverPrivilegedNHI.Detect for the start.      *)
ExcessiveAgency(links) ==
    /\ start \in DOMAIN index /\ index[start].agent
    /\ AdminInChain(links) # {} /\ start \notin AdminInChain(links)

OverPrivilegedNHI == start \in DOMAIN index /\ HasAdmin(start)

(* The grants of a chain's links, each with the link it comes from. *)
Granted(links) ==
    FlattenSeq([k \in DOMAIN links |->
        IF links[k] \in DOMAIN index
        THEN [m \in DOMAIN index[links[k]].permissions |->
                 <<links[k], index[links[k]].permissions[m]>>]
        ELSE <<>>])

(* BlastRadius on the server and computeBlastRadius on the page, which      *)
(* sorts what it gets: the first grant of each name.                       *)
BlastRadius(links) ==
    FoldLeft(LAMBDA out, g : IF \E h \in ToSet(out) : h[2].name = g[2].name
                             THEN out ELSE Append(out, g),
             <<>>, Granted(links))

-----------------------------------------------------------------------------
(* Properties. *)

TypeOK ==
    /\ DOMAIN index \subseteq IDs /\ index \in [DOMAIN index -> Node]
    /\ start \in Starts
    /\ status \in [Walkers -> {"looking", "adding", "done"}]
    /\ chain \in [Walkers -> Seq(IDs)]
    /\ cur \in [Walkers -> IDs]
    /\ next \in [Walkers -> IDs \cup {Null}]
    /\ i \in [Walkers -> Nat]
    /\ \A w \in Walkers :
         status[w] = "adding" =>
             cur[w] \in DOMAIN index /\ i[w] <= Len(index[cur[w]].onBehalfOf)

Principals(id) == IF id \in DOMAIN index THEN ToSet(index[id].onBehalfOf) ELSE {}

(* WalkDelegationChain: whatever cycles and missing links the graph has, a  *)
(* chain starts with the identity that acts, names nobody twice, and goes   *)
(* on only to somebody that a link before it acts on behalf of.            *)
ChainIsLinked ==
    \A w \in Walkers :
        LET links == chain[w]
        IN  /\ links # <<>> /\ links[1] = start
            /\ \A k, m \in DOMAIN links : links[k] = links[m] => k = m
            /\ \A k \in DOMAIN links \ {1} :
                 \E m \in 1..(k - 1) : links[k] \in Principals(links[m])

(* Everybody an identity can come to act as: itself, and the principals of  *)
(* whoever is in the set.                                                  *)
Reach(id) ==
    {x \in IDs : \A S \in SUBSET IDs :
        id \in S /\ (\A y \in S : Principals(y) \subseteq S) => x \in S}

(* An array may be of any length, but only its root, the first entry, acts  *)
(* for somebody in turn: the walk goes on from there and passes the others. *)
OnlyRootsGoOn ==
    \A x \in DOMAIN index : \A k \in 2..Len(index[x].onBehalfOf) :
        Principals(index[x].onBehalfOf[k]) = {}

(* excessive_agency.go:10-15, "an agent that can act, transitively, as an   *)
(* admin identity" is reported, by excessive_agency or, admin itself, by    *)
(* over_privileged_nhi; and the blast radius names every grant it can come  *)
(* to use.  What is left out is a principal in the middle of an array that  *)
(* has principals of its own (store.go:252-262, README).                   *)
ReachableAdminsAreReported ==
    /\ status["server"] = "done" /\ Blank \notin DOMAIN index /\ OnlyRootsGoOn
    => LET links == chain["server"]
           within == Reach(start) \cap DOMAIN index
       IN  /\ start \in within /\ index[start].agent /\ (\E x \in within : HasAdmin(x))
                 => ExcessiveAgency(links) \/ OverPrivilegedNHI
           /\ {g[2].name : g \in ToSet(BlastRadius(links))}
                = UNION {{p.name : p \in ToSet(index[x].permissions)} : x \in within}

(* "mirroring graph.WalkDelegationChain on the server" (dashboard.go:998)   *)
(* and graph.EffectivePermissions (1034): the page shows the chain and the  *)
(* grants the detectors judged, in a graph with no identity of empty id.   *)
PageMirrorsServer ==
    status["page"] = "done" /\ Blank \notin DOMAIN index =>
        /\ chain["page"] = chain["server"]
        /\ BlastRadius(chain["page"]) = BlastRadius(chain["server"])

(* "A cycle or missing link terminates the walk" (store.go:225): every walk *)
(* ends.                                                                   *)
WalksEnd == \A w \in Walkers : <>(status[w] = "done")

=============================================================================
