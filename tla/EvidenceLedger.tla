--------------------------- MODULE EvidenceLedger ---------------------------
(***************************************************************************)
(* What the identity graph promises a detector, with every data structure  *)
(* taken away: a set of facts that somebody reported, and the identities   *)
(* an operator marked as privileged.                                       *)
(*                                                                         *)
(* A source reports a set of facts; they join the ledger, and nothing else *)
(* does.  An operator's mark is a fact about an identity only once the     *)
(* identity is known: marking invents nobody.  No fact is ever withdrawn.  *)
(***************************************************************************)

CONSTANTS
    IDs,            \* identities that can be talked about
    Submissions     \* the sets of facts a source can report

VARIABLES
    ledger,         \* the facts reported so far
    marked          \* the identities the operator named as privileged

vars == <<ledger, marked>>

(* The shape of the two facts the ledger itself has to understand. *)
Known(id)      == <<"known", id>>
Privileged(id) == <<"privileged", id>>

(* The facts of a ledger with the operator's marks applied to whoever is known. *)
Closed(facts, marks) ==
    facts \cup {Privileged(id) : id \in {i \in marks : Known(i) \in facts}}

Init ==
    /\ ledger = {}
    /\ marked \in SUBSET IDs

Report(facts) ==
    /\ ledger' = Closed(ledger \cup facts, marked)
    /\ UNCHANGED marked

Mark(ids) ==
    /\ marked' = marked \cup ids
    /\ ledger' = Closed(ledger, marked')

Next ==
    \/ \E facts \in Submissions : Report(facts)
    \/ \E ids \in SUBSET IDs : Mark(ids)

Spec == Init /\ [][Next]_vars

=============================================================================
