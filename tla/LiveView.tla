------------------------------ MODULE LiveView ------------------------------
(***************************************************************************)
(* What the dashboard's API promises over files that grow: there is one    *)
(* current view of them, it never goes back, and a request is answered     *)
(* with a whole view that was current between its arrival and its answer.  *)
(***************************************************************************)
EXTENDS Naturals

CONSTANTS
    Clients,        \* the clients of the API
    Sources,        \* the files
    MaxVersion,     \* bound: how often a file changes
    NoAnswer        \* no view has been chosen for the request yet

(* A view is the version of each file it shows. *)
Views == [Sources -> 0..MaxVersion]

VARIABLES
    view,           \* the current view
    asking,         \* the clients with a request in flight
    answer          \* the view chosen for each client's request, or NoAnswer

vars == <<view, asking, answer>>

Init ==
    /\ view \in Views
    /\ asking = {}
    /\ answer = [c \in Clients |-> NoAnswer]

Publish(v) ==
    /\ \A s \in Sources : view[s] <= v[s]
    /\ view' = v
    /\ UNCHANGED <<asking, answer>>

Ask(c) ==
    /\ c \notin asking
    /\ asking' = asking \cup {c}
    /\ UNCHANGED <<view, answer>>

Choose(c) ==
    /\ c \in asking /\ answer[c] = NoAnswer
    /\ answer' = [answer EXCEPT ![c] = view]
    /\ UNCHANGED <<view, asking>>

Answer(c) ==
    /\ answer[c] # NoAnswer
    /\ asking' = asking \ {c}
    /\ answer' = [answer EXCEPT ![c] = NoAnswer]
    /\ UNCHANGED view

Next ==
    \/ \E v \in Views : Publish(v)
    \/ \E c \in Clients : Ask(c) \/ Choose(c) \/ Answer(c)

Spec == Init /\ [][Next]_vars

=============================================================================
