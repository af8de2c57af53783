-------------------------- MODULE MCDelegationChain --------------------------
(* Graphs of up to three identities for TLC, with cycles, self references, *)
(* missing links, repeated and empty entries, and grants of one name that  *)
(* differ in admin.                                                        *)
EXTENDS DelegationChain

CONSTANTS a, b, c, d    \* an agent, another one, a person, and nobody the graph knows

Read  == [name |-> "data", admin |-> FALSE]
Admin == [name |-> "data", admin |-> TRUE]
Other == [name |-> "repo", admin |-> FALSE]

MCPermissions == {Read, Admin, Other}

UpTo(n, S) == UNION {[1..m -> S] : m \in 0..n}

Identity(agent, obo, perms) == [agent |-> agent, onBehalfOf |-> obo, permissions |-> perms]

(* a and b, and c when it is known to the graph. *)
Estate(oa, ob, pa, pb, known, oc) ==
    [x \in {a, b} \cup known |->
        CASE x = a -> Identity(TRUE, oa, pa)
          [] x = b -> Identity(TRUE, ob, pb)
          [] OTHER -> Identity(FALSE, oc, <<Other, Admin>>)]

Estates(entries) ==
    {Estate(oa, ob, pa, pb, {c}, oc) :
        oa \in UpTo(2, entries), ob \in UpTo(2, {a, c}),
        pa \in {<<>>, <<Read>>, <<Admin>>}, pb \in {<<>>, <<Admin>>}, oc \in UpTo(1, {a, b})}

MCGraphs ==
    Estates({a, b, c, Blank}) \cup
      {Estate(oa, <<c>>, pa, <<Admin>>, {}, <<>>) :
         oa \in UpTo(2, {a, b, c, Blank}), pa \in {<<>>, <<Admin>>}} \cup
      {Estate(oa, ob, <<Read>>, pb, {c}, <<>>) :
         oa \in UpTo(2, {b, d}), ob \in UpTo(2, {c, d}), pb \in {<<>>, <<Admin>>}}

=============================================================================
