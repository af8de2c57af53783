----------------------------- MODULE MCBusIngest -----------------------------
(* A small bus for TLC: the file of a known producer and that of a plane    *)
(* nothing declares, with lines that claim the one, the other or a third.   *)
EXTENDS BusIngest

CONSTANTS bot, sub,     \* two agents
          ghost,        \* a claimed subject
          jane          \* a human

Wire(kind, agent, source, principals, read, prev) ==
    [kind |-> kind, agent |-> agent, source |-> source, principals |-> principals,
     read |-> read, prev |-> prev]

MCStem == <<"newplane", "tokenfuse">>
MCOrder == [s \in Sources |-> CASE s = "newplane" -> 1 [] s = "tokenfuse" -> 2 [] OTHER -> 3]
MCDefault == {<<"tokenfuse", "tokenfuse">>, <<"wardryx", "wardryx">>}
MCExtras == {{}, {<<"newplane", "newplane">>, <<"newplane", "wardryx">>},
             {<<"tokenfuse", "wardryx">>}}

MCLines ==
    {Wire("event", bot, "tokenfuse", <<jane>>, TRUE, "none"),
     Wire("event", bot, "tokenfuse", <<jane, sub>>, FALSE, "match"),
     Wire("event", sub, "newplane", <<>>, FALSE, "none"),
     Wire("event", ghost, "newplane", <<jane>>, TRUE, "differs"),
     Wire("event", bot, "wardryx", <<>>, FALSE, "differs"),
     Wire("malformed", bot, "tokenfuse", <<>>, FALSE, "none"),
     Wire("oversized", bot, "tokenfuse", <<>>, FALSE, "none")}

=============================================================================
