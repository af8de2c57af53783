------------------------------ MODULE MCPgGraph ------------------------------
(* A small estate for TLC: a bus load whose Passports describe its agent     *)
(* again, an inventory load and a log load with tied timestamps.            *)
EXTENDS PgGraph

CONSTANTS alice, bot,       \* a human and an agent
          tool, policy,     \* two permission names
          pass,             \* one cloud action
          v1, v2,           \* two values of a field
          l1, l2, l3,       \* log records about alice, l1 and l2 at the same time
          b1,               \* a bus record about bot
          u1,               \* b1 with no source
          s1, s2            \* two processes

MCSubject == [r \in {l1, l2, l3, b1, u1} |-> IF r \in {b1, u1} THEN bot ELSE alice]
MCTimeOf == [r \in {l1, l2, l3, b1, u1} |-> IF r = l3 THEN 0 ELSE 1]
MCRow == [r \in {l1, l2, l3, b1, u1} |-> IF r = b1 THEN u1 ELSE r]

Grant(n, adm, usd, acts) ==
    [name |-> n, admin |-> adm, used |-> usd, actions |-> acts]

Described(i, owner, chain, last, priv, shad, grants) ==
    [id |-> i, fields |-> [f \in Fields |-> IF f = "owner" THEN owner ELSE chain],
     lastUsed |-> last, privileged |-> priv, shadow |-> shad, permissions |-> grants]

Command(ids, evs, docs) == [identities |-> ids, events |-> evs, passports |-> docs]

Alice == Described(alice, v1, NoValue, 1, FALSE, FALSE,
                   <<Grant(policy, TRUE, FALSE, {pass}), Grant(tool, FALSE, TRUE, {})>>)
AliceAgain == Described(alice, v2, NoValue, 0, TRUE, FALSE,
                        <<Grant(policy, FALSE, TRUE, {pass}), Grant(policy, FALSE, FALSE, {})>>)
Bot == Described(bot, NoValue, v1, 0, FALSE, TRUE, <<Grant(tool, FALSE, FALSE, {pass})>>)
BotPassport == Described(bot, v1, NoValue, 0, FALSE, FALSE, <<>>)

(* A fresh database, and one an inventory and a log have been loaded into. *)
MCEarlier == {Command(<<>>, <<>>, <<>>), Command(<<AliceAgain>>, <<l2>>, <<>>)}

MCLoads ==
    {Command(<<Bot>>, <<b1>>, <<BotPassport>>),
     Command(<<Bot, Alice>>, <<b1, b1>>, <<>>),
     Command(<<Alice, Bot>>, <<>>, <<>>),
     Command(<<AliceAgain>>, <<>>, <<>>),
     Command(<<>>, <<l1, l3>>, <<>>),
     Command(<<>>, <<l2, l1>>, <<>>)}

=============================================================================
