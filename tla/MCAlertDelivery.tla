--------------------------- MODULE MCAlertDelivery ---------------------------
(* An estate for TLC with an identity of each namespace and a finding below *)
(* the paging threshold.                                                   *)
EXTENDS AlertDelivery

CONSTANTS r1, r2,       \* runs
          bot,          \* agent:bot, from the inventory
          foreign,      \* agent://other.example/bot
          broken,       \* agent:///bot
          ghost,        \* claimed:agent://acme.example/bot
          jane          \* a person

MCNamespace == [i \in Identities |->
    CASE i = bot -> "inventory" [] i = foreign -> "canonical" [] i = broken -> "husk"
      [] i = ghost -> "claimed" [] OTHER -> "other"]

On(i, s) == [about |-> i, severity |-> s]

MCBatches == {<<On(bot, 1), On(jane, 2), On(foreign, 2)>>, <<On(broken, 1), On(ghost, 1)>>}

Settings(sinks, usable, domain) ==
    [sinks |-> sinks, min |-> 2, usable |-> usable, domain |-> domain]

MCConfigs == {Settings({"slack", "otlp", "agent-event"}, TRUE, "acme"),
              Settings({"webhook", "agent-event"}, TRUE, "Bad"),
              Settings({"agent-event"}, TRUE, "blank"),
              Settings({"webhook"}, FALSE, "")}

=============================================================================
