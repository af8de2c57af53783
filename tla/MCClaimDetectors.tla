-------------------------- MODULE MCClaimDetectors --------------------------
(* Two agents, a process without a name, a destination of each kind, and a  *)
(* provider with two hosts.  A Passport declares that provider, as it is    *)
(* registered or with a space before it, or one of its hosts as the         *)
(* endpoint of a provider nobody registered, or of none.                    *)
EXTENDS AIUsage, TLC

CONSTANTS x, y
Alike == Permutations({x, y})

MCProviderOf == "model1" :> "prov1" @@ "model2" :> "prov1"
Entry(provider, endpoint) == [provider |-> provider, endpoint |-> endpoint]
MCDeclarations ==
    {{}, {Entry("prov1", "")}, {Entry(" prov1", "")}, {Entry("own", "model2")}, {Entry(" ", "model1")}}
MCNormalized == "prov1" :> "prov1" @@ " prov1" :> "prov1" @@ "own" :> "own" @@ " " :> ""
=============================================================================
