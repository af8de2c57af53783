------------------------------- MODULE AIUsage -------------------------------
(***************************************************************************)
(* The report of `idryx ai-inventory`: what the Passports declare, what the *)
(* egress and the bus show and what a scan of the code found, joined once   *)
(* per provider (Build) and once per subject and provider (buildSubjects).  *)
(* It reads the graph that the detectors of ClaimDetectors read.            *)
(*                                                                         *)
(* A scan is the set of providers it found; Absent is a scan nobody ran.    *)
(***************************************************************************)
EXTENDS ClaimDetectors

CONSTANTS
    Normalized,     \* normalize, of every provider as written
    Scans,          \* the scans there may be
    Absent

ASSUME NormalizedAssumption == Normalized \in [Written -> Written \cup {""}]
ASSUME ScansAssumption == Absent \in Scans /\ \A s \in Scans \ {Absent} : "" \notin s

-----------------------------------------------------------------------------
(* gather. *)

(* An entry whose provider is blank is skipped, its endpoint with it. *)
Entries(id) == {d \in Node(id).declared : Normalized[d.provider] # ""}

DeclaredOf(id) == {Normalized[d.provider] : d \in Entries(id)}
EndpointsOf(id) == {d.endpoint : d \in Entries(id)}
SeenOf(id) == {ProviderOf[m] : m \in ModelsOf(id)}
HostsOf(id, p) == {m \in ModelsOf(id) : ProviderOf[m] = p}
OnBus(id) == \E e \in Node(id).events : e.type # "egress" /\ e.source # ""

HasDeclaration(id) ==
    Node(id).source = "passport" \/ Node(id).declared # {} \/ Node(id).attestation # ""

(* Mutant: one declared host is enough. *)
CoveredByEndpoint_some(id, p) == HostsOf(id, p) \cap EndpointsOf(id) # {}

CoveredByEndpoint(id, p) == HostsOf(id, p) # {} /\ HostsOf(id, p) \subseteq EndpointsOf(id)

-----------------------------------------------------------------------------
(* buildSubjects. *)

NotReached(id) == IF OnBus(id) THEN "bus_only" ELSE "none"

Gap(id, declared, seen) ==
    IF declared THEN CASE seen = "egress"   -> "agrees"
                       [] seen = "bus_only" -> "declared_bus_only"
                       [] OTHER             -> "declared_not_seen"
    ELSE IF DeclaredOf(id) # {} THEN "seen_not_declared" ELSE "seen_no_declaration"

Code(p, scan) ==
    IF scan = Absent THEN "not_scanned" ELSE IF p \in scan THEN "found" ELSE "not_found"

SubjectRow(id, p, scan) ==
    LET declared == p \in DeclaredOf(id) \/ CoveredByEndpoint(id, p)
        seen == IF p \in SeenOf(id) THEN "egress" ELSE NotReached(id)
    IN  [subject |-> id, provider |-> p, declared |-> declared, seen |-> seen,
         code |-> Code(p, scan), gap |-> Gap(id, declared, seen)]

(* An agent without a provider has a row that names none. *)
EmptyRow(id) ==
    [subject |-> id, provider |-> "", declared |-> FALSE, seen |-> NotReached(id), code |-> "",
     gap |-> IF HasDeclaration(id) THEN "declares_no_models" ELSE "no_declaration"]

SubjectRows(scan) ==
    {SubjectRow(x[1], x[2], scan) :
        x \in UNION {{id} \X (DeclaredOf(id) \cup SeenOf(id)) : id \in DOMAIN nodes}}
    \cup {EmptyRow(id) : id \in {i \in DOMAIN nodes :
                                    nodes[i].agent /\ DeclaredOf(i) \cup SeenOf(i) = {}}}

-----------------------------------------------------------------------------
(* Build. *)

DeclaredBy(p) == {id \in DOMAIN nodes : p \in DeclaredOf(id)}
ObservedBy(p) == {id \in DOMAIN nodes : p \in SeenOf(id)}

ProviderGaps(p, scan) ==
    {gap \in {"declared_not_seen", "seen_not_declared", "in_code_not_seen"} :
        CASE gap = "declared_not_seen" -> DeclaredBy(p) # {} /\ ObservedBy(p) = {}
          [] gap = "seen_not_declared" -> ObservedBy(p) # {} /\ DeclaredBy(p) = {}
          [] OTHER -> scan # Absent /\ p \in scan /\ ObservedBy(p) = {}}

ProviderRows(scan) ==
    {[provider |-> p, gaps |-> ProviderGaps(p, scan)] :
        p \in {q \in Written \cup Providers :
                 DeclaredBy(q) \cup ObservedBy(q) # {} \/ (scan # Absent /\ q \in scan)}}

-----------------------------------------------------------------------------
(* Properties. *)

Flagged(detector, id) == \E x \in Alerts : x.detector = detector /\ x.id = id

(* Every provider is written as it is registered, but for the case. *)
AsRegistered(id) == \A d \in Node(id).declared : Normalized[d.provider] = d.provider

(* subjects.go, "the report and the detector cannot disagree about it": a   *)
(* subject is shown reaching a provider exactly where shadow_ai says so,    *)
(* and short of a declaration exactly where undeclared_llm does, as long as *)
(* no provider is written with white space around it, which the report      *)
(* trims and the detector does not.  What a process reaches under a claimed *)
(* name never reads as agreement with the agent's Passport.  And the table  *)
(* of providers says of each what the rows of its subjects add up to, except *)
(* that it does not know of hosts declared as endpoints.                    *)
ReportAgreesWithDetectors ==
    \A scan \in Scans :
      LET rows == SubjectRows(scan)
      IN  /\ \A id \in DOMAIN nodes :
               LET about == {r \in rows : r.subject = id}
               IN  /\ Flagged("shadow_ai", id) <=> \E r \in about : r.seen = "egress"
                   /\ AsRegistered(id) =>
                        (Flagged("undeclared_llm", id)
                           <=> \E r \in about : r.gap = "seen_not_declared")
                   /\ id \in ClaimedIDs => \A r \in about : r.gap = "seen_no_declaration"
          /\ \A table \in ProviderRows(scan) :
               LET about == {r \in rows : r.provider = table.provider}
                   Covered(r) == CoveredByEndpoint(r.subject, r.provider)
               IN  /\ "declared_not_seen" \in table.gaps
                        <=> about # {} /\ \A r \in about : r.seen # "egress"
                   /\ "seen_not_declared" \in table.gaps
                        => \A r \in about : ~r.declared \/ Covered(r)
                   /\ about # {} /\ (\A r \in about : ~r.declared)
                        => "seen_not_declared" \in table.gaps
=============================================================================
