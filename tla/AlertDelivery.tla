---------------------------- MODULE AlertDelivery ----------------------------
(***************************************************************************)
(* `idryx detect` from its alerts to its exit code: runDetect of           *)
(* cmd/idryx/main.go, the sinks of internal/sink and the agent-event       *)
(* journal of internal/events/events.go.                                   *)
(*                                                                         *)
(* Runs of the command are processes of their own and may overlap; they    *)
(* share the destinations and the journal file.  A destination may refuse  *)
(* a batch, take it and lose the answer, or not answer at all, which the   *)
(* client gives up on after 10 seconds.  An append to the journal may fail *)
(* on its own.  A run may be killed at any point.                          *)
(*                                                                         *)
(* An alert is the identity it is about and its severity.  What the sinks  *)
(* make of its text is left out, and so are the run id, which is the       *)
(* second the run was in, and the journal's prev_hash chain, which the     *)
(* shared module keeps.                                                    *)
(***************************************************************************)
EXTENDS Naturals, Sequences, FiniteSets, SequencesExt, Positions

CONSTANTS
    Runs,           \* the invocations of idryx detect
    Identities,     \* the identities alerts are about
    Namespace,      \* the namespace of each: see trustedID
    Severities,     \* a set of numbers
    Batches,        \* what the detectors may return
    Configs,        \* the settings a run may have
    None,           \* no settings yet, no exit code yet
    Fallible        \* bound: the destinations that may stop answering

(* The order runDetect appends them in; the journal is the last. *)
HttpSinks == {"slack", "webhook", "otlp"}
SinkOrder == <<"slack", "webhook", "otlp", "agent-event">>
Sinks == ToSet(SinkOrder)

(* "inventory" is agent:<name>, "canonical" a well-formed agent:// URI,     *)
(* "husk" an agent: URI that is broken, "claimed" claimed: and such a URI,  *)
(* "other" everything else: a person, an ARN, a proc:, a broken claim.     *)
Namespaces == {"inventory", "canonical", "husk", "claimed", "other"}

Alert == [about : Identities, severity : Severities]

(* usable is whether the other settings are: the header file, the sources,  *)
(* --format and --min-severity.  domain is IDRYX_TRUST_DOMAIN: "" when it   *)
(* is unset, "blank" when it is white space, "Bad" when it cannot form a    *)
(* subject.                                                                *)
Config == [sinks : SUBSET Sinks, min : Severities, usable : BOOLEAN,
           domain : {"", "blank", "Bad", "acme"}]

ASSUME NamespaceAssumption == Namespace \in [Identities -> Namespaces]
ASSUME SeverityAssumption  == Severities \subseteq Nat
ASSUME BatchesAssumption   == Batches \subseteq Seq(Alert)
ASSUME ConfigsAssumption   == Configs \subseteq Config /\ None \notin Configs
ASSUME NoneAssumption      == None \notin {0, 1, 3, 137}

VARIABLES
    answering,      \* the destinations that answer
    phase,          \* where each run is
    config,         \* its settings
    batch,          \* its alerts
    todo,           \* the sinks it has still to try
    at,             \* the next alert the journal sink takes
    counts,         \* that sink's counters: skipped, claimed, failed
    failedSinks,    \* the sinks that have failed to deliver
    exit,           \* its exit code, or None
    received,       \* history: what each destination has got from each run
    journal         \* the journal file

runVars == <<config, batch>>
sendVars == <<todo, at, counts, failedSinks>>
vars == <<answering, phase, runVars, sendVars, exit, received, journal>>

NoCounts == [skipped |-> 0, claimed |-> 0, failed |-> 0]

Init ==
    /\ answering = HttpSinks
    /\ phase = [r \in Runs |-> "idle"]
    /\ config = [r \in Runs |-> None]
    /\ batch = [r \in Runs |-> <<>>]
    /\ todo = [r \in Runs |-> <<>>]
    /\ at = [r \in Runs |-> 0]
    /\ counts = [r \in Runs |-> NoCounts]
    /\ failedSinks = [r \in Runs |-> {}]
    /\ exit = [r \in Runs |-> None]
    /\ received = [s \in HttpSinks |-> [r \in Runs |-> <<>>]]
    /\ journal = <<>>

StopAnswering(s) ==
    /\ s \in answering \cap Fallible
    /\ answering' = answering \ {s}
    /\ UNCHANGED <<phase, runVars, sendVars, exit, received, journal>>

-----------------------------------------------------------------------------
(* A run up to its sinks. *)

Leave(r, code) ==
    /\ phase' = [phase EXCEPT ![r] = "exited"]
    /\ exit' = [exit EXCEPT ![r] = code]

(* Flags are parsed and the environment is read. *)
Start(r, c) ==
    /\ phase[r] = "idle"
    /\ phase' = [phase EXCEPT ![r] = "scanning"]
    /\ config' = [config EXCEPT ![r] = c]
    /\ UNCHANGED <<answering, batch, sendVars, exit, received, journal>>

(* The header file, a source, --format or --min-severity is wrong. *)
SetupFails(r) ==
    /\ phase[r] = "scanning" /\ ~config[r].usable
    /\ Leave(r, 1)
    /\ UNCHANGED <<answering, runVars, sendVars, received, journal>>

(* buildGraph, runDetectors, the report on stdout, and the run id. *)
Scan(r, alerts) ==
    /\ phase[r] = "scanning" /\ config[r].usable
    /\ phase' = [phase EXCEPT ![r] = "wiring"]
    /\ batch' = [batch EXCEPT ![r] = alerts]
    /\ UNCHANGED <<answering, config, sendVars, exit, received, journal>>

Configured(r) ==
    Pick(SinkOrder, {i \in DOMAIN SinkOrder : SinkOrder[i] \in config[r].sinks})

(* Every sink is wired before the first one is sent anything.  A blank      *)
(* domain is not the empty one runDetect refuses, and events.New, which     *)
(* trims it, refuses none.                                                 *)
Wire(r) ==
    /\ phase[r] = "wiring"
    /\ "agent-event" \in config[r].sinks => config[r].domain \in {"blank", "acme"}
    /\ phase' = [phase EXCEPT ![r] = "sending"]
    /\ todo' = [todo EXCEPT ![r] = Configured(r)]
    /\ at' = [at EXCEPT ![r] = 1]
    /\ UNCHANGED <<answering, runVars, counts, failedSinks, exit, received, journal>>

(* The journal has no trust domain, an unusable one, or cannot be opened. *)
WiringFails(r) ==
    /\ phase[r] = "wiring" /\ "agent-event" \in config[r].sinks
    /\ Leave(r, 1)
    /\ UNCHANGED <<answering, runVars, sendVars, received, journal>>

-----------------------------------------------------------------------------
(* Send of slack, webhook and otlp. *)

AtLeast(alerts, min) == Pick(alerts, {i \in DOMAIN alerts : alerts[i].severity >= min})

Sending(r, sinks) == phase[r] = "sending" /\ todo[r] # <<>> /\ Head(todo[r]) \in sinks

Due(r) == AtLeast(batch[r], config[r].min)

(* Mutant: the first failing sink ends the loop. *)
Returns_stops(r, failed) ==
    /\ todo' = [todo EXCEPT ![r] = IF failed THEN <<>> ELSE Tail(@)]
    /\ failedSinks' = [failedSinks EXCEPT ![r] = IF failed THEN @ \cup {Head(todo[r])} ELSE @]
    /\ UNCHANGED <<answering, phase, runVars, at, counts, exit, journal>>

(* Send returns, with an error or without one, and the loop goes on. *)
Returns(r, failed) ==
    /\ todo' = [todo EXCEPT ![r] = Tail(@)]
    /\ failedSinks' = [failedSinks EXCEPT ![r] = IF failed THEN @ \cup {Head(todo[r])} ELSE @]
    /\ UNCHANGED <<answering, phase, runVars, at, counts, exit, journal>>

(* No alert is at or above the threshold: nothing is posted. *)
NothingDue(r) ==
    /\ Sending(r, HttpSinks) /\ Due(r) = <<>>
    /\ Returns(r, FALSE)
    /\ UNCHANGED received

(* The destination takes the batch, and its answer comes back or is lost.   *)
Accepted(r, answerLost) ==
    /\ Sending(r, answering) /\ Due(r) # <<>>
    /\ received' = [received EXCEPT ![Head(todo[r])][r] = @ \o Due(r)]
    /\ Returns(r, answerLost)

(* A status of 300 or more, or no connection. *)
Refused(r) ==
    /\ Sending(r, answering) /\ Due(r) # <<>>
    /\ Returns(r, TRUE)
    /\ UNCHANGED received

(* Mutant: a client without a timeout waits for an answer that never comes. *)
TimesOut_never(r) == FALSE /\ UNCHANGED vars

(* The client gives up after 10 seconds. *)
TimesOut(r) ==
    /\ Sending(r, HttpSinks \ answering) /\ Due(r) # <<>>
    /\ Returns(r, TRUE)
    /\ UNCHANGED received

-----------------------------------------------------------------------------
(* Send of the journal: one event per alert, with no threshold. *)

(* The subject an established identity travels under, if it has one: a      *)
(* canonical URI is its own, an inventory name gets the operator's domain,  *)
(* and the envelope has none for the others.                               *)
TrustedID(id, domain) ==
    CASE domain # "blank" /\ Namespace[id] = "canonical" -> {<<"as is", id>>}
      [] domain # "blank" /\ Namespace[id] = "inventory" -> {<<domain, id>>}
      [] OTHER -> {}

ClaimedID(id, domain) ==
    IF Namespace[id] = "claimed" /\ domain # "blank" THEN {<<"as is", id>>} ELSE {}

Writing(r) == Sending(r, {"agent-event"}) /\ at[r] <= Len(batch[r])

Finding(r, subject, schema) ==
    [run |-> r, subject |-> subject, schema |-> schema,
     about |-> batch[r][at[r]].about, severity |-> batch[r][at[r]].severity]

NextAlert(r) ==
    /\ at' = [at EXCEPT ![r] = @ + 1]
    /\ UNCHANGED <<answering, phase, runVars, todo, exit, received>>

(* The finding has no subject the envelope can carry. *)
SkipFinding(r) ==
    LET id == batch[r][at[r]].about
        domain == config[r].domain
    IN  /\ Writing(r) /\ TrustedID(id, domain) = {} /\ ClaimedID(id, domain) = {}
        /\ counts' = [counts EXCEPT ![r].skipped = @ + 1]
        /\ NextAlert(r)
        /\ UNCHANGED <<failedSinks, journal>>

(* Mutant: an append that failed is not counted. *)
Append_uncounted(r, entry, claimed) ==
    \/ /\ journal' = Append(journal, entry)
       /\ counts' = [counts EXCEPT ![r].claimed = @ + claimed]
       /\ UNCHANGED failedSinks
    \/ /\ counts' = [counts EXCEPT ![r].claimed = @ + claimed]
       /\ failedSinks' = [failedSinks EXCEPT ![r] = @ \cup {"agent-event"}]
       /\ UNCHANGED journal

(* The append succeeds or fails; a claimed subject is counted before it. *)
AppendEntry(r, entry, claimed) ==
    \/ /\ journal' = Append(journal, entry)
       /\ counts' = [counts EXCEPT ![r].claimed = @ + claimed]
       /\ UNCHANGED failedSinks
    \/ /\ counts' = [counts EXCEPT ![r].claimed = @ + claimed, ![r].failed = @ + 1]
       /\ failedSinks' = [failedSinks EXCEPT ![r] = @ \cup {"agent-event"}]
       /\ UNCHANGED journal

WriteFinding(r) ==
    /\ Writing(r)
    /\ LET id == batch[r][at[r]].about
           domain == config[r].domain
       IN  \/ \E subject \in TrustedID(id, domain) :
                AppendEntry(r, Finding(r, subject, "v0.2"), 0)
           \/ /\ TrustedID(id, domain) = {}
              /\ \E subject \in ClaimedID(id, domain) :
                    AppendEntry(r, Finding(r, subject, "v0.3"), 1)
    /\ NextAlert(r)

(* Send has been through the batch; an append that failed has marked it.    *)
JournalDone(r) ==
    /\ Sending(r, {"agent-event"}) /\ at[r] > Len(batch[r])
    /\ todo' = [todo EXCEPT ![r] = Tail(@)]
    /\ UNCHANGED <<answering, phase, runVars, at, counts, failedSinks, exit, received,
                   journal>>

-----------------------------------------------------------------------------
(* Mutant: only the last sink's error reaches the exit code. *)
Finish_last(r) ==
    /\ phase[r] = "sending" /\ todo[r] = <<>>
    /\ Leave(r, IF config[r].sinks # {} /\ Configured(r)[Len(Configured(r))] \in failedSinks[r]
                THEN 3 ELSE 0)
    /\ UNCHANGED <<answering, runVars, sendVars, received, journal>>

(* The deferred counts and Close, and main's exit code. *)
Finish(r) ==
    /\ phase[r] = "sending" /\ todo[r] = <<>>
    /\ Leave(r, IF failedSinks[r] = {} THEN 0 ELSE 3)
    /\ UNCHANGED <<answering, runVars, sendVars, received, journal>>

Kill(r) ==
    /\ phase[r] \notin {"idle", "exited"}
    /\ Leave(r, 137)
    /\ UNCHANGED <<answering, runVars, sendVars, received, journal>>

Step(r) ==
    \/ SetupFails(r)
    \/ \E alerts \in Batches : Scan(r, alerts)
    \/ Wire(r)
    \/ WiringFails(r)
    \/ NothingDue(r)
    \/ \E answerLost \in BOOLEAN : Accepted(r, answerLost)
    \/ Refused(r)
    \/ TimesOut(r)
    \/ SkipFinding(r)
    \/ WriteFinding(r)
    \/ JournalDone(r)
    \/ Finish(r)

Next ==
    \/ \E s \in HttpSinks : StopAnswering(s)
    \/ \E r \in Runs : Step(r) \/ Kill(r) \/ \E c \in Configs : Start(r, c)

(* A run that has started keeps running until it exits. *)
Spec == Init /\ [][Next]_vars /\ \A r \in Runs : WF_vars(Step(r))

-----------------------------------------------------------------------------
(* Properties. *)

Entry == [run : Runs, subject : {"as is", "acme"} \X Identities,
          schema : {"v0.2", "v0.3"}, about : Identities, severity : Severities]

TypeOK ==
    /\ answering \subseteq HttpSinks
    /\ phase \in [Runs -> {"idle", "scanning", "wiring", "sending", "exited"}]
    /\ config \in [Runs -> Configs \cup {None}]
    /\ batch \in [Runs -> Batches \cup {<<>>}]
    /\ todo \in [Runs -> Seq(Sinks)] /\ at \in [Runs -> Nat]
    /\ counts \in [Runs -> [skipped : Nat, claimed : Nat, failed : Nat]]
    /\ failedSinks \in [Runs -> SUBSET Sinks]
    /\ exit \in [Runs -> {None, 0, 1, 3, 137}]
    /\ received \in [HttpSinks -> [Runs -> Seq(Alert)]]
    /\ journal \in Seq(Entry)

JournalOf(r) == Pick(journal, {i \in DOMAIN journal : journal[i].run = r})

(* A domain of white space is not refused, and leaves no alert a subject. *)
HasSubject(id, domain) ==
    Namespace[id] \in {"inventory", "canonical", "claimed"} /\ domain # "blank"

Subjects(r) == {i \in DOMAIN batch[r] : HasSubject(batch[r][i].about, config[r].domain)}

Recorded(r) == Pick(batch[r], Subjects(r))

AlertsIn(entries) ==
    [k \in DOMAIN entries |-> [about |-> entries[k].about, severity |-> entries[k].severity]]

(* main.go:45-54: the exit code tells a cron job what became of the alerts. *)
(* 0: every configured destination has every alert it was due, once and in  *)
(* order, and the journal every one that has a subject.  1: nobody has got  *)
(* anything of a run whose invocation was broken.  3: some sink failed, and *)
(* each of the others has what it was due all the same.                    *)
ExitCodeTells ==
    \A r \in Runs :
        /\ exit[r] \in {0, 3} =>
             /\ \A s \in config[r].sinks \cap HttpSinks :
                   s \notin failedSinks[r] => received[s][r] = Due(r)
             /\ "agent-event" \in config[r].sinks \ failedSinks[r] =>
                   AlertsIn(JournalOf(r)) = Recorded(r)
        /\ exit[r] = 0 => failedSinks[r] = {}
        /\ exit[r] = 1 =>
             JournalOf(r) = <<>> /\ \A s \in HttpSinks : received[s][r] = <<>>

(* Sink.write: the journal is whole or its counts say what it lacks.  In    *)
(* every run that gets to its end, killed runs apart, the alerts written,   *)
(* skipped and failed are all the alerts, and those written keep their      *)
(* order whatever other runs append between them.  The claimed count is     *)
(* taken before the append, so it is off by no more than those that failed. *)
JournalAccounts ==
    \A r \in Runs :
        LET claims == Cardinality({k \in DOMAIN JournalOf(r) : JournalOf(r)[k].schema = "v0.3"})
        IN  /\ exit[r] \in {0, 3} /\ "agent-event" \in config[r].sinks =>
                 Len(JournalOf(r)) + counts[r].skipped + counts[r].failed = Len(batch[r])
            /\ counts[r].claimed \in claims..(claims + counts[r].failed)
            /\ \E kept \in SUBSET DOMAIN Recorded(r) :
                 AlertsIn(JournalOf(r)) = Pick(Recorded(r), kept)

(* A run that has started ends, whatever its destinations do: the clients   *)
(* have a timeout, so no scheduled scan hangs for good.                    *)
EveryRunEnds == \A r \in Runs : phase[r] # "idle" ~> phase[r] = "exited"

=============================================================================
