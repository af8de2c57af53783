--------------------------- MODULE EventDetectors ---------------------------
(***************************************************************************)
(* The detectors that read one identity's events: bursts of MFA challenges, *)
(* travel, devices, the behaviour baseline, heartbeats, shared credentials, *)
(* and the four that count what the planes report of an agent.  They keep   *)
(* no state: each is an operator over the history the graph hands it, in    *)
(* the order Identities sorts it, and over the time it runs.  The state is  *)
(* that history, which grows in any order of arrival.                       *)
(*                                                                         *)
(* Times are integers; a place stands for coordinates and the country they  *)
(* are in; a destination is a model API or another host.  A standard        *)
(* deviation is compared by its square.  The graph holds no event twice     *)
(* (IdentityGraph), and summaries are left out.                             *)
(***************************************************************************)
EXTENDS Integers, Sequences, FiniteSets, SequencesExt, FiniteSetsExt, Positions

CONSTANTS
    Feeds,              \* histories to choose from: whose, the events, the facts, until when
    Km,                 \* how far two places are apart
    MaxKmPerUnit,       \* maxFeasibleKmh, per unit of time
    HourLength, HoursPerDay,
    MFAWindow, MFAThreshold, MinLoginsToScore, MaxOrigins,
    DLPWindow, DLPThreshold, RecentWindow, RepeatThreshold,
    RepeatedIncidents, SustainedIncidents,
    Unknown

BeaconMinConnections == 4
BeaconMinInterval == 2

Places == {p[1] : p \in DOMAIN Km}
Spend == {"budget_exhausted", "sustained_loop", "spend_spike", "fanout_explosion",
          "breaker_tripped"}
Events == [type : {"login", "mfa_challenge", "egress", "dlp_block", "taint_block", "mcp_drift"}
                    \cup Spend,
           time : Nat, outcome : {"SUCCESS", "FAILURE", ""}, place : Places \cup {Unknown},
           device : Nat, ip : Nat, to : {"model_api", "host", Unknown}]
Facts == {"privileged", "admin", "delegated", "reach"}

(* Distances are those of a metric. *)
ASSUME DistanceAssumption ==
    /\ DOMAIN Km = Places \X Places /\ \A p \in DOMAIN Km : Km[p] \in Nat
    /\ \A a, b \in Places : Km[<<a, b>>] = Km[<<b, a>>] /\ (Km[<<a, b>>] = 0 <=> a = b)
    /\ \A a, b, c \in Places : Km[<<a, c>>] <= Km[<<a, b>>] + Km[<<b, c>>]
ASSUME ThresholdAssumption ==
    /\ {MaxKmPerUnit, HourLength, HoursPerDay, MFAThreshold, MinLoginsToScore,
        DLPThreshold, RepeatThreshold, RepeatedIncidents} \subseteq Nat \ {0}
    /\ {MFAWindow, MaxOrigins, DLPWindow, RecentWindow} \subseteq Nat
    /\ SustainedIncidents \in Nat /\ RepeatedIncidents < SustainedIncidents
ASSUME FeedsAssumption ==
    \A f \in Feeds : /\ DOMAIN f = {"whose", "events", "facts", "until"}
                     /\ f.whose \in {"human", "agent"} /\ f.until \in Nat
                     /\ f.events \subseteq Events /\ f.facts \subseteq Facts

VARIABLES
    feed,       \* which history this is
    events,     \* the identity's events, as Identities returns them
    facts,      \* what else the graph knows of the identity
    attested,   \* whether its attestation is neither empty nor "none"
    now         \* when the detectors run

feedVars == <<feed, events, facts, attested, now>>

FeedInit ==
    /\ feed \in Feeds
    /\ events = <<>> /\ facts = {} /\ attested = FALSE /\ now = 0

(* An event arrives, of any age.  The sort by time is stable. *)
Record(e) ==
    LET earlier == {i \in DOMAIN events : events[i].time <= e.time}
    IN  /\ e \notin ToSet(events)
        /\ events' = InsertAt(events, Cardinality(earlier) + 1, e)
        /\ UNCHANGED <<feed, facts, attested, now>>

Learn(f) ==
    /\ f \notin facts
    /\ facts' = facts \cup {f}
    /\ UNCHANGED <<feed, events, attested, now>>

Attest ==
    /\ feed.whose = "agent" /\ ~attested
    /\ attested' = TRUE
    /\ UNCHANGED <<feed, events, facts, now>>

Tick ==
    /\ now < feed.until
    /\ now' = now + 1
    /\ UNCHANGED <<feed, events, facts, attested>>

FeedNext ==
    \/ \E e \in feed.events : Record(e)
    \/ \E f \in feed.facts : Learn(f)
    \/ Attest \/ Tick

FeedSpec == FeedInit /\ [][FeedNext]_feedVars

-----------------------------------------------------------------------------
Medium == 2
High == 3
Critical == 4

Privileged == "privileged" \in facts
RaisedIf(raise, severity) == IF raise THEN severity + 1 ELSE severity

AlertOf(detector, severity, at) == [detector |-> detector, severity |-> severity, time |-> at]

Login(e) == e.type = "login" /\ e.outcome = "SUCCESS"

-----------------------------------------------------------------------------
(* mfa_fatigue: a window whose start follows its end. *)

(* Mutant: the window must be longer than its width to be moved, by one. *)
InMFAWindow_wide(first, last) == last.time - first.time <= MFAWindow + 1

InMFAWindow(first, last) == last.time - first.time <= MFAWindow

(* start moves on to the first challenge within the window of the one at    *)
(* end, and never back.                                                    *)
WindowStarts(c) ==
    LET start[end \in 0..Len(c)] ==
            IF end = 0 THEN 1
            ELSE Min({s \in start[end - 1]..end : InMFAWindow(c[s], c[end])})
    IN  start

MFAFatigue ==
    LET c == Pick(events, {i \in DOMAIN events : events[i].type = "mfa_challenge"})
        start == WindowStarts(c)
        full == {end \in DOMAIN c : end - start[end] + 1 >= MFAThreshold}
    IN  IF full = {} THEN {}
        ELSE {AlertOf("mfa_fatigue", RaisedIf(Privileged, High), c[Min(full)].time)}

-----------------------------------------------------------------------------
(* impossible_travel: each login with a location against the one before.    *)

(* Mutant: against the first one. *)
Previous_first(l, i) == l[1]

Previous(l, i) == l[i - 1]

(* At no distance in time there is no speed, and nothing is compared. *)
TooFast(a, b) ==
    b.time > a.time /\ Km[<<a.place, b.place>>] > MaxKmPerUnit * (b.time - a.time)

LocatedLogins ==
    Pick(events, {i \in DOMAIN events : Login(events[i]) /\ events[i].place # Unknown})

ImpossibleTravel ==
    LET l == LocatedLogins
    IN  {AlertOf("impossible_travel", RaisedIf(Privileged, High), l[i].time) :
           i \in {j \in 2..Len(l) : TooFast(Previous(l, j), l[j])}}

(* new_device: of the privileged, any device but the first. *)
NewDevice ==
    LET l == Pick(events, {i \in DOMAIN events : Login(events[i]) /\ events[i].device # 0})
    IN  {AlertOf("new_device", High, l[i].time) :
           i \in {j \in 2..Len(l) : Privileged /\ \A k \in 1..(j - 1) : l[k].device # l[j].device}}

-----------------------------------------------------------------------------
(* behavior_anomaly: each login against the profile of those before it.     *)

HourOf(t) == (t \div HourLength) % HoursPerDay

(* Mutant: a static baseline, of all the other logins. *)
Profile_static(l, i) == {l[j] : j \in DOMAIN l \ {i}}

Profile(l, i) == {l[j] : j \in 1..(i - 1)}

(* In tenths. *)
Score(e, profile) ==
    IF Cardinality(profile) < MinLoginsToScore THEN 0
    ELSE (IF e.place # Unknown /\ \A p \in profile : p.place # e.place THEN 5 ELSE 0)
       + (IF e.device # 0 /\ \A p \in profile : p.device # e.device THEN 3 ELSE 0)
       + (IF \A p \in profile : HourOf(p.time) # HourOf(e.time) THEN 2 ELSE 0)

BehaviorAnomaly ==
    LET l == Pick(events, {i \in DOMAIN events : Login(events[i])})
        score(i) == Score(l[i], Profile(l, i))
    IN  {AlertOf("behavior_anomaly",
               RaisedIf(Privileged, IF score(i) >= 8 THEN High ELSE Medium), l[i].time) :
           i \in {j \in DOMAIN l : score(j) >= 6}}

-----------------------------------------------------------------------------
(* beaconing: a coefficient of variation of at most 0.15. *)

Sum(s) == MapThenSumSet(LAMBDA i : s[i], DOMAIN s)
SumOfSquares(s) == MapThenSumSet(LAMBDA i : s[i] * s[i], DOMAIN s)

Regular(gaps) ==
    10000 * (Len(gaps) * SumOfSquares(gaps) - Sum(gaps) * Sum(gaps)) <= 225 * Sum(gaps) * Sum(gaps)

GapsTo(to) ==
    LET c == Pick(events, {i \in DOMAIN events : events[i].type = "egress" /\ events[i].to = to})
    IN  [i \in 1..(Len(c) - 1) |-> c[i + 1].time - c[i].time]

(* A gap below the least makes a burst of the whole conversation. *)
Beaconing ==
    {AlertOf("beaconing", RaisedIf(to = "model_api", Medium), now) :
       to \in {d \in {"model_api", "host"} :
                 LET gaps == GapsTo(d)
                 IN  /\ Len(gaps) >= BeaconMinConnections - 1
                     /\ \A g \in ToSet(gaps) : g >= BeaconMinInterval
                     /\ Regular(gaps)}}

-----------------------------------------------------------------------------
(* shared_credential, of what is no human: an event that says no outcome    *)
(* counts, where it is no login to the detectors above.                    *)

SharedCredential ==
    LET used == {i \in DOMAIN events : events[i].outcome \in {"SUCCESS", ""}}
        ips == {events[i].ip : i \in used} \ {0}
        countries == {events[i].place : i \in used} \ {Unknown}
        devices == {events[i].device : i \in used} \ {0}
    IN  IF feed.whose = "agent" /\ Max({Cardinality(ips), Cardinality(countries), Cardinality(devices)}) > MaxOrigins
        THEN {AlertOf("shared_credential", High, now)} ELSE {}

-----------------------------------------------------------------------------
(* The detectors that count. *)

Recent(types, window) ==
    Cardinality({i \in DOMAIN events : events[i].type \in types /\ now - events[i].time <= window})

DataExfiltration ==
    LET count == Recent({"dlp_block"}, DLPWindow)
    IN  IF feed.whose # "agent" \/ count < DLPThreshold THEN {}
        ELSE {AlertOf("data_exfiltration",
                    RaisedIf(count >= 2 * DLPThreshold \/ facts \cap {"privileged", "admin"} # {},
                             High), now)}

(* tainted_agent and mcp_drift: one event is enough. *)
AlertOnFirst(detector, type) ==
    LET count == Recent({type}, RecentWindow)
    IN  IF feed.whose # "agent" \/ count = 0 THEN {}
        ELSE {AlertOf(detector,
                    RaisedIf(count >= RepeatThreshold \/ facts \cap {"privileged", "admin"} # {},
                             High), now)}

TaintedAgent == AlertOnFirst("tainted_agent", "taint_block")
MCPDrift == AlertOnFirst("mcp_drift", "mcp_drift")

Corroborating ==
    Cardinality({w \in {"privilege", "delegated", "unattested", "reach"} :
        CASE w = "privilege"  -> facts \cap {"privileged", "admin"} # {}
          [] w = "unattested" -> ~attested
          [] OTHER            -> w \in facts})

(* The size raises what the context gave, and never lowers it. *)
RunawaySeverity(total, context) ==
    IF total >= SustainedIncidents /\ context < Critical THEN Critical
    ELSE IF total >= RepeatedIncidents /\ context < High THEN High
    ELSE context

RunawayAgent ==
    LET total == Recent(Spend, RecentWindow)
        context == CASE Corroborating >= 3 -> Critical
                     [] Corroborating = 2  -> High
                     [] OTHER              -> Medium
    IN  IF feed.whose # "agent" \/ total = 0 THEN {}
        ELSE {AlertOf("runaway_agent", RunawaySeverity(total, context), now)}

(* What they say together, per detector and at most one each. *)
Counting == DataExfiltration \cup TaintedAgent \cup MCPDrift \cup RunawayAgent \cup SharedCredential

SeverityOf(detector) == Max({0} \cup {a.severity : a \in {b \in Counting : b.detector = detector}})

-----------------------------------------------------------------------------
(* Type correctness: the history is one of the feed's, in order of time.    *)
FeedTypeOK ==
    /\ feed \in Feeds /\ ToSet(events) \subseteq feed.events /\ facts \subseteq feed.facts
    /\ attested \in BOOLEAN /\ now \in 0..feed.until
    /\ \A i \in 2..Len(events) : events[i - 1].time <= events[i].time

(* A burst of MFA challenges is reported if and only if some span of the    *)
(* window's length holds as many as the threshold, once, and at the moment  *)
(* the first such span is full, however the challenges arrived              *)
(* (mfa_fatigue.go, the two pointers).                                      *)
BurstIsFound ==
    LET challenges == {i \in DOMAIN events : events[i].type = "mfa_challenge"}
        fullAt == {t \in {events[i].time : i \in challenges} :
                     Cardinality({i \in challenges : events[i].time \in (t - MFAWindow)..t})
                        >= MFAThreshold}
    IN  {a.time : a \in MFAFatigue} = {t \in fullAt : \A u \in fullAt : t <= u}

(* As long as no two located logins are simultaneous in different places,   *)
(* comparing each with the one before finds every identity that cannot have *)
(* made some two of them, adjacent or not (impossible_travel.go).           *)
TravelIsFound ==
    LET l == LocatedLogins
    IN  (\A i \in 2..Len(l) : l[i - 1].time = l[i].time => l[i - 1].place = l[i].place) =>
            (ImpossibleTravel # {} <=> \E i, j \in DOMAIN l : i < j /\ TooFast(l[i], l[j]))

(* What the detectors say of the logins and challenges so far is not        *)
(* withdrawn, or changed, for an event that comes later than all of them;   *)
(* more evidence never lowers what a counting detector says, and the mere   *)
(* passing of time never raises it (data_exfiltration.go, tainted_agent.go, *)
(* mcp_drift.go, runaway_agent.go, shared_credential.go).                   *)
NoHindsight ==
    [][/\ (\E e \in feed.events : Record(e) /\ \A x \in ToSet(events) : x.time < e.time)
           => \A d \in {1, 2, 3, 4} :
                LET said == <<MFAFatigue, ImpossibleTravel, NewDevice, BehaviorAnomaly>>
                IN  said[d] \subseteq said'[d]
       /\ \A d \in {"data_exfiltration", "tainted_agent", "mcp_drift", "runaway_agent",
                  "shared_credential"} :
            /\ (\E e \in feed.events : Record(e)) \/ (\E f \in feed.facts : Learn(f))
                   => SeverityOf(d)' >= SeverityOf(d)
            /\ Tick => SeverityOf(d)' <= SeverityOf(d)]_feedVars

=============================================================================
