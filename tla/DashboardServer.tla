--------------------------- MODULE DashboardServer ---------------------------
(***************************************************************************)
(* `idryx serve` over files: server.Server of internal/server/server.go    *)
(* and the refresh goroutine of runServe in cmd/idryx/main.go.             *)
(*                                                                         *)
(* The source files grow while the server runs.  On every tick the         *)
(* refresher re-reads them one by one, builds a graph, runs the detectors  *)
(* on it and swaps graph and alerts in under a sync.RWMutex.  A handler    *)
(* holds the read lock from its first read to the end of its write to the  *)
(* client, and there is no write deadline.                                 *)
(*                                                                         *)
(* A file is its version, a graph the versions it was built from, and the  *)
(* alerts the versions of the graph they were found in.  Left out: the     *)
(* dashboard page and /healthz, which take no lock and read no field; the  *)
(* ticker's period; and SetRemediations, which runServe calls only with    *)
(* --db, before it listens, where nothing is refreshed.                    *)
(***************************************************************************)
EXTENDS Naturals

CONSTANTS
    Clients,        \* connections, each with one request at a time
    Sources,        \* the files behind --load
    MaxVersion,     \* bound: how often a file changes
    MaxFailures,    \* bound: how many rebuilds fail
    NoAnswer        \* a field not read yet, a view not chosen yet

ASSUME BoundsAssumption   == MaxVersion \in Nat /\ MaxFailures \in Nat
ASSUME NoAnswerAssumption == NoAnswer \notin [Sources -> 0..MaxVersion]

Versions == [Sources -> 0..MaxVersion]

Fields == {"alerts", "graph"}

(* What the endpoints read: /api/alerts the alerts, /api/identities both    *)
(* fields, /api/remediations the graph.                                    *)
Endpoints == {{"alerts"}, {"alerts", "graph"}, {"graph"}}

VARIABLES
    file,           \* the version of each source file
    failures,       \* how many rebuilds have failed
    graph,          \* Server.graph: what it was built from, and whether its
                    \* events are in chronological order
    alerts,         \* Server.alerts: what they were found in
    writer,         \* Server.mu, write side: "free", "pending" or "held"
    readers,        \* Server.mu, read side: the handlers that hold it
    refresher,      \* where the refresh goroutine is
    unread,         \* the files it has still to read
    built,          \* the graph it builds
    handler,        \* where the handler of each client's request is
    wants,          \* the fields it has still to read
    response        \* what it has read of each field, or NoAnswer

refreshVars == <<failures, refresher, unread, built>>
handlerVars == <<handler, wants, response>>
serverVars == <<graph, alerts>>
vars == <<file, refreshVars, serverVars, writer, readers, handlerVars>>

Built(versions, inOrder) == [of |-> versions, sorted |-> inOrder]

Nothing == [f \in Fields |-> NoAnswer]

(* runServe before it listens: buildGraph, runDetectors, New. *)
Init ==
    /\ file \in Versions
    /\ failures = 0
    /\ graph = Built(file, TRUE)
    /\ alerts = file
    /\ writer = "free"
    /\ readers = {}
    /\ refresher = "waiting"
    /\ unread = {}
    /\ built = graph
    /\ handler = [c \in Clients |-> "none"]
    /\ wants = [c \in Clients |-> {}]
    /\ response = [c \in Clients |-> Nothing]

(* Somebody appends to a source file. *)
Grow(s) ==
    /\ file[s] < MaxVersion
    /\ file' = [file EXCEPT ![s] = @ + 1]
    /\ UNCHANGED <<refreshVars, serverVars, writer, readers, handlerVars>>

-----------------------------------------------------------------------------
(* The refresh goroutine. *)

Tick ==
    /\ refresher = "waiting"
    /\ refresher' = "building"
    /\ unread' = Sources
    /\ UNCHANGED <<file, failures, built, serverVars, writer, readers, handlerVars>>

(* buildGraph reads and parses one of its sources. *)
ReadSource(s) ==
    /\ refresher = "building" /\ s \in unread
    /\ unread' = unread \ {s}
    /\ built' = Built([built.of EXCEPT ![s] = file[s]], FALSE)
    /\ UNCHANGED <<file, failures, refresher, serverVars, writer, readers, handlerVars>>

(* Mutant: a failed rebuild ends the goroutine. *)
RebuildFails_returns ==
    /\ refresher = "building" /\ failures < MaxFailures
    /\ failures' = failures + 1
    /\ refresher' = "ended"
    /\ unread' = {}
    /\ built' = graph
    /\ UNCHANGED <<file, serverVars, writer, readers, handlerVars>>

(* A source cannot be read: the last good graph stays, until the next tick. *)
RebuildFails ==
    /\ refresher = "building" /\ failures < MaxFailures
    /\ failures' = failures + 1
    /\ refresher' = "waiting"
    /\ unread' = {}
    /\ built' = graph
    /\ UNCHANGED <<file, serverVars, writer, readers, handlerVars>>

(* Mutant: the detectors run on a copy, and leave the graph as it was built. *)
RunDetectors_copy ==
    /\ refresher = "building" /\ unread = {}
    /\ refresher' = "replacing"
    /\ UNCHANGED <<file, failures, unread, built, serverVars, writer, readers, handlerVars>>

(* runDetectors is an argument of the call to Replace, so it runs before;   *)
(* its first Identities() sorts the events of every identity in place.     *)
RunDetectors ==
    /\ refresher = "building" /\ unread = {}
    /\ refresher' = "replacing"
    /\ built' = [built EXCEPT !.sorted = TRUE]
    /\ UNCHANGED <<file, failures, unread, serverVars, writer, readers, handlerVars>>

(* Replace: mu.Lock holds up the readers that come after it... *)
Lock ==
    /\ refresher = "replacing"
    /\ refresher' = "locking"
    /\ writer' = "pending"
    /\ UNCHANGED <<file, failures, unread, built, serverVars, readers, handlerVars>>

(* Mutant: the lock is taken with readers still inside. *)
Acquire_shared ==
    /\ refresher = "locking"
    /\ refresher' = "swapping"
    /\ writer' = "held"
    /\ UNCHANGED <<file, failures, unread, built, serverVars, readers, handlerVars>>

(* ...and returns when those that came before it are gone. *)
Acquire ==
    /\ refresher = "locking" /\ readers = {}
    /\ refresher' = "swapping"
    /\ writer' = "held"
    /\ UNCHANGED <<file, failures, unread, built, serverVars, readers, handlerVars>>

SwapGraph ==
    /\ refresher = "swapping"
    /\ refresher' = "swapped"
    /\ graph' = built
    /\ UNCHANGED <<file, failures, unread, built, alerts, writer, readers, handlerVars>>

SwapAlerts ==
    /\ refresher = "swapped"
    /\ refresher' = "unlocking"
    /\ alerts' = built.of
    /\ UNCHANGED <<file, failures, unread, built, graph, writer, readers, handlerVars>>

(* Mutant: the lock is released and the readers it held up are not woken. *)
Unlock_silent ==
    /\ refresher = "unlocking"
    /\ refresher' = "waiting"
    /\ writer' = "free"
    /\ UNCHANGED <<file, failures, unread, built, serverVars, readers, handlerVars>>

(* mu.Unlock: every reader that was held up gets the lock. *)
Unlock ==
    /\ refresher = "unlocking"
    /\ refresher' = "waiting"
    /\ writer' = "free"
    /\ LET heldUp == {c \in Clients : handler[c] = "blocked"}
       IN  /\ readers' = readers \cup heldUp
           /\ handler' = [c \in Clients |-> IF c \in heldUp THEN "reading" ELSE handler[c]]
    /\ UNCHANGED <<file, failures, unread, built, serverVars, wants, response>>

Refresh ==
    \/ Tick
    \/ \E s \in Sources : ReadSource(s)
    \/ RunDetectors
    \/ Lock
    \/ Acquire
    \/ SwapGraph
    \/ SwapAlerts
    \/ Unlock

-----------------------------------------------------------------------------
(* The handlers. *)

Ask(c, fields) ==
    /\ handler[c] = "none"
    /\ handler' = [handler EXCEPT ![c] = "arrived"]
    /\ wants' = [wants EXCEPT ![c] = fields]
    /\ UNCHANGED <<file, refreshVars, serverVars, writer, readers, response>>

(* mu.RLock, which waits when the writer holds the lock or waits for it. *)
RLock(c) ==
    /\ handler[c] = "arrived"
    /\ IF writer = "free"
       THEN /\ readers' = readers \cup {c}
            /\ handler' = [handler EXCEPT ![c] = "reading"]
       ELSE /\ handler' = [handler EXCEPT ![c] = "blocked"]
            /\ UNCHANGED readers
    /\ UNCHANGED <<file, refreshVars, serverVars, writer, wants, response>>

Fetch(c, field, value) ==
    /\ wants' = [wants EXCEPT ![c] = @ \ {field}]
    /\ response' = [response EXCEPT ![c][field] = value]
    /\ UNCHANGED <<file, refreshVars, alerts, writer, readers, handler>>

ReadAlerts(c) ==
    /\ handler[c] = "reading" /\ "alerts" \in wants[c]
    /\ Fetch(c, "alerts", alerts)
    /\ UNCHANGED graph

(* Identities() sorts the events in place, under a lock others may share. *)
ReadGraph(c) ==
    /\ handler[c] = "reading" /\ "graph" \in wants[c] /\ "alerts" \notin wants[c]
    /\ Fetch(c, "graph", graph.of)
    /\ graph' = [graph EXCEPT !.sorted = TRUE]

(* The client has taken the whole response, or has gone away. *)
Drain(c) ==
    /\ handler[c] = "reading" /\ wants[c] = {}
    /\ handler' = [handler EXCEPT ![c] = "written"]
    /\ UNCHANGED <<file, refreshVars, serverVars, writer, readers, wants, response>>

RUnlock(c) ==
    /\ handler[c] = "written"
    /\ handler' = [handler EXCEPT ![c] = "none"]
    /\ readers' = readers \ {c}
    /\ response' = [response EXCEPT ![c] = Nothing]
    /\ UNCHANGED <<file, refreshVars, serverVars, writer, wants>>

Next ==
    \/ \E s \in Sources : Grow(s)
    \/ Refresh
    \/ RebuildFails
    \/ \E c \in Clients :
        \/ \E fields \in Endpoints : Ask(c, fields)
        \/ RLock(c)
        \/ ReadAlerts(c)
        \/ ReadGraph(c)
        \/ Drain(c)
        \/ RUnlock(c)

Spec == Init /\ [][Next]_vars

(* The Go scheduler runs every goroutine that can run; the ticker ticks. *)
ServerFairness ==
    /\ WF_vars(Refresh)
    /\ \A c \in Clients : WF_vars(RLock(c) \/ ReadAlerts(c) \/ ReadGraph(c) \/ RUnlock(c))

(* What the server cannot see to: every client reads what it asked for.     *)
ClientFairness == \A c \in Clients : WF_vars(Drain(c))

ServedSpec == Spec /\ ServerFairness
FairSpec == ServedSpec /\ ClientFairness

-----------------------------------------------------------------------------
(* Properties. *)

TypeOK ==
    /\ file \in Versions /\ failures \in 0..MaxFailures
    /\ graph \in [of : Versions, sorted : BOOLEAN]
    /\ alerts \in Versions
    /\ writer \in {"free", "pending", "held"}
    /\ readers \subseteq Clients
    /\ refresher \in {"waiting", "building", "replacing", "locking", "swapping", "swapped",
                      "unlocking"}
    /\ unread \subseteq Sources
    /\ built \in [of : Versions, sorted : BOOLEAN]
    /\ handler \in [Clients -> {"none", "arrived", "blocked", "reading", "written"}]
    /\ wants \in [Clients -> SUBSET Fields]
    /\ response \in [Clients -> [Fields -> Versions \cup {NoAnswer}]]

(* "A swap can never split a response across two graphs" (server.go:25-26): *)
(* what a handler has read so far and what it will still read come from one *)
(* rebuild.                                                                 *)
OneGraphPerResponse ==
    \A c \in readers :
        /\ graph.of = alerts
        /\ \A f \in Fields : response[c][f] \in {alerts, NoAnswer}

(* Identities() sorts in place and handlers share the lock, so two of them  *)
(* would write the same slices at once unless there is nothing left to      *)
(* sort by the time a graph is served.                                      *)
NoSharedSort == readers # {} => graph.sorted

(* A new detection reaches the dashboard: whatever a source file holds is   *)
(* sooner or later in the graph and the alerts served ("can keep re-reading *)
(* a growing event source", server.go:19-21), failed rebuilds or not.       *)
CatchesUp ==
    \A s \in Sources : \A n \in 1..MaxVersion :
        file[s] >= n ~> graph.of[s] >= n /\ alerts[s] >= n

(* Every request is answered, however often a swap gets in its way. *)
AnswersEventually == \A c \in Clients : handler[c] # "none" ~> handler[c] = "none"

(* The view v is all that the response to c shows, and it is complete. *)
Shows(c, v) ==
    /\ handler[c] \in {"reading", "written"} /\ wants[c] = {}
    /\ \A f \in Fields : response[c][f] \in {v, NoAnswer}

Shown(c) == IF \E v \in Versions : Shows(c, v) THEN CHOOSE v \in Versions : Shows(c, v)
            ELSE NoAnswer

View == INSTANCE LiveView
          WITH view <- alerts, asking <- {c \in Clients : handler[c] # "none"},
               answer <- [c \in Clients |-> Shown(c)]

(* The API behaves as if each request read everything in one step, and no   *)
(* rebuild, failed or not, makes it show anything older than it has shown.  *)
ImplementsLiveView == View!Spec

=============================================================================
