# idryx, specified

This directory specifies idryx in TLA+: the identity graph it builds, the two
stores that hold it, the connectors and the sensor that feed it, the detectors
that read it, the server that shows it, the sinks that tell somebody, and the
remediations that are stored, written and proposed. TLC
checks the specifications on small instances, and TLAPS proves the most important
results for every instance.

All paths are relative to the repository. `D/` stands for
`internal/detect/detectors/`.

1. The system: components, state, operations, hazards
2. The modules, and how they correspond to the code
3. The runs
4. Fairness
5. The proofs
6. Where code and text differ
7. What is not modelled
8. Plan

## 1. The system

idryx reads records about identities (people, service accounts, AI agents) from
many sources into one graph, runs detectors over the graph and reports findings.
There is one binary with subcommands (`cmd/idryx/main.go`):

```
 Okta, Entra, CloudTrail ...                               +--> text / JSON report
 agent manifests, MCP, IAM     --+                         +--> Slack, webhook, OTLP
 Passports                       |     +-------+           +--> agent-event journal
 agent-event bus (NDJSON)        +---> | graph | --detectors--> exit code
 egress log <-- eBPF sensor    --+     +-------+           +--> HTTP API + page (serve)
                                         |   ^             +--> remediations, BOM, AI usage
                                     load|   |Snapshot
                                       Postgres
```

Most subcommands are one pass over memory: build the graph, run the detectors,
print. What is hard is (a) the merge rules of the graph, which meet every order of
sources, (b) everything with more than one actor: the server and its refresher,
`load` beside `load` and `serve --db`, overlapping `detect` and `remediate` runs,
the kernel and the sensor, and (c) the rules detectors and connectors must keep with each other, which no
single file shows.

### The components

**In-memory graph store** (`internal/graph/store.go`, `internal/model/identity.go`).
State: identities by id, each with fields, grants and events; the dedupe set
`seenEvents`; the operator's privileged set. Operations: `AddEvent`, `AddIdentity`
(a merge: a non-empty value wins, observations accumulate), `MarkPrivileged`,
`Identities` (sorts events in place). Hard: replays, overlapping exports, and any
order of rich and poor reports. Right when no event counts twice, no grant is
listed twice, no evidence is lost, and operator marks hold in either order.

**Delegation walk** (`store.go: WalkDelegationChain, BlastRadius, EffectivePermissions`;
a copy in the page, `internal/server/dashboard.go`). Pure, over graphs with cycles,
missing links and empty entries. Right when it ends, the chain is linked and in the
documented order, the page computes the same one, and the two admin detectors
(`D/excessive_agency.go`, `D/nhi.go`) split its admin reach without gap or overlap.

**Postgres store and `idryx load`** (`internal/graph/pgstore.go`, `schema.sql`,
`runLoad`, `ingestPassportsPg`). State: tables. Operations: `Ingest`,
`IngestIdentities`, `Snapshot` (a row of queries with no transaction around them).
A load is three transactions of many statements, asks for no isolation level, and
may die between or inside them. Hard: two loads about one identity, row locks taken in
opposite orders, a snapshot that interleaves with a load, retries, equal timestamps,
and being the same as memory.

**Dashboard server and refresher** (`internal/server/server.go`, `runServe`). State:
graph and alerts under one `sync.RWMutex`; a refresher that rebuilds both from files
that grow; handlers that hold the read lock while they write to their client. Hard:
torn responses, the in-place sort under a shared lock, failed rebuilds, slow clients.

**Agent-event bus connector** (`internal/ingest/tokenfuse/tokenfuse.go`,
`internal/ingest/stream/stream.go`). Reads a glob of NDJSON files, one per writer,
checks each file's prev_hash chain, and refuses events whose claimed source the
file's name may not carry. State: what was seen in the file and the load, and a
report of all that was dropped. Right when a refused event leaves no trace but its
count, each subject is one identity, and "intact" is never said of an unchecked file.

**Alert sinks, journal, `idryx detect`** (`internal/sink`, `internal/events/events.go`,
`runDetect`). Posts to Slack, webhook and OTLP above a threshold, and appends every
alert whose subject it can name to a shared journal. Hard: a sink that refuses, hangs
or loses its answer; an append that fails; overlapping runs; kills. Right when the exit code
tells the truth, the journal or its counts account for every alert, and no subject
is fabricated.

**eBPF sensor** (`internal/ebpfcapture`, `bpf/connect.c`). A kernel program that
records every connect() in a ring buffer and counts what it skips, and a userspace
loop that filters, reads the process's environment for a claimed identity, converts
the kernel's clock and collects flows. Hard: a full ring, pids in two namespaces,
pids that are reused, two clocks, two racing stops.

**Detectors over events** (`D/mfa_fatigue.go`, `impossible_travel`, `new_device`,
`behavior_anomaly` with `internal/baseline`, `beaconing`, `shared_credential`,
`runaway_agent`, `data_exfiltration`, `tainted_agent`, `mcp_drift`). Pure, over one
identity's events. Hard: windows, ties, late arrival, thresholds, severity ladders.

**Detectors over claims and egress** (`D/claimed_agent_*.go`, `shadow_ai`,
`undeclared_llm`, `unmanaged_egress`, `unrouted_egress`). Pure, over the nodes several
sources wrote about one agent: its own, the one processes claim, and those of unnamed
processes. Each leaves cases to another; right when no case falls between them and
none is told twice.

**AI usage report** (`internal/aiusage`). Pure, over the same nodes and a scan of the
code: one row per provider and one per subject and provider. It works out anew what
`shadow_ai` and `undeclared_llm` work out; right when the two never disagree.

**Inventory connectors and detectors** (`internal/ingest/awsiam.go`, `awspolicy.go`,
`gcpiam.go`, `azure.go`, `agents.go`, `mcp.go`; `D/nhi.go`, `least_privilege`,
`privilege_escalation`, `shadow_mcp`, `agent_shadow_tool`, `attestation_missing`,
`bom_incomplete`). Pure, but what a detector sees is the merge of whatever connectors
spoke, in any order. Right when a poorer report takes no verdict back, no used grant is
called unused, and what a policy in force allows is reported by one of two detectors.

**Remediations** (`internal/remediation`, `internal/graph/remediations.go`,
`internal/enforce/pr.go`, `runRemediate`). One run generates a batch and saves it in the
database, writes it as files, or opens a pull request with it. State: the table, a
directory, a git repository that is also somebody's working tree. Hard: runs that overlap
or die half way, names that collide, rows nothing deletes, a commit of the whole index.

**The rest**: event connectors, Passport connector, Agent-BOM, text and JSON reports,
flag parsing. See section 7.

`PROJECT.json` lists every component with its status and each hazard at its line.

## 2. The modules

| module | models | state | actions, one per operation |
|---|---|---|---|
| `EvidenceLedger` | abstract: a graph is a set of facts that only grows by what a call was given | `ledger`, `marked` | `Report`, `Mark` |
| `IdentityModel` | the identity record and its grants | | |
| `IdentityGraph` | `graph.Store` | `identities`, `seenEvents`, `privileged` | `AddEvent`, `AddIdentity`, `MarkPrivileged` |
| `InventoryConnectors` | what six connectors hand to `AddIdentity` | | operators: `PrincipalToIdentity`, `WithUsage`, `RoleHolder`, `AgentIdentity`, `MCPIdentity` |
| `Positions` | a loop that skips some elements of a slice and takes the others (`Pick`) | | |
| `RightSizing` | `Generate`, `GenerateRotation` | | operators |
| `InventoryDetectors` | nine inventory detectors over an `IdentityGraph` that those connectors fill | that of `IdentityGraph` | those of `IdentityGraph`; each detector is an operator |
| `PgGraph` | `PgStore`, `schema.sql`, `runLoad`, beside an `IdentityGraph` fed the same batches | the tables, each process's load and open transaction, the snapshot being read | `StartLoad`, `WriteNext` (the statements of one element), `CommitIdentities`, `CommitEvents`, `CommitPassports`, `AbortLoad`, `BreakDeadlock`, and a `Read...` action per query of `Snapshot` |
| `LiveView` | abstract: a view replaced, and read, in single steps | `view`, `asking`, `answer` | `Publish`, `Ask`, `Choose`, `Answer` |
| `DashboardServer` | `server.Server` and the refresher | files, graph, alerts, the two sides of the lock, program counters | `Grow`, the steps of the rebuild and of the swap, `Ask`, `RLock`, `ReadAlerts`, `ReadGraph`, `Drain`, `RUnlock` |
| `BusIngest` | `LoadWith`, `parse`, the stream rule | the files, the scan position, what was parsed and loaded | `OpenFile`, `ReadFails`, `SkipMalformed`, `RefuseForeign`, `IngestLine`, `EndFile` |
| `AlertDelivery` | `runDetect`, the sinks, the journal | each run's position, the destinations, the journal | `Start`, the steps of a run, `StopAnswering`, `Kill` |
| `DelegationChain` | both walks, both blast radii, the two detectors | each walk's loop variables | one per branch of the loop |
| `EbpfSensor` | `connect.c`, `Run`, `runEBPFCapture` | processes, clocks, ring, counters, flows, log | `Connect` (the whole kernel program), `HandleRecord` (the whole loop body), the stops, the end of a capture |
| `EventDetectors` | ten detectors and the baseline | one identity's history and the time | `Record`, `Learn`, `Attest`, `Tick`; each detector is an operator |
| `ClaimDetectors` | seven detectors | the nodes of agents, claims and processes | one per kind of report; each detector is an operator |
| `AIUsage` | `gather`, `Build`, `buildSubjects` | that of `ClaimDetectors` | those of `ClaimDetectors`; each table is an operator |
| `Remediation` | `runRemediate`, `SaveRemediations`, `WriteArtifacts`, `OpenPR` | the runs, the table, the directory, the repository | `Start`, `Fail`, `BeginSave`, `UpsertRow`, `CommitSave`, `WriteFile`, `WriteManifest`, the git commands of `OpenPR`, and what the operator does: `Edit`, `Stage`, `CommitAll`, `BackToMain` |

`MC...` modules give the constants of a run their values. `...Proofs` modules hold
theorems. `AlertDeliveryProofs` has those of three components, since all three select from
sequences by `Positions` and share the lemmas about it; it extends `AlertDelivery`,
`BusIngest` and `EventDetectors` together, which is why the last two prefix the names of their
initial condition, next-state relation and type invariant (`Bus...`, `Feed...`).
Composition: `InventoryDetectors` puts connectors, graph, detectors and
recommendations together, and `Remediation` the recommendations with what is done about
them; `AIUsage` stands beside the detectors on one graph; `PgGraph` instances
`IdentityGraph` to say what the memory store would hold; `IdentityGraph` refines
`EvidenceLedger`; `DashboardServer` refines `LiveView`. `EventDetectors` and `ClaimDetectors` rest on `IdentityGraph` for the
histories they are given (events counted once, in order of time).

Conventions. A definition has the name of the function or field it models. A
definition called `X_something`, under a comment "Mutant", is `X` as a plausible bug
would have it; `PROJECT.json` pairs each property with one that breaks it. Variables
marked "history" record what a property needs and influence nothing.

### What is abstracted

* *Identity fields.* All fields under the rule "a non-empty value wins" are members of
  one set `Fields` in `IdentityGraph`; the tables are told apart in `PgGraph` only as
  column or child list.
* *Timestamps.* In `IdentityGraph` a parsed event carries the identity of its zone
  object, since `time.Time` is part of the dedupe key: records in `FreshZones` get
  a new one at each parse (an offset that is neither that of the local zone nor a whole
  number of hours: Go keeps one object for the local zone, for UTC and for each whole
  hour). Postgres cuts a time to microseconds, which `PgGraph` does not: its times are
  further apart than that.
* *A file* of `DashboardServer` is a version number, a graph the versions it read.
* *A bus line* is its kind, its agent, the source it claims, its principals, whether
  its type is known, and whether its prev_hash matches. Hashing itself belongs to an
  external module. A line that is no event and an event whose timestamp cannot be read
  (tokenfuse.go:421-425) are both `malformed`, which is how the code counts them; the
  chain is verified before either is looked at.
* *The outcome* of an event is one of three, as `shared_credential` counts an event that
  says none and the login detectors do not; DENY is taken by all as FAILURE is.
* *A ring record* that is reserved and then discarded, because the address could not be read,
  takes no room in `EbpfSensor`; in the kernel it does until the reader has passed it.
* *An alert* is whom it is about and its severity; a destination of the network
  is what the code's tables and address tests decide about it.
* *A name* of a policy, a role or a tool is a member of a set, and the tables and
  patterns the code matches names with are constants (`AdminNames`, `HighRisk`,
  `Escalating`, `RoleActions`, `ServicesOf`). A policy document is a set of statements.
* *A generated diff* is the set of grants it revokes, and a file is written whole.
* *A provider* as a Passport writes it is a member of a set; trimming white space is a
  table (`Normalized`), in which it is not the identity. None is empty
  (`DestinationsAssumption`): passport.go:59 drops such a declaration.
* *Time* is an integer, and distances are a table of integers that is a metric, as
  Haversine distances are.

## 3. The runs

Every module states its type invariant as `TypeOK` (`BusTypeOK`, `FeedTypeOK`). It is proved
for all but `PgGraph` (where the types its proofs need are `Db`); the runs spend their time on the properties below.
`GrantsListedOnce`, `OperatorMarksHold` and `OneGraphPerResponse` are proved and in no run.

Each run is a passing one unless it says otherwise. All finish within two minutes
or so with two workers. Deadlock checking is off where the program ends.

**identity_graph** (`IdentityGraph.cfg`, `MCIdentityGraph` over `InventoryDetectors`). An
IAM user, a service account, an agent and an MCP server, each in two to four exports that
see different things of one grant (a policy whose later version is the one in force, one
whose default is named and not marked, an inline policy, usage data present and absent, a
server first seen unsanctioned and then registered), three log records of which one
gets a new zone per parse, `MaxParses` = 2 such parses, and three privileged sets
(`Marks`) that arrive at any time. Every order of these is every order the command line
can name. Shows `EventsCountedOnce`, `EvidenceRetained`, `ImplementsLedger`,
`VerdictsMoveOneWay`, `RevokesNothingUsed` and `EscalationIsReported`.

**pg_graph** (`PgGraph.cfg`). Two processes (`Sessions`), `MaxStarts` = 2 starts of six
kinds of load, on a database that is empty or has seen another load (`Earlier`): a bus load
with a Passport, inventories that name two identities in opposite orders or one
identity twice, logs with tied times. Statements of the two interleave under row locks, either
may fail at any point and be started again, and one snapshot is read query by query among
them. Shows `BackendParity` (a quiet snapshot is what memory would hold,
where no description was replaced), `SnapshotCovers` (what was committed when the snapshot
began is in it), `CommitsSerialize` (a transaction takes effect as if alone),
`RetryConverges` and `LoadsEnd`. Two loads of two rows are the least that can lose an update
or wait for each other, and a failed load with its retry is two starts.

**pg_passports_wipe** (`PgGraph_passports.cfg`, *violation*). See section 6.

**dashboard** (`DashboardServer.cfg`). Two files, two clients, `MaxVersion` = 1 growth
each and `MaxFailures` = 1 failed rebuild. Shows `NoSharedSort`,
the refinement of `LiveView`, and under fairness `CatchesUp` and `AnswersEventually`.
Two files are what a torn rebuild needs, and two clients what a race of readers needs.

**dashboard_stalled_client** (`DashboardServer_stalled.cfg`, *violation*). The same
without the assumption that clients read. See section 6.

**bus_ingest** (`BusIngest.cfg`). Every content of up to two lines in each of two files,
drawn from seven kinds of line, under four declarations of the operator. Shows
`StreamRule`, `NothingDroppedUncounted` and `ChainVerdict`. `MaxNamed` = 1 stands for the
code's 64 names, so that the list fills up.

**alert_delivery** (`AlertDelivery.cfg`). Two overlapping runs, four settings (three
sinks with a trust domain, an unusable domain, a blank one, a header file that is
refused), batches with an identity of every namespace, each destination answering,
refusing, losing its answer or hanging, a kill at any point. Shows `ExitCodeTells`,
`JournalAccounts`, `EveryRunEnds`. `Fallible` limits which HTTP
destination stops answering for good to one; the journal has its own failures.

**delegation_chain** (`DelegationChain.cfg`). Every graph of two agents with up to two
principals each and a person, with self references, cycles, repeated, unknown and empty
entries, and graphs where an array names somebody the graph does not know besides a
principal whose array goes on. Shows `ChainIsLinked`, `PageMirrorsServer`, `WalksEnd` and, where of an array only
the root acts for somebody in turn, `ReachableAdminsAreReported`: against the least set closed
under acting on behalf of somebody, no admin is missed and the blast radius is exact. The walk
keeps only the chain and its last new entry, so three nodes already contain every way to
return to an earlier link.

**ebpf_sensor** (`EbpfSensor.cfg`). A sensor on the host or in a container whose numbers
in the two namespaces cross; a process that exits and leaves its pid to one that claims
another agent; `RingSize` = 1, `MaxConnects` = 2, `MaxExits` = 1, one step of the wall
clock, both stops. Shows `FlowsAreTheConnections`, `QuietCaptureIsComplete`,
`ClaimComesFromThatPid`, `IntervalsAreTheKernels`, `CaptureEnds`. Two connects
fill a ring of one and make one interval.

**event_detectors** (`EventDetectors.cfg`). Six histories, one per family of detector,
recorded in every order of arrival, so that every subset is judged. Thresholds are
scaled down (three challenges in a window of 4, a baseline of two logins); the
constants of beaconing are the code's (`Beaconing` has no property: a connection more
may make regular gaps irregular or the reverse, so its verdict is not monotone, and comparing it
with its own formula would say nothing). Shows `BurstIsFound`, `TravelIsFound` and
`NoHindsight`: no verdict on a login or a challenge changes for what comes later, more
evidence never ranks lower, and time alone never ranks higher.

**claim_detectors** (`ClaimDetectors.cfg`, `MCClaimDetectors` over `AIUsage`). Two agents
(interchangeable, so a symmetry set), a process without a name, a destination of each kind,
a provider with two hosts, Passports that declare the provider, write it with a
space, or declare one host as an endpoint, and every sequence of `MaxReports` = 4 reports:
enough for a Passport, a decision of the enforcement point, a flow and one more. Shows
`DirectEgressIsFound`, `SensorNeverSilences` and `ReportAgreesWithDetectors`.

**remediation** (`Remediation.cfg`). Two runs that both save, both write files or both
open a pull request, each on one of three graphs (so that a second batch is smaller, empty or
of other grants), and an operator who does up to `MaxMoves` = 3 things in the repository:
enough to stage, commit and come back between two commands of a run. Either run fails at
any step; the second may be the retry of the first. Three IDs become one file name, the third
through the suffix the second was given. Shows `ManifestIsTrue`,
`PRHoldsOnlyArtifacts`, `AgeTellsStale` and `SavesNeverDeadlock`. Runs of different modes
share no state.

## 4. Fairness

* `DashboardServer.ServerFairness`: weak fairness of the refresher's steps (a goroutine
  with a ticker, always runnable) and of each handler's own steps. Go's `RWMutex` blocks
  new readers once a writer waits and admits the readers that waited when the writer
  unlocks; the model has that queue (`blocked`), so weak fairness is enough and no fairness
  of the lock itself is assumed. A rebuild that fails has no fairness and is bounded in
  number: a file that can never be read again is not promised to be shown.
* `DashboardServer.ClientFairness`: a client reads what it is sent. Nothing in the code
  enforces this (there is no `WriteTimeout`); the violation run leaves it out.
* `AlertDelivery`: weak fairness of a run's steps. A post to a destination that does not
  answer ends because of the client's 10-second timeout, which is a step of the run.
* `EbpfSensor`: weak fairness of the command's goroutines. The processes of the host have
  none, so a capture must end on an idle host too.
* `PgGraph.Fairness`: a load in progress goes on to its next statement or its commit, unless a
  row is locked; and Postgres looks for deadlocks (`deadlock_timeout`) and fails one of the
  loads. A load that fails is not run again: nothing promises a retry, and `LoadsEnd` does not
  need one. The locks are given to no session in particular.
* `DelegationChain`: weak fairness of a walk, which is a loop.
* `IdentityGraph` with its detectors, `BusIngest`, `EventDetectors`, `ClaimDetectors` and
  `Remediation` state safety only.

## 5. The proofs

TLAPS checks eight modules. The assumptions are the named ASSUMEs of the modules
they extend, which say what kind of value each constant is, and in a few places what the
code gets from elsewhere or does to a name: one version of a policy is in force
(`VersionsAssumption`), a stored event differs from its record in nothing but the source
(`RowAssumption`), two suffixes of one ID are two file names (`SegmentAssumption`), IDs, and sources, have
one order (`OrderAssumption`), and there are finitely many runs (`RunsAssumption`). TLC evaluates them in
every run.

**`IdentityGraphProofs`**, for every set of identities, records, values and inventories:

* `TypeCorrect`: the store is well typed.
* `GrantsOnce`: merging leaves one grant per name. It follows from `MergeListsOnce`,
  since a merge builds the set of names and folds all reports of each into one.
* `MarksHold`: inductive with `TypeOK`; `Ensure` reads the set when it creates
  a node, and `MarkPrivileged` sweeps those that exist.
* `EventsOnce`: not inductive alone. `EventsInv` adds `HeldAreSeen`: each held event is
  in the dedupe set, and carries the interned zone unless its record is in `FreshZones`.
  Without it a lookup by the whole struct would say nothing of an equal natural key.
* `EvidenceKept`: every step retains what each node held, from lemmas about what each
  action does to the node under an id.
* `StoreImplementsLedger`: the refinement of `EvidenceLedger`. A node is the set of facts
  `NodeFacts` says it holds; a merge says what either side says (`MergeNodeFacts`), an event
  adds its own (`AppendFacts`), and a call puts its facts under one id and leaves the others
  (`ReportAddsItsFacts`). A refused duplicate is a stutter.

The second part is about the detectors over the inventory, for any policies and any tables
of names. It rests on `EvidenceKept` and `GrantsOnce`.

* `NothingUsedIsRevoked`: a used grant is still there and used after the step, under its
  name, and no other of that name is there that could be unused; both lists of unused
  grants are the same set (`AlertIsDiff`).
* `VerdictsOnlyRise`: every detector concerned is monotone in what `Retains` keeps
  (`NodeVerdicts`), and the tools of a shadow server stay (`ToolsStay`).
* `EscalationReported`: needs that one version of a policy is in force, which AWS
  guarantees and the code relies on.

**`PgGraphProofs`**, for any loads, sessions and tables. `Db` types the tables and the open
transactions.

* `TransactionsSerialize`: `Serial` says that each open transaction has run a prefix of its batch
  on the committed tables *as if alone* (`Ran`), and that a row written by one is locked by
  it. A statement needs the row's lock, so a commit of another session changes only rows
  this one has not written, and the prefix run anew on the new tables is what it has
  (`RanBeside`). At the commit the prefix is the batch.
* `RetriesConverge`: what a batch does to a row is a `Change` (columns set, flags joined, lists
  added) that does not depend on the row (`AfterIsAChange`); two in turn are one, and one
  twice is once (`ChangedAgain`), so a transaction whose rows and events are there already
  changes nothing, whatever else committed in between.
* `SnapshotsCover`: committed tables only grow (`Grown`, `TablesGrow`), so each later query of
  a snapshot finds at least what there was when it began, and each adds what it found
  (`Reading`, one lemma per query). The event query's ORDER BY is `InOrder`, a ranking, and
  `RanksAreOnto` and `InOrderIsSorted` show that it gives every event once and in order.
* `BackendsAgree`: after every commit the tables and the in-memory graph, fed the same batch,
  say the same of each identity (`Mirrored`): the same columns, the operator's flag where the
  row may still lack it, the grants of the one description there was, and events that stand in
  one order (`InStep`: memory's records are the table's rows about the identity, at growing
  positions). What a batch does is taken element by element on both sides (`MergedNode`,
  `SightedSame`). A snapshot that no load commits under copies its rows query by query
  (`Faithful`, a lemma per query), and sorting either side by time gives one sequence
  (`InStepSorts`). The hypothesis `OneRecordPerRow`, that no two records loaded differ in their
  source alone, is needed: the events table has no column for the source and keeps one row for
  both, where the graph keeps two events. The run's loads satisfy it.

**`DashboardServerProofs`**, for every number of files and clients:

* `InvHolds`: `LockInv` (who holds the lock at which phase, never a reader beside the
  writer), `ServeInv` (outside the swap, graph and alerts are of one rebuild, and
  sorted) and `ReadInv` (what a handler has read is of the rebuild now served, since no
  swap can happen while it holds the lock). Together they are inductive; none is alone.
* `OneGraph`, `SharedGraphIsSorted`: consequences.
* `ServerImplementsLiveView`: the refinement. The view is published by the second
  assignment of the swap, chosen for a request by its handler's first read and answered
  when the handler unlocks; by the invariant all that is read between is that view.

**`AlertDeliveryProofs`**. Of `AlertDelivery`, for any runs, batches, settings and destinations:

* `TypeCorrect`, which needs that a run at its journal has a domain that forms a subject.
* `ExitCodes`, `JournalsAccount`: the invariant `Own` is of one run, and a step of another
  leaves it alone, because what the shared journal holds of a run changes only by that run's
  appends (`OfRunGrows`, `Stands`). It says that a run before its sinks has told nobody
  anything, that a destination still to be tried has nothing and one that has been tried and
  has not failed has what it was due, and that the run's part of the journal is the alerts of
  its batch at positions `W`, which with the skipped and the failed make up those before
  `at`. Neither property is inductive: they speak of the exit, and the
  account is kept alert by alert.
* The lemmas on `Pick` say what the elements of a sequence at some positions are: a
  sequence of as many, in order, longer by one with a further position, and that picking
  again picks of the first. `Pick` is stated by counting positions, where a fold or
  `SelectSeq` would do as well for TLC, because that can be reasoned about.

Of `BusIngest`, for any number of files, any declarations, lines and list of 64 or other names:

* `BusTypeCorrect` and the next two come from one invariant, `BusInv`, of where the scan is:
  with the lines before it (`LinesBefore`, `LinesOfFile`) fixed as sets of positions in the bus,
  it says what was kept of them (`Kept`) and what was counted (`Counted`).
* `StreamRuleHolds`: the events so far are those of the carried lines so far, the n-th
  that of the n-th line, and each step adds a line behind all others (`NextLine`, `EventsGrow`). That
  every mentioned agent and human has an identity needs to know that whoever `parse` or
  `LoadWith` has marked as seen has one (`Known`), since the marks are why the others are
  skipped (`HumansAre`, `FreshIs`). `StreamRule` speaks only of a load that is done.
* `NothingIsDropped`: each count and tally is the cardinality of the lines it speaks of; one
  more line adds one to those it belongs to (`SkipAccounts`, `RefuseAccounts`,
  `IngestAccounts`), and a merge adds up those of files that have no line in common
  (`MergeAccounts`). A bounded list of names tells of its lines whether it is grown
  (`NamedTells`), sorted (`SortedTells`: the ranks of distinct sources reach every place,
  `RanksReach`) or cut off behind those of other files (`BoundedTells`).
* `IntactChainsAreChecked`: the report of an open file has the verdict on all its lines, taken
  before the first is parsed, and that of the load calls no chain intact that a file before
  has broken (`Verified`); a merge is intact only if both sides are (`MergedIntact`).

Of `EventDetectors`, for any feed:

* `HistoriesAreOrdered`: `FeedInv`. The events not later than a new one are a prefix of the
  history (`DownwardIsAPrefix`), so inserting behind them keeps it sorted (`RecordIs`).
* `TravelIsAlwaysFound`: a chain of legs each of which could be made adds up to one that could
  (`LegsAdd`, by the triangle inequality of the distances), so two logins too far apart have
  a leg between them that is too fast. A leg that takes no time stays in its place, by the
  condition of `TravelIsFound`.
* `BurstsAreFound`: the start the two pointers carry from one challenge to the next is, in a
  sorted history, the first position within the window. The recursive function `WindowStarts`
  is shown to be that closed form by exhibiting it as a solution of its equation
  (`WindowStartsAre`). From the last challenge of an instant the span is the largest (`Latest`),
  which is why ties do not hide a burst.
* `NothingIsTakenBack`: an event later than all others comes last (`RecordedLater`), and a
  prolonged list gives each detector on logins or challenges the same alerts and perhaps one more
  (`ProlongedStands`, `FatigueProlonged`). A counting detector's severity is a monotone
  function of counts and facts (`SeverityOfIs`), which a record or a fact only raises
  and a later time only lowers (`RecentGrows`, `RecentFades`).

**`DelegationChainProofs`**, for every graph:

* `TypeCorrect`, `ChainsAreLinked`: the invariant adds that the walk stands at a link of its
  chain and that its candidate to go on to is one: that is what links the next entries.
* `PagesMirrorServers`: the states of the server's walk form a path, each step a function of
  the state before (`ServerTakesAfter`). The page, which starts when that path is complete, is
  always at a place on it (`PageStaysOnThePath`); where it looks once more than the server,
  for a next link that is null, nothing is added.
* `AdminsAreReported`: where only roots go on, the links are everything reachable
  (`LinksAreTheReach`): every link but the one the walk is at, or goes to next, has its
  principals in the chain (`OthersAreClosed`), so the chain of a walk that has ended is
  closed, and it is in the least closed set by construction. A candidate the walk turns away
  from, for an entry nearer the root, has no principals, and every entry it has passed is
  a link (`PassedAreLinks`). `FoldTakesEach` and `RadiusHasEveryName` say what the two
  folds of grants keep.

**`ClaimDetectorsProofs`**, for every set of agents, processes, hosts and declarations:

* `TypeCorrect`: with the fact that only established nodes carry declarations.
* `DirectEgress`: each governed agent has one verdict, told apart by names that differ
  (`OneVerdict`); a destination ends with the detector that looks at it.
* `ReportAgrees`: rows and alerts are both characterised by what is declared of a node and what it
  reached (`EveryRow`, `EveryPair`, `WhatFlagsUndeclared`), and the two
  characterisations agree in well typed states.
* `SensorsOnlyRaise`: the action property. A flow only adds to the reach of one node that no
  source but the sensor describes (`FlowGrows`), each of the six detectors tells at least as
  much of a greater reach (`ClaimsRise`, `ReachRises`, `AboutRises`), and the highest of more
  severities is no lower (`HighestOf`).

**`EbpfSensorProofs`**, for any processes, any traffic and any ring:

* `TypeCorrect`, with `RingIsTheRest`: the ring is the end of what was submitted, so the rest
  of the submitted has been handled.
* `FlowsAreConnections`: the flows are the submitted records at the positions that are in
  scope, in order (`ConnectionsAreMatched`, extended record by record in `OneMoreFlow`). That
  the filter of `Run` leaves out the sensor and nothing else needs `SelfIsAlone`: no
  other process gets its pid while it runs.
* `ClaimsComeFromThatPid`: a record carries what the kernel knew of its process when it
  connected (`RecordsAreTrue`), and who connected stays in the history when the process exits.
* `IntervalsAreKept`: all flows are converted with one sampled offset (`FlowsAreTimed`).
* `QuietCapturesAreComplete`: while the counter of a full ring is zero, each connection that was
  wanted is in the ring or among the flows (`NothingWantedIsLost`).

**`RemediationProofs`**, for any runs, estates and file names:

* `TypeCorrect` is part of `Base`, which says where each run is and what it has done so far:
  the artifacts before the next recommendation are written, each in a file of its own. That
  a free name exists is the pigeonhole principle (`FreeNameIsFree`).
* `AgeAlwaysTellsStale`: a batch has one recommendation to a row (`OneToARow`), so all rows
  of a save are stamped with it.
* `SavesDoNotDeadlock`: a batch is in the order of the identities (`ABatchIsInOrder`, through
  `FlattenStepwise`), so saves lock upwards; in a ring of saves that wait for one another,
  the one whose next row is the highest waits for a row somebody has already passed.
* `ManifestAlwaysTrue`: a file under a manifest is still what that run wrote, or one a later
  run has written, which the property leaves out (`OutOK`).
* `PRsHoldOnlyArtifacts`: a run that nobody disturbs has the index of its branch and its own
  files (`RepoOK`), and a step of anybody else either disturbs it or leaves all of
  that alone (`NoHarm`).

### What is only model-checked

Every invariant, action property and refinement that a passing run checks is proved for all
values of the constants. What remains with TLC:

* Liveness: that walks, runs, captures and loads end, that the server catches up and answers.
  Liveness under fairness and ENABLED are outside what the prover handles.

Induction over numbers is used throughout, in the form `SetInduction`: a set with 0 that is
closed under successors has every number. The library's theorems with an operator
parameter, and what a RECURSIVE operator computes, are out of reach.

## 6. Where code and text differ

Two runs end in a counterexample that TLC finds, each of something the repository
says:

* *Passports take evidence away* (`pg_passports_wipe`). `IngestIdentities` replaces the
  grants, the delegation chain and the declared models of each identity it is given
  (pgstore.go:140, 175, 189), and the Passport transaction of `load` hands it agents
  without grants. What the first transaction wrote about them is gone, where
  main.go:1235 says `--passports` enriches. `BackendParity` is therefore stated for
  identities described once.
* *One client that does not read stops the dashboard* (`dashboard_stalled_client`).
  Handlers write under the read lock and the server has no write timeout, so the
  refresher waits for good, and behind it every later request (server.go:100,
  main.go:1221), where server.go:19-26 promises that a long-lived server keeps up.

Others were met while the modules were written. The properties are stated so as to
leave them out, and say so:

* A principal in the middle of an array is not walked any further (store.go:262), so an admin
  behind it is reported by nobody, where excessive_agency.go:10-15 speaks of acting
  transitively as an admin. `ReachableAdminsAreReported` is about the graphs without such a
  principal, among them those of arrays of one entry, as inventories write them. No
  property covers the others.
* A policy that allows `*` on some resources gives the action `*` and no admin
  (awspolicy_test.go:66), and `*` is in no list of dangerous actions, since
  privilege_escalation.go:119-124 takes it as flagged already. Neither detector reports it;
  `EscalationIsReported` says so.
* A grant whose name gives no hint of a service can never be marked used, yet is
  recommended for revocation as soon as another grant of the identity is. Credentials of gcp_iam
  and azure are never due for rotation: their connectors set no date of creation.
* A record whose timestamp has an offset that is neither the local zone's nor a whole number
  of hours counts again when it is replayed, since each parse makes a new `*time.Location` and the dedupe key
  compares it (store.go:43). `EventsCountedOnce` leaves `FreshZones` out.
* Postgres stores no event source (schema.sql), so the detectors that ask who said
  something see less over `--db`. `BackendParity` compares rows by what is stored.
* An oversized line ends a bus file without an error (tokenfuse.go:407): the lines after
  it are not read. The chain is reported as not intact. `StreamRule` is about
  the lines that were scanned.
* The delegation chain of an agent is taken from the first event of it in each file;
  principals that only later lines name do not join it (tokenfuse.go:349 says every entry
  does).
* The journal counts a claim before it appends it, so the count is high by the appends
  that failed (`JournalAccounts` has that bound). A trust domain of
  white space is not refused: main.go:894 compares with the empty string, and the journal
  then skips every alert, with a count. Two runs in one second share a run id.
* `impossible_travel` does not compare two logins of one instant (impossible_travel.go:37):
  there is no speed. `TravelIsFound` leaves out the histories with such a pair in different
  places.
* In the sensor, records still in the ring when the reader is closed are counted
  nowhere; nor are those that userspace filters out, which is by design but for a comment in
  decode.go that speaks of the caller counting. A failed read of the counters reports
  zeros, which capture_linux.go:246-253 says cannot be told from a clean run: no property
  covers it, and `QuietCaptureIsComplete` asks that they were read. A
  pid that has been taken again between connect and the read of its environment gives
  the later process's claim (`ClaimComesFromThatPid` allows exactly that). A failed Read discards
  the flows collected so far.
* A bus line about a claimed name creates that node (tokenfuse.go:477-482), which
  unrouted_egress.go:342-343 takes for something only the sensor produces. Where no sensor
  ran, a governed agent may then be told that no unrouted public egress was found.
* The usage report trims white space around a provider and the detector does not, contrary to
  subjects.go:195-197; a declaration of blank provider counts with its endpoint for the
  detector only. The provider table does not know of endpoints, so a host that
  a subject's row shows as declared may read as seen and not declared there.
  `ReportAgreesWithDetectors` makes both exceptions. A Passport without models or attestation
  whose node another source re-writes reads as no declaration.
* A save with no recommendations leaves the table as it is, and no save deletes: what is
  served with `--db` can be about grants that are gone, which only their age shows
  (`AgeTellsStale`). A save that began earlier and committed later sets the ages back.
  /api/identities generates anew and stamps what it finds with the stored age.
* The commit of a pull request is of the whole index, on whatever is checked out: what is staged
  after the preflight goes in, and a branch made off another than the base brings that
  one's commits (pr.go:119-121, 131; `PRHoldsOnlyArtifacts` is about runs during which nobody
  stages, commits or checks out, and compares with the commit they branched off; edits
  that are not staged and what dead runs left are within it). A failed push leaves the branch
  and its commit behind, contrary to pr.go:82-83, and an identical retry from it stops at
  "nothing to commit".
* A batch that dies half way in a directory of an earlier one leaves the earlier manifest
  over files of both (`ManifestIsTrue` speaks of files no other run has written since).

## 7. What is not modelled

* *Command line*: flag parsing, usage text, the owner rule of the header file. One-shot checks.
* *Text and JSON report*; *Agent-BOM* but for the chain and the blast radius; *the page's
  layout*: rendering.
* *Event connectors, Passport connector*: field mappings without state. What they
  hand the graph is the input of `IdentityGraph` and `PgGraph`.
* *The code scan of the usage report* (`codescan.go`): it matches text; its result is a
  constant of `AIUsage`. Labels, limits and sanitizing are text.
* *Hashing, JSON, Terraform, HTTP, git*: external, or text. A git command is
  modelled by what `OpenPR` relies on.
* *Mixed batches of `remediate`*: runs of different modes touch different things; a run that
  saves and also writes or opens does one after the other.
* *Records left in the ring when the reader is closed* (`capture_linux.go:190`): no counter tells of
  them and no text promises it, so no property covers that hazard.

The implementation is about thirteen thousand lines of Go; the C sources of the repository are one BPF
program and the kernel's generated type header, which is 166 925 lines of declarations. The
program is modelled whole (`EbpfSensor.Connect`); the header has no behaviour to model.

## 8. Plan

Done: `IdentityGraph` with its detectors, `PgGraph` with concurrent loads,
`DashboardServer`, `BusIngest`, `AlertDelivery`, `DelegationChain`, `EbpfSensor`,
`EventDetectors`, `ClaimDetectors` with `AIUsage`, `Remediation`, and the proofs of section 5.

The proofs now state every safety property of the runs. What could come next widens the
model: the readers of the file connectors that are modelled only by what they hand to the
store, the Passport connector's parsing, and the rest of the Agent-BOM (section 7).
