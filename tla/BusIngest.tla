------------------------------ MODULE BusIngest ------------------------------
(***************************************************************************)
(* The agent-event bus connector: LoadWith and parse of                    *)
(* internal/ingest/tokenfuse/tokenfuse.go under the stream rule of         *)
(* internal/ingest/stream/stream.go.                                       *)
(*                                                                         *)
(* The bus is a directory with one NDJSON file per writer.  A load reads   *)
(* the files that match a glob, in sorted order, each whole; it checks the *)
(* prev_hash chain of a file over every line of it, and then takes the     *)
(* lines one at a time: it skips what does not parse, refuses an event     *)
(* that claims a source its file may not carry, and turns the others into  *)
(* identities and events.  Blank lines, severities and timestamps are left *)
(* out, and a type is whether the registry knownTypes has it.              *)
(***************************************************************************)
EXTENDS Naturals, Sequences, FiniteSets, SequencesExt, FiniteSetsExt, Positions

CONSTANTS
    Stem,           \* the stem of each file of the glob, in sorted order
    Sources,        \* the values of an envelope's source field
    Order,          \* the place of each source in the order of strings
    Agents,         \* the agent_id values of established agents
    Claimed,        \* the agent_id values that are only claimed
    Humans,         \* the user:// principals
    Lines,          \* the lines a file may hold
    MaxLines,       \* bound: lines in a file
    Default,        \* the built-in policy: <<stem, source>> pairs
    Extras,         \* the declarations IDRYX_STREAMS may hold: sets of such pairs
    MaxNamed        \* maxForeignPairs, which is 64 in the code

Files == DOMAIN Stem
AgentIDs == Agents \cup Claimed

(* A line is an event, malformed, or longer than the scanner's buffer.  The *)
(* prev_hash of an event is absent, or is the hash of the line before it,  *)
(* or differs from it.                                                     *)
Line == [kind : {"event", "malformed", "oversized"}, agent : AgentIDs, source : Sources,
         principals : Seq(Humans \cup AgentIDs), read : BOOLEAN,
         prev : {"none", "match", "differs"}]

Identity ==
    [id : AgentIDs, type : {"agent", ""}, source : Sources, onBehalfOf : Seq(Humans \cup AgentIDs)]
    \cup [id : Humans, type : {"human"}, source : Sources, onBehalfOf : {<<>>}]

Event == [agent : AgentIDs, source : Sources, read : BOOLEAN]

ASSUME StemAssumption  == Stem \in Seq(STRING) /\ Stem # <<>>
ASSUME OrderAssumption ==
    Order \in [Sources -> Nat] /\ \A s, t \in Sources : Order[s] = Order[t] => s = t
ASSUME LinesAssumption == Lines \subseteq Line /\ MaxLines \in Nat /\ MaxNamed \in Nat \ {0}

VARIABLES
    bus,            \* the lines of each file
    policy,         \* stream.Policy: <<stem, source>> pairs
    status,         \* "running", "done" or "failed"
    file,           \* the file that is parsed, or the next one to open
    next,           \* the next line of that file, 0 before it is opened
    seen,           \* what parse has seen in the file: agents, humans
    parsed,         \* what parse has produced from the file
    loaded,         \* what LoadWith has gathered from the files before it
    seenInLoad      \* what LoadWith has seen in those: agents, humans

busVars == <<bus, policy, status, file, next, seen, parsed, loaded, seenInLoad>>

-----------------------------------------------------------------------------
(* stream.Policy. *)

Declared(pol, stem) == \E pair \in pol : pair[1] = stem

Check(pol, stem, source) ==
    IF Declared(pol, stem)
    THEN IF <<stem, source>> \in pol THEN "allowed" ELSE "foreign"
    ELSE IF stem = source THEN "undeclared" ELSE "foreign"

Extend(pol, extra) == pol \cup extra

-----------------------------------------------------------------------------
(* event.VerifyChain on the lines of one file, and Chain.merge. *)

NoChain == [verified |-> FALSE, chained |-> 0, heads |-> 0, unverifiable |-> 0, breaks |-> {}]

VerifyChain(lines, f) ==
    LET Events(Linked(_)) == {i \in DOMAIN lines : lines[i].kind = "event" /\ Linked(i)}
        Follows(i) == i > 1 /\ lines[i - 1].kind = "event"
    IN  IF \E i \in DOMAIN lines : lines[i].kind = "oversized" THEN NoChain
        ELSE [verified     |-> TRUE,
              chained      |-> Cardinality(Events(LAMBDA i : Follows(i) /\ lines[i].prev = "match")),
              heads        |-> Cardinality(Events(LAMBDA i : lines[i].prev = "none")),
              unverifiable |-> Cardinality(Events(LAMBDA i : ~Follows(i) /\ lines[i].prev # "none")),
              breaks       |-> {<<f, i>> : i \in
                                  Events(LAMBDA i : Follows(i) /\ lines[i].prev = "differs")}]

(* Mutant: a file that could not be checked does not show in the aggregate. *)
MergeChain_or(c, o) ==
    [verified |-> c.verified \/ o.verified, chained |-> c.chained + o.chained,
     heads |-> c.heads + o.heads, unverifiable |-> c.unverifiable + o.unverifiable,
     breaks |-> c.breaks \cup o.breaks]

MergeChain(c, o) ==
    [verified |-> c.verified /\ o.verified, chained |-> c.chained + o.chained,
     heads |-> c.heads + o.heads, unverifiable |-> c.unverifiable + o.unverifiable,
     breaks |-> c.breaks \cup o.breaks]

Intact(c) == c.verified /\ c.breaks = {}

-----------------------------------------------------------------------------
(* Reports.  foreign and unknown name the refused pairs and the files of an *)
(* undeclared stream, each with a count; the two counts beside them are not *)
(* bounded.                                                                *)

NewReport(chain) ==
    [lines |-> 0, malformed |-> 0, chain |-> chain,
     tally |-> [s \in Sources |-> [events |-> 0, read |-> 0]],
     foreignSource |-> 0, foreign |-> <<>>, unknownStream |-> 0, unknown |-> <<>>]

(* One more event for a pair: counted if it is named, else named if it fits. *)
Named(pairs, f, claimed) ==
    IF \E i \in DOMAIN pairs : pairs[i].claimed = claimed
    THEN [i \in DOMAIN pairs |-> IF pairs[i].claimed = claimed
                                 THEN [pairs[i] EXCEPT !.count = @ + 1] ELSE pairs[i]]
    ELSE IF Len(pairs) < MaxNamed
         THEN Append(pairs, [file |-> f, claimed |-> claimed, count |-> 1])
         ELSE pairs

(* sort.Slice over the pairs of one file, no two of which claim one source:  *)
(* the n-th has n pairs that are not above it.                              *)
Sorted(pairs) ==
    LET Rank(i) == Cardinality({j \in DOMAIN pairs :
                                  Order[pairs[j].claimed] <= Order[pairs[i].claimed]})
    IN  [n \in DOMAIN pairs |-> pairs[CHOOSE i \in DOMAIN pairs : Rank(i) = n]]

(* What still fits of a file's names behind those of the files before it. *)
Bounded(names, more) == names \o SubSeq(more, 1, Min({Len(more), MaxNamed - Len(names)}))

(* Report.merge. *)
Merge(rep, o) ==
    [lines |-> rep.lines + o.lines, malformed |-> rep.malformed + o.malformed,
     chain |-> MergeChain(rep.chain, o.chain),
     tally |-> [s \in Sources |-> [events |-> rep.tally[s].events + o.tally[s].events,
                                   read   |-> rep.tally[s].read + o.tally[s].read]],
     foreignSource |-> rep.foreignSource + o.foreignSource,
     foreign |-> Bounded(rep.foreign, o.foreign),
     unknownStream |-> rep.unknownStream + o.unknownStream,
     unknown |-> Bounded(rep.unknown, o.unknown)]

NobodySeen == [agents |-> {}, humans |-> {}]

Product(chain) == [identities |-> <<>>, events |-> <<>>, rep |-> NewReport(chain)]

-----------------------------------------------------------------------------
BusInit ==
    /\ bus \in [Files -> UNION {[1..n -> Lines] : n \in 0..MaxLines}]
    /\ \E extra \in Extras : policy = Extend(Default, extra)
    /\ status = "running"
    /\ file = 1
    /\ next = 0
    /\ seen = NobodySeen
    /\ parsed = Product(NoChain)
    /\ loaded = Product([NoChain EXCEPT !.verified = TRUE])
    /\ seenInLoad = NobodySeen

(* Mutant: the chain is checked on what the stream rule lets through. *)
OpenFile_filtered ==
    /\ status = "running" /\ next = 0
    /\ next' = 1
    /\ seen' = NobodySeen
    /\ parsed' = Product(VerifyChain(SelectSeq(bus[file],
                   LAMBDA l : Check(policy, Stem[file], l.source) # "foreign"), file))
    /\ UNCHANGED <<bus, policy, status, file, loaded, seenInLoad>>

(* The whole file is read, and its chain checked before any line is refused. *)
OpenFile ==
    /\ status = "running" /\ next = 0
    /\ next' = 1
    /\ seen' = NobodySeen
    /\ parsed' = Product(VerifyChain(bus[file], file))
    /\ UNCHANGED <<bus, policy, status, file, loaded, seenInLoad>>

(* The file cannot be read: LoadWith returns the error and nothing else. *)
ReadFails ==
    /\ status = "running" /\ next = 0
    /\ status' = "failed"
    /\ loaded' = Product(NoChain)
    /\ UNCHANGED <<bus, policy, file, next, seen, parsed, seenInLoad>>

(* The scanner has another line, of this kind. *)
Scans(kind) ==
    /\ status = "running" /\ next \in DOMAIN bus[file]
    /\ bus[file][next].kind = kind

SkipMalformed ==
    /\ Scans("malformed")
    /\ next' = next + 1
    /\ parsed' = [parsed EXCEPT !.rep.lines = @ + 1, !.rep.malformed = @ + 1]
    /\ UNCHANGED <<bus, policy, status, file, seen, loaded, seenInLoad>>

(* Mutant: the subject of a refused event counts as seen. *)
RefuseForeign_seen ==
    LET l == bus[file][next]
    IN  /\ Scans("event") /\ Check(policy, Stem[file], l.source) = "foreign"
        /\ next' = next + 1
        /\ seen' = [seen EXCEPT !.agents = @ \cup {l.agent}]
        /\ parsed' = [parsed EXCEPT !.rep.lines = @ + 1, !.rep.foreignSource = @ + 1,
                                    !.rep.foreign = Named(@, file, l.source)]
        /\ UNCHANGED <<bus, policy, status, file, loaded, seenInLoad>>

(* Mutant: an event is counted as refused only while its pair is named. *)
RefuseForeign_named ==
    LET l == bus[file][next]
    IN  /\ Scans("event") /\ Check(policy, Stem[file], l.source) = "foreign"
        /\ next' = next + 1
        /\ parsed' = [parsed EXCEPT !.rep.lines = @ + 1,
                        !.rep.foreignSource = IF Len(parsed.rep.foreign) < MaxNamed
                                              THEN @ + 1 ELSE @,
                        !.rep.foreign = Named(@, file, l.source)]
        /\ UNCHANGED <<bus, policy, status, file, seen, loaded, seenInLoad>>

RefuseForeign ==
    LET l == bus[file][next]
    IN  /\ Scans("event") /\ Check(policy, Stem[file], l.source) = "foreign"
        /\ next' = next + 1
        /\ parsed' = [parsed EXCEPT !.rep.lines = @ + 1, !.rep.foreignSource = @ + 1,
                                    !.rep.foreign = Named(@, file, l.source)]
        /\ UNCHANGED <<bus, policy, status, file, seen, loaded, seenInLoad>>

(* The identities a line yields: its subject and then the humans it names, *)
(* each the first time the file mentions it.                               *)
SubjectOf(l) ==
    IF l.agent \in seen.agents THEN <<>>
    ELSE <<[id |-> l.agent, type |-> IF l.agent \in Claimed THEN "" ELSE "agent",
            source |-> l.source, onBehalfOf |-> l.principals]>>

NewHumans(l) ==
    LET named == l.principals
    IN  Pick(named, {i \in DOMAIN named : /\ named[i] \in Humans \ seen.humans
                                          /\ \A j \in 1..(i - 1) : named[j] # named[i]})

HumansOf(l) ==
    [i \in DOMAIN NewHumans(l) |->
        [id |-> NewHumans(l)[i], type |-> "human", source |-> l.source, onBehalfOf |-> <<>>]]

IngestLine ==
    LET l == bus[file][next]
        verdict == Check(policy, Stem[file], l.source)
    IN  /\ Scans("event") /\ verdict # "foreign"
        /\ next' = next + 1
        /\ seen' = [agents |-> seen.agents \cup {l.agent},
                    humans |-> seen.humans \cup ToSet(NewHumans(l))]
        /\ parsed' = [parsed EXCEPT
             !.identities = @ \o SubjectOf(l) \o HumansOf(l),
             !.events = Append(@, [agent |-> l.agent, source |-> l.source, read |-> l.read]),
             !.rep.lines = @ + 1,
             !.rep.tally[l.source] = [events |-> @.events + 1,
                                      read   |-> IF l.read THEN @.read + 1 ELSE @.read],
             !.rep.unknownStream = IF verdict = "undeclared" THEN @ + 1 ELSE @,
             !.rep.unknown = IF verdict = "undeclared" THEN Named(@, file, l.source) ELSE @]
        /\ UNCHANGED <<bus, policy, status, file, loaded, seenInLoad>>

(* The identities of the file that LoadWith has not had yet. *)
Fresh(ids) ==
    Pick(ids, {k \in DOMAIN ids : /\ ids[k].type = "agent" => ids[k].id \notin seenInLoad.agents
                                  /\ ids[k].type = "human" => ids[k].id \notin seenInLoad.humans})

(* The lines have run out, or the next one does not fit the buffer, which   *)
(* ends the scan: what comes after it is not read either.                  *)
EndFile ==
    /\ status = "running" /\ next > 0
    /\ next > Len(bus[file]) \/ Scans("oversized")
    /\ LET fresh == Fresh(parsed.identities)
           Ids(type) == {i.id : i \in {j \in ToSet(fresh) : j.type = type}}
       IN  /\ loaded' = [identities |-> loaded.identities \o fresh,
                         events     |-> loaded.events \o parsed.events,
                         rep        |-> Merge(loaded.rep,
                                          [parsed.rep EXCEPT !.foreign = Sorted(@)])]
           /\ seenInLoad' = [agents |-> seenInLoad.agents \cup Ids("agent"),
                             humans |-> seenInLoad.humans \cup Ids("human")]
    /\ parsed' = Product(NoChain)
    /\ next' = 0
    /\ IF file = Len(Stem) THEN status' = "done" /\ UNCHANGED file
       ELSE file' = file + 1 /\ UNCHANGED status
    /\ UNCHANGED <<bus, policy, seen>>

BusNext ==
    \/ OpenFile
    \/ ReadFails
    \/ SkipMalformed
    \/ RefuseForeign
    \/ IngestLine
    \/ EndFile

BusSpec == BusInit /\ [][BusNext]_busVars

-----------------------------------------------------------------------------
(* Properties. *)

ReportType ==
    [lines : Nat, malformed : Nat,
     chain : [verified : BOOLEAN, chained : Nat, heads : Nat, unverifiable : Nat,
              breaks : SUBSET (Files \X (1..MaxLines))],
     tally : [Sources -> [events : Nat, read : Nat]],
     foreignSource : Nat, foreign : Seq([file : Files, claimed : Sources, count : Nat]),
     unknownStream : Nat, unknown : Seq([file : Files, claimed : Sources, count : Nat])]

ProductType == [identities : Seq(Identity), events : Seq(Event), rep : ReportType]

SeenType == [agents : SUBSET AgentIDs, humans : SUBSET Humans]

BusTypeOK ==
    /\ status \in {"running", "done", "failed"}
    /\ file \in Files /\ next \in 0..(MaxLines + 1)
    /\ seen \in SeenType /\ seenInLoad \in SeenType
    /\ parsed \in ProductType /\ loaded \in ProductType

(* The lines the scanner gets to, each by its file and its place in it. *)
ScannedLines ==
    {p \in Files \X (1..MaxLines) :
       p[2] \in DOMAIN bus[p[1]] /\ \A j \in 1..p[2] : bus[p[1]][j].kind # "oversized"}

LineAt(p) == bus[p[1]][p[2]]
VerdictOn(p) == Check(policy, Stem[p[1]], LineAt(p).source)

RefusedLines == {p \in ScannedLines : LineAt(p).kind = "event" /\ VerdictOn(p) = "foreign"}
CarriedLines == {p \in ScannedLines : LineAt(p).kind = "event" /\ VerdictOn(p) # "foreign"}
UndeclaredLines == {p \in CarriedLines : VerdictOn(p) = "undeclared"}

NotAfter(p, q) == p[1] < q[1] \/ (p[1] = q[1] /\ p[2] <= q[2])

(* The events are those of these lines, file by file and in order.          *)
EventsOf(evs, lines) ==
    /\ Len(evs) = Cardinality(lines)
    /\ \A p \in lines :
         evs[Cardinality({q \in lines : NotAfter(q, p)})] =
             [agent |-> LineAt(p).agent, source |-> LineAt(p).source, read |-> LineAt(p).read]

(* The stream rule (stream.go:14-35): a load holds exactly the events that  *)
(* sit in a file that may carry the source they claim, in file order.  A    *)
(* refused event leaves no trace: every identity is the subject, or a human *)
(* principal, of an event that was let through, under the source that event *)
(* claims; and it takes nobody with it, since each of those has an identity. *)
StreamRule ==
    status = "done" =>
      /\ EventsOf(loaded.events, CarriedLines)
      /\ {<<i.id, i.source>> : i \in ToSet(loaded.identities)}
           \subseteq UNION {{<<x, LineAt(p).source>> :
                               x \in {LineAt(p).agent} \cup ToSet(LineAt(p).principals)} :
                              p \in CarriedLines}
      /\ {i.id : i \in ToSet(loaded.identities)} =
           UNION {{LineAt(p).agent} \cup (ToSet(LineAt(p).principals) \cap Humans) :
                    p \in CarriedLines}

(* A list of names tells of these lines: no pair twice, each with as many   *)
(* lines as are its own, and none left out unless the list is full.         *)
NamesAre(names, lines) ==
    /\ Len(names) <= MaxNamed
    /\ \A i, j \in DOMAIN names :
          names[i].file = names[j].file /\ names[i].claimed = names[j].claimed => i = j
    /\ \A i \in DOMAIN names :
          LET own == {p \in lines : p[1] = names[i].file /\ LineAt(p).source = names[i].claimed}
          IN  own # {} /\ names[i].count = Cardinality(own)
    /\ Len(names) < MaxNamed =>
          \A p \in lines : \E i \in DOMAIN names :
              names[i].file = p[1] /\ names[i].claimed = LineAt(p).source

(* What a report says of the lines it is about. *)
Accounts(p, lines) ==
    /\ p.rep.lines = Cardinality(lines)
    /\ p.rep.lines = p.rep.malformed + p.rep.foreignSource + Len(p.events)
    /\ p.rep.foreignSource = Cardinality(lines \cap RefusedLines)
    /\ p.rep.unknownStream = Cardinality(lines \cap UndeclaredLines)
    /\ \A s \in Sources :
         LET own == {q \in lines \cap CarriedLines : LineAt(q).source = s}
         IN  /\ p.rep.tally[s].events = Cardinality(own)
             /\ p.rep.tally[s].read = Cardinality({q \in own : LineAt(q).read})
    /\ NamesAre(p.rep.foreign, lines \cap RefusedLines)
    /\ NamesAre(p.rep.unknown, lines \cap UndeclaredLines)

LinesOfFile == {p \in ScannedLines : p[1] = file /\ p[2] < next}
LinesBefore == {p \in ScannedLines : status = "done" \/ (status = "running" /\ p[1] < file)}

(* Report: no record is dropped without a count of what was dropped         *)
(* (tokenfuse.go:88-94), of a file while it is parsed and of the load so     *)
(* far.  Every line read is malformed, refused or an event; each count is of *)
(* the lines it speaks of; and what does not fit a bounded list of names is  *)
(* in the count beside it.                                                  *)
NothingDroppedUncounted ==
    Accounts(parsed, LinesOfFile) /\ Accounts(loaded, LinesBefore)

(* Chain: the verdict covers every line of every file as written, the lines *)
(* the stream rule refuses included.  A load that calls its chain intact    *)
(* has read no file with a line whose prev_hash differs from the line       *)
(* before it, and none it could not check to the end.                      *)
ChainVerdict ==
    status = "done" /\ Intact(loaded.rep.chain) =>
        \A f \in Files : \A i \in DOMAIN bus[f] :
            /\ bus[f][i].kind # "oversized"
            /\ i > 1 /\ bus[f][i].kind = "event" /\ bus[f][i - 1].kind = "event" =>
                 bus[f][i].prev # "differs"

=============================================================================
