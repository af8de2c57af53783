------------------------------- MODULE PgGraph -------------------------------
(***************************************************************************)
(* The Postgres backend: graph.PgStore of internal/graph/pgstore.go and    *)
(* schema.sql, the `idryx load` command that writes it and a Snapshot that *)
(* reads it, beside an in-memory graph fed the same batches.               *)
(*                                                                         *)
(* A load writes in three transactions (identities, events, passports),    *)
(* statement by statement, and may die between any two of them, or inside  *)
(* one, which then rolls back.  Loads run side by side, and nothing in the *)
(* code keeps them apart but the row locks their statements take.          *)
(* A snapshot is a row of queries under READ COMMITTED with no transaction *)
(* around them, so a load may commit between any two of them.              *)
(*                                                                         *)
(* The child tables (on_behalf_of, declared_models, permissions with       *)
(* permission_actions) hang off their identities row by foreign key and    *)
(* are kept inside it; the queries still read them one table at a time.    *)
(* Lists are the fields that have such a table, and not a column.  A grant *)
(* row's order in its slice is left out, as in IdentityGraph; the order of *)
(* one batch's reports of a grant is not, since the last one wins.  The    *)
(* events table has no source column, so a record may come back as another *)
(* one (Row).  Timestamps have whole-hour zones here.                      *)
(***************************************************************************)
EXTENDS Naturals, Sequences, FiniteSets, SequencesExt

CONSTANTS
    IDs, Names, Actions, Fields, Values, NoValue, Records, Subject,     \* as in IdentityGraph
    Lists,          \* the fields kept in a child table: OnBehalfOf, DeclaredModels
    TimeOf,         \* the instant of each record
    Row,            \* each record as the columns of the events table hold it
    Operator,       \* the --privileged set, the same for every command
    Loads,          \* the load commands that may be run
    NoLoad,         \* no load is in progress
    Earlier,        \* the loads one of which has already run, alone, at the start
    Sessions,       \* the processes that may run a load at one time
    MaxStarts       \* bound: how many times a load is started

Permission == [name : Names, admin : BOOLEAN, used : BOOLEAN, actions : SUBSET Actions]

(* An entry of an inventory or Passport batch, its grants in file order. *)
Entry == [id : IDs, fields : [Fields -> Values \cup {NoValue}], lastUsed : Nat,
          privileged : BOOLEAN, shadow : BOOLEAN, permissions : Seq(Permission)]

(* One run of `idryx load`: a bus source fills identities and events, an   *)
(* inventory only identities, a log only events.                           *)
Load == [identities : Seq(Entry), events : Seq(Records), passports : Seq(Entry)]

ASSUME SubjectAssumption  == Subject \in [Records -> IDs]
ASSUME NoValueAssumption  == NoValue \notin Values
ASSUME ListsAssumption    == Lists \subseteq Fields
ASSUME TimeOfAssumption   == TimeOf \in [Records -> Nat]
ASSUME OperatorAssumption == Operator \subseteq IDs
ASSUME LoadsAssumption    == Loads \cup Earlier \subseteq Load /\ NoLoad \notin Loads
ASSUME StartsAssumption   == MaxStarts \in Nat

(* The events table has no source column, so a record is stored as another *)
(* record that is equal in everything else.                                *)
ASSUME RowAssumption ==
    /\ Row \in [Records -> Records]
    /\ \A r \in Records : /\ Row[Row[r]] = Row[r]
                          /\ Subject[Row[r]] = Subject[r]
                          /\ TimeOf[Row[r]] = TimeOf[r]

Delivered == 6      \* the snapshot's queries have all run

VARIABLES
    rows,           \* committed identities rows with their child rows, by id
    events,         \* committed events rows, in the order of their BIGSERIAL id
    load,           \* the load each session has in progress, or NoLoad
    stage,          \* how many of its transactions have committed
    txn,            \* its open transaction: [pos, rows, events], see Opened
    starts,         \* how many loads have been started
    memory,         \* the in-memory graph fed the same batches: its identities
    seen,           \* and its dedupe set
    query,          \* how many of Snapshot's queries have run
    flags,          \* the privileged set its store was created with
    snap,           \* the identities of that store
    actionsByPerm,  \* its table of actions by identity and grant
    attempt,        \* history: [load, rows, events] when attempts at load began, with
                    \* no other load in progress since
    reports,        \* history: the descriptions ingested so far of each identity
    began,          \* history: [rows, events] when the snapshot began
    quiet           \* history: no load has committed since

loadVars == <<rows, events, load, stage, txn, starts, memory, seen, attempt, reports>>
snapVars == <<query, flags, snap, actionsByPerm, began>>
vars == <<loadVars, snapVars, quiet>>

(* The in-memory store, which takes every batch as one call per element. *)
Mem == INSTANCE IdentityGraph
         WITH FreshZones <- {}, MaxParses <- 0, Inventory <- {}, Marks <- {}, parses <- 0,
              privileged <- Operator, identities <- memory, seenEvents <- seen

-----------------------------------------------------------------------------
(* Writing: Ingest and IngestIdentities. *)

NewRow(priv) ==
    [fields |-> [f \in Fields |-> NoValue], lastUsed |-> 0, privileged |-> priv,
     shadow |-> FALSE, permissions |-> {}]

RowOf(table, id) == IF id \in DOMAIN table THEN table[id] ELSE NewRow(FALSE)

Put(table, id, row) == [i \in DOMAIN table \cup {id} |-> IF i = id THEN row ELSE table[i]]

(* ON CONFLICT (identity_id, name) DO UPDATE: of several reports of a name  *)
(* in one batch the last one stays, actions included.                      *)
LastOfEach(grants) ==
    {grants[i] : i \in {k \in DOMAIN grants :
                          \A j \in DOMAIN grants : j > k => grants[j].name # grants[k].name}}

(* Mutant: an empty incoming column overwrites the one on record. *)
MergeColumns_clear(old, new) == [f \in Fields |-> new[f]]

(* The columns keep a non-empty value; the lists are deleted and rewritten. *)
MergeColumns(old, new) ==
    [f \in Fields |-> IF f \in Lists \/ new[f] # NoValue THEN new[f] ELSE old[f]]

(* Both passes of IngestIdentities for one entry of the batch. *)
UpsertIdentity(table, in) ==
    LET old == RowOf(table, in.id)
    IN  Put(table, in.id,
            [fields      |-> MergeColumns(old.fields, in.fields),
             lastUsed    |-> IF in.lastUsed > old.lastUsed THEN in.lastUsed ELSE old.lastUsed,
             privileged  |-> old.privileged \/ in.privileged,
             shadow      |-> old.shadow \/ in.shadow,
             permissions |-> LastOfEach(in.permissions)])

IngestIdentities(table, batch) == FoldLeft(UpsertIdentity, table, batch)

(* Ingest, the identity a record is about: its row, and its flag. *)
UpsertSubject(table, r) ==
    LET id == Subject[r]
    IN  Put(table, id, [RowOf(table, id) EXCEPT !.privileged = @ \/ id \in Operator])

UpsertSubjects(table, batch) == FoldLeft(UpsertSubject, table, batch)

(* Mutant: a plain INSERT, without the natural key. *)
InsertEvent_plain(stored, r) == Append(stored, Row[r])

(* Ingest, the record: ON CONFLICT DO NOTHING on the natural key. *)
InsertEvent(stored, r) ==
    IF Contains(stored, Row[r]) THEN stored ELSE Append(stored, Row[r])

InsertEvents(stored, batch) == FoldLeft(InsertEvent, stored, batch)

(* runLoad flags the entries the operator named; ingestPassportsPg does not. *)
Flagged(batch) ==
    [i \in DOMAIN batch |-> [batch[i] EXCEPT !.privileged = @ \/ batch[i].id \in Operator]]

-----------------------------------------------------------------------------
(* The in-memory store fed the same batches. *)

Unordered(in) == [in EXCEPT !.permissions = ToSet(@)]

MemIdentities(ids, batch) ==
    FoldLeft(LAMBDA g, in : Mem!WithIdentity(g, Operator, Unordered(in)), ids, batch)

MemEvents(g, batch) ==
    FoldLeft(LAMBDA h, r :
               LET e == Mem!Parsed(r, 0)
               IN  IF e \in h.seen THEN h
                   ELSE [ids  |-> Mem!WithEvent(h.ids, Operator, Subject[r], e),
                         seen |-> h.seen \cup {e}],
             g, batch)

Reported(told, batch) ==
    [id \in IDs |-> told[id] \cup {Unordered(in) : in \in {x \in ToSet(batch) : x.id = id}}]

NoRows == [i \in {} |-> NewRow(FALSE)]
NoAttempt == [load |-> NoLoad, rows |-> NoRows, events |-> <<>>]
NoActions == [i \in IDs |-> [n \in Names |-> {}]]

(* A transaction that has run no statement.  pos counts the elements of its *)
(* batch it has written; rows are its own versions of the identities rows   *)
(* it has written, which it has locked until it ends; events are the        *)
(* records it has added.                                                    *)
Opened == [pos |-> 0, rows |-> NoRows, events |-> <<>>]

-----------------------------------------------------------------------------
(* What the database holds after load l runs on it with no failure. *)
CleanRows(table, l) ==
    IngestIdentities(UpsertSubjects(IngestIdentities(table, Flagged(l.identities)), l.events),
                     l.passports)

(* The database after an earlier load, which may have been an empty one.     *)
InitAfter(l) ==
    /\ rows = CleanRows(NoRows, l)
    /\ events = InsertEvents(<<>>, l.events)
    /\ LET first == MemIdentities([i \in {} |-> Mem!NewNode(FALSE)], l.identities)
           then  == MemEvents([ids |-> first, seen |-> {}], l.events)
       IN  /\ memory = MemIdentities(then.ids, l.passports)
           /\ seen = then.seen
    /\ reports = Reported(Reported([id \in IDs |-> {}], l.identities), l.passports)

Init ==
    /\ \E l \in Earlier : InitAfter(l)
    /\ load = [s \in Sessions |-> NoLoad]
    /\ stage = [s \in Sessions |-> 0]
    /\ txn = [s \in Sessions |-> Opened]
    /\ starts = 0
    /\ query = 0
    /\ flags = {}
    /\ snap = [i \in {} |-> Mem!NewNode(FALSE)]
    /\ actionsByPerm = NoActions
    /\ attempt = NoAttempt
    /\ began = [rows |-> rows, events |-> events]
    /\ quiet = TRUE

-----------------------------------------------------------------------------
(* idryx load. *)

(* The command opens the store and reads its file.  Running the load that   *)
(* has just failed again is a further attempt at it.                       *)
StartLoad(s, l) ==
    /\ load[s] = NoLoad /\ starts < MaxStarts
    /\ load' = [load EXCEPT ![s] = l]
    /\ stage' = [stage EXCEPT ![s] = 0]
    /\ starts' = starts + 1
    /\ attempt' = IF \E t \in Sessions : load[t] # NoLoad THEN NoAttempt
                  ELSE IF attempt.load = l THEN attempt
                  ELSE [load |-> l, rows |-> rows, events |-> events]
    /\ UNCHANGED <<rows, events, txn, memory, seen, reports, snapVars, quiet>>

(* The batch of the transaction session s has open, and the identity each   *)
(* of its elements writes.                                                  *)
Batch(s) ==
    CASE stage[s] = 0 -> Flagged(load[s].identities)
      [] stage[s] = 1 -> load[s].events
      [] stage[s] = 2 -> load[s].passports

Target(s) ==
    LET x == Batch(s)[txn[s].pos + 1]
    IN  IF stage[s] = 1 THEN Subject[x] ELSE x.id

Unwritten(s) == load[s] # NoLoad /\ txn[s].pos < Len(Batch(s))

(* A statement of session s needs a row that t has written and not let go.  *)
WaitsFor(s, t) == t # s /\ Unwritten(s) /\ Target(s) \in DOMAIN txn[t].rows

(* What a transaction's statements see and leave: the committed tables with *)
(* its own writes over them.                                                *)
Overlay(table, own) == [i \in DOMAIN table \cup DOMAIN own |->
                          IF i \in DOMAIN own THEN own[i] ELSE table[i]]

(* The statements for the next element of the batch. *)
Written(s) ==
    LET x     == Batch(s)[txn[s].pos + 1]
        table == Overlay(rows, txn[s].rows)
        after == IF stage[s] = 1 THEN UpsertSubject(table, x) ELSE UpsertIdentity(table, x)
        known == events \o txn[s].events
        all   == IF stage[s] = 1 THEN InsertEvent(known, x) ELSE known
    IN  [pos    |-> txn[s].pos + 1,
         rows   |-> Put(txn[s].rows, Target(s), after[Target(s)]),
         events |-> SubSeq(all, Len(events) + 1, Len(all))]

(* Mutant: a statement does not wait for the row's lock. *)
WriteNext_unlocked(s) ==
    /\ Unwritten(s)
    /\ txn' = [txn EXCEPT ![s] = Written(s)]
    /\ UNCHANGED <<rows, events, load, stage, starts, memory, seen, attempt, reports,
                   snapVars, quiet>>

(* Every statement about an identity comes after the upsert of its row,     *)
(* which waits for a transaction that wrote the row and then reads what it  *)
(* committed.                                                              *)
WriteNext(s) ==
    /\ Unwritten(s)
    /\ \A t \in Sessions : ~WaitsFor(s, t)
    /\ txn' = [txn EXCEPT ![s] = Written(s)]
    /\ UNCHANGED <<rows, events, load, stage, starts, memory, seen, attempt, reports,
                   snapVars, quiet>>

(* tx.Commit of a transaction whose batch has been written. *)
Commit(s, n) ==
    /\ load[s] # NoLoad /\ stage[s] = n /\ ~Unwritten(s)
    /\ rows' = Overlay(rows, txn[s].rows)
    /\ events' = events \o txn[s].events
    /\ txn' = [txn EXCEPT ![s] = Opened]
    /\ quiet' = FALSE
    /\ UNCHANGED <<starts, snapVars>>

CommitIdentities(s) ==
    /\ Commit(s, 0)
    /\ stage' = [stage EXCEPT ![s] = 1]
    /\ memory' = MemIdentities(memory, load[s].identities)
    /\ reports' = Reported(reports, load[s].identities)
    /\ UNCHANGED <<load, seen, attempt>>

CommitEvents(s) ==
    /\ Commit(s, 1)
    /\ stage' = [stage EXCEPT ![s] = 2]
    /\ LET g == MemEvents([ids |-> memory, seen |-> seen], load[s].events)
       IN  memory' = g.ids /\ seen' = g.seen
    /\ UNCHANGED <<load, attempt, reports>>

(* ingestPassportsPg, after which the command has succeeded. *)
CommitPassports(s) ==
    /\ Commit(s, 2)
    /\ load' = [load EXCEPT ![s] = NoLoad]
    /\ stage' = [stage EXCEPT ![s] = 0]
    /\ memory' = MemIdentities(memory, load[s].passports)
    /\ reports' = Reported(reports, load[s].passports)
    /\ attempt' = NoAttempt
    /\ UNCHANGED seen

(* Mutant: a failed transaction is not rolled back and keeps its locks. *)
Fail_noRollback(s) ==
    /\ load[s] # NoLoad
    /\ load' = [load EXCEPT ![s] = NoLoad]
    /\ stage' = [stage EXCEPT ![s] = 0]
    /\ UNCHANGED <<rows, events, txn, starts, memory, seen, attempt, reports, snapVars, quiet>>

(* The load returns an error: the deferred Rollback ends the transaction    *)
(* that is open, and those already committed stay.                         *)
Fail(s) ==
    /\ load[s] # NoLoad
    /\ load' = [load EXCEPT ![s] = NoLoad]
    /\ stage' = [stage EXCEPT ![s] = 0]
    /\ txn' = [txn EXCEPT ![s] = Opened]
    /\ UNCHANGED <<rows, events, starts, memory, seen, attempt, reports, snapVars, quiet>>

(* The process dies, a statement fails, or the passports do not parse. *)
AbortLoad(s) == Fail(s)

(* Postgres fails a statement of one of two transactions that wait for each *)
(* other.  The load does not try again.                                    *)
BreakDeadlock(s) ==
    /\ \E t \in Sessions : WaitsFor(s, t) /\ WaitsFor(t, s)
    /\ Fail(s)

-----------------------------------------------------------------------------
(* Snapshot, one action per query.  The two list tables are read in one     *)
(* step: nothing relates them.                                             *)

(* SELECT id, privileged FROM identities, and New on the result. *)
ReadFlags ==
    /\ query \in {0, Delivered}
    /\ query' = 1
    /\ flags' = {id \in DOMAIN rows : rows[id].privileged}
    /\ snap' = [i \in {} |-> Mem!NewNode(FALSE)]
    /\ began' = [rows |-> rows, events |-> events]
    /\ quiet' = TRUE
    /\ UNCHANGED <<actionsByPerm, loadVars>>

(* The columns of every identities row, through AddIdentity. *)
ReadIdentities ==
    /\ query = 1
    /\ query' = 2
    /\ snap' = [id \in DOMAIN rows |->
                  [Mem!NewNode(id \in flags \/ rows[id].privileged) EXCEPT
                     !.fields   = [f \in Fields |-> IF f \in Lists THEN NoValue
                                                    ELSE rows[id].fields[f]],
                     !.lastUsed = rows[id].lastUsed,
                     !.shadow   = rows[id].shadow]]
    /\ UNCHANGED <<flags, actionsByPerm, began, quiet, loadVars>>

(* The nodes that a child table has rows for are created if absent. *)
Attach(owners, Change(_, _)) ==
    [id \in DOMAIN snap \cup owners |->
        IF id \in owners THEN Change(id, Mem!Ensure(snap, flags, id)) ELSE snap[id]]

ReadLists ==
    /\ query = 2
    /\ query' = 3
    /\ snap' = Attach({id \in DOMAIN rows : \E f \in Lists : rows[id].fields[f] # NoValue},
                      LAMBDA id, node :
                        [node EXCEPT !.fields =
                           [f \in Fields |-> IF f \in Lists THEN rows[id].fields[f] ELSE @[f]]])
    /\ UNCHANGED <<flags, actionsByPerm, began, quiet, loadVars>>

ReadActions ==
    /\ query = 3
    /\ query' = 4
    /\ actionsByPerm' = [id \in IDs |-> [n \in Names |->
                           UNION {p.actions : p \in {q \in RowOf(rows, id).permissions : q.name = n}}]]
    /\ UNCHANGED <<flags, snap, began, quiet, loadVars>>

ReadPermissions ==
    /\ query = 4
    /\ query' = 5
    /\ snap' = Attach({id \in DOMAIN rows : rows[id].permissions # {}},
                      LAMBDA id, node :
                        [node EXCEPT !.permissions =
                           {[p EXCEPT !.actions = actionsByPerm[id][p.name]] :
                               p \in rows[id].permissions}])
    /\ UNCHANGED <<flags, actionsByPerm, began, quiet, loadVars>>

(* Position i of a sequence of records is before position j: by time, then *)
(* by position.  It is both ORDER BY ts, id and a stable sort on the time. *)
Before(recs, i, j) ==
    \/ TimeOf[recs[i]] < TimeOf[recs[j]]
    \/ TimeOf[recs[i]] = TimeOf[recs[j]] /\ i < j

(* The records at positions S in that order: the n-th has n - 1 before it.  *)
InOrder(recs, S) ==
    [n \in 1..Cardinality(S) |->
        recs[CHOOSE i \in S : Cardinality({j \in S : Before(recs, j, i)}) = n - 1]]

Chronological(recs) == InOrder(recs, DOMAIN recs)

(* Mutant: equal timestamps come back in some other order. *)
EventsOf_untied(stored, id) ==
    Chronological(Reverse(SelectSeq(stored, LAMBDA r : Subject[r] = id)))

EventsOf(stored, id) == InOrder(stored, {i \in DOMAIN stored : Subject[stored[i]] = id})

(* The events, through AddEvent, and then buildGraph's MarkPrivileged. *)
ReadEvents ==
    /\ query = 5
    /\ query' = Delivered
    /\ LET full == Attach({Subject[r] : r \in ToSet(events)},
                          LAMBDA id, node :
                            [node EXCEPT !.events =
                               [k \in DOMAIN EventsOf(events, id) |->
                                  Mem!Parsed(EventsOf(events, id)[k], 0)]])
       IN  snap' = [id \in DOMAIN full |->
                      [full[id] EXCEPT !.privileged = @ \/ id \in Operator]]
    /\ actionsByPerm' = NoActions
    /\ UNCHANGED <<flags, began, quiet, loadVars>>

Next ==
    \/ \E s \in Sessions :
          \/ \E l \in Loads : StartLoad(s, l)
          \/ WriteNext(s)
          \/ CommitIdentities(s)
          \/ CommitEvents(s)
          \/ CommitPassports(s)
          \/ AbortLoad(s)
          \/ BreakDeadlock(s)
    \/ ReadFlags
    \/ ReadIdentities
    \/ ReadLists
    \/ ReadActions
    \/ ReadPermissions
    \/ ReadEvents

(* A load in progress keeps running its statements, and Postgres looks for  *)
(* deadlocks.                                                              *)
Fairness ==
    \A s \in Sessions :
        /\ WF_vars(WriteNext(s))
        /\ WF_vars(CommitIdentities(s) \/ CommitEvents(s) \/ CommitPassports(s))
        /\ WF_vars(BreakDeadlock(s))

Spec == Init /\ [][Next]_vars /\ Fairness

-----------------------------------------------------------------------------
(* Properties. *)

RowType == [fields : [Fields -> Values \cup {NoValue}], lastUsed : Nat, privileged : BOOLEAN,
            shadow : BOOLEAN, permissions : SUBSET Permission]

TypeOK ==
    /\ DOMAIN rows \subseteq IDs /\ rows \in [DOMAIN rows -> RowType]
    /\ events \in Seq(Records)
    /\ load \in [Sessions -> Loads \cup {NoLoad}] /\ stage \in [Sessions -> 0..2]
    /\ \A s \in Sessions : /\ txn[s].pos \in Nat /\ DOMAIN txn[s].rows \subseteq IDs
                           /\ txn[s].rows \in [DOMAIN txn[s].rows -> RowType]
                           /\ txn[s].events \in Seq(Records)
    /\ starts \in 0..MaxStarts
    /\ DOMAIN memory \subseteq IDs /\ memory \in [DOMAIN memory -> Mem!Node]
    /\ seen \subseteq Mem!Event
    /\ query \in 0..Delivered /\ flags \subseteq DOMAIN rows
    /\ DOMAIN snap \subseteq DOMAIN rows /\ snap \in [DOMAIN snap -> Mem!Node]
    /\ actionsByPerm \in [IDs -> [Names -> SUBSET Actions]]
    /\ \A id \in IDs : reports[id] \subseteq Mem!Entry

(* Ingest and IngestIdentities, two loads at a time: each transaction takes *)
(* effect as if it had run alone at its commit, on what the others had      *)
(* committed by then.  Its statements read rows one by one as they go, and  *)
(* pgstore.go asks for no isolation level and no lock.                     *)
CommitsSerialize ==
    [][\A s \in Sessions :
         /\ CommitIdentities(s) =>
               rows' = IngestIdentities(rows, Flagged(load[s].identities)) /\ events' = events
         /\ CommitEvents(s) =>
               rows' = UpsertSubjects(rows, load[s].events) /\
               events' = InsertEvents(events, load[s].events)
         /\ CommitPassports(s) =>
               rows' = IngestIdentities(rows, load[s].passports) /\ events' = events]_vars

(* Two loads that lock the same identities in opposite orders wait for each *)
(* other; one of them is failed, and every load ends.                      *)
LoadsEnd == \A s \in Sessions : load[s] # NoLoad ~> load[s] = NoLoad

(* runLoad: the three transactions are not one, but running a failed load   *)
(* again until it succeeds leaves what one clean run would have left, in    *)
(* whichever transactions the earlier attempts died ("re-running a load is  *)
(* idempotent", schema.sql:43).  No other load ran in between.             *)
RetryConverges ==
    [][\A s \in Sessions : CommitPassports(s) /\ attempt.load = load[s] =>
         /\ rows' = CleanRows(attempt.rows, load[s])
         /\ events' = InsertEvents(attempt.events, load[s].events)]_vars

(* A delivered snapshot that no load committed under. *)
Quiet == query = Delivered /\ quiet

RecordsOf(node) == [k \in DOMAIN node.events |-> node.events[k].record]

(* The identity has been described once, by an entry that names each grant  *)
(* once, so nothing has been replaced.                                     *)
DescribedOnce(id) ==
    \A in, other \in reports[id] :
        in = other /\ \A p, q \in in.permissions : p.name = q.name => p = q

(* PgStore: "detectors run unchanged against either backend".  A quiet      *)
(* snapshot shows the detectors what the in-memory store fed the same       *)
(* batches shows them: the same identities, columns, flags and events, the  *)
(* events in the same order when their times tie, and the same grants and   *)
(* lists for an identity whose description was never replaced.              *)
BackendParity ==
    Quiet =>
      /\ DOMAIN snap = DOMAIN memory
      /\ \A id \in DOMAIN snap :
           LET pg == snap[id]
               mem == memory[id]
           IN  /\ \A f \in Fields \ Lists : pg.fields[f] = mem.fields[f]
               /\ pg.lastUsed = mem.lastUsed
               /\ pg.privileged = mem.privileged
               /\ pg.shadow = mem.shadow
               /\ RecordsOf(pg) =
                    LET recs == Chronological(RecordsOf(mem))
                    IN  [k \in DOMAIN recs |-> Row[recs[k]]]
               /\ DescribedOnce(id) =>
                    /\ pg.permissions = mem.permissions
                    /\ \A f \in Lists : pg.fields[f] = mem.fields[f]

(* Snapshot under concurrent loads: what was committed when the snapshot    *)
(* began and is never deleted is in it, whatever commits between its        *)
(* queries, and every identity it shows has its events in order.            *)
SnapshotCovers ==
    query = Delivered =>
      /\ \A id \in DOMAIN began.rows :
           /\ id \in DOMAIN snap
           /\ \A f \in Fields \ Lists :
                began.rows[id].fields[f] # NoValue => snap[id].fields[f] # NoValue
           /\ began.rows[id].lastUsed <= snap[id].lastUsed
           /\ began.rows[id].privileged => snap[id].privileged
           /\ began.rows[id].shadow => snap[id].shadow
           /\ ToSet(EventsOf(began.events, id)) \subseteq ToSet(RecordsOf(snap[id]))
      /\ \A id \in DOMAIN snap : \A i, j \in DOMAIN snap[id].events :
           i < j => TimeOf[RecordsOf(snap[id])[i]] <= TimeOf[RecordsOf(snap[id])[j]]

-----------------------------------------------------------------------------
(* What the repository says of the backend and the code does not do. *)

(* --passports on `idryx load` is there "to enrich agent identities": the   *)
(* Passport transaction takes no grant and no delegation chain away.        *)
PassportsOnlyEnrich ==
    [][(\E s \in Sessions : CommitPassports(s)) =>
         \A id \in DOMAIN rows :
            /\ rows[id].permissions \subseteq rows'[id].permissions
            /\ \A f \in Lists : rows[id].fields[f] # NoValue => rows'[id].fields[f] # NoValue]_vars

=============================================================================
