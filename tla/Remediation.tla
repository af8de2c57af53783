----------------------------- MODULE Remediation -----------------------------
(***************************************************************************)
(* Runs of `idryx remediate` (runRemediate), which overlap, fail at any     *)
(* step and are started again: --save-db stores the recommendations         *)
(* (SaveRemediations), --out writes them as artifacts (WriteArtifacts),     *)
(* --open-pr writes the same artifacts into a git repository and opens a    *)
(* pull request (OpenPR), while the operator works in that repository.      *)
(*                                                                         *)
(* A tree is the artifact directory and, for a repository, the rest of it   *)
(* as a number.  Who wrote a file is kept beside it for the properties.     *)
(***************************************************************************)
EXTENDS Naturals, Sequences, SequencesExt, RightSizing

CONSTANTS
    Runs,           \* the runs; each happens once, a retry is another run
    Modes,          \* what the runs may be told to do, a function of them each
    Estates,        \* the graphs a run may read, nodes by ID
    IDOrder,        \* the IDs in the order of Store.Identities
    Segment,        \* SanitizeName of an ID with its n-th suffix, by <<id, n>>
    MaxMoves        \* bound: what the operator does in the repository

ASSUME ModesAssumption == Modes \subseteq [Runs -> {"save-db", "out", "open-pr"}]
ASSUME EstatesAssumption ==
    \A g \in Estates :
        /\ DOMAIN g \subseteq ToSet(IDOrder)
        /\ \A id \in DOMAIN g :
              g[id] \in [fields : [Fields -> Values \cup {NoValue}],
                        permissions : SUBSET Permission]
ASSUME OrderAssumption ==
    /\ IDOrder \in Seq(ToSet(IDOrder))
    /\ \A i, j \in DOMAIN IDOrder : IDOrder[i] = IDOrder[j] => i = j
ASSUME SegmentAssumption ==
    \A id \in ToSet(IDOrder) : \A n, m \in 1..(2 * Len(IDOrder)) :
        Segment[<<id, n>>] = Segment[<<id, m>>] => n = m
ASSUME RunsAssumption == IsFiniteSet(Runs)
ASSUME MovesAssumption == MaxMoves \in Nat /\ "main" \notin Runs

VARIABLES
    run,            \* what each run is at
    table,          \* the remediations rows, by identity and kind
    saves,          \* the saves in the order they committed
    out,            \* the tree --out names
    head, commits,  \* the branch checked out, the tree of each branch
    index, work,    \* the staged tree and the working tree
    pushed, prs,    \* the branches at origin, the pull requests
    moves           \* how often the operator has done something

store == <<table, saves>>
repo == <<head, commits, index, work, pushed, prs, moves>>
vars == <<run, store, out, repo>>

NoManifest == [by |-> "nobody", artifacts |-> <<>>]
EmptyTree == [files |-> <<>>, manifest |-> NoManifest, other |-> 0]

Made(id, r) ==
    IF r.kind = "none" THEN <<>> ELSE <<[identity |-> id, kind |-> r.kind, code |-> r.unused]>>

(* The recommendations of one identity, right-sizing first. *)
RecommendationsOf(id, node) ==
    Made(id, Generate(node)) \o Made(id, GenerateRotation(id, node))

Recommendations(g, order) ==
    FlattenSeq([i \in DOMAIN order |->
        IF order[i] \in DOMAIN g THEN RecommendationsOf(order[i], g[order[i]]) ELSE <<>>])

Init ==
    /\ \E mode \in Modes :
          run = [r \in Runs |-> [pc |-> "idle", mode |-> mode[r], recs |-> <<>>, at |-> 0, next |-> 1,
                                 written |-> <<>>, fork |-> EmptyTree, alone |-> FALSE]]
    /\ table = <<>> /\ saves = <<>> /\ out = EmptyTree
    /\ head = "main" /\ commits = [b \in {"main"} |-> EmptyTree]
    /\ index = EmptyTree /\ work = EmptyTree
    /\ pushed = <<>> /\ prs = {} /\ moves = 0

At(r, pc) == run[r].pc = pc
Goes(r, pc) == run' = [run EXCEPT ![r].pc = pc]

(* Where a mode starts: an empty batch is saved without a transaction, and  *)
(* is an error to open a pull request for.                                 *)
First(mode, recs) ==
    CASE mode = "save-db" -> IF recs = <<>> THEN "done" ELSE "begin"
      [] mode = "open-pr" -> IF recs = <<>> THEN "failed" ELSE "preflight"
      [] OTHER            -> "write"

(* Mutant: the identities come in the order of the store's map. *)
Start_unsorted(r) ==
    \E g \in Estates, order \in {IDOrder, Reverse(IDOrder)} :
        LET recs == Recommendations(g, order)
        IN  /\ At(r, "idle")
            /\ run' = [run EXCEPT ![r].pc = First(run[r].mode, recs), ![r].recs = recs]
            /\ UNCHANGED <<store, out, repo>>

Start(r) ==
    \E g \in Estates :
        LET recs == Recommendations(g, IDOrder)
        IN  /\ At(r, "idle")
            /\ run' = [run EXCEPT ![r].pc = First(run[r].mode, recs), ![r].recs = recs]
            /\ UNCHANGED <<store, out, repo>>

(* A statement, a write or a command fails, or the process dies: it returns *)
(* and cleans nothing up.  A transaction is rolled back.                   *)
Fail(r) ==
    /\ run[r].pc \notin {"idle", "done", "failed"} /\ Goes(r, "failed")
    /\ UNCHANGED <<store, out, repo>>

-----------------------------------------------------------------------------
(* SaveRemediations.  now() is the start of the transaction. *)

Key(rec) == <<rec.identity, rec.kind>>

BeginSave(r) ==
    /\ At(r, "begin")
    /\ run' = [run EXCEPT ![r].pc = "saving",
                          ![r].at = 1 + Cardinality({q \in Runs : run[q].at # 0})]
    /\ UNCHANGED <<store, out, repo>>

Upserted(r) == {Key(run[r].recs[k]) : k \in 1..(run[r].next - 1)}
Unsaved(r) == At(r, "saving") /\ run[r].next <= Len(run[r].recs)

(* An upsert waits for the transaction that holds the row. *)
WaitsFor(p, q) ==
    p # q /\ Unsaved(p) /\ At(q, "saving") /\ Key(run[p].recs[run[p].next]) \in Upserted(q)

UpsertRow(r) ==
    /\ Unsaved(r) /\ \A q \in Runs : ~WaitsFor(r, q)
    /\ run' = [run EXCEPT ![r].next = @ + 1]
    /\ UNCHANGED <<store, out, repo>>

Row(rec, at) == [rec |-> rec, at |-> at]

(* Mutant: the conflict clause leaves created_at alone. *)
Refreshed_undated(old, rec, at) ==
    IF Key(rec) \in DOMAIN old THEN Row(rec, old[Key(rec)].at) ELSE Row(rec, at)

Refreshed(old, rec, at) == Row(rec, at)

CommitSave(r) ==
    LET recs == run[r].recs
        batch == {Key(recs[k]) : k \in DOMAIN recs}
        Of(key) == recs[CHOOSE k \in DOMAIN recs : Key(recs[k]) = key]
    IN  /\ At(r, "saving") /\ run[r].next > Len(recs)
        /\ table' = [key \in DOMAIN table \cup batch |->
                       IF key \in batch THEN Refreshed(table, Of(key), run[r].at) ELSE table[key]]
        /\ saves' = Append(saves, [at |-> run[r].at, recs |-> ToSet(recs)])
        /\ Goes(r, "done")
        /\ UNCHANGED <<out, repo>>

-----------------------------------------------------------------------------
(* WriteArtifacts, into the directory or the working tree. *)

(* Mutant: names that are taken are not looked for. *)
FreeName_any(r, rec) == <<rec.kind, Segment[<<rec.identity, 1>>]>>

FreeName(r, rec) ==
    LET used == {a.file : a \in ToSet(run[r].written)}
        name(n) == <<rec.kind, Segment[<<rec.identity, n>>]>>
        free == {n \in 1..(Len(run[r].written) + 1) : name(n) \notin used}
    IN  name(CHOOSE n \in free : \A m \in free : n <= m)

(* A step of r in the repository: it comes between those of other runs. *)
Disturbing(r) == [q \in Runs |-> IF q = r THEN run[q] ELSE [run[q] EXCEPT !.alone = FALSE]]

InTree(r, Change(_)) ==
    IF run[r].mode = "out" THEN out' = Change(out) /\ UNCHANGED repo
    ELSE /\ work' = Change(work) /\ UNCHANGED <<out, head, commits, index, pushed, prs, moves>>

Unwritten(r) == At(r, "write") /\ run[r].next <= Len(run[r].recs)

WriteFile(r) ==
    LET rec == run[r].recs[run[r].next]
        file == FreeName(r, rec)
        With(t) == [t EXCEPT !.files = [f \in DOMAIN @ \cup {file} |->
                                          IF f = file THEN [code |-> rec.code, by |-> r] ELSE @[f]]]
        runs == IF run[r].mode = "out" THEN run ELSE Disturbing(r)
    IN  /\ Unwritten(r)
        /\ InTree(r, With)
        /\ run' = [runs EXCEPT ![r].next = @ + 1, ![r].written =
                     Append(@, [identity |-> rec.identity, kind |-> rec.kind, file |-> file])]
        /\ UNCHANGED store

WriteManifest(r) ==
    LET With(t) == [t EXCEPT !.manifest = [by |-> r, artifacts |-> run[r].written]]
    IN  /\ At(r, "write") /\ ~Unwritten(r)
        /\ InTree(r, With)
        /\ run' = IF run[r].mode = "out" THEN [run EXCEPT ![r].pc = "done"]
                  ELSE [Disturbing(r) EXCEPT ![r].pc = "add"]
        /\ UNCHANGED store

-----------------------------------------------------------------------------
(* OpenPR.  A branch is named after the run that creates it. *)

(* Mutant: a tree with uncommitted changes will do. *)
Preflight_dirty(r) ==
    /\ At(r, "preflight")
    /\ run' = [run EXCEPT ![r].pc = "checkout", ![r].alone = TRUE]
    /\ UNCHANGED <<store, out, repo>>

Preflight(r) ==
    /\ At(r, "preflight") /\ work = commits[head] /\ index = commits[head]
    /\ run' = [run EXCEPT ![r].pc = "checkout", ![r].alone = TRUE]
    /\ UNCHANGED <<store, out, repo>>

(* Uncommitted changes go along to the new branch. *)
CheckoutBranch(r) ==
    /\ At(r, "checkout")
    /\ head' = r
    /\ commits' = [b \in DOMAIN commits \cup {r} |-> IF b = r THEN commits[head] ELSE commits[b]]
    /\ run' = [Disturbing(r) EXCEPT ![r].pc = "write", ![r].fork = commits[head]]
    /\ UNCHANGED <<store, out, index, work, pushed, prs, moves>>

AddSubDir(r) ==
    /\ At(r, "add")
    /\ index' = [work EXCEPT !.other = index.other]
    /\ run' = [Disturbing(r) EXCEPT ![r].pc = "commit"]
    /\ UNCHANGED <<store, out, head, commits, work, pushed, prs, moves>>

(* The whole index, on whatever branch is checked out by now. *)
GitCommit(r) ==
    /\ At(r, "commit") /\ index # commits[head]
    /\ commits' = [commits EXCEPT ![head] = index]
    /\ run' = [Disturbing(r) EXCEPT ![r].pc = "push"]
    /\ UNCHANGED <<store, out, head, index, work, pushed, prs, moves>>

Push(r) ==
    /\ At(r, "push")
    /\ pushed' = [b \in DOMAIN pushed \cup {r} |-> IF b = r THEN commits[r] ELSE pushed[b]]
    /\ Goes(r, "create")
    /\ UNCHANGED <<store, out, head, commits, index, work, prs, moves>>

CreatePR(r) ==
    /\ At(r, "create")
    /\ prs' = prs \cup {[by |-> r, tree |-> pushed[r]]}
    /\ Goes(r, "done")
    /\ UNCHANGED <<store, out, head, commits, index, work, pushed, moves>>

OpenPR(r) ==
    Preflight(r) \/ CheckoutBranch(r) \/ AddSubDir(r) \/ GitCommit(r) \/ Push(r) \/ CreatePR(r)

-----------------------------------------------------------------------------
(* The operator, outside the artifact directory. *)

Touched == run' = [q \in Runs |-> [run[q] EXCEPT !.alone = FALSE]]

(* An edit that is not staged disturbs nobody. *)
Edit ==
    /\ work' = [work EXCEPT !.other = moves + 1]
    /\ UNCHANGED <<run, store, out, head, commits, index, pushed, prs>>

Stage ==
    /\ index.other # work.other
    /\ index' = [index EXCEPT !.other = work.other] /\ Touched
    /\ UNCHANGED <<store, out, head, commits, work, pushed, prs>>

CommitAll ==
    /\ work # commits[head]
    /\ commits' = [commits EXCEPT ![head] = work] /\ index' = work /\ Touched
    /\ UNCHANGED <<store, out, head, work, pushed, prs>>

(* git checkout main, and before it, if need be, git reset --hard. *)
BackToMain ==
    /\ head # "main" \/ work # commits["main"] \/ index # commits["main"]
    /\ head' = "main" /\ work' = commits["main"] /\ index' = commits["main"] /\ Touched
    /\ UNCHANGED <<store, out, commits, pushed, prs>>

Operator ==
    /\ moves < MaxMoves /\ moves' = moves + 1
    /\ Edit \/ Stage \/ CommitAll \/ BackToMain

Next ==
    \/ \E r \in Runs : \/ Start(r) \/ Fail(r)
                       \/ BeginSave(r) \/ UpsertRow(r) \/ CommitSave(r)
                       \/ WriteFile(r) \/ WriteManifest(r)
                       \/ OpenPR(r)
    \/ Operator

Spec == Init /\ [][Next]_vars

-----------------------------------------------------------------------------
(* Properties. *)

TypeOK ==
    /\ \A r \in Runs : run[r].at \in 0..Cardinality(Runs) /\ run[r].next \in 1..(Len(run[r].recs) + 1)
    /\ \A key \in DOMAIN table : key = Key(table[key].rec)
    /\ head \in DOMAIN commits /\ DOMAIN commits \subseteq Runs \cup {"main"}
    /\ moves \in 0..MaxMoves

(* What a run's artifacts say of each recommendation, and of no other. *)
Lists(artifacts, recs) ==
    [k \in DOMAIN artifacts |-> <<artifacts[k].identity, artifacts[k].kind>>]
        = [k \in DOMAIN recs |-> Key(recs[k])]

(* The files a manifest names are there, and those its own run wrote hold   *)
(* the diff of the identity and kind they are listed under.                *)
Describes(tree) ==
    LET m == tree.manifest
    IN  /\ m.by # "nobody" => Lists(m.artifacts, run[m.by].recs)
        /\ \A k \in DOMAIN m.artifacts :
              LET f == m.artifacts[k].file
              IN  /\ f \in DOMAIN tree.files
                  /\ tree.files[f].by = m.by => tree.files[f].code = run[m.by].recs[k].code

(* artifacts.go, the manifest last and a name for each: whatever IDs become *)
(* one file name, whichever run wrote in the directory before, beside or    *)
(* after, and wherever one of them died, a reviewer who goes by the         *)
(* manifest finds each file, and never one identity's revocation under the  *)
(* name of another.  A file another run has written since is that run's.    *)
ManifestIsTrue == Describes(out)

(* pr.go:119-121, "so idryx's commit contains only its own artifacts": a    *)
(* pull request changes, of the commit it was branched off, the files its   *)
(* manifest lists and the manifest, and the manifest is the batch it was    *)
(* opened for.  The operator may edit meanwhile.  Once somebody stages,     *)
(* commits or checks out between the preflight and the push, or a second    *)
(* run does, nothing is said: the commit is of the whole index.            *)
PRHoldsOnlyArtifacts ==
    \A pr \in prs : run[pr.by].alone =>
        LET fork == run[pr.by].fork
            own == {a.file : a \in ToSet(pr.tree.manifest.artifacts)}
        IN  /\ pr.tree.manifest.by = pr.by /\ Describes(pr.tree)
            /\ pr.tree.other = fork.other
            /\ DOMAIN pr.tree.files = DOMAIN fork.files \cup own
            /\ \A f \in DOMAIN fork.files \ own : pr.tree.files[f] = fork.files[f]

(* StoredRemediation.CreatedAt, "so consumers can show the age": what the   *)
(* last save did not repeat is never deleted, and its age gives it away.    *)
(* A row and its age are always of one save; and unless a save that began   *)
(* earlier has committed later, the rows of the last age are exactly the    *)
(* last batch and all others are older.                                    *)
AgeTellsStale ==
    /\ \A key \in DOMAIN table : \E k \in DOMAIN saves :
          saves[k].at = table[key].at /\ table[key].rec \in saves[k].recs
    /\ saves # <<>> /\ (\A k, l \in DOMAIN saves : k < l => saves[k].at < saves[l].at) =>
          LET last == Last(saves)
          IN  /\ {table[key].rec : key \in {x \in DOMAIN table : table[x].at = last.at}} = last.recs
              /\ \A key \in DOMAIN table : table[key].at <= last.at

(* Store.Identities sorts by ID, so every batch locks the rows it shares    *)
(* with another in one order: no two saves, nor any ring of them, wait for  *)
(* each other.                                                             *)
SavesNeverDeadlock ==
    \A ring \in (SUBSET Runs) \ {{}} : \E p \in ring : \A q \in ring : ~WaitsFor(p, q)

=============================================================================
