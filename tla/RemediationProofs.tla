-------------------------- MODULE RemediationProofs --------------------------
(***************************************************************************)
(* Proofs about Remediation, for any number of runs, any estates and any   *)
(* way in which IDs become one file name.                                  *)
(***************************************************************************)
EXTENDS Remediation, WellFoundedInduction, FiniteSetTheorems, TLAPS

-----------------------------------------------------------------------------
(* What the state is made of. *)

IDs == ToSet(IDOrder)
Kinds == {"right_size", "rotation"}
Rec == [identity : IDs, kind : Kinds, code : SUBSET Names]
Files == {<<kind, Segment[<<id, n>>]>> : kind \in Kinds, id \in IDs, n \in Nat}
Artifact == [identity : IDs, kind : Kinds, file : Files]
Manifest == [by : Runs \cup {"nobody"}, artifacts : Seq(Artifact)]
Contents == UNION {[fs -> [code : SUBSET Names, by : Runs]] : fs \in SUBSET Files}
Tree == [files : Contents, manifest : Manifest, other : Nat]

RunState == [pc : {"idle", "begin", "saving", "write", "preflight", "checkout", "add", "commit",
                   "push", "create", "done", "failed"},
             mode : {"save-db", "out", "open-pr"}, recs : Seq(Rec), at : Nat, next : Nat,
             written : Seq(Artifact), fork : Tree, alone : BOOLEAN]

Places ==
    /\ saves \in Seq([at : Nat, recs : SUBSET Rec])
    /\ out \in Tree /\ index \in Tree /\ work \in Tree
    /\ commits \in [DOMAIN commits -> Tree]
    /\ pushed \in [DOMAIN pushed -> Tree]
    /\ prs \subseteq [by : Runs, tree : Tree]
    /\ moves \in 0..MaxMoves

Types == run \in [Runs -> RunState] /\ Places

-----------------------------------------------------------------------------
(* What is true of one run wherever it is. *)

Place(id) == CHOOSE i \in DOMAIN IDOrder : IDOrder[i] = id
Rank(key) == 2 * Place(key[1]) + (IF key[2] = "rotation" THEN 1 ELSE 0)

(* A batch is in the order of the identities, right-sizing first. *)
Ascending(recs) ==
    \A k, l \in DOMAIN recs : k < l => Rank(Key(recs[k])) < Rank(Key(recs[l]))

Batch(recs) == Ascending(recs) /\ Len(recs) <= 2 * Len(IDOrder)

(* The artifacts of the recommendations before the next, each in a file of *)
(* its own.                                                                *)
InStep(x) ==
    /\ Len(x.written) = x.next - 1
    /\ \A k \in DOMAIN x.written :
          <<x.written[k].identity, x.written[k].kind>> = Key(x.recs[k])
    /\ \A k, l \in DOMAIN x.written : k # l => x.written[k].file # x.written[l].file

InOpenPR == {"preflight", "checkout", "add", "commit", "push", "create"}

Control(x) ==
    /\ Batch(x.recs) /\ x.next \in 1..(Len(x.recs) + 1) /\ x.at \in 0..Cardinality(Runs)
    /\ x.pc \in {"idle", "begin"} => x.at = 0
    /\ x.pc \in {"idle", "begin", "preflight", "checkout"} => x.next = 1 /\ x.written = <<>>
    /\ x.pc \in {"begin", "saving"} => x.mode = "save-db"
    /\ x.pc \in InOpenPR => x.mode = "open-pr"
    /\ x.pc = "write" => x.mode # "save-db"
    /\ x.pc \in {"add", "commit", "push", "create"} => x.next = Len(x.recs) + 1
    /\ x.mode # "save-db" => InStep(x)

(* The branch of a run is there from its checkout on. *)
Branched(r) ==
    /\ run[r].pc \in {"write", "add", "commit", "push"} /\ run[r].mode = "open-pr" =>
          r \in DOMAIN commits
    /\ run[r].pc = "create" => r \in DOMAIN pushed

Branches ==
    /\ head \in DOMAIN commits /\ "main" \in DOMAIN commits
    /\ DOMAIN commits \subseteq Runs \cup {"main"} /\ DOMAIN pushed \subseteq Runs

Base == Types /\ Branches /\ \A r \in Runs : Control(run[r]) /\ Branched(r)

-----------------------------------------------------------------------------
(* The directory of --out.  A file a run has written stays, under its diff  *)
(* or as another run's; the manifest is that of a run that is through.     *)

FilesStay ==
    \A r \in Runs : run[r].mode = "out" =>
       \A k \in DOMAIN run[r].written :
          LET f == run[r].written[k].file
          IN  /\ f \in DOMAIN out.files
              /\ out.files[f].by = r => out.files[f].code = run[r].recs[k].code

ManifestOf(r) ==
    /\ out.manifest = [by |-> r, artifacts |-> run[r].written]
    /\ run[r].mode = "out" /\ run[r].pc = "done" /\ run[r].next = Len(run[r].recs) + 1

OutOK == FilesStay /\ (out.manifest = NoManifest \/ \E r \in Runs : ManifestOf(r))

-----------------------------------------------------------------------------
(* The repository, for a run that nobody disturbs. *)

(* A tree's files are those of another and the files run x has written. *)
Over(files, fork, r, x) ==
    /\ DOMAIN files = DOMAIN fork.files \cup {x.written[k].file : k \in DOMAIN x.written}
    /\ \A k \in DOMAIN x.written :
          files[x.written[k].file] = [code |-> x.recs[k].code, by |-> r]
    /\ \A f \in DOMAIN fork.files :
          (\A k \in DOMAIN x.written : x.written[k].file # f) => files[f] = fork.files[f]

(* The tree a pull request is to hold. *)
Whole(tree, r, x) ==
    /\ Over(tree.files, x.fork, r, x)
    /\ tree.manifest = [by |-> r, artifacts |-> x.written]
    /\ tree.other = x.fork.other
    /\ x.next = Len(x.recs) + 1

OnItsBranch(r) == head = r /\ run[r].fork = commits[head]

AloneOK(r) ==
    /\ run[r].pc = "checkout" =>
          /\ index = commits[head]
          /\ work.files = index.files /\ work.manifest = index.manifest
    /\ run[r].pc = "write" =>
          /\ OnItsBranch(r) /\ index = run[r].fork
          /\ Over(work.files, run[r].fork, r, run[r]) /\ work.manifest = run[r].fork.manifest
    /\ run[r].pc = "add" =>
          /\ OnItsBranch(r) /\ index = run[r].fork
          /\ Over(work.files, run[r].fork, r, run[r])
          /\ work.manifest = [by |-> r, artifacts |-> run[r].written]
    /\ run[r].pc = "commit" => OnItsBranch(r) /\ Whole(index, r, run[r])
    /\ run[r].pc = "push" => Whole(commits[r], r, run[r])
    /\ run[r].pc = "create" => Whole(pushed[r], r, run[r])
    /\ \A pr \in prs : pr.by = r => Whole(pr.tree, r, run[r])

RepoOK ==
    /\ \A r \in Runs : run[r].alone => run[r].mode = "open-pr" /\ AloneOK(r)
    /\ \A pr \in prs : run[pr.by].pc = "done" /\ run[pr.by].mode = "open-pr"

-----------------------------------------------------------------------------
(* A row and its age are of one save. *)

RowsOK ==
    \A key \in DOMAIN table :
        /\ key = Key(table[key].rec) /\ table[key].rec \in Rec
        /\ \E k \in DOMAIN saves : saves[k].at = table[key].at /\ table[key].rec \in saves[k].recs

-----------------------------------------------------------------------------
(* Induction, and what a fold over sequences keeps. *)

LEMMA SetInduction ==
    ASSUME NEW S, 0 \in S, \A n \in Nat : n \in S => n + 1 \in S
    PROVE  Nat \subseteq S
<1> DEFINE T == Nat \ S
           R == OpToRel(<, Nat)
<1>1. IsWellFoundedOn(R, Nat)
  BY NatLessThanWellFounded
<1>2. \A x, y \in Nat : <<y, x>> \in R <=> y < x
  BY DEF OpToRel
<1> HIDE DEF R
<1>3. SUFFICES ASSUME T # {} PROVE FALSE
  OBVIOUS
<1>4. PICK x \in T : \A y \in T : <<y, x>> \notin R
  <2>1. T \subseteq Nat
    OBVIOUS
  <2> HIDE DEF T
  <2> QED BY <1>1, <1>3, <2>1, WFMin
<1>5. x # 0 /\ x - 1 \in Nat /\ x - 1 < x
  OBVIOUS
<1>6. x - 1 \in S
  BY <1>2, <1>4, <1>5
<1> QED BY <1>5, <1>6

(* A set of numbers has a least. *)
LEMMA LeastOf ==
    ASSUME NEW S \in SUBSET Nat, S # {}
    PROVE  \E m \in S : \A n \in S : m <= n
<1> DEFINE R == OpToRel(<, Nat)
<1>1. IsWellFoundedOn(R, Nat)
  BY NatLessThanWellFounded
<1>2. \A x, y \in Nat : <<y, x>> \in R <=> y < x
  BY DEF OpToRel
<1> HIDE DEF R
<1>3. PICK m \in S : \A n \in S : <<n, m>> \notin R
  BY <1>1, WFMin
<1>4. \A n \in S : ~(n < m)
  BY <1>2, <1>3
<1> QED BY <1>4

(* FlattenSeq joins the sequences one by one, in their order: what is true  *)
(* of nothing and stays true with each is true of the whole.  Keeps is the  *)
(* set of pairs of how many are joined and what they came to.              *)
LEMMA FlattenStepwise ==
    ASSUME NEW T, NEW qs \in Seq(Seq(T)), NEW Keeps,
           <<0, <<>> >> \in Keeps,
           \A n \in Nat : \A s \in Seq(T) :
              n < Len(qs) /\ <<n, s>> \in Keeps => <<n + 1, s \o qs[n + 1]>> \in Keeps
    PROVE  FlattenSeq(qs) \in Seq(T) /\ <<Len(qs), FlattenSeq(qs)>> \in Keeps
<1>1. CASE Len(qs) = 0
  <2>1. FlattenSeq(qs) = qs /\ qs = <<>>
    BY <1>1 DEF FlattenSeq
  <2> QED BY <1>1, <2>1
<1>2. CASE Len(qs) # 0
  <2> DEFINE N == Len(qs)
             IsFlat(f, n) == f = [k \in 1..n |-> IF k = 1 THEN qs[k] ELSE f[k - 1] \o qs[k]]
             Grows == {n \in Nat : n <= N => \E f : IsFlat(f, n)}
  <2>1. N \in Nat \ {0} /\ DOMAIN qs = 1..N /\ \A k \in 1..N : qs[k] \in Seq(T)
    BY <1>2
  <2>k. \A n \in Nat : \A s \in Seq(T) :
              n < N /\ <<n, s>> \in Keeps => <<n + 1, s \o qs[n + 1]>> \in Keeps
    OBVIOUS
  <2> HIDE DEF N, IsFlat
  <2>2. 0 \in Grows
    <3>1. IsFlat([k \in {} |-> k], 0)
      BY DEF IsFlat
    <3> QED BY <3>1
  <2>3. ASSUME NEW n \in Nat, n \in Grows PROVE n + 1 \in Grows
    <3>1. SUFFICES ASSUME n + 1 <= N PROVE \E f : IsFlat(f, n + 1)
      OBVIOUS
    <3>2. PICK f : IsFlat(f, n)
      <4>1. n <= N
        BY <2>1, <3>1
      <4> QED BY <2>3, <4>1
    <3> DEFINE g == [k \in 1..(n + 1) |->
                       IF k = n + 1 THEN IF k = 1 THEN qs[k] ELSE f[k - 1] \o qs[k] ELSE f[k]]
    <3>3. \A k \in 1..n : f[k] = IF k = 1 THEN qs[k] ELSE f[k - 1] \o qs[k]
      BY <3>2, Zenon DEF IsFlat
    <3>4. \A k \in 1..n : g[k] = f[k] /\ k # n + 1
      OBVIOUS
    <3>5. ASSUME NEW k \in 1..(n + 1)
          PROVE  g[k] = IF k = 1 THEN qs[k] ELSE g[k - 1] \o qs[k]
      <4>1. CASE k = n + 1
        <5>1. k # 1 => k - 1 \in 1..n
          BY <4>1
        <5>2. k # 1 => g[k - 1] = f[k - 1]
          BY <3>4, <5>1
        <5> QED BY <4>1, <5>2
      <4>2. CASE k \in 1..n
        <5>1. k # 1 => k - 1 \in 1..n
          BY <4>2
        <5> HIDE DEF g
        <5> QED BY <3>3, <3>4, <4>2, <5>1
      <4> QED BY <4>1, <4>2
    <3>6. g = [k \in 1..(n + 1) |-> g[k]]
      OBVIOUS
    <3> HIDE DEF g
    <3>7. IsFlat(g, n + 1)
      BY <3>5, <3>6 DEF IsFlat
    <3> QED BY <3>7
  <2>4. Nat \subseteq Grows
    <3> HIDE DEF Grows
    <3> QED BY <2>2, <2>3, SetInduction
  <2>5. \E f : IsFlat(f, N)
    <3>1. N \in Grows /\ N <= N
      BY <2>1, <2>4
    <3> QED BY <3>1
  <2> DEFINE flat == CHOOSE f : IsFlat(f, N)
  <2>6. IsFlat(flat, N)
    BY <2>5
  <2>7. FlattenSeq(qs) = flat[N]
    BY <1>2 DEF FlattenSeq, N, IsFlat
  <2> HIDE DEF flat
  <2>8. \A k \in 1..N : flat[k] = IF k = 1 THEN qs[k] ELSE flat[k - 1] \o qs[k]
    BY <2>6, Zenon DEF IsFlat
  <2> DEFINE Good == {n \in Nat : n \in 1..N => flat[n] \in Seq(T) /\ <<n, flat[n]>> \in Keeps}
  <2>9. 0 \in Good
    OBVIOUS
  <2>10. ASSUME NEW n \in Nat, n \in Good PROVE n + 1 \in Good
    <3>1. SUFFICES ASSUME n + 1 \in 1..N
                   PROVE  flat[n + 1] \in Seq(T) /\ <<n + 1, flat[n + 1]>> \in Keeps
      OBVIOUS
    <3>2. CASE n = 0
      <4>1. 1..1 = {1} /\ flat[1] = qs[1] /\ n + 1 = 1 /\ qs[1] \in Seq(T)
        BY <2>1, <2>8, <3>1, <3>2
      <4>2. <<>> \in Seq(T) /\ <<>> \o qs[1] = qs[1]
        BY <4>1
      <4>3. n < N /\ <<n, <<>> >> \in Keeps
        BY <2>1, <3>2
      <4>4. <<n + 1, <<>> \o qs[n + 1]>> \in Keeps
        BY <2>k, <4>2, <4>3, Zenon
      <4> QED BY <4>1, <4>2, <4>4
    <3>3. CASE n # 0
      <4>1. n \in 1..N /\ flat[n] \in Seq(T) /\ <<n, flat[n]>> \in Keeps
        <5>1. n \in 1..N
          BY <2>1, <3>1, <3>3
        <5> QED BY <2>10, <5>1
      <4>2. flat[n + 1] = flat[n] \o qs[n + 1] /\ qs[n + 1] \in Seq(T)
        <5>1. n + 1 # 1 /\ (n + 1) - 1 = n
          BY <3>3
        <5> QED BY <2>1, <2>8, <3>1, <5>1
      <4>3. n < N
        BY <2>1, <3>1
      <4>4. <<n + 1, flat[n] \o qs[n + 1]>> \in Keeps
        BY <2>k, <4>1, <4>3
      <4> QED BY <4>1, <4>2, <4>4
    <3> QED BY <3>2, <3>3
  <2>11. Nat \subseteq Good
    <3> HIDE DEF Good
    <3> QED BY <2>9, <2>10, SetInduction
  <2>12. N \in Good /\ N \in 1..N
    <3> HIDE DEF Good
    <3> QED BY <2>1, <2>11
  <2>13. flat[N] \in Seq(T) /\ <<N, flat[N]>> \in Keeps
    BY <2>12
  <2> QED BY <2>7, <2>13 DEF N
<1> QED BY <1>1, <1>2

-----------------------------------------------------------------------------
(* A run's batch: in the order of the identities, one row to each.  This is *)
(* what the saves' freedom from deadlock and the age of a row rest on.      *)

LEMMA PlaceOf ==
    \A i \in DOMAIN IDOrder : IDOrder[i] \in IDs /\ Place(IDOrder[i]) = i
BY OrderAssumption DEF Place, IDs, ToSet

LEMMA OneAtMost ==
    ASSUME NEW i \in DOMAIN IDOrder, NEW kind \in Kinds, NEW r,
           r = NoRecommendation \/ (r.kind = kind /\ r.unused \in SUBSET Names)
    PROVE  /\ Made(IDOrder[i], r) \in Seq(Rec) /\ Len(Made(IDOrder[i], r)) <= 1
           /\ \A k \in DOMAIN Made(IDOrder[i], r) :
                 Rank(Key(Made(IDOrder[i], r)[k])) = 2 * i + (IF kind = "rotation" THEN 1 ELSE 0)
<1> DEFINE rec == [identity |-> IDOrder[i], kind |-> kind, code |-> r.unused]
<1>1. CASE r = NoRecommendation
  <2>1. Made(IDOrder[i], r) = <<>>
    BY <1>1 DEF Made, NoRecommendation
  <2> QED BY <2>1
<1>2. CASE r.kind = kind /\ r.unused \in SUBSET Names
  <2>1. Made(IDOrder[i], r) = <<rec>>
    BY <1>2 DEF Made, Kinds
  <2>2. rec \in Rec
    BY <1>2, PlaceOf DEF Rec
  <2>3. Rank(Key(rec)) = 2 * i + (IF kind = "rotation" THEN 1 ELSE 0)
    <3>1. Key(rec) = <<IDOrder[i], kind>>
      BY DEF Key
    <3> QED BY <3>1, PlaceOf DEF Rank
  <2> HIDE DEF rec
  <2>4. <<rec>> \in Seq(Rec) /\ Len(<<rec>>) = 1 /\ DOMAIN <<rec>> = {1} /\ <<rec>>[1] = rec
    BY <2>2
  <2> QED BY <2>1, <2>3, <2>4
<1> QED BY <1>1, <1>2

LEMMA AtMostTwo ==
    ASSUME NEW i \in Nat, NEW s \in Seq(Rec), NEW t \in Seq(Rec), Len(s) <= 1, Len(t) <= 1,
           \A k \in DOMAIN s : Rank(Key(s[k])) = 2 * i,
           \A k \in DOMAIN t : Rank(Key(t[k])) = 2 * i + 1
    PROVE  /\ s \o t \in Seq(Rec) /\ Len(s \o t) <= 2 /\ Ascending(s \o t)
           /\ \A k \in DOMAIN (s \o t) : Rank(Key((s \o t)[k])) \in {2 * i, 2 * i + 1}
<1>1. /\ s \o t \in Seq(Rec) /\ Len(s \o t) = Len(s) + Len(t)
      /\ \A k \in DOMAIN (s \o t) :
            \/ k \in DOMAIN s /\ (s \o t)[k] = s[k] /\ k = 1
            \/ k - Len(s) \in DOMAIN t /\ (s \o t)[k] = t[k - Len(s)] /\ k = Len(s) + 1
  OBVIOUS
<1>2. \A k \in DOMAIN (s \o t) : Rank(Key((s \o t)[k])) \in {2 * i, 2 * i + 1}
  BY <1>1
<1>3. Ascending(s \o t)
  <2> SUFFICES ASSUME NEW k \in DOMAIN (s \o t), NEW l \in DOMAIN (s \o t), k < l
               PROVE  Rank(Key((s \o t)[k])) < Rank(Key((s \o t)[l]))
    BY DEF Ascending
  <2>1. k \in DOMAIN s /\ (s \o t)[k] = s[k]
    BY <1>1
  <2>2. l - Len(s) \in DOMAIN t /\ (s \o t)[l] = t[l - Len(s)]
    BY <1>1
  <2> QED BY <2>1, <2>2
<1>4. Len(s \o t) <= 2
  BY <1>1
<1> QED BY <1>1, <1>2, <1>3, <1>4

LEMMA OfOneIdentity ==
    ASSUME NEW i \in DOMAIN IDOrder, NEW g \in Estates, IDOrder[i] \in DOMAIN g
    PROVE  LET s == RecommendationsOf(IDOrder[i], g[IDOrder[i]])
           IN  /\ s \in Seq(Rec) /\ Len(s) <= 2 /\ Ascending(s)
               /\ \A k \in DOMAIN s : Rank(Key(s[k])) \in {2 * i, 2 * i + 1}
<1> DEFINE id == IDOrder[i]
           a == Generate(g[id])
           b == GenerateRotation(id, g[id])
           s == Made(id, a)
           t == Made(id, b)
<1>0. i \in Nat
  BY OrderAssumption
<1>1. a = NoRecommendation \/ (a.kind = "right_size" /\ a.unused \in SUBSET Names)
  <2>1. g[id].permissions \subseteq Permission
    BY EstatesAssumption
  <2>2. Unused(g[id]) \in SUBSET Names
    BY <2>1 DEF Unused, Permission
  <2> QED BY <2>2 DEF Generate
<1>2. b = NoRecommendation \/ (b.kind = "rotation" /\ b.unused \in SUBSET Names)
  BY DEF GenerateRotation, NoRecommendation
<1> HIDE DEF a, b
<1>3. /\ s \in Seq(Rec) /\ Len(s) <= 1
      /\ \A k \in DOMAIN s : Rank(Key(s[k])) = 2 * i
  <2>1. "right_size" \in Kinds /\ "right_size" # "rotation"
    BY DEF Kinds
  <2>2. 2 * i + 0 = 2 * i
    BY <1>0
  <2> QED BY <1>1, <2>1, <2>2, OneAtMost
<1>4. /\ t \in Seq(Rec) /\ Len(t) <= 1
      /\ \A k \in DOMAIN t : Rank(Key(t[k])) = 2 * i + 1
  <2>1. "rotation" \in Kinds
    BY DEF Kinds
  <2> QED BY <1>2, <2>1, OneAtMost
<1>5. RecommendationsOf(id, g[id]) = s \o t
  BY DEF RecommendationsOf, a, b
<1> HIDE DEF s, t
<1> QED BY <1>0, <1>3, <1>4, <1>5, AtMostTwo

LEMMA ABatchIsInOrder ==
    ASSUME NEW g \in Estates
    PROVE  Recommendations(g, IDOrder) \in Seq(Rec) /\ Batch(Recommendations(g, IDOrder))
<1> DEFINE Of(i) == IF IDOrder[i] \in DOMAIN g THEN RecommendationsOf(IDOrder[i], g[IDOrder[i]])
                    ELSE <<>>
           qs == [i \in DOMAIN IDOrder |-> Of(i)]
           Keeps == {p \in Nat \X Seq(Rec) :
                       /\ Ascending(p[2]) /\ Len(p[2]) <= 2 * p[1]
                       /\ \A k \in DOMAIN p[2] : Rank(Key(p[2][k])) \in Nat
                                                 /\ Rank(Key(p[2][k])) <= 2 * p[1] + 1}
<1>1. \A i \in DOMAIN IDOrder : /\ Of(i) \in Seq(Rec) /\ Len(Of(i)) <= 2 /\ Ascending(Of(i))
                                /\ \A k \in DOMAIN Of(i) : Rank(Key(Of(i)[k])) \in {2 * i, 2 * i + 1}
  <2> TAKE i \in DOMAIN IDOrder
  <2>1. CASE IDOrder[i] \in DOMAIN g
    BY <2>1, OfOneIdentity
  <2>2. CASE IDOrder[i] \notin DOMAIN g
    <3>1. Of(i) = <<>>
      BY <2>2
    <3> HIDE DEF Of
    <3> QED BY <3>1 DEF Ascending
  <2> QED BY <2>1, <2>2
<1> HIDE DEF Of
<1>2. qs \in Seq(Seq(Rec)) /\ Len(qs) = Len(IDOrder) /\ DOMAIN qs = DOMAIN IDOrder
  BY <1>1, OrderAssumption
<1>3. \A i \in DOMAIN IDOrder : qs[i] = Of(i)
  OBVIOUS
<1>4. FlattenSeq(qs) = Recommendations(g, IDOrder)
  BY DEF Recommendations, Of
<1> HIDE DEF qs
<1>5. <<0, <<>> >> \in Keeps
  <2>1. <<>> \in Seq(Rec) /\ DOMAIN <<>> = {} /\ Len(<<>>) <= 2 * 0 /\ 0 \in Nat
    OBVIOUS
  <2>2. Ascending(<<>>)
    BY DEF Ascending
  <2> DEFINE p == <<0, <<>> >>
  <2>3. p \in Nat \X Seq(Rec) /\ p[1] = 0 /\ p[2] = <<>>
    BY <2>1
  <2> HIDE DEF p
  <2>4. p \in Keeps
    BY <2>1, <2>2, <2>3
  <2> QED BY <2>4 DEF p
<1>6. ASSUME NEW n \in Nat, NEW s \in Seq(Rec), n < Len(qs), <<n, s>> \in Keeps
      PROVE  <<n + 1, s \o qs[n + 1]>> \in Keeps
  <2> DEFINE t == qs[n + 1]
  <2>1. n + 1 \in DOMAIN IDOrder
    BY <1>2, <1>6
  <2>2. /\ t \in Seq(Rec) /\ Len(t) <= 2 /\ Ascending(t)
        /\ \A k \in DOMAIN t : Rank(Key(t[k])) \in {2 * (n + 1), 2 * (n + 1) + 1}
    BY <1>1, <1>3, <2>1
  <2>3. /\ Ascending(s) /\ Len(s) <= 2 * n
        /\ \A k \in DOMAIN s : Rank(Key(s[k])) \in Nat /\ Rank(Key(s[k])) <= 2 * n + 1
    BY <1>6
  <2> HIDE DEF t
  <2>4. /\ s \o t \in Seq(Rec) /\ Len(s \o t) = Len(s) + Len(t)
        /\ \A k \in DOMAIN (s \o t) :
              \/ k \in DOMAIN s /\ (s \o t)[k] = s[k] /\ k <= Len(s)
              \/ k - Len(s) \in DOMAIN t /\ (s \o t)[k] = t[k - Len(s)] /\ k > Len(s)
    BY <2>2
  <2>5. \A k \in DOMAIN (s \o t) : Rank(Key((s \o t)[k])) \in Nat
                                   /\ Rank(Key((s \o t)[k])) <= 2 * (n + 1) + 1
    BY <2>2, <2>3, <2>4
  <2>6. Ascending(s \o t)
    <3> SUFFICES ASSUME NEW k \in DOMAIN (s \o t), NEW l \in DOMAIN (s \o t), k < l
                 PROVE  Rank(Key((s \o t)[k])) < Rank(Key((s \o t)[l]))
      BY DEF Ascending
    <3>1. k \in Nat /\ l \in Nat /\ Len(s) \in Nat
      BY <2>4
    <3>2. CASE l \in DOMAIN s /\ (s \o t)[l] = s[l] /\ l <= Len(s)
      <4>1. k \in DOMAIN s /\ (s \o t)[k] = s[k]
        BY <2>4, <3>1, <3>2
      <4> QED BY <2>3, <3>2, <4>1 DEF Ascending
    <3>3. CASE /\ l - Len(s) \in DOMAIN t /\ (s \o t)[l] = t[l - Len(s)] /\ l > Len(s)
               /\ k \in DOMAIN s /\ (s \o t)[k] = s[k]
      BY <2>2, <2>3, <3>3
    <3>4. CASE /\ l - Len(s) \in DOMAIN t /\ (s \o t)[l] = t[l - Len(s)]
               /\ k - Len(s) \in DOMAIN t /\ (s \o t)[k] = t[k - Len(s)]
      <4>1. k - Len(s) < l - Len(s)
        BY <3>1
      <4> QED BY <2>2, <3>4, <4>1 DEF Ascending
    <3> QED BY <2>4, <3>2, <3>3, <3>4
  <2>7. Len(s \o t) <= 2 * (n + 1)
    BY <2>2, <2>3, <2>4
  <2>n. n + 1 \in Nat
    OBVIOUS
  <2> DEFINE p == <<n + 1, s \o t>>
  <2>8. p \in Nat \X Seq(Rec) /\ p[1] = n + 1 /\ p[2] = s \o t
    BY <2>4, <2>n, Zenon
  <2> HIDE DEF p
  <2>9. p \in Keeps
    BY <2>5, <2>6, <2>7, <2>8
  <2> QED BY <2>9 DEF p, t
<1>7. FlattenSeq(qs) \in Seq(Rec) /\ <<Len(qs), FlattenSeq(qs)>> \in Keeps
  <2> HIDE DEF Keeps
  <2> QED BY <1>2, <1>5, <1>6, FlattenStepwise
<1> QED BY <1>2, <1>4, <1>7 DEF Batch

-----------------------------------------------------------------------------
(* A name for each: of one more suffix than there are files one is free.    *)

LEMMA FreeNameIsFree ==
    ASSUME Types, NEW r \in Runs, Control(run[r]), Unwritten(r)
    PROVE  LET rec == run[r].recs[run[r].next]
               file == FreeName(r, rec)
           IN  /\ rec \in Rec /\ file \in Files
               /\ \A k \in DOMAIN run[r].written : run[r].written[k].file # file
<1> DEFINE rec == run[r].recs[run[r].next]
           W == run[r].written
           L == Len(W)
           name(n) == <<rec.kind, Segment[<<rec.identity, n>>]>>
           used == {a.file : a \in ToSet(W)}
           free == {n \in 1..(L + 1) : name(n) \notin used}
           Least(m) == m \in free /\ \A n \in free : m <= n
<1>1. run[r] \in RunState /\ W \in Seq(Artifact) /\ L \in Nat /\ run[r].recs \in Seq(Rec)
  BY DEF Types, RunState
<1>2. rec \in Rec /\ L + 1 <= Len(run[r].recs)
  BY <1>1 DEF Unwritten, At, Control, InStep, RunState
<1>3. rec.kind \in Kinds /\ rec.identity \in IDs
  BY <1>2 DEF Rec
<1>4. L + 1 <= 2 * Len(IDOrder) /\ Len(IDOrder) \in Nat
  BY <1>1, <1>2, OrderAssumption DEF Control, Batch
<1>5. \A n \in Nat : name(n) \in Files
  BY <1>3 DEF Files
<1>6. used = {W[k].file : k \in 1..L}
  BY <1>1 DEF ToSet
<1>7. FreeName(r, rec) = name(CHOOSE m \in free : \A n \in free : m <= n)
  BY DEF FreeName
<1> HIDE DEF rec
<1>8. \A n, m \in 1..(L + 1) : name(n) = name(m) => n = m
  <2> SUFFICES ASSUME NEW n \in 1..(L + 1), NEW m \in 1..(L + 1), name(n) = name(m)
               PROVE  n = m
    OBVIOUS
  <2>1. Segment[<<rec.identity, n>>] = Segment[<<rec.identity, m>>]
    OBVIOUS
  <2>2. n \in 1..(2 * Len(IDOrder)) /\ m \in 1..(2 * Len(IDOrder))
    BY <1>1, <1>4
  <2> QED BY <1>3, <2>1, <2>2, SegmentAssumption DEF IDs
<1> HIDE DEF W, L, name, used
<1>9. free # {}
  <2> SUFFICES ASSUME \A n \in 1..(L + 1) : \E k \in 1..L : W[k].file = name(n) PROVE FALSE
    BY <1>6
  <2> DEFINE f == [n \in 1..(L + 1) |-> CHOOSE k \in 1..L : W[k].file = name(n)]
  <2>1. f \in [1..(L + 1) -> 1..L] /\ \A n \in 1..(L + 1) : W[f[n]].file = name(n)
    OBVIOUS
  <2> HIDE DEF f
  <2>2. IsFiniteSet(1..(L + 1)) /\ Cardinality(1..(L + 1)) = L + 1
    <3>1. L + 1 \in Int /\ ~(1 > L + 1) /\ (L + 1) - 1 + 1 = L + 1 /\ 1 \in Int
      BY <1>1
    <3> QED BY <3>1, FS_Interval
  <2>3. IsFiniteSet(1..L) /\ Cardinality(1..L) = L
    <3>1. L \in Int /\ (1 > L => L = 0) /\ L - 1 + 1 = L /\ 1 \in Int
      BY <1>1
    <3> QED BY <3>1, FS_Interval
  <2>4. L < L + 1
    BY <1>1
  <2>5. \E n, m \in 1..(L + 1) : n # m /\ f[n] = f[m]
    <3>1. Cardinality(1..L) < Cardinality(1..(L + 1))
      BY <2>2, <2>3, <2>4
    <3> DEFINE S == 1..(L + 1)
               T == 1..L
    <3>2. /\ IsFiniteSet(S) /\ IsFiniteSet(T) /\ Cardinality(T) < Cardinality(S)
          /\ f \in [S -> T]
      BY <2>1, <2>2, <2>3, <3>1
    <3> HIDE DEF S, T
    <3>3. \E n, m \in S : n # m /\ f[n] = f[m]
      BY <3>2, FS_PigeonHole
    <3> QED BY <3>3 DEF S
  <2> QED BY <1>8, <2>1, <2>5
<1>10. free \in SUBSET Nat
  BY <1>1
<1> DEFINE m0 == CHOOSE m \in free : \A n \in free : m <= n
<1>11. m0 \in free
  <2> HIDE DEF free
  <2> QED BY <1>9, <1>10, LeastOf
<1>12. FreeName(r, rec) = name(m0)
  BY <1>7
<1>13. m0 \in Nat /\ name(m0) \notin used
  BY <1>10, <1>11
<1> HIDE DEF m0, free
<1>14. FreeName(r, rec) \in Files
  BY <1>5, <1>12, <1>13
<1>15. \A k \in DOMAIN W : W[k].file # FreeName(r, rec)
  BY <1>1, <1>6, <1>12, <1>13 DEF L
<1> QED BY <1>2, <1>14, <1>15 DEF rec, W

-----------------------------------------------------------------------------
(* What a step does to the runs: one moves, the others go on undisturbed or *)
(* not.                                                                    *)

Calm(q) == run'[q] = run[q] \/ run'[q] = [run[q] EXCEPT !.alone = FALSE]
Moves(r, x) == run' = [q \in Runs |-> IF q = r THEN x ELSE run'[q]]
               /\ \A q \in Runs \ {r} : Calm(q)

Disturbed(x) == [x EXCEPT !.alone = FALSE]

LEMMA DisturbedIsSound ==
    ASSUME NEW x \in RunState, Control(x)
    PROVE  Disturbed(x) \in RunState /\ Control(Disturbed(x))
<1>1. Disturbed(x) \in RunState
  BY DEF Disturbed, RunState
<1>2. /\ Disturbed(x).pc = x.pc /\ Disturbed(x).mode = x.mode /\ Disturbed(x).recs = x.recs
      /\ Disturbed(x).at = x.at /\ Disturbed(x).next = x.next /\ Disturbed(x).written = x.written
  BY DEF Disturbed, RunState
<1> QED BY <1>1, <1>2 DEF Control, InStep

LEMMA DisturbingOthers ==
    ASSUME Types, NEW r \in Runs
    PROVE  /\ Disturbing(r) \in [Runs -> RunState] /\ Disturbing(r)[r] = run[r]
           /\ \A q \in Runs \ {r} : Disturbing(r)[q] = Disturbed(run[q])
<1>1. \A q \in Runs : run[q] \in RunState /\ Disturbed(run[q]) \in RunState
  BY DEF Types, Disturbed, RunState
<1> QED BY <1>1 DEF Disturbing, Disturbed

(* The run WriteFile leaves. *)
Written(r) ==
    LET rec == run[r].recs[run[r].next]
    IN  [run[r] EXCEPT !.next = @ + 1, !.written =
            Append(@, [identity |-> rec.identity, kind |-> rec.kind, file |-> FreeName(r, rec)])]

LEMMA Shapes ==
    ASSUME Types, NEW r \in Runs
    PROVE  /\ \A g \in Estates :
                 LET recs == Recommendations(g, IDOrder)
                     x == [run[r] EXCEPT !.pc = First(run[r].mode, recs), !.recs = recs]
                 IN  run' = [run EXCEPT ![r].pc = First(run[r].mode, recs), ![r].recs = recs]
                        => Moves(r, x)
           /\ Fail(r) => Moves(r, [run[r] EXCEPT !.pc = "failed"])
           /\ BeginSave(r) => Moves(r, [run[r] EXCEPT !.pc = "saving",
                                  !.at = 1 + Cardinality({q \in Runs : run[q].at # 0})])
           /\ UpsertRow(r) => Moves(r, [run[r] EXCEPT !.next = @ + 1])
           /\ CommitSave(r) => Moves(r, [run[r] EXCEPT !.pc = "done"])
           /\ WriteFile(r) => Moves(r, Written(r))
           /\ WriteManifest(r) =>
                 Moves(r, [run[r] EXCEPT !.pc = IF run[r].mode = "out" THEN "done" ELSE "add"])
           /\ Preflight(r) => Moves(r, [run[r] EXCEPT !.pc = "checkout", !.alone = TRUE])
           /\ CheckoutBranch(r) =>
                 Moves(r, [run[r] EXCEPT !.pc = "write", !.fork = commits[head]])
           /\ AddSubDir(r) => Moves(r, [run[r] EXCEPT !.pc = "commit"])
           /\ GitCommit(r) => Moves(r, [run[r] EXCEPT !.pc = "push"])
           /\ Push(r) => Moves(r, [run[r] EXCEPT !.pc = "create"])
           /\ CreatePR(r) => Moves(r, [run[r] EXCEPT !.pc = "done"])
<1>1. DOMAIN run = Runs /\ run = [q \in Runs |-> run[q]]
  BY DEF Types
<1>2. /\ Disturbing(r) = [q \in Runs |-> Disturbing(r)[q]] /\ Disturbing(r)[r] = run[r]
      /\ \A q \in Runs \ {r} : Disturbing(r)[q] = [run[q] EXCEPT !.alone = FALSE]
  BY DisturbingOthers DEF Disturbed
<1>3. \A x : run' = [run EXCEPT ![r] = x] => Moves(r, x) /\ \A q \in Runs \ {r} : run'[q] = run[q]
  BY <1>1 DEF Moves, Calm
<1>4. \A x : run' = [Disturbing(r) EXCEPT ![r] = x] => Moves(r, x)
  BY <1>2 DEF Moves, Calm
<1>5. ASSUME NEW a, NEW b
      PROVE  /\ run' = [run EXCEPT ![r].pc = a, ![r].recs = b]
                   => Moves(r, [run[r] EXCEPT !.pc = a, !.recs = b])
             /\ run' = [run EXCEPT ![r].pc = a, ![r].at = b]
                   => Moves(r, [run[r] EXCEPT !.pc = a, !.at = b])
             /\ run' = [run EXCEPT ![r].pc = a, ![r].alone = b]
                   => Moves(r, [run[r] EXCEPT !.pc = a, !.alone = b])
             /\ run' = [run EXCEPT ![r].next = a, ![r].written = b]
                   => Moves(r, [run[r] EXCEPT !.next = a, !.written = b])
  <2>1. /\ [run EXCEPT ![r].pc = a, ![r].recs = b]
              = [run EXCEPT ![r] = [run[r] EXCEPT !.pc = a, !.recs = b]]
        /\ [run EXCEPT ![r].pc = a, ![r].at = b]
              = [run EXCEPT ![r] = [run[r] EXCEPT !.pc = a, !.at = b]]
        /\ [run EXCEPT ![r].pc = a, ![r].alone = b]
              = [run EXCEPT ![r] = [run[r] EXCEPT !.pc = a, !.alone = b]]
        /\ [run EXCEPT ![r].next = a, ![r].written = b]
              = [run EXCEPT ![r] = [run[r] EXCEPT !.next = a, !.written = b]]
    BY <1>1
  <2> QED BY <1>3, <2>1
<1>6. ASSUME NEW f, NEW a, NEW b, f = Disturbing(r)
      PROVE  /\ run' = [f EXCEPT ![r].next = a, ![r].written = b]
                   => Moves(r, [run[r] EXCEPT !.next = a, !.written = b])
             /\ run' = [f EXCEPT ![r].pc = a, ![r].fork = b]
                   => Moves(r, [run[r] EXCEPT !.pc = a, !.fork = b])
             /\ run' = [f EXCEPT ![r].pc = a] => Moves(r, [run[r] EXCEPT !.pc = a])
  <2>0. f = [q \in Runs |-> f[q]] /\ f[r] = run[r]
    BY <1>2, <1>6
  <2>1. /\ [f EXCEPT ![r].next = a, ![r].written = b]
              = [f EXCEPT ![r] = [run[r] EXCEPT !.next = a, !.written = b]]
        /\ [f EXCEPT ![r].pc = a, ![r].fork = b]
              = [f EXCEPT ![r] = [run[r] EXCEPT !.pc = a, !.fork = b]]
        /\ [f EXCEPT ![r].pc = a] = [f EXCEPT ![r] = [run[r] EXCEPT !.pc = a]]
    BY <2>0
  <2>2. \A x : run' = [f EXCEPT ![r] = x] => Moves(r, x)
    BY <1>4, <1>6
  <2> QED BY <2>1, <2>2
<1>7. ASSUME NEW g \in Estates
      PROVE LET recs == Recommendations(g, IDOrder)
                x == [run[r] EXCEPT !.pc = First(run[r].mode, recs), !.recs = recs]
            IN  run' = [run EXCEPT ![r].pc = First(run[r].mode, recs), ![r].recs = recs]
                   => Moves(r, x)
  BY <1>5, Zenon
<1>8. Fail(r) => Moves(r, [run[r] EXCEPT !.pc = "failed"])
  BY <1>3 DEF Fail, Goes
<1>9. BeginSave(r) => Moves(r, [run[r] EXCEPT !.pc = "saving",
                                  !.at = 1 + Cardinality({q \in Runs : run[q].at # 0})])
  BY <1>5, Zenon DEF BeginSave
<1>10. UpsertRow(r) => Moves(r, [run[r] EXCEPT !.next = @ + 1])
  BY <1>3 DEF UpsertRow
<1>11. CommitSave(r) => Moves(r, [run[r] EXCEPT !.pc = "done"])
  BY <1>3 DEF CommitSave, Goes
<1>12. Preflight(r) => Moves(r, [run[r] EXCEPT !.pc = "checkout", !.alone = TRUE])
  BY <1>5, Zenon DEF Preflight
<1>13. CheckoutBranch(r) => Moves(r, [run[r] EXCEPT !.pc = "write", !.fork = commits[head]])
  BY <1>6, Zenon DEF CheckoutBranch
<1>14. AddSubDir(r) => Moves(r, [run[r] EXCEPT !.pc = "commit"])
  BY <1>6, Zenon DEF AddSubDir
<1>15. GitCommit(r) => Moves(r, [run[r] EXCEPT !.pc = "push"])
  BY <1>6, Zenon DEF GitCommit
<1>16. Push(r) => Moves(r, [run[r] EXCEPT !.pc = "create"])
  BY <1>3 DEF Push, Goes
<1>17. CreatePR(r) => Moves(r, [run[r] EXCEPT !.pc = "done"])
  BY <1>3 DEF CreatePR, Goes
<1>18. WriteManifest(r) =>
          Moves(r, [run[r] EXCEPT !.pc = IF run[r].mode = "out" THEN "done" ELSE "add"])
  <2> SUFFICES ASSUME WriteManifest(r)
               PROVE  Moves(r, [run[r] EXCEPT !.pc = IF run[r].mode = "out" THEN "done" ELSE "add"])
    OBVIOUS
  <2>1. CASE run[r].mode = "out"
    BY <1>3, <2>1 DEF WriteManifest
  <2>2. CASE run[r].mode # "out"
    BY <1>6, <2>2, Zenon DEF WriteManifest
  <2> QED BY <2>1, <2>2
<1>19. WriteFile(r) => Moves(r, Written(r))
  <2> SUFFICES ASSUME WriteFile(r) PROVE Moves(r, Written(r))
    OBVIOUS
  <2> DEFINE rec == run[r].recs[run[r].next]
             a == [identity |-> rec.identity, kind |-> rec.kind, file |-> FreeName(r, rec)]
  <2>1. CASE run[r].mode = "out"
    <3>1. run' = [run EXCEPT ![r].next = @ + 1, ![r].written = Append(@, a)]
      BY <2>1 DEF WriteFile
    <3> QED BY <1>5, <3>1, Zenon DEF Written
  <2>2. CASE run[r].mode # "out"
    <3>1. run' = [Disturbing(r) EXCEPT ![r].next = run[r].next + 1,
                                       ![r].written = Append(run[r].written, a)]
      BY <1>2, <2>2 DEF WriteFile
    <3> QED BY <1>6, <3>1, Zenon DEF Written
  <2> QED BY <2>1, <2>2
<1> QED BY <1>7, <1>8, <1>9, <1>10, <1>11, <1>12, <1>13, <1>14, <1>15, <1>16, <1>17, <1>18, <1>19

(* What it does to the trees. *)

Put(t, r, rec, file) ==
    [t EXCEPT !.files = [f \in DOMAIN @ \cup {file} |->
                           IF f = file THEN [code |-> rec.code, by |-> r] ELSE @[f]]]

Sealed(t, r) == [t EXCEPT !.manifest = [by |-> r, artifacts |-> run[r].written]]

LEMMA TreeShapes ==
    ASSUME NEW r \in Runs
    PROVE  /\ WriteFile(r) =>
                 LET rec == run[r].recs[run[r].next]
                     file == FreeName(r, rec)
                 IN  IF run[r].mode = "out" THEN out' = Put(out, r, rec, file) /\ UNCHANGED repo
                     ELSE /\ work' = Put(work, r, rec, file)
                          /\ UNCHANGED <<out, head, commits, index, pushed, prs, moves>>
           /\ WriteManifest(r) =>
                 IF run[r].mode = "out" THEN out' = Sealed(out, r) /\ UNCHANGED repo
                 ELSE /\ work' = Sealed(work, r)
                      /\ UNCHANGED <<out, head, commits, index, pushed, prs, moves>>
BY Zenon DEF WriteFile, WriteManifest, InTree, Put, Sealed

LEMMA TreesStayTrees ==
    ASSUME NEW t \in Tree, NEW r \in Runs, NEW rec \in Rec, NEW file \in Files
    PROVE  /\ Put(t, r, rec, file) \in Tree
           /\ DOMAIN Put(t, r, rec, file).files = DOMAIN t.files \cup {file}
           /\ Put(t, r, rec, file).files[file] = [code |-> rec.code, by |-> r]
           /\ \A f \in DOMAIN t.files \ {file} : Put(t, r, rec, file).files[f] = t.files[f]
           /\ Put(t, r, rec, file).manifest = t.manifest
           /\ Put(t, r, rec, file).other = t.other
<1> DEFINE C == [code : SUBSET Names, by : Runs]
           new == [f \in DOMAIN t.files \cup {file} |->
                     IF f = file THEN [code |-> rec.code, by |-> r] ELSE t.files[f]]
<1>1. PICK fs \in SUBSET Files : t.files \in [fs -> C]
  BY DEF Tree, Contents
<1>2. new \in [fs \cup {file} -> C] /\ fs \cup {file} \in SUBSET Files
  BY <1>1 DEF Rec
<1>3. new \in Contents
  BY <1>2 DEF Contents
<1>4. Put(t, r, rec, file) = [files |-> new, manifest |-> t.manifest, other |-> t.other]
  BY DEF Put, Tree
<1>5. /\ DOMAIN new = DOMAIN t.files \cup {file} /\ new[file] = [code |-> rec.code, by |-> r]
      /\ \A f \in DOMAIN t.files \ {file} : new[f] = t.files[f]
  OBVIOUS
<1> HIDE DEF new
<1>6. Put(t, r, rec, file) \in Tree
  BY <1>3, <1>4 DEF Tree
<1> QED BY <1>4, <1>5, <1>6

LEMMA SealedIsATree ==
    ASSUME Types, NEW t \in Tree, NEW r \in Runs
    PROVE  /\ Sealed(t, r) \in Tree
           /\ Sealed(t, r) = [files |-> t.files, other |-> t.other,
                              manifest |-> [by |-> r, artifacts |-> run[r].written]]
<1>1. run[r].written \in Seq(Artifact)
  BY DEF Types, RunState
<1>2. Sealed(t, r) = [files |-> t.files, other |-> t.other,
                      manifest |-> [by |-> r, artifacts |-> run[r].written]]
  BY DEF Sealed, Tree
<1>3. [by |-> r, artifacts |-> run[r].written] \in Manifest
  BY <1>1 DEF Manifest
<1> QED BY <1>2, <1>3 DEF Tree

-----------------------------------------------------------------------------
(* Base is inductive. *)

LEMMA EmptyTreeIsATree == EmptyTree \in Tree
<1>1. <<>> \in Contents
  <2>1. <<>> \in [{} -> [code : SUBSET Names, by : Runs]] /\ {} \in SUBSET Files
    OBVIOUS
  <2> QED BY <2>1 DEF Contents
<1>2. NoManifest \in Manifest
  BY DEF NoManifest, Manifest
<1> QED BY <1>1, <1>2 DEF EmptyTree, Tree

LEMMA BaseAtFirst == Init => Base
<1> SUFFICES ASSUME Init PROVE Base
  OBVIOUS
<1>1. EmptyTree \in Tree
  BY EmptyTreeIsATree
<1>2. ASSUME NEW r \in Runs
      PROVE  /\ run[r] \in RunState /\ Control(run[r]) /\ Branched(r)
  <2>1. PICK mode \in Modes :
           run = [q \in Runs |-> [pc |-> "idle", mode |-> mode[q], recs |-> <<>>, at |-> 0, next |-> 1,
                                  written |-> <<>>, fork |-> EmptyTree, alone |-> FALSE]]
    BY DEF Init
  <2>2. mode[r] \in {"save-db", "out", "open-pr"}
    BY ModesAssumption
  <2>3. run[r] \in RunState
    BY <1>1, <2>1, <2>2 DEF RunState
  <2>4. /\ run[r].pc = "idle" /\ run[r].recs = <<>> /\ run[r].at = 0 /\ run[r].next = 1
        /\ run[r].written = <<>>
    BY <2>1
  <2>5. Batch(<<>>)
    BY OrderAssumption DEF Batch, Ascending
  <2>6. Cardinality(Runs) \in Nat
    BY RunsAssumption, FS_CardinalityType
  <2>7. Control(run[r])
    BY <2>4, <2>5, <2>6 DEF Control, InStep, InOpenPR
  <2> QED BY <2>3, <2>4, <2>7 DEF Branched
<1>3. run \in [Runs -> RunState]
  <2>1. DOMAIN run = Runs /\ run = [q \in Runs |-> run[q]]
    BY DEF Init
  <2> QED BY <1>2, <2>1
<1>4. Types
  <2>1. commits \in [DOMAIN commits -> Tree] /\ pushed \in [DOMAIN pushed -> Tree]
    BY <1>1 DEF Init
  <2> QED BY <1>1, <1>3, <2>1, MovesAssumption DEF Types, Places, Init
<1>5. DOMAIN commits = {"main"} /\ DOMAIN pushed = {} /\ head = "main"
  BY DEF Init
<1> QED BY <1>2, <1>4, <1>5 DEF Base, Branches

(* The run that moves is as sound as it was. *)
LEMMA MovedIsSound ==
    ASSUME Base, NEW r \in Runs
    PROVE  /\ \A g \in Estates :
                 LET recs == Recommendations(g, IDOrder)
                     x == [run[r] EXCEPT !.pc = First(run[r].mode, recs), !.recs = recs]
                 IN  At(r, "idle") => x \in RunState /\ Control(x)
           /\ \A x : Fail(r) /\ x = [run[r] EXCEPT !.pc = "failed"] => x \in RunState /\ Control(x)
           /\ \A x : /\ BeginSave(r)
                     /\ x = [run[r] EXCEPT !.pc = "saving",
                                  !.at = 1 + Cardinality({q \in Runs : run[q].at # 0})]
                     => x \in RunState /\ Control(x)
           /\ \A x : /\ UpsertRow(r) /\ x = [run[r] EXCEPT !.next = @ + 1]
                     => x \in RunState /\ Control(x)
           /\ \A x : /\ CommitSave(r) \/ CreatePR(r)
                     /\ x = [run[r] EXCEPT !.pc = "done"]
                     => x \in RunState /\ Control(x)
           /\ WriteFile(r) => Written(r) \in RunState /\ Control(Written(r))
           /\ \A x : /\ WriteManifest(r)
                     /\ x = [run[r] EXCEPT !.pc = IF run[r].mode = "out" THEN "done" ELSE "add"]
                     => x \in RunState /\ Control(x)
           /\ \A x : /\ Preflight(r) /\ x = [run[r] EXCEPT !.pc = "checkout", !.alone = TRUE]
                     => x \in RunState /\ Control(x)
           /\ \A x : /\ CheckoutBranch(r)
                     /\ x = [run[r] EXCEPT !.pc = "write", !.fork = commits[head]]
                     => x \in RunState /\ Control(x)
           /\ \A x : /\ AddSubDir(r) /\ x = [run[r] EXCEPT !.pc = "commit"]
                     => x \in RunState /\ Control(x)
           /\ \A x : /\ GitCommit(r) /\ x = [run[r] EXCEPT !.pc = "push"]
                     => x \in RunState /\ Control(x)
           /\ \A x : /\ Push(r) /\ x = [run[r] EXCEPT !.pc = "create"]
                     => x \in RunState /\ Control(x)
<1>1. run[r] \in RunState /\ Control(run[r])
  BY DEF Base, Types
<1>2. ASSUME NEW g \in Estates, At(r, "idle"), NEW x,
             x = [run[r] EXCEPT !.pc = First(run[r].mode, Recommendations(g, IDOrder)),
                                !.recs = Recommendations(g, IDOrder)]
      PROVE  x \in RunState /\ Control(x)
  <2>1. PICK recs \in Seq(Rec) : recs = Recommendations(g, IDOrder) /\ Batch(recs)
    BY ABatchIsInOrder
  <2>2. First(run[r].mode, recs) \in {"done", "begin", "failed", "preflight", "write"}
    BY <1>1 DEF RunState, First
  <2>3. x \in RunState
    BY <1>1, <1>2, <2>1, <2>2 DEF RunState
  <2>4. /\ x.pc = First(run[r].mode, recs) /\ x.recs = recs /\ x.mode = run[r].mode
        /\ x.next = 1 /\ x.written = <<>> /\ x.at = 0
    BY <1>1, <1>2, <2>1 DEF RunState, Control, At
  <2>5. Cardinality(Runs) \in Nat
    BY RunsAssumption, FS_CardinalityType
  <2>6. /\ First(x.mode, recs) = "begin" => x.mode = "save-db"
        /\ First(x.mode, recs) = "preflight" => x.mode = "open-pr"
        /\ First(x.mode, recs) = "write" => x.mode # "save-db"
    BY DEF First
  <2> QED BY <2>1, <2>2, <2>3, <2>4, <2>5, <2>6 DEF Control, InStep, InOpenPR
<1>3. ASSUME BeginSave(r), NEW x,
             x = [run[r] EXCEPT !.pc = "saving", !.at = 1 + Cardinality({q \in Runs : run[q].at # 0})]
      PROVE  x \in RunState /\ Control(x)
  <2> DEFINE begun == {q \in Runs : run[q].at # 0}
  <2>1. run[r].at = 0 /\ run[r].pc = "begin"
    BY <1>1, <1>3 DEF BeginSave, At, Control
  <2>2. begun \in SUBSET (Runs \ {r}) /\ IsFiniteSet(Runs \ {r})
        /\ Cardinality(Runs \ {r}) = Cardinality(Runs) - 1
    BY <2>1, RunsAssumption, FS_RemoveElement
  <2>3. Cardinality(begun) \in Nat /\ Cardinality(begun) <= Cardinality(Runs) - 1
    BY <2>2, FS_Subset, FS_CardinalityType
  <2>4. Cardinality(Runs) \in Nat
    BY RunsAssumption, FS_CardinalityType
  <2> HIDE DEF begun
  <2>5. x = [run[r] EXCEPT !.pc = "saving", !.at = 1 + Cardinality(begun)]
    BY <1>3 DEF begun
  <2>6. 1 + Cardinality(begun) \in 0..Cardinality(Runs) /\ 1 + Cardinality(begun) \in Nat
    BY <2>3, <2>4
  <2>7. x \in RunState
    BY <1>1, <2>5, <2>6 DEF RunState
  <2>8. /\ x.pc = "saving" /\ x.mode = "save-db" /\ x.recs = run[r].recs
        /\ x.next = run[r].next /\ x.written = run[r].written /\ x.at \in 0..Cardinality(Runs)
    BY <1>1, <2>1, <2>5, <2>6 DEF RunState, Control
  <2> QED BY <1>1, <2>7, <2>8 DEF Control, InOpenPR
<1>4. ASSUME UpsertRow(r), NEW x, x = [run[r] EXCEPT !.next = @ + 1]
      PROVE  x \in RunState /\ Control(x)
  <2>1. /\ x \in RunState /\ x.pc = "saving" /\ x.mode = run[r].mode /\ x.recs = run[r].recs
        /\ x.next = run[r].next + 1 /\ x.written = run[r].written /\ x.at = run[r].at
        /\ run[r].next <= Len(run[r].recs) /\ run[r].pc = "saving"
    BY <1>1, <1>4 DEF RunState, UpsertRow, Unsaved, At
  <2> QED BY <1>1, <2>1 DEF Control, InOpenPR, RunState
<1>5. ASSUME WriteFile(r)
      PROVE  Written(r) \in RunState /\ Control(Written(r))
  <2> DEFINE rec == run[r].recs[run[r].next]
             a == [identity |-> rec.identity, kind |-> rec.kind, file |-> FreeName(r, rec)]
             W == run[r].written
  <2>1. Unwritten(r) /\ run[r].pc = "write" /\ run[r].next <= Len(run[r].recs)
    BY <1>5 DEF WriteFile, Unwritten, At
  <2>2. rec \in Rec /\ FreeName(r, rec) \in Files /\ \A k \in DOMAIN W : W[k].file # FreeName(r, rec)
    BY <1>1, <2>1, FreeNameIsFree DEF Base
  <2>3. a \in Artifact /\ <<a.identity, a.kind>> = Key(rec) /\ a.file = FreeName(r, rec)
    BY <2>2 DEF Artifact, Rec, Key
  <2>4. W \in Seq(Artifact) /\ run[r].next \in Nat
    BY <1>1 DEF RunState
  <2> DEFINE V == Append(W, a)
  <2>5. Written(r) = [run[r] EXCEPT !.next = run[r].next + 1, !.written = V]
    BY DEF Written
  <2> HIDE DEF a
  <2>6. /\ V \in Seq(Artifact) /\ Len(V) = Len(W) + 1 /\ V[Len(W) + 1] = a
        /\ \A k \in DOMAIN W : V[k] = W[k]
        /\ DOMAIN V = DOMAIN W \cup {Len(W) + 1} /\ Len(W) + 1 \notin DOMAIN W
    BY <2>3, <2>4
  <2> HIDE DEF V
  <2>7. /\ Written(r) \in RunState
        /\ Written(r).pc = "write" /\ Written(r).mode = run[r].mode
        /\ Written(r).recs = run[r].recs /\ Written(r).at = run[r].at
        /\ Written(r).next = run[r].next + 1 /\ Written(r).written = V
    <3>1. V \in Seq(Artifact) /\ run[r].next + 1 \in Nat /\ run[r] \in RunState
      BY <1>1, <2>4, <2>6
    <3>3. PICK x \in RunState, v \in Seq(Artifact), n \in Nat :
             x = run[r] /\ v = V /\ n = run[r].next + 1
      BY <3>1
    <3>4. PICK y : y = Written(r)
      OBVIOUS
    <3>5. y = [x EXCEPT !.next = n, !.written = v]
      BY <2>5, <3>3, <3>4
    <3>6. /\ y \in RunState /\ y.pc = x.pc /\ y.mode = x.mode /\ y.recs = x.recs
          /\ y.at = x.at /\ y.next = n /\ y.written = v
      BY <3>5 DEF RunState
    <3> QED BY <2>1, <3>3, <3>4, <3>6
  <2>8. run[r].mode # "save-db" /\ InStep(run[r]) /\ Len(W) + 1 = run[r].next
    BY <1>1, <2>1 DEF Control, InStep, RunState
  <2>9. InStep(Written(r))
    <3>1. Len(V) = Written(r).next - 1
      BY <2>4, <2>6, <2>7, <2>8
    <3>2. \A k \in DOMAIN V : <<V[k].identity, V[k].kind>> = Key(run[r].recs[k])
      BY <2>3, <2>6, <2>8 DEF InStep
    <3>3. \A k, l \in DOMAIN V : k # l => V[k].file # V[l].file
      BY <2>2, <2>3, <2>6, <2>8 DEF InStep
    <3> QED BY <2>7, <3>1, <3>2, <3>3 DEF InStep
  <2>10. Written(r).next \in 1..(Len(run[r].recs) + 1)
    BY <1>1, <2>1, <2>7 DEF Control, RunState
  <2> QED BY <1>1, <2>7, <2>8, <2>9, <2>10 DEF Control, InOpenPR
<1>6. ASSUME WriteManifest(r), NEW x,
             x = [run[r] EXCEPT !.pc = IF run[r].mode = "out" THEN "done" ELSE "add"]
      PROVE  x \in RunState /\ Control(x)
  <2>1. /\ run[r].pc = "write" /\ ~(run[r].next <= Len(run[r].recs))
    BY <1>6 DEF WriteManifest, Unwritten, At
  <2>2. /\ x \in RunState /\ x.mode = run[r].mode /\ x.recs = run[r].recs /\ x.at = run[r].at
        /\ x.next = run[r].next /\ x.written = run[r].written
        /\ x.pc = (IF run[r].mode = "out" THEN "done" ELSE "add")
    BY <1>1, <1>6 DEF RunState
  <2>3. x.next = Len(x.recs) + 1
    BY <1>1, <2>1, <2>2 DEF Control, RunState
  <2>4. x.pc = "add" => x.mode = "open-pr"
    BY <1>1, <2>1, <2>2 DEF Control, RunState
  <2> QED BY <1>1, <2>1, <2>2, <2>3, <2>4 DEF Control, InOpenPR, InStep
<1>7. ASSUME CheckoutBranch(r), NEW x, x = [run[r] EXCEPT !.pc = "write", !.fork = commits[head]]
      PROVE  x \in RunState /\ Control(x)
  <2>1. commits[head] \in Tree
    BY DEF Base, Types, Places, Branches
  <2>2. /\ x \in RunState /\ x.mode = run[r].mode /\ x.recs = run[r].recs /\ x.at = run[r].at
        /\ x.next = run[r].next /\ x.written = run[r].written /\ x.pc = "write"
    BY <1>1, <1>7, <2>1 DEF RunState
  <2>3. run[r].pc = "checkout" /\ run[r].mode = "open-pr"
    BY <1>1, <1>7 DEF CheckoutBranch, At, Control, InOpenPR
  <2> QED BY <1>1, <2>2, <2>3 DEF Control, InOpenPR, InStep
<1>8. ASSUME NEW pc \in {"failed", "done", "checkout", "commit", "push", "create"},
             NEW alone \in BOOLEAN, NEW x, x = [run[r] EXCEPT !.pc = pc, !.alone = alone],
             pc = "checkout" => run[r].pc = "preflight",
             pc \in {"commit", "push", "create"} => run[r].pc \in {"add", "commit", "push"}
      PROVE  x \in RunState /\ Control(x)
  <2>1. /\ x \in RunState /\ x.mode = run[r].mode /\ x.recs = run[r].recs /\ x.at = run[r].at
        /\ x.next = run[r].next /\ x.written = run[r].written /\ x.pc = pc
    BY <1>1, <1>8 DEF RunState
  <2> QED BY <1>1, <1>8, <2>1 DEF Control, InOpenPR, InStep
<1>9. ASSUME NEW pc \in {"failed", "done", "commit", "push", "create"},
             NEW x, x = [run[r] EXCEPT !.pc = pc],
             pc \in {"commit", "push", "create"} => run[r].pc \in {"add", "commit", "push"}
      PROVE  x \in RunState /\ Control(x)
  <2>1. x = [run[r] EXCEPT !.pc = pc, !.alone = run[r].alone] /\ run[r].alone \in BOOLEAN
    BY <1>1, <1>9 DEF RunState
  <2> QED BY <1>8, <1>9, <2>1
<1> QED
  BY <1>2, <1>3, <1>4, <1>5, <1>6, <1>7, <1>8, <1>9
  DEF Fail, CommitSave, CreatePR, Preflight, AddSubDir, GitCommit, Push, At

LEMMA RunsStaySound ==
    ASSUME Base, NEW r \in Runs, NEW x \in RunState, Control(x), Moves(r, x)
    PROVE  /\ run' \in [Runs -> RunState] /\ run'[r] = x
           /\ \A q \in Runs : Control(run'[q])
           /\ \A q \in Runs \ {r} : run'[q].pc = run[q].pc /\ run'[q].mode = run[q].mode
<1>1. /\ DOMAIN run' = Runs /\ run' = [q \in Runs |-> run'[q]] /\ run'[r] = x
      /\ \A q \in Runs \ {r} : run'[q] = run[q] \/ run'[q] = Disturbed(run[q])
  BY DEF Moves, Calm, Disturbed
<1>2. \A q \in Runs : run[q] \in RunState /\ Control(run[q])
  BY DEF Base, Types
<1>3. \A q \in Runs \ {r} : /\ run'[q] \in RunState /\ Control(run'[q])
                            /\ run'[q].pc = run[q].pc /\ run'[q].mode = run[q].mode
  <2> TAKE q \in Runs \ {r}
  <2>1. Disturbed(run[q]).pc = run[q].pc /\ Disturbed(run[q]).mode = run[q].mode
    BY <1>2 DEF Disturbed, RunState
  <2>2. Disturbed(run[q]) \in RunState /\ Control(Disturbed(run[q]))
    BY <1>2, DisturbedIsSound
  <2> QED BY <1>1, <1>2, <2>1, <2>2
<1> QED BY <1>1, <1>3

LEMMA BaseByParts ==
    ASSUME Base, NEW r \in Runs, NEW x \in RunState, Control(x), Moves(r, x),
           Places', Branches', Branched(r)',
           DOMAIN commits \subseteq DOMAIN commits', DOMAIN pushed \subseteq DOMAIN pushed'
    PROVE  Base'
<1>1. /\ run' \in [Runs -> RunState] /\ \A q \in Runs : Control(run'[q])
      /\ \A q \in Runs \ {r} : run'[q].pc = run[q].pc /\ run'[q].mode = run[q].mode
  BY RunsStaySound
<1>2. \A q \in Runs : Branched(q)'
  <2> TAKE q \in Runs
  <2>1. Branched(q)
    BY DEF Base
  <2> QED BY <1>1, <2>1 DEF Branched
<1> QED BY <1>1, <1>2 DEF Base, Types

LEMMA BaseKept == Base /\ [Next]_vars => Base'
<1> USE DEF store, repo
<1>1. ASSUME Base, NEW r \in Runs, Start(r) PROVE Base'
  <2>1. PICK g \in Estates :
           /\ At(r, "idle") /\ UNCHANGED <<store, out, repo>>
           /\ run' = [run EXCEPT ![r].pc = First(run[r].mode, Recommendations(g, IDOrder)),
                                 ![r].recs = Recommendations(g, IDOrder)]
    BY <1>1 DEF Start
  <2>2. PICK x : x = [run[r] EXCEPT !.pc = First(run[r].mode, Recommendations(g, IDOrder)),
                                    !.recs = Recommendations(g, IDOrder)]
    OBVIOUS
  <2>3. Moves(r, x)
    BY <1>1, <2>1, <2>2, Shapes, Zenon DEF Base
  <2>4. x \in RunState /\ Control(x)
    BY <1>1, <2>1, <2>2, MovedIsSound, Zenon
  <2>5. Places' /\ Branches'
    BY <1>1, <2>1 DEF Base, Types, Places, Branches
  <2>6. Branched(r)'
    <3>1. run'[r].pc = First(run[r].mode, Recommendations(g, IDOrder)) /\ run'[r].mode = run[r].mode
      <4>1. run'[r] = x
        BY <1>1, <2>3, <2>4, RunsStaySound
      <4>2. run[r] \in RunState
        BY <1>1 DEF Base, Types
      <4>3. PICK p : p = First(run[r].mode, Recommendations(g, IDOrder))
        OBVIOUS
      <4>4. x.pc = p /\ x.mode = run[r].mode
        BY <2>2, <4>2, <4>3 DEF RunState
      <4> QED BY <4>1, <4>3, <4>4
    <3>2. run[r].mode = "open-pr" => run'[r].pc \in {"failed", "preflight"}
      BY <3>1 DEF First
    <3>3. run'[r].pc # "create"
      BY <3>1 DEF First
    <3> QED BY <3>1, <3>2, <3>3 DEF Branched
  <2> QED BY <1>1, <2>1, <2>3, <2>4, <2>5, <2>6, BaseByParts
<1>2. ASSUME Base, NEW r \in Runs, Fail(r) PROVE Base'
  <2>1. PICK x : x = [run[r] EXCEPT !.pc = "failed"]
    OBVIOUS
  <2>2. Moves(r, x)
    BY <1>2, <2>1, Shapes, Zenon DEF Base
  <2>3. x \in RunState /\ Control(x)
    BY <1>2, <2>1, MovedIsSound, Zenon
  <2>4. run[r] \in RunState /\ Control(run[r]) /\ Branched(r) /\ run'[r] = x
    BY <1>2, <2>2, <2>3, RunsStaySound DEF Base, Types
  <2>5. Places' /\ Branches'
    BY <1>2 DEF Fail, Base, Types, Places, Branches
  <2>6. DOMAIN commits \subseteq DOMAIN commits' /\ DOMAIN pushed \subseteq DOMAIN pushed'
    BY <1>2 DEF Fail
  <2>7. Branched(r)'
    BY <1>2, <2>1, <2>4 DEF Fail, Branched, RunState, At
  <2> QED BY <1>2, <2>2, <2>3, <2>5, <2>6, <2>7, BaseByParts
<1>3. ASSUME Base, NEW r \in Runs, BeginSave(r) PROVE Base'
  <2>1. PICK x : x = [run[r] EXCEPT !.pc = "saving",
                                  !.at = 1 + Cardinality({q \in Runs : run[q].at # 0})]
    OBVIOUS
  <2>2. Moves(r, x)
    BY <1>3, <2>1, Shapes, Zenon DEF Base
  <2>3. x \in RunState /\ Control(x)
    BY <1>3, <2>1, MovedIsSound, Zenon
  <2>4. run[r] \in RunState /\ Control(run[r]) /\ Branched(r) /\ run'[r] = x
    BY <1>3, <2>2, <2>3, RunsStaySound DEF Base, Types
  <2>5. Places' /\ Branches'
    BY <1>3 DEF BeginSave, Base, Types, Places, Branches
  <2>6. DOMAIN commits \subseteq DOMAIN commits' /\ DOMAIN pushed \subseteq DOMAIN pushed'
    BY <1>3 DEF BeginSave
  <2>7. Branched(r)'
    BY <1>3, <2>1, <2>4 DEF BeginSave, Branched, RunState, At
  <2> QED BY <1>3, <2>2, <2>3, <2>5, <2>6, <2>7, BaseByParts
<1>4. ASSUME Base, NEW r \in Runs, UpsertRow(r) PROVE Base'
  <2>1. PICK x : x = [run[r] EXCEPT !.next = @ + 1]
    OBVIOUS
  <2>2. Moves(r, x)
    BY <1>4, <2>1, Shapes, Zenon DEF Base
  <2>3. x \in RunState /\ Control(x)
    BY <1>4, <2>1, MovedIsSound, Zenon
  <2>4. run[r] \in RunState /\ Control(run[r]) /\ Branched(r) /\ run'[r] = x
    BY <1>4, <2>2, <2>3, RunsStaySound DEF Base, Types
  <2>5. Places' /\ Branches'
    BY <1>4 DEF UpsertRow, Base, Types, Places, Branches
  <2>6. DOMAIN commits \subseteq DOMAIN commits' /\ DOMAIN pushed \subseteq DOMAIN pushed'
    BY <1>4 DEF UpsertRow
  <2>7. Branched(r)'
    BY <1>4, <2>1, <2>4 DEF UpsertRow, Unsaved, Branched, RunState, At
  <2> QED BY <1>4, <2>2, <2>3, <2>5, <2>6, <2>7, BaseByParts
<1>5. ASSUME Base, NEW r \in Runs, Preflight(r) PROVE Base'
  <2>1. PICK x : x = [run[r] EXCEPT !.pc = "checkout", !.alone = TRUE]
    OBVIOUS
  <2>2. Moves(r, x)
    BY <1>5, <2>1, Shapes, Zenon DEF Base
  <2>3. x \in RunState /\ Control(x)
    BY <1>5, <2>1, MovedIsSound, Zenon
  <2>4. run[r] \in RunState /\ Control(run[r]) /\ Branched(r) /\ run'[r] = x
    BY <1>5, <2>2, <2>3, RunsStaySound DEF Base, Types
  <2>5. Places' /\ Branches'
    BY <1>5 DEF Preflight, Base, Types, Places, Branches
  <2>6. DOMAIN commits \subseteq DOMAIN commits' /\ DOMAIN pushed \subseteq DOMAIN pushed'
    BY <1>5 DEF Preflight
  <2>7. Branched(r)'
    BY <1>5, <2>1, <2>4 DEF Preflight, Branched, RunState, At
  <2> QED BY <1>5, <2>2, <2>3, <2>5, <2>6, <2>7, BaseByParts
<1>6. ASSUME Base, NEW r \in Runs, CommitSave(r) PROVE Base'
  <2>1. PICK x : x = [run[r] EXCEPT !.pc = "done"]
    OBVIOUS
  <2>2. Moves(r, x)
    BY <1>6, <2>1, Shapes, Zenon DEF Base
  <2>3. x \in RunState /\ Control(x)
    BY <1>6, <2>1, MovedIsSound, Zenon
  <2>4. run[r] \in RunState /\ Control(run[r]) /\ Branched(r) /\ run'[r] = x
    BY <1>6, <2>2, <2>3, RunsStaySound DEF Base, Types
  <2>5. Places' /\ Branches'
    <3>1. run[r].recs \in Seq(Rec) /\ run[r].at \in Nat
      BY <2>4 DEF RunState
    <3>2. ToSet(run[r].recs) \in SUBSET Rec
      BY <3>1 DEF ToSet
    <3>3. [at |-> run[r].at, recs |-> ToSet(run[r].recs)] \in [at : Nat, recs : SUBSET Rec]
      BY <3>1, <3>2
    <3>4. saves' \in Seq([at : Nat, recs : SUBSET Rec])
      BY <1>6, <3>3 DEF CommitSave, Base, Types, Places
    <3> QED BY <1>6, <3>4 DEF CommitSave, Base, Types, Places, Branches
  <2>6. DOMAIN commits \subseteq DOMAIN commits' /\ DOMAIN pushed \subseteq DOMAIN pushed'
    BY <1>6 DEF CommitSave
  <2>7. Branched(r)'
    BY <1>6, <2>1, <2>4 DEF CommitSave, Branched, RunState, At
  <2> QED BY <1>6, <2>2, <2>3, <2>5, <2>6, <2>7, BaseByParts
<1>7. ASSUME Base, NEW r \in Runs, WriteFile(r) PROVE Base'
  <2>1. PICK x : x = Written(r)
    OBVIOUS
  <2>2. Moves(r, x)
    BY <1>7, <2>1, Shapes, Zenon DEF Base
  <2>3. x \in RunState /\ Control(x)
    BY <1>7, <2>1, MovedIsSound, Zenon
  <2>4. run[r] \in RunState /\ Control(run[r]) /\ Branched(r) /\ run'[r] = x
    BY <1>7, <2>2, <2>3, RunsStaySound DEF Base, Types
  <2>5. Places' /\ Branches'
    <3> DEFINE rec == run[r].recs[run[r].next]
               file == FreeName(r, rec)
    <3>1. rec \in Rec /\ file \in Files
      <4>1. Unwritten(r)
        BY <1>7 DEF WriteFile
      <4> QED BY <1>7, <2>4, <4>1, FreeNameIsFree DEF Base
    <3>2. \A t \in Tree : Put(t, r, rec, file) \in Tree
      <4> HIDE DEF rec, file
      <4> SUFFICES ASSUME NEW t \in Tree PROVE Put(t, r, rec, file) \in Tree
        OBVIOUS
      <4> QED BY <3>1, TreesStayTrees
    <3>3. \/ out' = Put(out, r, rec, file) /\ UNCHANGED repo
          \/ /\ work' = Put(work, r, rec, file)
             /\ UNCHANGED <<out, head, commits, index, pushed, prs, moves>>
      BY <1>7, TreeShapes, Zenon
    <3>4. UNCHANGED store
      BY <1>7 DEF WriteFile
    <3> HIDE DEF rec, file
    <3> QED BY <1>7, <3>2, <3>3, <3>4 DEF Base, Types, Places, Branches
  <2>6. commits' = commits /\ pushed' = pushed
    <3>1. UNCHANGED repo \/ UNCHANGED <<out, head, commits, index, pushed, prs, moves>>
      BY <1>7, TreeShapes, Zenon
    <3> QED BY <3>1
  <2>7. Branched(r)'
    <3>1. x.pc = run[r].pc /\ x.mode = run[r].mode /\ run[r].pc = "write"
      BY <1>7, <2>1, <2>4 DEF WriteFile, Unwritten, At, Written, RunState
    <3> QED BY <2>4, <2>6, <3>1 DEF Branched
  <2> QED BY <1>7, <2>2, <2>3, <2>5, <2>6, <2>7, BaseByParts
<1>8. ASSUME Base, NEW r \in Runs, WriteManifest(r) PROVE Base'
  <2>1. PICK x : x = [run[r] EXCEPT !.pc = IF run[r].mode = "out" THEN "done" ELSE "add"]
    OBVIOUS
  <2>2. Moves(r, x)
    BY <1>8, <2>1, Shapes, Zenon DEF Base
  <2>3. x \in RunState /\ Control(x)
    BY <1>8, <2>1, MovedIsSound, Zenon
  <2>4. run[r] \in RunState /\ Control(run[r]) /\ Branched(r) /\ run'[r] = x
    BY <1>8, <2>2, <2>3, RunsStaySound DEF Base, Types
  <2>5. Places' /\ Branches'
    <3>1. \A t \in Tree : Sealed(t, r) \in Tree
      BY <1>8, SealedIsATree DEF Base
    <3>2. \/ out' = Sealed(out, r) /\ UNCHANGED repo
          \/ /\ work' = Sealed(work, r)
             /\ UNCHANGED <<out, head, commits, index, pushed, prs, moves>>
      BY <1>8, TreeShapes, Zenon
    <3>3. UNCHANGED store
      BY <1>8 DEF WriteManifest
    <3> QED BY <1>8, <3>1, <3>2, <3>3 DEF Base, Types, Places, Branches
  <2>6. commits' = commits /\ pushed' = pushed
    <3>1. UNCHANGED repo \/ UNCHANGED <<out, head, commits, index, pushed, prs, moves>>
      BY <1>8, TreeShapes, Zenon
    <3> QED BY <3>1
  <2>7. Branched(r)'
    <3>1. /\ x.pc = (IF run[r].mode = "out" THEN "done" ELSE "add") /\ x.mode = run[r].mode
          /\ run[r].pc = "write"
      BY <1>8, <2>1, <2>4 DEF WriteManifest, At, RunState
    <3> QED BY <2>4, <2>6, <3>1 DEF Branched
  <2> QED BY <1>8, <2>2, <2>3, <2>5, <2>6, <2>7, BaseByParts
<1>9. ASSUME Base, NEW r \in Runs, CheckoutBranch(r) PROVE Base'
  <2>1. PICK x : x = [run[r] EXCEPT !.pc = "write", !.fork = commits[head]]
    OBVIOUS
  <2>2. Moves(r, x)
    BY <1>9, <2>1, Shapes, Zenon DEF Base
  <2>3. x \in RunState /\ Control(x)
    BY <1>9, <2>1, MovedIsSound, Zenon
  <2>4. run[r] \in RunState /\ Control(run[r]) /\ Branched(r) /\ run'[r] = x
    BY <1>9, <2>2, <2>3, RunsStaySound DEF Base, Types
  <2>5. Places' /\ Branches'
    <3>1. commits[head] \in Tree
      BY <1>9 DEF Base, Types, Places, Branches
    <3>2. /\ commits' \in [DOMAIN commits' -> Tree] /\ DOMAIN commits' = DOMAIN commits \cup {r}
          /\ head' = r
      BY <1>9, <3>1 DEF CheckoutBranch, Base, Types, Places
    <3> QED BY <1>9, <3>2 DEF CheckoutBranch, Base, Types, Places, Branches
  <2>6. /\ DOMAIN commits \subseteq DOMAIN commits' /\ DOMAIN pushed \subseteq DOMAIN pushed'
        /\ r \in DOMAIN commits'
    BY <1>9 DEF CheckoutBranch
  <2>7. Branched(r)'
    BY <1>9, <2>1, <2>4, <2>6 DEF CheckoutBranch, Branched, RunState, At
  <2> QED BY <1>9, <2>2, <2>3, <2>5, <2>6, <2>7, BaseByParts
<1>10. ASSUME Base, NEW r \in Runs, AddSubDir(r) PROVE Base'
  <2>1. PICK x : x = [run[r] EXCEPT !.pc = "commit"]
    OBVIOUS
  <2>2. Moves(r, x)
    BY <1>10, <2>1, Shapes, Zenon DEF Base
  <2>3. x \in RunState /\ Control(x)
    BY <1>10, <2>1, MovedIsSound, Zenon
  <2>4. run[r] \in RunState /\ Control(run[r]) /\ Branched(r) /\ run'[r] = x
    BY <1>10, <2>2, <2>3, RunsStaySound DEF Base, Types
  <2>5. Places' /\ Branches'
    <3>1. index' \in Tree
      BY <1>10 DEF AddSubDir, Base, Types, Places, Tree
    <3> QED BY <1>10, <3>1 DEF AddSubDir, Base, Types, Places, Branches
  <2>6. commits' = commits /\ pushed' = pushed
    BY <1>10 DEF AddSubDir
  <2>7. Branched(r)'
    <3>1. x.pc = "commit" /\ run[r].pc = "add" /\ x.mode = run[r].mode
      BY <1>10, <2>1, <2>4 DEF AddSubDir, At, RunState
    <3> QED BY <2>4, <2>6, <3>1 DEF Branched
  <2> QED BY <1>10, <2>2, <2>3, <2>5, <2>6, <2>7, BaseByParts
<1>11. ASSUME Base, NEW r \in Runs, GitCommit(r) PROVE Base'
  <2>1. PICK x : x = [run[r] EXCEPT !.pc = "push"]
    OBVIOUS
  <2>2. Moves(r, x)
    BY <1>11, <2>1, Shapes, Zenon DEF Base
  <2>3. x \in RunState /\ Control(x)
    BY <1>11, <2>1, MovedIsSound, Zenon
  <2>4. run[r] \in RunState /\ Control(run[r]) /\ Branched(r) /\ run'[r] = x
    BY <1>11, <2>2, <2>3, RunsStaySound DEF Base, Types
  <2>5. Places' /\ Branches'
    <3>1. commits' \in [DOMAIN commits' -> Tree] /\ DOMAIN commits' = DOMAIN commits
      BY <1>11 DEF GitCommit, Base, Types, Places
    <3> QED BY <1>11, <3>1 DEF GitCommit, Base, Types, Places, Branches
  <2>6. DOMAIN commits' = DOMAIN commits /\ pushed' = pushed
    BY <1>11 DEF GitCommit
  <2>7. Branched(r)'
    <3>1. x.pc = "push" /\ run[r].pc = "commit" /\ x.mode = run[r].mode
      BY <1>11, <2>1, <2>4 DEF GitCommit, At, RunState
    <3> QED BY <2>4, <2>6, <3>1 DEF Branched
  <2> QED BY <1>11, <2>2, <2>3, <2>5, <2>6, <2>7, BaseByParts
<1>12. ASSUME Base, NEW r \in Runs, Push(r) PROVE Base'
  <2>1. PICK x : x = [run[r] EXCEPT !.pc = "create"]
    OBVIOUS
  <2>2. Moves(r, x)
    BY <1>12, <2>1, Shapes, Zenon DEF Base
  <2>3. x \in RunState /\ Control(x)
    BY <1>12, <2>1, MovedIsSound, Zenon
  <2>4. run[r] \in RunState /\ Control(run[r]) /\ Branched(r) /\ run'[r] = x
    BY <1>12, <2>2, <2>3, RunsStaySound DEF Base, Types
  <2>5. Places' /\ Branches'
    <3>1. r \in DOMAIN commits
      BY <1>12, <2>4 DEF Push, At, Branched, Control, InOpenPR
    <3>2. pushed' \in [DOMAIN pushed' -> Tree] /\ DOMAIN pushed' = DOMAIN pushed \cup {r}
      BY <1>12, <3>1 DEF Push, Base, Types, Places
    <3> QED BY <1>12, <3>2 DEF Push, Base, Types, Places, Branches
  <2>6. /\ DOMAIN commits \subseteq DOMAIN commits' /\ DOMAIN pushed \subseteq DOMAIN pushed'
        /\ r \in DOMAIN pushed'
    BY <1>12 DEF Push
  <2>7. Branched(r)'
    <3>1. x.pc = "create"
      BY <2>1, <2>4 DEF RunState
    <3> QED BY <2>4, <2>6, <3>1 DEF Branched
  <2> QED BY <1>12, <2>2, <2>3, <2>5, <2>6, <2>7, BaseByParts
<1>13. ASSUME Base, NEW r \in Runs, CreatePR(r) PROVE Base'
  <2>1. PICK x : x = [run[r] EXCEPT !.pc = "done"]
    OBVIOUS
  <2>2. Moves(r, x)
    BY <1>13, <2>1, Shapes, Zenon DEF Base
  <2>3. x \in RunState /\ Control(x)
    BY <1>13, <2>1, MovedIsSound, Zenon
  <2>4. run[r] \in RunState /\ Control(run[r]) /\ Branched(r) /\ run'[r] = x
    BY <1>13, <2>2, <2>3, RunsStaySound DEF Base, Types
  <2>5. Places' /\ Branches'
    <3>1. pushed[r] \in Tree
      BY <1>13, <2>4 DEF CreatePR, At, Branched, Base, Types, Places
    <3>2. prs' \subseteq [by : Runs, tree : Tree]
      BY <1>13, <3>1 DEF CreatePR, Base, Types, Places
    <3> QED BY <1>13, <3>2 DEF CreatePR, Base, Types, Places, Branches
  <2>6. DOMAIN commits \subseteq DOMAIN commits' /\ DOMAIN pushed \subseteq DOMAIN pushed'
    BY <1>13 DEF CreatePR
  <2>7. Branched(r)'
    BY <1>13, <2>1, <2>4 DEF CreatePR, Branched, RunState, At
  <2> QED BY <1>13, <2>2, <2>3, <2>5, <2>6, <2>7, BaseByParts
<1>14. ASSUME Base, Operator PROVE Base'
  <2>1. run' = run \/ run' = [q \in Runs |-> Disturbed(run[q])]
    BY <1>14 DEF Operator, Edit, Stage, CommitAll, BackToMain, Touched, Disturbed
  <2>2. /\ run' \in [Runs -> RunState]
        /\ \A q \in Runs : /\ Control(run'[q]) /\ run'[q].pc = run[q].pc
                           /\ run'[q].mode = run[q].mode
    <3>1. \A q \in Runs : run[q] \in RunState /\ Control(run[q])
      BY <1>14 DEF Base, Types
    <3>2. \A q \in Runs : /\ Disturbed(run[q]) \in RunState /\ Control(Disturbed(run[q]))
                          /\ Disturbed(run[q]).pc = run[q].pc
                          /\ Disturbed(run[q]).mode = run[q].mode
      <4> TAKE q \in Runs
      <4>1. Disturbed(run[q]).pc = run[q].pc /\ Disturbed(run[q]).mode = run[q].mode
        BY <3>1 DEF Disturbed, RunState
      <4> QED BY <3>1, <4>1, DisturbedIsSound
    <3>3. run \in [Runs -> RunState]
      BY <1>14 DEF Base, Types
    <3> QED BY <2>1, <3>1, <3>2, <3>3
  <2>3. moves' \in 0..MaxMoves
    BY <1>14, MovesAssumption DEF Operator, Base, Types, Places
  <2>4. work' \in Tree /\ index' \in Tree
    <3>1. /\ work \in Tree /\ index \in Tree /\ commits["main"] \in Tree
          /\ moves + 1 \in Nat /\ work.other \in Nat
      BY <1>14, MovesAssumption DEF Base, Types, Places, Branches, Tree
    <3>2. \A t \in Tree, n \in Nat : [t EXCEPT !.other = n] \in Tree
      BY DEF Tree
    <3>3. CASE Edit
      BY <3>1, <3>2, <3>3 DEF Edit
    <3>4. CASE Stage
      BY <3>1, <3>2, <3>4 DEF Stage
    <3>5. CASE CommitAll \/ BackToMain
      BY <3>1, <3>5 DEF CommitAll, BackToMain
    <3> QED BY <1>14, <3>3, <3>4, <3>5 DEF Operator
  <2>5. commits' \in [DOMAIN commits' -> Tree] /\ DOMAIN commits' = DOMAIN commits
    BY <1>14
    DEF Operator, Edit, Stage, CommitAll, BackToMain, Base, Types, Places
  <2>6. head' \in {head, "main"} /\ UNCHANGED <<saves, out, pushed, prs>>
    BY <1>14 DEF Operator, Edit, Stage, CommitAll, BackToMain
  <2>7. Places' /\ Branches'
    BY <1>14, <2>3, <2>4, <2>5, <2>6 DEF Base, Types, Places, Branches
  <2>8. \A q \in Runs : Branched(q)'
    BY <1>14, <2>2, <2>5, <2>6 DEF Base, Branched
  <2> QED BY <2>2, <2>7, <2>8 DEF Base, Types
<1>15. ASSUME Base, UNCHANGED vars PROVE Base'
  BY <1>15 DEF vars, Base, Types, Places, Branches, Branched
<1> QED
  BY <1>1, <1>2, <1>3, <1>4, <1>5, <1>6, <1>7, <1>8, <1>9, <1>10, <1>11, <1>12, <1>13, <1>14,
     <1>15 DEF Next, OpenPR

-----------------------------------------------------------------------------
(* The stored rows. *)

LEMMA RankOfARow ==
    ASSUME NEW rec \in Rec
    PROVE  Rank(Key(rec)) \in Nat /\ Rank(Key(rec)) <= 2 * Len(IDOrder) + 1
<1>1. PICK i \in DOMAIN IDOrder : rec.identity = IDOrder[i]
  BY DEF Rec, IDs, ToSet
<1>2. Place(rec.identity) = i
  BY <1>1, PlaceOf
<1>3. i \in 1..Len(IDOrder) /\ Len(IDOrder) \in Nat
  BY <1>1, OrderAssumption
<1>4. Rank(Key(rec)) = 2 * i + (IF rec.kind = "rotation" THEN 1 ELSE 0)
  BY <1>2 DEF Rank, Key
<1> QED BY <1>3, <1>4

(* A batch has one recommendation to a row. *)
LEMMA OneToARow ==
    ASSUME NEW recs \in Seq(Rec), Ascending(recs),
           NEW k \in DOMAIN recs, NEW l \in DOMAIN recs, Key(recs[k]) = Key(recs[l])
    PROVE  k = l
<1>1. recs[k] \in Rec /\ k \in Nat /\ l \in Nat
  OBVIOUS
<1>2. Rank(Key(recs[k])) \in Nat /\ Rank(Key(recs[k])) = Rank(Key(recs[l]))
  BY <1>1, RankOfARow
<1>3. ~(k < l)
  BY <1>2 DEF Ascending
<1>4. ~(l < k)
  BY <1>2 DEF Ascending
<1> QED BY <1>1, <1>3, <1>4

(* What a save leaves in the table: the batch, a row to each, under the     *)
(* time of the save, and the rows it does not repeat as they were.         *)
LEMMA SaveWrites ==
    ASSUME Base, NEW r \in Runs, CommitSave(r)
    PROVE  LET recs == run[r].recs
               batch == {Key(recs[k]) : k \in DOMAIN recs}
           IN  /\ DOMAIN table' = DOMAIN table \cup batch
               /\ \A k \in DOMAIN recs : table'[Key(recs[k])] = [rec |-> recs[k], at |-> run[r].at]
               /\ \A key \in DOMAIN table \ batch : table'[key] = table[key]
               /\ saves' = Append(saves, [at |-> run[r].at, recs |-> ToSet(recs)])
<1> DEFINE recs == run[r].recs
           batch == {Key(recs[k]) : k \in DOMAIN recs}
           Of(key) == recs[CHOOSE k \in DOMAIN recs : Key(recs[k]) = key]
<1>1. recs \in Seq(Rec) /\ Ascending(recs)
  BY DEF Base, Types, RunState, Control, Batch
<1>2. \A k \in DOMAIN recs : Of(Key(recs[k])) = recs[k]
  <2> TAKE k \in DOMAIN recs
  <2> DEFINE l == CHOOSE l \in DOMAIN recs : Key(recs[l]) = Key(recs[k])
  <2>1. l \in DOMAIN recs /\ Key(recs[l]) = Key(recs[k])
    OBVIOUS
  <2> HIDE DEF l
  <2>2. l = k
    BY <1>1, <2>1, OneToARow
  <2> QED BY <2>2 DEF l
<1>3. /\ table' = [key \in DOMAIN table \cup batch |->
                      IF key \in batch THEN [rec |-> Of(key), at |-> run[r].at] ELSE table[key]]
      /\ saves' = Append(saves, [at |-> run[r].at, recs |-> ToSet(recs)])
  BY DEF CommitSave, Refreshed, Row
<1> HIDE DEF Of, recs
<1>4. \A k \in DOMAIN recs : Key(recs[k]) \in batch
  OBVIOUS
<1> HIDE DEF batch
<1> QED BY <1>2, <1>3, <1>4 DEF recs, batch

LEMMA RowsAtFirst == Init => RowsOK /\ AgeTellsStale
BY DEF Init, RowsOK, AgeTellsStale

LEMMA RowsKept == Base /\ RowsOK /\ AgeTellsStale /\ [Next]_vars => RowsOK' /\ AgeTellsStale'
<1> SUFFICES ASSUME Base, RowsOK, AgeTellsStale, [Next]_vars PROVE RowsOK' /\ AgeTellsStale'
  OBVIOUS
<1>1. UNCHANGED store \/ \E r \in Runs : CommitSave(r)
  BY Zenon
  DEF Next, vars, OpenPR, Start, Fail, BeginSave, UpsertRow, WriteFile, WriteManifest, Preflight,
      CheckoutBranch, AddSubDir, GitCommit, Push, CreatePR, Operator, Edit, Stage, CommitAll,
      BackToMain
<1>2. CASE UNCHANGED store
  BY <1>2 DEF store, RowsOK, AgeTellsStale
<1>3. ASSUME NEW r \in Runs, CommitSave(r) PROVE RowsOK' /\ AgeTellsStale'
  <2> DEFINE recs == run[r].recs
             batch == {Key(recs[k]) : k \in DOMAIN recs}
             now == run[r].at
             new == [at |-> now, recs |-> ToSet(recs)]
             N == Len(saves)
  <2>1. /\ DOMAIN table' = DOMAIN table \cup batch
        /\ \A k \in DOMAIN recs : table'[Key(recs[k])] = [rec |-> recs[k], at |-> now]
        /\ \A key \in DOMAIN table \ batch : table'[key] = table[key]
        /\ saves' = Append(saves, new)
    BY <1>3, SaveWrites
  <2>2. /\ recs \in Seq(Rec) /\ now \in Nat /\ saves \in Seq([at : Nat, recs : SUBSET Rec])
    BY DEF Base, Types, RunState, Places
  <2>3. ToSet(recs) = {recs[k] : k \in DOMAIN recs}
    BY <2>2 DEF ToSet
  <2>4. new \in [at : Nat, recs : SUBSET Rec] /\ new.at = now /\ new.recs = ToSet(recs)
    BY <2>2, <2>3
  <2> HIDE DEF new, recs, now
  <2>5. /\ DOMAIN saves' = DOMAIN saves \cup {N + 1} /\ saves'[N + 1] = new /\ Len(saves') = N + 1
        /\ \A k \in DOMAIN saves : saves'[k] = saves[k] /\ k < N + 1 /\ saves[k].at \in Nat
        /\ saves' # <<>>
    <3> DEFINE S == [at : Nat, recs : SUBSET Rec]
    <3>1. new \in S /\ saves \in Seq(S) /\ saves' = Append(saves, new)
      BY <2>1, <2>2, <2>4
    <3> HIDE DEF S
    <3>2. \A k \in DOMAIN saves : saves[k] \in S
      BY <3>1
    <3>3. \A k \in DOMAIN saves : saves[k].at \in Nat
      BY <3>2 DEF S
    <3> QED BY <3>1, <3>3
  <2>6. ASSUME NEW key \in DOMAIN table'
        PROVE  \/ \E k \in DOMAIN recs : key = Key(recs[k]) /\ table'[key] = [rec |-> recs[k], at |-> now]
               \/ key \in DOMAIN table \ batch /\ table'[key] = table[key]
    BY <2>1
  <2>7. RowsOK'
    <3> SUFFICES ASSUME NEW key \in DOMAIN table'
                 PROVE  /\ key = Key(table'[key].rec) /\ table'[key].rec \in Rec
                        /\ \E k \in DOMAIN saves' : /\ saves'[k].at = table'[key].at
                                                    /\ table'[key].rec \in saves'[k].recs
      BY DEF RowsOK, Key
    <3>1. ASSUME NEW k \in DOMAIN recs, key = Key(recs[k]),
                 table'[key] = [rec |-> recs[k], at |-> now]
          PROVE  /\ key = Key(table'[key].rec) /\ table'[key].rec \in Rec
                 /\ saves'[N + 1].at = table'[key].at /\ table'[key].rec \in saves'[N + 1].recs
      BY <2>2, <2>3, <2>4, <2>5, <3>1
    <3>2. CASE key \in DOMAIN table \ batch /\ table'[key] = table[key]
      BY <2>5, <3>2 DEF RowsOK
    <3> QED BY <2>5, <2>6, <3>1, <3>2
  <2>8. AgeTellsStale'
    <3>1. \A key \in DOMAIN table' : \E k \in DOMAIN saves' :
             saves'[k].at = table'[key].at /\ table'[key].rec \in saves'[k].recs
      BY <2>7 DEF RowsOK
    <3>2. ASSUME \A k, l \in DOMAIN saves' : k < l => saves'[k].at < saves'[l].at
          PROVE  /\ {table'[key].rec : key \in {x \in DOMAIN table' : table'[x].at = new.at}}
                        = new.recs
                 /\ \A key \in DOMAIN table' : table'[key].at <= new.at
      <4>1. \A key \in DOMAIN table \ batch : table'[key].at \in Nat /\ table'[key].at < now
        <5> TAKE key \in DOMAIN table \ batch
        <5>1. PICK k \in DOMAIN saves : saves[k].at = table[key].at
          BY DEF RowsOK
        <5>2. saves'[k].at < saves'[N + 1].at
          BY <2>5, <3>2, <5>1
        <5> QED BY <2>1, <2>4, <2>5, <5>1, <5>2
      <4>2. \A key \in DOMAIN table' : table'[key].at <= now
        <5> TAKE key \in DOMAIN table'
        <5>1. CASE \E k \in DOMAIN recs : table'[key] = [rec |-> recs[k], at |-> now]
          BY <2>2, <5>1 DEF now
        <5>2. CASE key \in DOMAIN table \ batch
          BY <2>2, <4>1, <5>2 DEF now
        <5> QED BY <2>6, <5>1, <5>2
      <4>3. ASSUME NEW key \in DOMAIN table', table'[key].at = now
            PROVE  table'[key].rec \in ToSet(recs)
        <5>1. ~(now < now)
          BY <2>2 DEF now
        <5>2. PICK k \in DOMAIN recs : table'[key] = [rec |-> recs[k], at |-> now]
          BY <2>6, <4>1, <4>3, <5>1
        <5> QED BY <2>3, <5>2
      <4>4. ASSUME NEW k \in DOMAIN recs
            PROVE  /\ Key(recs[k]) \in DOMAIN table' /\ table'[Key(recs[k])].at = now
                   /\ table'[Key(recs[k])].rec = recs[k]
        <5>1. Key(recs[k]) \in batch
          OBVIOUS
        <5>2. table'[Key(recs[k])] = [rec |-> recs[k], at |-> now]
          BY <2>1
        <5> HIDE DEF batch
        <5> QED BY <2>1, <5>1, <5>2
      <4> QED BY <2>3, <2>4, <4>2, <4>3, <4>4
    <3>3. Last(saves') = new
      BY <2>5 DEF Last
    <3> QED BY <3>1, <3>2, <3>3 DEF AgeTellsStale
  <2> QED BY <2>7, <2>8
<1> QED BY <1>1, <1>2, <1>3

-----------------------------------------------------------------------------
(* Saves wait for one another only upwards in the order of the identities,  *)
(* and a ring would have a run whose next row is the highest.              *)

LEMMA NoRing == Base => SavesNeverDeadlock
<1> SUFFICES ASSUME Base, NEW ring \in (SUBSET Runs) \ {{}},
                    \A p \in ring : \E q \in ring : WaitsFor(p, q)
             PROVE  FALSE
  BY DEF SavesNeverDeadlock
<1> DEFINE Height(p) == Rank(Key(run[p].recs[run[p].next]))
           M == 2 * Len(IDOrder) + 1
           Below == {M - Height(p) : p \in ring}
<1>1. \A p \in ring : /\ Unsaved(p) /\ run[p].recs \in Seq(Rec) /\ Ascending(run[p].recs)
                      /\ run[p].next \in DOMAIN run[p].recs
  <2> TAKE p \in ring
  <2>1. PICK q \in ring : WaitsFor(p, q)
    OBVIOUS
  <2>2. run[p] \in RunState /\ Control(run[p])
    BY DEF Base, Types
  <2>3. Unsaved(p)
    BY <2>1 DEF WaitsFor
  <2>4. run[p].recs \in Seq(Rec) /\ run[p].next \in Nat
    BY <2>2 DEF RunState
  <2>5. run[p].next \in DOMAIN run[p].recs
    BY <2>2, <2>3, <2>4 DEF Unsaved, Control
  <2> QED BY <2>2, <2>3, <2>4, <2>5 DEF Control, Batch
<1>2. \A p \in ring : Height(p) \in Nat /\ Height(p) <= M
  BY <1>1, RankOfARow
<1>3. M \in Nat
  BY OrderAssumption
<1>4. \A p, q \in ring : WaitsFor(p, q) => Height(p) < Height(q)
  <2> SUFFICES ASSUME NEW p \in ring, NEW q \in ring, WaitsFor(p, q) PROVE Height(p) < Height(q)
    OBVIOUS
  <2>1. PICK k \in 1..(run[q].next - 1) :
           Key(run[p].recs[run[p].next]) = Key(run[q].recs[k])
    BY DEF WaitsFor, Upserted
  <2>2. k \in DOMAIN run[q].recs /\ k < run[q].next
    BY <1>1, <2>1
  <2>3. Rank(Key(run[q].recs[k])) < Height(q)
    BY <1>1, <2>2 DEF Ascending
  <2> QED BY <2>1, <2>3
<1> HIDE DEF Height, M
<1>5. Below \in SUBSET Nat /\ Below # {}
  <2>1. \A p \in ring : M - Height(p) \in Nat
    BY <1>2, <1>3
  <2>2. PICK p \in ring : TRUE
    OBVIOUS
  <2>3. M - Height(p) \in Below
    OBVIOUS
  <2>4. \A n \in Below : n \in Nat
    BY <2>1
  <2> QED BY <2>3, <2>4
<1>6. PICK m \in Below : \A n \in Below : m <= n
  <2> HIDE DEF Below
  <2> QED BY <1>5, LeastOf
<1>7. PICK p \in ring : m = M - Height(p)
  BY <1>6
<1>8. PICK q \in ring : WaitsFor(p, q)
  BY <1>7
<1>9. Height(p) < Height(q) /\ m <= M - Height(q)
  BY <1>4, <1>6, <1>8
<1> QED BY <1>2, <1>3, <1>7, <1>9

-----------------------------------------------------------------------------
(* The directory of --out. *)

(* The steps that write no artifact leave the run its batch and its files. *)
LEMMA QuietMoves ==
    ASSUME Base, NEW r \in Runs,
           Fail(r) \/ BeginSave(r) \/ UpsertRow(r) \/ CommitSave(r) \/ OpenPR(r)
    PROVE  \E x : /\ Moves(r, x) /\ x.mode = run[r].mode /\ x.written = run[r].written
                  /\ x.recs = run[r].recs
<1>0. run[r] \in RunState
  BY DEF Base, Types
<1>1. CASE Fail(r)
  <2>1. PICK x : x = [run[r] EXCEPT !.pc = "failed"]
    OBVIOUS
  <2>2. Moves(r, x)
    BY <1>1, <2>1, Shapes, Zenon DEF Base
  <2>3. x.mode = run[r].mode /\ x.written = run[r].written /\ x.recs = run[r].recs
    BY <1>0, <2>1 DEF RunState
  <2> QED BY <2>2, <2>3
<1>2. CASE BeginSave(r)
  <2>1. PICK x : x = [run[r] EXCEPT !.pc = "saving",
                                  !.at = 1 + Cardinality({q \in Runs : run[q].at # 0})]
    OBVIOUS
  <2>2. Moves(r, x)
    BY <1>2, <2>1, Shapes, Zenon DEF Base
  <2>3. x.mode = run[r].mode /\ x.written = run[r].written /\ x.recs = run[r].recs
    BY <1>0, <2>1 DEF RunState
  <2> QED BY <2>2, <2>3
<1>3. CASE UpsertRow(r)
  <2>1. PICK x : x = [run[r] EXCEPT !.next = @ + 1]
    OBVIOUS
  <2>2. Moves(r, x)
    BY <1>3, <2>1, Shapes, Zenon DEF Base
  <2>3. x.mode = run[r].mode /\ x.written = run[r].written /\ x.recs = run[r].recs
    BY <1>0, <2>1 DEF RunState
  <2> QED BY <2>2, <2>3
<1>4. CASE CommitSave(r)
  <2>1. PICK x : x = [run[r] EXCEPT !.pc = "done"]
    OBVIOUS
  <2>2. Moves(r, x)
    BY <1>4, <2>1, Shapes, Zenon DEF Base
  <2>3. x.mode = run[r].mode /\ x.written = run[r].written /\ x.recs = run[r].recs
    BY <1>0, <2>1 DEF RunState
  <2> QED BY <2>2, <2>3
<1>5. CASE Preflight(r)
  <2>1. PICK x : x = [run[r] EXCEPT !.pc = "checkout", !.alone = TRUE]
    OBVIOUS
  <2>2. Moves(r, x)
    BY <1>5, <2>1, Shapes, Zenon DEF Base
  <2>3. x.mode = run[r].mode /\ x.written = run[r].written /\ x.recs = run[r].recs
    BY <1>0, <2>1 DEF RunState
  <2> QED BY <2>2, <2>3
<1>6. CASE CheckoutBranch(r)
  <2>1. PICK x : x = [run[r] EXCEPT !.pc = "write", !.fork = commits[head]]
    OBVIOUS
  <2>2. Moves(r, x)
    BY <1>6, <2>1, Shapes, Zenon DEF Base
  <2>3. x.mode = run[r].mode /\ x.written = run[r].written /\ x.recs = run[r].recs
    BY <1>0, <2>1 DEF RunState
  <2> QED BY <2>2, <2>3
<1>7. CASE AddSubDir(r)
  <2>1. PICK x : x = [run[r] EXCEPT !.pc = "commit"]
    OBVIOUS
  <2>2. Moves(r, x)
    BY <1>7, <2>1, Shapes, Zenon DEF Base
  <2>3. x.mode = run[r].mode /\ x.written = run[r].written /\ x.recs = run[r].recs
    BY <1>0, <2>1 DEF RunState
  <2> QED BY <2>2, <2>3
<1>8. CASE GitCommit(r)
  <2>1. PICK x : x = [run[r] EXCEPT !.pc = "push"]
    OBVIOUS
  <2>2. Moves(r, x)
    BY <1>8, <2>1, Shapes, Zenon DEF Base
  <2>3. x.mode = run[r].mode /\ x.written = run[r].written /\ x.recs = run[r].recs
    BY <1>0, <2>1 DEF RunState
  <2> QED BY <2>2, <2>3
<1>9. CASE Push(r)
  <2>1. PICK x : x = [run[r] EXCEPT !.pc = "create"]
    OBVIOUS
  <2>2. Moves(r, x)
    BY <1>9, <2>1, Shapes, Zenon DEF Base
  <2>3. x.mode = run[r].mode /\ x.written = run[r].written /\ x.recs = run[r].recs
    BY <1>0, <2>1 DEF RunState
  <2> QED BY <2>2, <2>3
<1>10. CASE CreatePR(r)
  <2>1. PICK x : x = [run[r] EXCEPT !.pc = "done"]
    OBVIOUS
  <2>2. Moves(r, x)
    BY <1>10, <2>1, Shapes, Zenon DEF Base
  <2>3. x.mode = run[r].mode /\ x.written = run[r].written /\ x.recs = run[r].recs
    BY <1>0, <2>1 DEF RunState
  <2> QED BY <2>2, <2>3
<1> QED BY <1>1, <1>2, <1>3, <1>4, <1>5, <1>6, <1>7, <1>8, <1>9, <1>10 DEF OpenPR

(* What a step leaves of a run that does not move. *)
LEMMA OthersKeep ==
    ASSUME Base, NEW r \in Runs, NEW x, Moves(r, x)
    PROVE  /\ run'[r] = x
           /\ \A q \in Runs \ {r} :
                 /\ run'[q].pc = run[q].pc /\ run'[q].mode = run[q].mode
                 /\ run'[q].recs = run[q].recs /\ run'[q].next = run[q].next
                 /\ run'[q].written = run[q].written /\ run'[q].fork = run[q].fork
                 /\ run'[q].alone => run'[q] = run[q] /\ run[q].alone
<1>1. run'[r] = x /\ \A q \in Runs \ {r} : Calm(q)
  BY DEF Moves
<1>2. \A q \in Runs : run[q] \in RunState
  BY DEF Base, Types
<1>3. ASSUME NEW q \in Runs \ {r}
      PROVE  /\ run'[q].pc = run[q].pc /\ run'[q].mode = run[q].mode
             /\ run'[q].recs = run[q].recs /\ run'[q].next = run[q].next
             /\ run'[q].written = run[q].written /\ run'[q].fork = run[q].fork
             /\ run'[q].alone => run'[q] = run[q] /\ run[q].alone
  <2>1. PICK old, new : old = run[q] /\ new = run'[q]
    OBVIOUS
  <2>2. old \in RunState /\ (new = old \/ new = [old EXCEPT !.alone = FALSE])
    BY <1>1, <1>2, <2>1 DEF Calm
  <2>3. CASE new = old
    BY <2>1, <2>3
  <2>4. CASE new = [old EXCEPT !.alone = FALSE]
    BY <2>1, <2>2, <2>4 DEF RunState
  <2> QED BY <2>2, <2>3, <2>4
<1> QED BY <1>1, <1>3

LEMMA OutUntouched ==
    ASSUME Base, OutOK, out' = out, NEW r \in Runs, NEW x, Moves(r, x),
           run[r].pc # "done", x.mode = run[r].mode,
           run[r].mode = "out" =>
              x.written = <<>> \/ (x.written = run[r].written /\ x.recs = run[r].recs)
    PROVE  OutOK'
<1>1. /\ run'[r] = x
      /\ \A q \in Runs \ {r} :
                 /\ run'[q].pc = run[q].pc /\ run'[q].mode = run[q].mode
                 /\ run'[q].recs = run[q].recs /\ run'[q].next = run[q].next
                 /\ run'[q].written = run[q].written
  BY OthersKeep
<1>2. FilesStay'
  <2> SUFFICES ASSUME NEW q \in Runs, run'[q].mode = "out", NEW k \in DOMAIN run'[q].written
               PROVE  LET f == run'[q].written[k].file
                      IN  /\ f \in DOMAIN out.files
                          /\ out.files[f].by = q => out.files[f].code = run'[q].recs[k].code
    BY DEF FilesStay
  <2>1. run[q].mode = "out" /\ run'[q].written = run[q].written /\ run'[q].recs = run[q].recs
    BY <1>1
  <2> QED BY <2>1 DEF OutOK, FilesStay
<1>3. \A q \in Runs : ManifestOf(q) => ManifestOf(q)'
  BY <1>1 DEF ManifestOf
<1>4. (out.manifest = NoManifest \/ \E q \in Runs : ManifestOf(q))'
  BY <1>3 DEF OutOK
<1> QED BY <1>2, <1>4 DEF OutOK

LEMMA OutWritten ==
    ASSUME Base, OutOK, NEW r \in Runs, WriteFile(r), run[r].mode = "out"
    PROVE  OutOK'
<1> DEFINE rec == run[r].recs[run[r].next]
           file == FreeName(r, rec)
           W == run[r].written
           a == [identity |-> rec.identity, kind |-> rec.kind, file |-> file]
           V == Append(W, a)
<1>1. run[r] \in RunState /\ Control(run[r]) /\ Unwritten(r) /\ run[r].pc = "write"
  BY DEF Base, Types, WriteFile, Unwritten, At
<1>2. rec \in Rec /\ file \in Files /\ \A k \in DOMAIN W : W[k].file # file
  BY <1>1, FreeNameIsFree DEF Base
<1>3. Moves(r, Written(r))
  BY Shapes, Zenon DEF Base
<1>4. /\ run'[r] = Written(r)
      /\ \A q \in Runs \ {r} :
                 /\ run'[q].pc = run[q].pc /\ run'[q].mode = run[q].mode
                 /\ run'[q].recs = run[q].recs /\ run'[q].next = run[q].next
                 /\ run'[q].written = run[q].written
  BY <1>3, OthersKeep
<1>5. /\ W \in Seq(Artifact) /\ Len(W) + 1 = run[r].next
  BY <1>1 DEF RunState, Control, InStep
<1>6. Written(r) = [run[r] EXCEPT !.next = run[r].next + 1, !.written = V]
  BY DEF Written
<1>7. a \in Artifact /\ a.file = file
  BY <1>2 DEF Artifact, Rec
<1> HIDE DEF a
<1>8. /\ DOMAIN V = DOMAIN W \cup {Len(W) + 1} /\ V[Len(W) + 1] = a
      /\ \A k \in DOMAIN W : V[k] = W[k]
  BY <1>5, <1>7
<1> HIDE DEF V
<1>9. /\ Written(r).written = V /\ Written(r).recs = run[r].recs /\ Written(r).mode = "out"
  BY <1>1, <1>6 DEF RunState
<1>10. /\ DOMAIN out'.files = DOMAIN out.files \cup {file}
       /\ out'.files[file] = [code |-> rec.code, by |-> r]
       /\ \A f \in DOMAIN out.files \ {file} : out'.files[f] = out.files[f]
       /\ out'.manifest = out.manifest
  <2>1. out' = Put(out, r, rec, file)
    BY TreeShapes, Zenon
  <2>2. out \in Tree
    BY DEF Base, Types, Places
  <2> HIDE DEF rec, file
  <2> QED BY <1>2, <2>1, <2>2, TreesStayTrees
<1>n. rec = run[r].recs[Len(W) + 1]
  BY <1>5
<1> HIDE DEF file, rec
<1>11. FilesStay'
  <2> SUFFICES ASSUME NEW q \in Runs, run'[q].mode = "out", NEW k \in DOMAIN run'[q].written
               PROVE  LET f == run'[q].written[k].file
                      IN  /\ f \in DOMAIN out'.files
                          /\ out'.files[f].by = q => out'.files[f].code = run'[q].recs[k].code
    BY DEF FilesStay
  <2>0. FilesStay
    BY DEF OutOK
  <2>1. CASE q = r /\ k = Len(W) + 1
    <3>1. run'[r].written[k] = a /\ run'[r].recs = run[r].recs
      BY <1>4, <1>8, <1>9, <2>1
    <3> QED BY <1>7, <1>10, <1>n, <2>1, <3>1
  <2>2. CASE q = r /\ k \in DOMAIN W
    <3>1. run'[r].written[k] = W[k] /\ run'[r].recs = run[r].recs /\ W[k].file # file
      BY <1>2, <1>4, <1>8, <1>9, <2>2
    <3>2. /\ W[k].file \in DOMAIN out.files
          /\ out.files[W[k].file].by = r => out.files[W[k].file].code = run[r].recs[k].code
      BY <2>0, <2>2 DEF FilesStay
    <3> QED BY <1>10, <2>2, <3>1, <3>2
  <2>3. CASE q # r
    <3> DEFINE f == run[q].written[k].file
    <3>1. /\ run'[q].written = run[q].written /\ run'[q].recs = run[q].recs
          /\ k \in DOMAIN run[q].written /\ run[q].mode = "out"
      BY <1>4, <2>3
    <3>2. f \in DOMAIN out.files /\ (out.files[f].by = q => out.files[f].code = run[q].recs[k].code)
      BY <2>0, <3>1 DEF FilesStay
    <3>3. f = file => out'.files[f].by # q
      BY <1>10, <2>3
    <3> QED BY <1>10, <3>1, <3>2, <3>3
  <2>4. q # r \/ k = Len(W) + 1 \/ k \in DOMAIN W
    BY <1>4, <1>8, <1>9
  <2> QED BY <2>1, <2>2, <2>3, <2>4
<1>12. \A q \in Runs : ManifestOf(q) => ManifestOf(q)'
  BY <1>1, <1>4, <1>10 DEF ManifestOf
<1>13. (out.manifest = NoManifest \/ \E q \in Runs : ManifestOf(q))'
  BY <1>10, <1>12 DEF OutOK
<1> QED BY <1>11, <1>13 DEF OutOK

LEMMA OutSealed ==
    ASSUME Base, OutOK, NEW r \in Runs, WriteManifest(r), run[r].mode = "out"
    PROVE  OutOK'
<1>1. run[r] \in RunState /\ Control(run[r]) /\ ~Unwritten(r) /\ run[r].pc = "write"
  BY DEF Base, Types, WriteManifest, At
<1>2. PICK x : x = [run[r] EXCEPT !.pc = "done"]
  OBVIOUS
<1>3. Moves(r, x)
  <2>1. Moves(r, [run[r] EXCEPT !.pc = IF run[r].mode = "out" THEN "done" ELSE "add"])
    BY Shapes, Zenon DEF Base
  <2> QED BY <1>2, <2>1
<1>4. /\ run'[r] = x
      /\ \A q \in Runs \ {r} :
                 /\ run'[q].pc = run[q].pc /\ run'[q].mode = run[q].mode
                 /\ run'[q].recs = run[q].recs /\ run'[q].next = run[q].next
                 /\ run'[q].written = run[q].written
  BY <1>3, OthersKeep
<1>5. /\ x.pc = "done" /\ x.mode = "out" /\ x.written = run[r].written /\ x.recs = run[r].recs
      /\ x.next = Len(run[r].recs) + 1
  BY <1>1, <1>2 DEF RunState, Control, Unwritten, At
<1>6. out'.files = out.files /\ out'.manifest = [by |-> r, artifacts |-> run[r].written]
  <2>1. out' = Sealed(out, r)
    BY TreeShapes, Zenon
  <2>2. out \in Tree
    BY DEF Base, Types, Places
  <2> QED BY <2>1, <2>2, SealedIsATree DEF Base
<1>7. FilesStay'
  <2>1. \A q \in Runs : run'[q].mode = run[q].mode /\ run'[q].written = run[q].written
                        /\ run'[q].recs = run[q].recs
    BY <1>4, <1>5
  <2> QED BY <1>6, <2>1 DEF OutOK, FilesStay
<1>8. ManifestOf(r)'
  BY <1>4, <1>5, <1>6 DEF ManifestOf
<1> QED BY <1>7, <1>8 DEF OutOK

LEMMA OutAtFirst == Init => OutOK
BY DEF Init, OutOK, FilesStay, EmptyTree, NoManifest

LEMMA OutKept == Base /\ OutOK /\ [Next]_vars => OutOK'
<1> USE DEF store, repo
<1>0. \A r \in Runs : Base => run[r] \in RunState /\ Control(run[r])
  BY DEF Base, Types
<1>1. ASSUME Base, OutOK, NEW r \in Runs, Start(r) PROVE OutOK'
  <2>1. PICK g \in Estates :
           /\ At(r, "idle") /\ UNCHANGED <<store, out, repo>>
           /\ run' = [run EXCEPT ![r].pc = First(run[r].mode, Recommendations(g, IDOrder)),
                                 ![r].recs = Recommendations(g, IDOrder)]
    BY <1>1 DEF Start
  <2>2. PICK x : x = [run[r] EXCEPT !.pc = First(run[r].mode, Recommendations(g, IDOrder)),
                                    !.recs = Recommendations(g, IDOrder)]
    OBVIOUS
  <2>3. Moves(r, x)
    BY <1>1, <2>1, <2>2, Shapes, Zenon DEF Base
  <2>4. x.mode = run[r].mode /\ x.written = <<>> /\ run[r].pc = "idle"
    BY <1>0, <1>1, <2>1, <2>2 DEF At, Control, RunState
  <2> QED BY <1>1, <2>1, <2>3, <2>4, OutUntouched
<1>2. ASSUME Base, OutOK, NEW r \in Runs, WriteFile(r) PROVE OutOK'
  <2>1. CASE run[r].mode = "out"
    BY <1>2, <2>1, OutWritten
  <2>2. CASE run[r].mode # "out"
    <3>1. Moves(r, Written(r)) /\ out' = out
      BY <1>2, <2>2, Shapes, TreeShapes, Zenon DEF Base
    <3>2. Written(r).mode = run[r].mode /\ run[r].pc = "write"
      BY <1>0, <1>2 DEF WriteFile, Unwritten, At, Written, RunState
    <3> QED BY <1>2, <2>2, <3>1, <3>2, OutUntouched
  <2> QED BY <2>1, <2>2
<1>3. ASSUME Base, OutOK, NEW r \in Runs, WriteManifest(r) PROVE OutOK'
  <2>1. CASE run[r].mode = "out"
    BY <1>3, <2>1, OutSealed
  <2>2. CASE run[r].mode # "out"
    <3>1. PICK x : x = [run[r] EXCEPT !.pc = IF run[r].mode = "out" THEN "done" ELSE "add"]
      OBVIOUS
    <3>2. Moves(r, x) /\ out' = out
      BY <1>3, <2>2, <3>1, Shapes, TreeShapes, Zenon DEF Base
    <3>3. x.mode = run[r].mode /\ run[r].pc = "write"
      BY <1>0, <1>3, <3>1 DEF WriteManifest, At, RunState
    <3> QED BY <1>3, <2>2, <3>2, <3>3, OutUntouched
  <2> QED BY <2>1, <2>2
<1>4. ASSUME Base, OutOK, NEW r \in Runs, NEW x, Moves(r, x), out' = out, run[r].pc # "done",
             x.mode = run[r].mode, x.written = run[r].written, x.recs = run[r].recs
      PROVE  OutOK'
  BY <1>4, OutUntouched
<1>5. ASSUME Base, OutOK, NEW r \in Runs,
             Fail(r) \/ BeginSave(r) \/ UpsertRow(r) \/ CommitSave(r) \/ OpenPR(r)
      PROVE  OutOK'
  <2>1. out' = out /\ run[r].pc # "done"
    BY <1>5
    DEF Fail, BeginSave, UpsertRow, Unsaved, CommitSave, OpenPR, Preflight, CheckoutBranch,
        AddSubDir, GitCommit, Push, CreatePR, At
  <2>2. PICK x : /\ Moves(r, x) /\ x.mode = run[r].mode /\ x.written = run[r].written
                 /\ x.recs = run[r].recs
    BY <1>5, QuietMoves
  <2> QED BY <1>4, <1>5, <2>1, <2>2
<1>6. ASSUME Base, OutOK, Operator PROVE OutOK'
  <2>1. out' = out /\ (run' = run \/ run' = [q \in Runs |-> [run[q] EXCEPT !.alone = FALSE]])
    BY <1>6 DEF Operator, Edit, Stage, CommitAll, BackToMain, Touched
  <2>2. \A q \in Runs : /\ run'[q].pc = run[q].pc /\ run'[q].mode = run[q].mode
                        /\ run'[q].recs = run[q].recs /\ run'[q].next = run[q].next
                        /\ run'[q].written = run[q].written
    BY <1>0, <1>6, <2>1 DEF RunState
  <2>3. FilesStay'
    BY <1>6, <2>1, <2>2 DEF OutOK, FilesStay
  <2>4. \A q \in Runs : ManifestOf(q) => ManifestOf(q)'
    BY <2>1, <2>2 DEF ManifestOf
  <2> QED BY <1>6, <2>1, <2>3, <2>4 DEF OutOK
<1>7. ASSUME OutOK, UNCHANGED vars PROVE OutOK'
  BY <1>7 DEF vars, OutOK, FilesStay, ManifestOf
<1> QED BY <1>1, <1>2, <1>3, <1>5, <1>6, <1>7 DEF Next

LEMMA OutTellsTheTruth == Base /\ OutOK => ManifestIsTrue
<1> SUFFICES ASSUME Base, OutOK PROVE Describes(out)
  BY DEF ManifestIsTrue
<1>1. CASE out.manifest = NoManifest
  BY <1>1 DEF Describes, NoManifest
<1>2. ASSUME NEW r \in Runs, ManifestOf(r) PROVE Describes(out)
  <2>1. /\ run[r].written \in Seq(Artifact) /\ run[r].recs \in Seq(Rec)
        /\ InStep(run[r]) /\ Len(run[r].written) = Len(run[r].recs)
    BY <1>2 DEF Base, Types, RunState, Control, ManifestOf, InStep
  <2>2. Lists(run[r].written, run[r].recs)
    BY <2>1 DEF Lists, InStep
  <2>3. out.manifest.by = r /\ out.manifest.artifacts = run[r].written /\ run[r].mode = "out"
    BY <1>2 DEF ManifestOf
  <2> QED BY <2>2, <2>3 DEF Describes, OutOK, FilesStay
<1> QED BY <1>1, <1>2 DEF OutOK

-----------------------------------------------------------------------------
(* The repository.  Either a step leaves a run undisturbed, or the run is   *)
(* no longer alone.                                                        *)

Undisturbed(q) ==
    /\ run'[q] = run[q] /\ UNCHANGED <<head, commits, index>>
    /\ work'.files = work.files /\ work'.manifest = work.manifest
    /\ q \in DOMAIN pushed => pushed'[q] = pushed[q]
    /\ \A pr \in prs' : pr.by = q => pr \in prs

Harmless(r) == \A q \in Runs \ {r} : run'[q].alone => run[q].alone /\ Undisturbed(q)

LEMMA UndisturbedStays ==
    ASSUME NEW q \in Runs, Branched(q), AloneOK(q), Undisturbed(q)
    PROVE  AloneOK(q)'
BY DEF AloneOK, Undisturbed, OnItsBranch, Branched

LEMMA NoHarmFromElsewhere ==
    ASSUME Base, NEW r \in Runs, NEW x, Moves(r, x), UNCHANGED repo
    PROVE  Harmless(r)
BY OthersKeep DEF Harmless, Undisturbed, repo

LEMMA NoHarmWhenDisturbing ==
    ASSUME Base, NEW r \in Runs,
           \A q \in Runs \ {r} : run'[q] = Disturbing(r)[q]
    PROVE  Harmless(r)
<1>1. \A q \in Runs \ {r} : run'[q] = Disturbed(run[q]) /\ run[q] \in RunState
  BY DisturbingOthers DEF Base, Types
<1> QED BY <1>1 DEF Harmless, Disturbed, RunState

LEMMA NoHarm ==
    ASSUME Base, NEW r \in Runs,
           \/ (WriteFile(r) \/ WriteManifest(r)) /\ run[r].mode # "out"
           \/ CheckoutBranch(r) \/ AddSubDir(r) \/ GitCommit(r) \/ Push(r) \/ CreatePR(r)
    PROVE  Harmless(r)
<1>0. /\ DOMAIN Disturbing(r) = Runs
  BY DEF Disturbing
<1>1. CASE WriteFile(r) /\ run[r].mode # "out"
  <2>1. \A q \in Runs \ {r} : run'[q] = Disturbing(r)[q]
    BY <1>0, <1>1 DEF WriteFile
  <2> QED BY <2>1, NoHarmWhenDisturbing
<1>2. CASE WriteManifest(r) /\ run[r].mode # "out"
  <2>1. \A q \in Runs \ {r} : run'[q] = Disturbing(r)[q]
    BY <1>0, <1>2 DEF WriteManifest
  <2> QED BY <2>1, NoHarmWhenDisturbing
<1>3. CASE CheckoutBranch(r) \/ AddSubDir(r) \/ GitCommit(r)
  <2>1. \A q \in Runs \ {r} : run'[q] = Disturbing(r)[q]
    BY <1>0, <1>3 DEF CheckoutBranch, AddSubDir, GitCommit
  <2> QED BY <2>1, NoHarmWhenDisturbing
<1>4. CASE Push(r)
  <2>1. \A q \in Runs \ {r} : run'[q] = run[q]
    BY <1>4 DEF Push, Goes, Base, Types
  <2>2. \A q \in Runs \ {r} : q \in DOMAIN pushed => pushed'[q] = pushed[q]
    BY <1>4 DEF Push
  <2> QED BY <1>4, <2>1, <2>2 DEF Push, Harmless, Undisturbed
<1>5. CASE CreatePR(r)
  <2>1. \A q \in Runs \ {r} : run'[q] = run[q]
    BY <1>5 DEF CreatePR, Goes, Base, Types
  <2> QED BY <1>5, <2>1 DEF CreatePR, Harmless, Undisturbed
<1> QED BY <1>1, <1>2, <1>3, <1>4, <1>5

LEMMA RepoByParts ==
    ASSUME Base, RepoOK, NEW r \in Runs, NEW x, Moves(r, x), Harmless(r), run[r].pc # "done",
           x.alone => x.mode = "open-pr" /\ AloneOK(r)',
           \A pr \in prs' : pr \in prs \/ (pr.by = r /\ x.pc = "done" /\ x.mode = "open-pr")
    PROVE  RepoOK'
<1>1. /\ run'[r] = x
      /\ \A q \in Runs \ {r} : /\ run'[q].pc = run[q].pc /\ run'[q].mode = run[q].mode
                               /\ (run'[q].alone => run[q].alone)
  BY OthersKeep
<1>2. ASSUME NEW q \in Runs, run'[q].alone PROVE run'[q].mode = "open-pr" /\ AloneOK(q)'
  <2>1. CASE q = r
    BY <1>1, <1>2, <2>1
  <2>2. CASE q # r
    <3>1. run[q].alone /\ Undisturbed(q)
      BY <1>2, <2>2 DEF Harmless
    <3>2. run[q].mode = "open-pr" /\ AloneOK(q) /\ Branched(q)
      BY <3>1 DEF RepoOK, Base
    <3>3. AloneOK(q)'
      BY <3>1, <3>2, UndisturbedStays
    <3> QED BY <1>1, <2>2, <3>2, <3>3
  <2> QED BY <2>1, <2>2
<1>3. ASSUME NEW pr \in prs' PROVE run'[pr.by].pc = "done" /\ run'[pr.by].mode = "open-pr"
  <2>1. CASE pr \in prs
    <3>1. pr.by \in Runs /\ run[pr.by].pc = "done" /\ run[pr.by].mode = "open-pr"
      BY <2>1 DEF Base, Types, Places, RepoOK
    <3> QED BY <1>1, <3>1
  <2>2. CASE pr.by = r /\ x.pc = "done" /\ x.mode = "open-pr"
    BY <1>1, <2>2
  <2> QED BY <2>1, <2>2
<1> QED BY <1>2, <1>3 DEF RepoOK

(* A run that has not come through has no pull request. *)
LEMMA NoPRYet ==
    ASSUME RepoOK, NEW r \in Runs, run[r].pc # "done"
    PROVE  \A pr \in prs : pr.by # r
BY DEF RepoOK

(* The steps of a run in the repository, for a run that is alone. *)

LEMMA ChecksOut ==
    ASSUME Base, RepoOK, NEW r \in Runs, CheckoutBranch(r), run[r].alone,
           run'[r] = [run[r] EXCEPT !.pc = "write", !.fork = commits[head]]
    PROVE  AloneOK(r)'
<1>1. run[r] \in RunState /\ Control(run[r]) /\ run[r].pc = "checkout" /\ AloneOK(r)
  BY DEF Base, Types, RepoOK, CheckoutBranch, At
<1>2. /\ run'[r].pc = "write" /\ run'[r].fork = commits[head] /\ run'[r].written = <<>>
      /\ run'[r].next = 1 /\ run'[r].recs = run[r].recs
  BY <1>1 DEF RunState, Control
<1>3. /\ index = commits[head] /\ work.files = index.files /\ work.manifest = index.manifest
  BY <1>1 DEF AloneOK
<1>4. /\ head' = r /\ commits'[r] = commits[head] /\ index' = index /\ work' = work /\ prs' = prs
  BY DEF CheckoutBranch
<1>5. OnItsBranch(r)'
  BY <1>2, <1>4 DEF OnItsBranch
<1>6. Over(work.files, commits[head], r, run'[r])
  BY <1>2, <1>3 DEF Over
<1>7. \A pr \in prs' : pr.by # r
  BY <1>1, <1>4, NoPRYet
<1> QED BY <1>2, <1>3, <1>4, <1>5, <1>6, <1>7 DEF AloneOK

LEMMA Writes ==
    ASSUME Base, RepoOK, NEW r \in Runs, WriteFile(r), run[r].alone, run'[r] = Written(r)
    PROVE  AloneOK(r)'
<1> DEFINE rec == run[r].recs[run[r].next]
           file == FreeName(r, rec)
           W == run[r].written
           a == [identity |-> rec.identity, kind |-> rec.kind, file |-> file]
           V == Append(W, a)
           fork == run[r].fork
<1>1. run[r] \in RunState /\ Control(run[r]) /\ Unwritten(r) /\ run[r].pc = "write" /\ AloneOK(r)
      /\ run[r].mode = "open-pr"
  BY DEF Base, Types, WriteFile, Unwritten, At, RepoOK
<1>2. rec \in Rec /\ file \in Files /\ \A k \in DOMAIN W : W[k].file # file
  BY <1>1, FreeNameIsFree DEF Base
<1>3. /\ W \in Seq(Artifact) /\ Len(W) + 1 = run[r].next
  BY <1>1 DEF RunState, Control, InStep
<1>4. Written(r) = [run[r] EXCEPT !.next = run[r].next + 1, !.written = V]
  BY DEF Written
<1>5. a \in Artifact /\ a.file = file
  BY <1>2 DEF Artifact, Rec
<1> HIDE DEF a
<1>6. /\ DOMAIN V = DOMAIN W \cup {Len(W) + 1} /\ V[Len(W) + 1] = a
      /\ \A k \in DOMAIN W : V[k] = W[k]
  BY <1>3, <1>5
<1> HIDE DEF V
<1>7. /\ run'[r].written = V /\ run'[r].recs = run[r].recs /\ run'[r].fork = fork
      /\ run'[r].pc = "write"
  BY <1>1, <1>4 DEF RunState
<1>8. /\ UNCHANGED <<head, commits, index, prs>>
      /\ work' = Put(work, r, rec, file)
  BY <1>1, TreeShapes, Zenon
<1>9. /\ DOMAIN work'.files = DOMAIN work.files \cup {file}
      /\ work'.files[file] = [code |-> rec.code, by |-> r]
      /\ \A f \in DOMAIN work.files \ {file} : work'.files[f] = work.files[f]
      /\ work'.manifest = work.manifest
  <2>1. work \in Tree
    BY DEF Base, Types, Places
  <2> HIDE DEF rec, file
  <2> QED BY <1>2, <1>8, <2>1, TreesStayTrees
<1>10. rec = run[r].recs[Len(W) + 1]
  BY <1>3
<1> HIDE DEF rec, file
<1>11. /\ OnItsBranch(r) /\ index = fork /\ work.manifest = fork.manifest
       /\ DOMAIN work.files = DOMAIN fork.files \cup {W[k].file : k \in DOMAIN W}
       /\ \A k \in DOMAIN W : work.files[W[k].file] = [code |-> run[r].recs[k].code, by |-> r]
       /\ \A f \in DOMAIN fork.files :
             (\A k \in DOMAIN W : W[k].file # f) => work.files[f] = fork.files[f]
  BY <1>1 DEF AloneOK, Over
<1>12. Over(work'.files, fork, r, run'[r])
  <2>1. {V[k].file : k \in DOMAIN V} = {W[k].file : k \in DOMAIN W} \cup {file}
    BY <1>5, <1>6
  <2>2. DOMAIN work'.files = DOMAIN fork.files \cup {V[k].file : k \in DOMAIN V}
    BY <1>9, <1>11, <2>1
  <2>3. ASSUME NEW k \in DOMAIN V
        PROVE  work'.files[V[k].file] = [code |-> run[r].recs[k].code, by |-> r]
    <3>1. CASE k \in DOMAIN W
      <4>1. V[k] = W[k] /\ W[k].file # file /\ W[k].file \in DOMAIN work.files
        BY <1>2, <1>6, <1>11, <3>1
      <4> QED BY <1>9, <1>11, <3>1, <4>1
    <3>2. CASE k = Len(W) + 1
      BY <1>5, <1>6, <1>9, <1>10, <3>2
    <3> QED BY <1>6, <3>1, <3>2
  <2>4. ASSUME NEW f \in DOMAIN fork.files, \A k \in DOMAIN V : V[k].file # f
        PROVE  work'.files[f] = fork.files[f]
    <3>1. f # file /\ \A k \in DOMAIN W : W[k].file # f
      BY <1>5, <1>6, <2>4
    <3> QED BY <1>9, <1>11, <3>1
  <2> QED BY <1>7, <2>2, <2>3, <2>4 DEF Over
<1>13. \A pr \in prs' : pr.by # r
  BY <1>1, <1>8, NoPRYet
<1>14. OnItsBranch(r)'
  BY <1>7, <1>8, <1>11 DEF OnItsBranch
<1> QED BY <1>7, <1>8, <1>9, <1>11, <1>12, <1>13, <1>14 DEF AloneOK

LEMMA Seals ==
    ASSUME Base, RepoOK, NEW r \in Runs, WriteManifest(r), run[r].alone,
           run'[r] = [run[r] EXCEPT !.pc = "add"]
    PROVE  AloneOK(r)'
<1>1. run[r] \in RunState /\ run[r].pc = "write" /\ AloneOK(r) /\ run[r].mode = "open-pr"
  BY DEF Base, Types, WriteManifest, At, RepoOK
<1>2. /\ run'[r].written = run[r].written /\ run'[r].recs = run[r].recs
      /\ run'[r].fork = run[r].fork /\ run'[r].pc = "add"
  BY <1>1 DEF RunState
<1>3. UNCHANGED <<head, commits, index, prs>> /\ work' = Sealed(work, r)
  BY <1>1, TreeShapes, Zenon
<1>4. work'.files = work.files /\ work'.manifest = [by |-> r, artifacts |-> run[r].written]
  <2>1. work \in Tree
    BY DEF Base, Types, Places
  <2> QED BY <1>3, <2>1, SealedIsATree DEF Base
<1>5. OnItsBranch(r) /\ index = run[r].fork /\ Over(work.files, run[r].fork, r, run[r])
  BY <1>1 DEF AloneOK
<1>6. OnItsBranch(r)' /\ Over(work'.files, run'[r].fork, r, run'[r])
  BY <1>2, <1>3, <1>4, <1>5 DEF OnItsBranch, Over
<1>7. \A pr \in prs' : pr.by # r
  BY <1>1, <1>3, NoPRYet
<1> QED BY <1>2, <1>3, <1>4, <1>5, <1>6, <1>7 DEF AloneOK

LEMMA Adds ==
    ASSUME Base, RepoOK, NEW r \in Runs, AddSubDir(r), run[r].alone,
           run'[r] = [run[r] EXCEPT !.pc = "commit"]
    PROVE  AloneOK(r)'
<1>1. run[r] \in RunState /\ run[r].pc = "add" /\ AloneOK(r) /\ Control(run[r])
  BY DEF Base, Types, AddSubDir, At, RepoOK
<1>2. /\ run'[r].written = run[r].written /\ run'[r].recs = run[r].recs
      /\ run'[r].fork = run[r].fork /\ run'[r].pc = "commit" /\ run'[r].next = Len(run[r].recs) + 1
  BY <1>1 DEF RunState, Control
<1>3. /\ UNCHANGED <<head, commits, work, prs>>
      /\ index'.files = work.files /\ index'.manifest = work.manifest /\ index'.other = index.other
  BY DEF AddSubDir, Base, Types, Places, Tree
<1>4. /\ OnItsBranch(r) /\ index = run[r].fork /\ Over(work.files, run[r].fork, r, run[r])
      /\ work.manifest = [by |-> r, artifacts |-> run[r].written]
  BY <1>1 DEF AloneOK
<1>5. OnItsBranch(r)'
  BY <1>2, <1>3, <1>4 DEF OnItsBranch
<1>6. Whole(index', r, run'[r])
  BY <1>2, <1>3, <1>4 DEF Whole, Over
<1>7. \A pr \in prs' : pr.by # r
  BY <1>1, <1>3, NoPRYet
<1> QED BY <1>2, <1>5, <1>6, <1>7 DEF AloneOK

LEMMA Commits ==
    ASSUME Base, RepoOK, NEW r \in Runs, GitCommit(r), run[r].alone,
           run'[r] = [run[r] EXCEPT !.pc = "push"]
    PROVE  AloneOK(r)'
<1>1. run[r] \in RunState /\ run[r].pc = "commit" /\ AloneOK(r)
  BY DEF Base, Types, GitCommit, At, RepoOK
<1>2. /\ run'[r].written = run[r].written /\ run'[r].recs = run[r].recs
      /\ run'[r].fork = run[r].fork /\ run'[r].pc = "push" /\ run'[r].next = run[r].next
  BY <1>1 DEF RunState
<1>3. head = r /\ Whole(index, r, run[r])
  BY <1>1 DEF AloneOK, OnItsBranch
<1>4. commits'[r] = index /\ prs' = prs
  BY <1>3 DEF GitCommit, Base, Types, Places, Branches
<1>5. Whole(commits'[r], r, run'[r])
  BY <1>2, <1>3, <1>4 DEF Whole, Over
<1>6. \A pr \in prs' : pr.by # r
  BY <1>1, <1>4, NoPRYet
<1> QED BY <1>2, <1>5, <1>6 DEF AloneOK

LEMMA Pushes ==
    ASSUME Base, RepoOK, NEW r \in Runs, Push(r), run[r].alone,
           run'[r] = [run[r] EXCEPT !.pc = "create"]
    PROVE  AloneOK(r)'
<1>1. run[r] \in RunState /\ run[r].pc = "push" /\ AloneOK(r)
  BY DEF Base, Types, Push, At, RepoOK
<1>2. /\ run'[r].written = run[r].written /\ run'[r].recs = run[r].recs
      /\ run'[r].fork = run[r].fork /\ run'[r].pc = "create" /\ run'[r].next = run[r].next
  BY <1>1 DEF RunState
<1>3. pushed'[r] = commits[r] /\ prs' = prs
  BY DEF Push
<1>4. Whole(pushed'[r], r, run'[r])
  BY <1>1, <1>2, <1>3 DEF AloneOK, Whole, Over
<1>5. \A pr \in prs' : pr.by # r
  BY <1>1, <1>3, NoPRYet
<1> QED BY <1>2, <1>4, <1>5 DEF AloneOK

LEMMA Creates ==
    ASSUME Base, RepoOK, NEW r \in Runs, CreatePR(r), run[r].alone,
           run'[r] = [run[r] EXCEPT !.pc = "done"]
    PROVE  AloneOK(r)'
<1>1. run[r] \in RunState /\ run[r].pc = "create" /\ AloneOK(r)
  BY DEF Base, Types, CreatePR, At, RepoOK
<1>2. /\ run'[r].written = run[r].written /\ run'[r].recs = run[r].recs
      /\ run'[r].fork = run[r].fork /\ run'[r].pc = "done" /\ run'[r].next = run[r].next
  BY <1>1 DEF RunState
<1>3. Whole(pushed[r], r, run'[r])
  BY <1>1, <1>2 DEF AloneOK, Whole, Over
<1>4. \A pr \in prs : pr.by # r
  BY <1>1, NoPRYet
<1>5. \A pr \in prs' : pr.by = r => pr.tree = pushed[r]
  BY <1>4 DEF CreatePR
<1> QED BY <1>2, <1>3, <1>5 DEF AloneOK

LEMMA RepoAtFirst == Init => RepoOK
BY DEF Init, RepoOK

LEMMA RepoKept == Base /\ RepoOK /\ [Next]_vars => RepoOK'
<1>0. \A r \in Runs : Base => run[r] \in RunState /\ Control(run[r])
  BY DEF Base, Types
<1>1. ASSUME Base, RepoOK, NEW r \in Runs, Start(r) PROVE RepoOK'
  <2>1. PICK g \in Estates :
           /\ At(r, "idle") /\ UNCHANGED <<store, out, repo>>
           /\ run' = [run EXCEPT ![r].pc = First(run[r].mode, Recommendations(g, IDOrder)),
                                 ![r].recs = Recommendations(g, IDOrder)]
    BY <1>1 DEF Start
  <2>2. PICK x : x = [run[r] EXCEPT !.pc = First(run[r].mode, Recommendations(g, IDOrder)),
                                    !.recs = Recommendations(g, IDOrder)]
    OBVIOUS
  <2>3. Moves(r, x)
    BY <1>1, <2>1, <2>2, Shapes, Zenon DEF Base
  <2>4. /\ x.mode = run[r].mode /\ x.alone = run[r].alone /\ run[r].pc = "idle"
        /\ x.pc = First(run[r].mode, Recommendations(g, IDOrder)) /\ run'[r] = x
    BY <1>0, <1>1, <2>1, <2>2, <2>3 DEF At, RunState, Moves
  <2>5. x.alone => x.mode = "open-pr" /\ AloneOK(r)'
    <3> SUFFICES ASSUME x.alone PROVE x.mode = "open-pr" /\ AloneOK(r)'
      OBVIOUS
    <3>1. x.mode = "open-pr"
      BY <1>1, <2>4 DEF RepoOK
    <3>2. run'[r].pc \in {"failed", "preflight"}
      BY <2>4, <3>1 DEF First
    <3>3. \A pr \in prs' : pr.by # r
      BY <1>1, <2>1, <2>4, NoPRYet DEF repo
    <3> QED BY <3>1, <3>2, <3>3 DEF AloneOK
  <2>6. Harmless(r) /\ prs' = prs
    BY <1>1, <2>1, <2>3, NoHarmFromElsewhere DEF repo
  <2> QED BY <1>1, <2>3, <2>4, <2>5, <2>6, RepoByParts
<1>2. ASSUME Base, RepoOK, NEW r \in Runs, NEW x, Moves(r, x), UNCHANGED repo,
             run[r].pc # "done", x.mode = run[r].mode, x.alone = run[r].alone,
             x.pc \in {"failed", "saving", "done"} \/ run[r].mode # "open-pr"
      PROVE  RepoOK'
  <2>1. x.alone => x.mode = "open-pr" /\ AloneOK(r)'
    <3> SUFFICES ASSUME x.alone PROVE x.mode = "open-pr" /\ AloneOK(r)'
      OBVIOUS
    <3>1. x.mode = "open-pr"
      BY <1>2 DEF RepoOK
    <3>2. run'[r].pc \in {"failed", "saving", "done"}
      BY <1>2, <3>1 DEF Moves
    <3>3. \A pr \in prs' : pr.by # r
      BY <1>2, NoPRYet DEF repo
    <3> QED BY <3>1, <3>2, <3>3 DEF AloneOK
  <2>2. Harmless(r) /\ prs' = prs
    BY <1>2, NoHarmFromElsewhere DEF repo
  <2> QED BY <1>2, <2>1, <2>2, RepoByParts
<1>3. ASSUME Base, RepoOK, NEW r \in Runs, Fail(r) PROVE RepoOK'
  <2>1. PICK x : x = [run[r] EXCEPT !.pc = "failed"]
    OBVIOUS
  <2>2. Moves(r, x)
    BY <1>3, <2>1, Shapes, Zenon DEF Base
  <2>3. run[r].pc # "done" /\ x.mode = run[r].mode /\ x.alone = run[r].alone /\ x.pc = "failed"
    BY <1>0, <1>3, <2>1 DEF Fail, RunState
  <2>4. UNCHANGED repo
    BY <1>3 DEF Fail
  <2> QED BY <1>2, <1>3, <2>2, <2>3, <2>4
<1>4. ASSUME Base, RepoOK, NEW r \in Runs, BeginSave(r) PROVE RepoOK'
  <2>1. PICK x : x = [run[r] EXCEPT !.pc = "saving",
                                  !.at = 1 + Cardinality({q \in Runs : run[q].at # 0})]
    OBVIOUS
  <2>2. Moves(r, x)
    BY <1>4, <2>1, Shapes, Zenon DEF Base
  <2>3. run[r].pc # "done" /\ x.mode = run[r].mode /\ x.alone = run[r].alone /\ x.pc = "saving"
    BY <1>0, <1>4, <2>1 DEF BeginSave, At, RunState
  <2>4. UNCHANGED repo
    BY <1>4 DEF BeginSave
  <2> QED BY <1>2, <1>4, <2>2, <2>3, <2>4
<1>5. ASSUME Base, RepoOK, NEW r \in Runs, UpsertRow(r) PROVE RepoOK'
  <2>1. PICK x : x = [run[r] EXCEPT !.next = @ + 1]
    OBVIOUS
  <2>2. Moves(r, x)
    BY <1>5, <2>1, Shapes, Zenon DEF Base
  <2>3. run[r].pc # "done" /\ x.mode = run[r].mode /\ x.alone = run[r].alone /\ x.pc = "saving"
    BY <1>0, <1>5, <2>1 DEF UpsertRow, Unsaved, At, RunState
  <2>4. UNCHANGED repo
    BY <1>5 DEF UpsertRow
  <2> QED BY <1>2, <1>5, <2>2, <2>3, <2>4
<1>6. ASSUME Base, RepoOK, NEW r \in Runs, CommitSave(r) PROVE RepoOK'
  <2>1. PICK x : x = [run[r] EXCEPT !.pc = "done"]
    OBVIOUS
  <2>2. Moves(r, x)
    BY <1>6, <2>1, Shapes, Zenon DEF Base
  <2>3. run[r].pc # "done" /\ x.mode = run[r].mode /\ x.alone = run[r].alone /\ x.pc = "done"
    BY <1>0, <1>6, <2>1 DEF CommitSave, At, RunState
  <2>4. UNCHANGED repo
    BY <1>6 DEF CommitSave
  <2> QED BY <1>2, <1>6, <2>2, <2>3, <2>4
<1>7. ASSUME Base, RepoOK, NEW r \in Runs, WriteFile(r) PROVE RepoOK'
  <2>1. Moves(r, Written(r)) /\ run'[r] = Written(r)
    <3>1. Moves(r, Written(r))
      BY <1>7, Shapes, Zenon DEF Base
    <3> QED BY <3>1 DEF Moves
  <2>2. /\ run[r].pc = "write" /\ Written(r).mode = run[r].mode
        /\ Written(r).alone = run[r].alone
    BY <1>0, <1>7 DEF WriteFile, Unwritten, At, Written, RunState
  <2>3. CASE run[r].mode = "out"
    <3>1. UNCHANGED repo
      BY <1>7, <2>3, TreeShapes, Zenon
    <3> QED BY <1>2, <1>7, <2>1, <2>2, <2>3, <3>1
  <2>4. CASE run[r].mode # "out"
    <3>1. Harmless(r)
      BY <1>7, <2>4, NoHarm
    <3>2. prs' = prs
      BY <1>7, <2>4, TreeShapes, Zenon
    <3>3. Written(r).alone => Written(r).mode = "open-pr" /\ AloneOK(r)'
      BY <1>7, <2>1, <2>2, Writes DEF RepoOK
    <3> QED BY <1>7, <2>1, <2>2, <3>1, <3>2, <3>3, RepoByParts
  <2> QED BY <2>3, <2>4
<1>8. ASSUME Base, RepoOK, NEW r \in Runs, WriteManifest(r) PROVE RepoOK'
  <2>1. PICK x : x = [run[r] EXCEPT !.pc = IF run[r].mode = "out" THEN "done" ELSE "add"]
    OBVIOUS
  <2>2. Moves(r, x) /\ run'[r] = x
    <3>1. Moves(r, x)
      BY <1>8, <2>1, Shapes, Zenon DEF Base
    <3> QED BY <3>1 DEF Moves
  <2>3. run[r].pc = "write" /\ x.mode = run[r].mode /\ x.alone = run[r].alone
    BY <1>0, <1>8, <2>1 DEF WriteManifest, At, RunState
  <2>4. CASE run[r].mode = "out"
    <3>1. UNCHANGED repo
      BY <1>8, <2>4, TreeShapes, Zenon
    <3> QED BY <1>2, <1>8, <2>2, <2>3, <2>4, <3>1
  <2>5. CASE run[r].mode # "out"
    <3>1. Harmless(r)
      BY <1>8, <2>5, NoHarm
    <3>2. prs' = prs
      BY <1>8, <2>5, TreeShapes, Zenon
    <3>3. run'[r] = [run[r] EXCEPT !.pc = "add"]
      BY <2>1, <2>2, <2>5
    <3>4. x.alone => x.mode = "open-pr" /\ AloneOK(r)'
      BY <1>8, <2>3, <3>3, Seals DEF RepoOK
    <3> QED BY <1>8, <2>2, <2>3, <3>1, <3>2, <3>4, RepoByParts
  <2> QED BY <2>4, <2>5
<1>9. ASSUME Base, RepoOK, NEW r \in Runs, Preflight(r) PROVE RepoOK'
  <2>1. PICK x : x = [run[r] EXCEPT !.pc = "checkout", !.alone = TRUE]
    OBVIOUS
  <2>2. Moves(r, x)
    BY <1>9, <2>1, Shapes, Zenon DEF Base
  <2>3. /\ run[r].pc = "preflight" /\ x.mode = "open-pr" /\ x.pc = "checkout" /\ run'[r] = x
    BY <1>0, <1>9, <2>1, <2>2 DEF Preflight, At, RunState, Control, InOpenPR, Moves
  <2>4. UNCHANGED repo /\ work = commits[head] /\ index = commits[head]
    BY <1>9 DEF Preflight
  <2>5. \A pr \in prs' : pr.by # r
    BY <1>9, <2>3, <2>4, NoPRYet DEF repo
  <2>6. AloneOK(r)'
    BY <2>3, <2>4, <2>5 DEF AloneOK, repo
  <2>7. Harmless(r) /\ prs' = prs
    BY <1>9, <2>2, <2>4, NoHarmFromElsewhere DEF repo
  <2> QED BY <1>9, <2>2, <2>3, <2>6, <2>7, RepoByParts
<1>10. ASSUME Base, RepoOK, NEW r \in Runs, CheckoutBranch(r) PROVE RepoOK'
  <2>1. PICK x : x = [run[r] EXCEPT !.pc = "write", !.fork = commits[head]]
    OBVIOUS
  <2>2. Moves(r, x) /\ run'[r] = x
    <3>1. Moves(r, x)
      BY <1>10, <2>1, Shapes, Zenon DEF Base
    <3> QED BY <3>1 DEF Moves
  <2>3. /\ run[r].pc # "done" /\ x.mode = "open-pr" /\ x.alone = run[r].alone
    BY <1>0, <1>10, <2>1 DEF CheckoutBranch, At, RunState, Control, InOpenPR
  <2>4. x.alone => AloneOK(r)'
    BY <1>10, <2>1, <2>2, <2>3, ChecksOut
  <2>5. Harmless(r) /\ prs' = prs
    BY <1>10, NoHarm DEF CheckoutBranch
  <2> QED BY <1>10, <2>2, <2>3, <2>4, <2>5, RepoByParts
<1>11. ASSUME Base, RepoOK, NEW r \in Runs, AddSubDir(r) PROVE RepoOK'
  <2>1. PICK x : x = [run[r] EXCEPT !.pc = "commit"]
    OBVIOUS
  <2>2. Moves(r, x) /\ run'[r] = x
    <3>1. Moves(r, x)
      BY <1>11, <2>1, Shapes, Zenon DEF Base
    <3> QED BY <3>1 DEF Moves
  <2>3. /\ run[r].pc # "done" /\ x.mode = "open-pr" /\ x.alone = run[r].alone
    BY <1>0, <1>11, <2>1 DEF AddSubDir, At, RunState, Control, InOpenPR
  <2>4. x.alone => AloneOK(r)'
    BY <1>11, <2>1, <2>2, <2>3, Adds
  <2>5. Harmless(r) /\ prs' = prs
    BY <1>11, NoHarm DEF AddSubDir
  <2> QED BY <1>11, <2>2, <2>3, <2>4, <2>5, RepoByParts
<1>12. ASSUME Base, RepoOK, NEW r \in Runs, GitCommit(r) PROVE RepoOK'
  <2>1. PICK x : x = [run[r] EXCEPT !.pc = "push"]
    OBVIOUS
  <2>2. Moves(r, x) /\ run'[r] = x
    <3>1. Moves(r, x)
      BY <1>12, <2>1, Shapes, Zenon DEF Base
    <3> QED BY <3>1 DEF Moves
  <2>3. /\ run[r].pc # "done" /\ x.mode = "open-pr" /\ x.alone = run[r].alone
    BY <1>0, <1>12, <2>1 DEF GitCommit, At, RunState, Control, InOpenPR
  <2>4. x.alone => AloneOK(r)'
    BY <1>12, <2>1, <2>2, <2>3, Commits
  <2>5. Harmless(r) /\ prs' = prs
    BY <1>12, NoHarm DEF GitCommit
  <2> QED BY <1>12, <2>2, <2>3, <2>4, <2>5, RepoByParts
<1>13. ASSUME Base, RepoOK, NEW r \in Runs, Push(r) PROVE RepoOK'
  <2>1. PICK x : x = [run[r] EXCEPT !.pc = "create"]
    OBVIOUS
  <2>2. Moves(r, x) /\ run'[r] = x
    <3>1. Moves(r, x)
      BY <1>13, <2>1, Shapes, Zenon DEF Base
    <3> QED BY <3>1 DEF Moves
  <2>3. /\ run[r].pc # "done" /\ x.mode = "open-pr" /\ x.alone = run[r].alone
    BY <1>0, <1>13, <2>1 DEF Push, At, RunState, Control, InOpenPR
  <2>4. x.alone => AloneOK(r)'
    BY <1>13, <2>1, <2>2, <2>3, Pushes
  <2>5. Harmless(r) /\ prs' = prs
    BY <1>13, NoHarm DEF Push
  <2> QED BY <1>13, <2>2, <2>3, <2>4, <2>5, RepoByParts
<1>14. ASSUME Base, RepoOK, NEW r \in Runs, CreatePR(r) PROVE RepoOK'
  <2>1. PICK x : x = [run[r] EXCEPT !.pc = "done"]
    OBVIOUS
  <2>2. Moves(r, x) /\ run'[r] = x
    <3>1. Moves(r, x)
      BY <1>14, <2>1, Shapes, Zenon DEF Base
    <3> QED BY <3>1 DEF Moves
  <2>3. /\ run[r].pc # "done" /\ x.mode = "open-pr" /\ x.alone = run[r].alone /\ x.pc = "done"
    BY <1>0, <1>14, <2>1 DEF CreatePR, At, RunState, Control, InOpenPR
  <2>4. x.alone => AloneOK(r)'
    BY <1>14, <2>1, <2>2, <2>3, Creates
  <2>5. Harmless(r)
    BY <1>14, NoHarm
  <2>6. \A pr \in prs' : pr \in prs \/ pr.by = r
    BY <1>14 DEF CreatePR
  <2> QED BY <1>14, <2>2, <2>3, <2>4, <2>5, <2>6, RepoByParts
<1>15. ASSUME Base, RepoOK, Operator PROVE RepoOK'
  <2>1. prs' = prs /\ pushed' = pushed
    BY <1>15 DEF Operator, Edit, Stage, CommitAll, BackToMain
  <2>2. CASE Edit
    <3>1. /\ UNCHANGED <<run, head, commits, index>>
          /\ work'.files = work.files /\ work'.manifest = work.manifest
      BY <1>15, <2>2 DEF Edit, Base, Types, Places, Tree
    <3>2. \A q \in Runs : Undisturbed(q)
      BY <2>1, <3>1 DEF Undisturbed
    <3>3. \A q \in Runs : AloneOK(q) => AloneOK(q)'
      BY <1>15, <3>2, UndisturbedStays DEF Base
    <3> QED BY <1>15, <2>1, <3>1, <3>3 DEF RepoOK
  <2>3. CASE Touched
    <3>1. \A q \in Runs : /\ ~run'[q].alone /\ run'[q].pc = run[q].pc
                          /\ run'[q].mode = run[q].mode
      BY <1>0, <1>15, <2>3 DEF Touched, RunState
    <3>2. \A pr \in prs : pr.by \in Runs
      BY <1>15 DEF Base, Types, Places
    <3> QED BY <1>15, <2>1, <3>1, <3>2 DEF RepoOK
  <2> QED BY <1>15, <2>2, <2>3 DEF Operator, Stage, CommitAll, BackToMain
<1>16. ASSUME RepoOK, UNCHANGED vars PROVE RepoOK'
  BY <1>16 DEF vars, repo, RepoOK, AloneOK, OnItsBranch
<1> QED
  BY <1>1, <1>3, <1>4, <1>5, <1>6, <1>7, <1>8, <1>9, <1>10, <1>11, <1>12, <1>13, <1>14, <1>15,
     <1>16 DEF Next, OpenPR

LEMMA PRsAreTrue == Base /\ RepoOK => PRHoldsOnlyArtifacts
<1> SUFFICES ASSUME Base, RepoOK, NEW pr \in prs, run[pr.by].alone
             PROVE  LET fork == run[pr.by].fork
                        own == {a.file : a \in ToSet(pr.tree.manifest.artifacts)}
                    IN  /\ pr.tree.manifest.by = pr.by /\ Describes(pr.tree)
                        /\ pr.tree.other = fork.other
                        /\ DOMAIN pr.tree.files = DOMAIN fork.files \cup own
                        /\ \A f \in DOMAIN fork.files \ own : pr.tree.files[f] = fork.files[f]
  BY DEF PRHoldsOnlyArtifacts
<1>1. PICK r \in Runs : r = pr.by
  BY DEF Base, Types, Places
<1>2. Whole(pr.tree, r, run[r]) /\ run[r].mode = "open-pr"
  BY <1>1 DEF RepoOK, AloneOK
<1> DEFINE W == run[r].written
<1>3. /\ W \in Seq(Artifact) /\ run[r].recs \in Seq(Rec)
      /\ InStep(run[r]) /\ Len(W) = Len(run[r].recs)
  BY <1>2 DEF Base, Types, RunState, Control, Whole, InStep
<1>4. Lists(W, run[r].recs)
  BY <1>3 DEF Lists, InStep
<1>5. pr.tree.manifest.by = r /\ pr.tree.manifest.artifacts = W
  BY <1>2 DEF Whole
<1>6. {a.file : a \in ToSet(W)} = {W[k].file : k \in DOMAIN W}
  BY <1>3 DEF ToSet
<1>7. Describes(pr.tree)
  <2>1. \A k \in DOMAIN W : /\ W[k].file \in DOMAIN pr.tree.files
                            /\ pr.tree.files[W[k].file].code = run[r].recs[k].code
    <3> TAKE k \in DOMAIN W
    <3>1. /\ DOMAIN pr.tree.files = DOMAIN run[r].fork.files \cup {W[l].file : l \in DOMAIN W}
          /\ pr.tree.files[W[k].file] = [code |-> run[r].recs[k].code, by |-> r]
      BY <1>2 DEF Whole, Over
    <3> QED BY <3>1
  <2> QED BY <1>4, <1>5, <2>1 DEF Describes
<1>8. PICK own : own = {a.file : a \in ToSet(pr.tree.manifest.artifacts)}
  OBVIOUS
<1>9. own = {W[k].file : k \in DOMAIN W}
  BY <1>5, <1>6, <1>8
<1>10. Over(pr.tree.files, run[r].fork, r, run[r]) /\ pr.tree.other = run[r].fork.other
  BY <1>2 DEF Whole
<1>11. DOMAIN pr.tree.files = DOMAIN run[r].fork.files \cup own
  <2>1. DOMAIN pr.tree.files = DOMAIN run[r].fork.files \cup {W[k].file : k \in DOMAIN W}
    BY <1>10 DEF Over
  <2> QED BY <1>9, <2>1
<1>12. \A f \in DOMAIN run[r].fork.files \ own : pr.tree.files[f] = run[r].fork.files[f]
  <2>1. \A f \in DOMAIN run[r].fork.files \ {W[k].file : k \in DOMAIN W} :
           pr.tree.files[f] = run[r].fork.files[f]
    BY <1>10 DEF Over
  <2> QED BY <1>9, <2>1
<1>13. pr.tree.manifest.by = pr.by /\ Describes(pr.tree) /\ pr.tree.other = run[r].fork.other
  BY <1>1, <1>5, <1>7, <1>10
<1> HIDE DEF W
<1> QED BY <1>1, <1>8, <1>11, <1>12, <1>13

-----------------------------------------------------------------------------
(* The theorems. *)

IInv == Base /\ RowsOK /\ AgeTellsStale /\ OutOK /\ RepoOK

LEMMA AlwaysIInv == Spec => []IInv
<1>1. Init => IInv
  BY BaseAtFirst, RowsAtFirst, OutAtFirst, RepoAtFirst DEF IInv
<1>2. IInv /\ [Next]_vars => IInv'
  <2> SUFFICES ASSUME IInv, [Next]_vars PROVE IInv'
    OBVIOUS
  <2>1. Base' /\ RowsOK' /\ AgeTellsStale' /\ OutOK' /\ RepoOK'
    BY BaseKept, RowsKept, OutKept, RepoKept DEF IInv
  <2> QED BY <2>1 DEF IInv
<1> QED BY <1>1, <1>2, PTL DEF Spec

(* Every run, the table and the repository hold what they are made for, and *)
(* the checked-out branch exists.                                          *)
THEOREM TypeCorrect == Spec => []TypeOK
<1>1. IInv => TypeOK
  BY DEF IInv, Base, Types, Places, Branches, Control, RowsOK, TypeOK
<1> QED BY <1>1, AlwaysIInv, PTL

(* WriteArtifacts: whatever IDs become one file name, whichever runs write  *)
(* in the directory and wherever they die, the manifest names files that    *)
(* are there and hold what it says.                                        *)
THEOREM ManifestAlwaysTrue == Spec => []ManifestIsTrue
<1>1. IInv => ManifestIsTrue
  BY OutTellsTheTruth DEF IInv
<1> QED BY <1>1, AlwaysIInv, PTL

(* OpenPR: a pull request nobody came between holds its artifacts and       *)
(* nothing else over the commit it was branched off.                       *)
THEOREM PRsHoldOnlyArtifacts == Spec => []PRHoldsOnlyArtifacts
<1>1. IInv => PRHoldsOnlyArtifacts
  BY PRsAreTrue DEF IInv
<1> QED BY <1>1, AlwaysIInv, PTL

(* SaveRemediations: the age of a row tells the rows of the last save from  *)
(* the older ones.                                                         *)
THEOREM AgeAlwaysTellsStale == Spec => []AgeTellsStale
<1>1. IInv => AgeTellsStale
  BY DEF IInv
<1> QED BY <1>1, AlwaysIInv, PTL

(* SaveRemediations: because runRemediate goes through the identities in    *)
(* the order of Store.Identities, no ring of saves waits for itself.       *)
THEOREM SavesDoNotDeadlock == Spec => []SavesNeverDeadlock
<1>1. IInv => SavesNeverDeadlock
  BY NoRing DEF IInv
<1> QED BY <1>1, AlwaysIInv, PTL

=============================================================================
