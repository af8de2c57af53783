---------------------------- MODULE PgGraphProofs ----------------------------
(***************************************************************************)
(* Proofs about PgGraph, for any loads, any number of sessions that run    *)
(* them and any estate.                                                    *)
(*                                                                         *)
(* A batch is a fold over its elements; After gives it step by step.  Each *)
(* open transaction has run a prefix of its batch on the committed tables, *)
(* as if alone (Ran), because the rows it has written are its own until it *)
(* ends (Serial): that is what a commit makes of the tables.  What a batch *)
(* does to a row is a Change that does not depend on the row: two of them  *)
(* are one, and one twice is once, so a load that is run again converges.  *)
(* Tables only grow (Grown), so a snapshot's later queries still find what *)
(* was there when it began (Reading).                                      *)
(* A batch is taken by the tables and by the in-memory graph alike          *)
(* (Mirrored), and each query of a snapshot that no load commits under     *)
(* copies its part of the rows (Faithful): so the two backends agree.      *)
(***************************************************************************)
EXTENDS PgGraph, WellFoundedInduction, FiniteSetTheorems, TLAPS

-----------------------------------------------------------------------------
(* Induction, and sequences. *)

LEMMA SetInduction ==
    ASSUME NEW S, 0 \in S, \A n \in Nat : n \in S => n + 1 \in S
    PROVE  Nat \subseteq S
<1> DEFINE T == Nat \ S
           R == OpToRel(<, Nat)
<1>1. IsWellFoundedOn(R, Nat)
  BY NatLessThanWellFounded
<1>2. \A x, y \in Nat : <<y, x>> \in R <=> y < x
  BY DEF OpToRel
<1> HIDE DEF R
<1>3. SUFFICES ASSUME T # {} PROVE FALSE
  OBVIOUS
<1>4. PICK x \in T : \A y \in T : <<y, x>> \notin R
  <2>1. T \subseteq Nat
    OBVIOUS
  <2> HIDE DEF T
  <2> QED BY <1>1, <1>3, <2>1, WFMin
<1>5. x # 0 /\ x - 1 \in Nat /\ x - 1 < x
  OBVIOUS
<1>6. x - 1 \in S
  BY <1>2, <1>4, <1>5
<1> QED BY <1>5, <1>6

LEMMA ToSetAppend ==
    ASSUME NEW S, NEW a \in Seq(S), NEW e \in S
    PROVE  ToSet(Append(a, e)) = ToSet(a) \cup {e}
<1>1. /\ DOMAIN a = 1..Len(a) /\ Len(a) \in Nat
      /\ DOMAIN Append(a, e) = 1..(Len(a) + 1) /\ Append(a, e)[Len(a) + 1] = e
      /\ \A k \in 1..Len(a) : Append(a, e)[k] = a[k]
  OBVIOUS
<1>2. ASSUME NEW x \in ToSet(a) PROVE x \in ToSet(Append(a, e))
  BY <1>1 DEF ToSet
<1>3. e \in ToSet(Append(a, e))
  BY <1>1 DEF ToSet
<1>4. ASSUME NEW x \in ToSet(Append(a, e)) PROVE x \in ToSet(a) \cup {e}
  <2>1. PICK k \in 1..(Len(a) + 1) : x = Append(a, e)[k]
    BY <1>1 DEF ToSet
  <2>2. k \in 1..Len(a) \/ k = Len(a) + 1
    BY <1>1
  <2> QED BY <1>1, <2>1, <2>2 DEF ToSet
<1> QED BY <1>2, <1>3, <1>4

LEMMA ToSetConcat ==
    ASSUME NEW S, NEW a \in Seq(S), NEW b \in Seq(S)
    PROVE  ToSet(a \o b) = ToSet(a) \cup ToSet(b)
<1>1. /\ DOMAIN a = 1..Len(a) /\ Len(a) \in Nat /\ DOMAIN b = 1..Len(b) /\ Len(b) \in Nat
      /\ DOMAIN (a \o b) = 1..(Len(a) + Len(b))
      /\ \A k \in 1..Len(a) : (a \o b)[k] = a[k]
      /\ \A k \in 1..Len(b) : (a \o b)[Len(a) + k] = b[k]
  OBVIOUS
<1>2. ASSUME NEW x \in ToSet(a) PROVE x \in ToSet(a \o b)
  BY <1>1 DEF ToSet
<1>3. ASSUME NEW x \in ToSet(b) PROVE x \in ToSet(a \o b)
  <2>1. PICK k \in 1..Len(b) : x = b[k]
    BY <1>1, <1>3 DEF ToSet
  <2>2. Len(a) + k \in DOMAIN (a \o b) /\ (a \o b)[Len(a) + k] = x
    BY <1>1, <2>1
  <2> QED BY <2>2 DEF ToSet
<1>4. ASSUME NEW x \in ToSet(a \o b) PROVE x \in ToSet(a) \cup ToSet(b)
  <2>1. PICK k \in 1..(Len(a) + Len(b)) : x = (a \o b)[k]
    BY <1>1, <1>4 DEF ToSet
  <2>2. k \in 1..Len(a) \/ (k - Len(a) \in 1..Len(b) /\ k = Len(a) + (k - Len(a)))
    BY <1>1
  <2> QED BY <1>1, <2>1, <2>2 DEF ToSet
<1> QED BY <1>2, <1>3, <1>4

-----------------------------------------------------------------------------
(* What a batch has come to after its first k elements. *)

(* What the in-memory graph does with a record. *)
Sighted(st, r) ==
    LET e == Mem!Parsed(r, 0)
    IN  IF e \in st.seen THEN st
        ELSE [ids  |-> Mem!WithEvent(st.ids, Operator, Subject[r], e),
              seen |-> st.seen \cup {e}]

(* One element of a batch: an entry, or the subject or the record of an     *)
(* event; and an entry or a record as the in-memory graph takes it.        *)
Takes(kind, st, x) ==
    IF kind = "entry" THEN UpsertIdentity(st, x)
    ELSE IF kind = "subject" THEN UpsertSubject(st, x)
    ELSE IF kind = "described" THEN Mem!WithIdentity(st, Operator, Unordered(x))
    ELSE IF kind = "sighted" THEN Sighted(st, x)
    ELSE InsertEvent(st, x)

Folded(kind, base, xs, f, s) ==
    IF s = {} THEN base ELSE Takes(kind, f[s \ {Max(s)}], xs[Max(s)])

IsFold(kind, base, xs, f, n) == f = [s \in SUBSET (1..n) |-> Folded(kind, base, xs, f, s)]

After(kind, base, xs, k) == (CHOOSE f : IsFold(kind, base, xs, f, Len(xs)))[1..k]

LEMMA MaxIsLast ==
    ASSUME NEW n \in Nat, NEW s \in SUBSET (1..n), n \in s
    PROVE  Max(s) = n
<1> DEFINE IsMax(x) == x \in s /\ \A y \in s : x >= y
<1>1. IsMax(n)
  OBVIOUS
<1>2. \A x : IsMax(x) => x = n
  OBVIOUS
<1>3. Max(s) = CHOOSE x : IsMax(x)
  BY DEF Max
<1> HIDE DEF IsMax
<1> QED BY <1>1, <1>2, <1>3

LEMMA FoldExists ==
    ASSUME NEW kind, NEW base, NEW xs
    PROVE  \A n \in Nat : \E f : IsFold(kind, base, xs, f, n)
<1> DEFINE Of(f, s) == Folded(kind, base, xs, f, s)
           Is(f, n) == IsFold(kind, base, xs, f, n)
           Grows == {n \in Nat : \E f : Is(f, n)}
<1>1. \A f, n : Is(f, n) <=> f = [s \in SUBSET (1..n) |-> Of(f, s)]
  BY DEF IsFold
<1>2. \A f, s : Of(f, s) = IF s = {} THEN base ELSE Takes(kind, f[s \ {Max(s)}], xs[Max(s)])
  BY DEF Folded
<1> HIDE DEF Is, Of
<1>3. 0 \in Grows
  <2> DEFINE f == [s \in SUBSET (1..0) |-> base]
  <2>1. SUBSET (1..0) = {{}}
    OBVIOUS
  <2>2. \A s \in SUBSET (1..0) : Of(f, s) = base
    BY <1>2, <2>1
  <2>3. f = [s \in SUBSET (1..0) |-> Of(f, s)]
    BY <2>2
  <2>4. Is(f, 0)
    BY <1>1, <2>3, Zenon
  <2> HIDE DEF f
  <2> QED BY <2>4
<1>4. ASSUME NEW n \in Nat, n \in Grows PROVE n + 1 \in Grows
  <2>1. PICK f : Is(f, n)
    BY <1>4
  <2>2. \A s \in SUBSET (1..n) : f[s] = Of(f, s)
    BY <1>1, <2>1, Zenon
  <2> DEFINE g == [s \in SUBSET (1..(n + 1)) |->
                     IF n + 1 \in s THEN Takes(kind, f[s \ {n + 1}], xs[n + 1]) ELSE f[s]]
  <2>3. ASSUME NEW s \in SUBSET (1..n)
        PROVE  g[s] = f[s] /\ s \in SUBSET (1..(n + 1)) /\ n + 1 \notin s
    OBVIOUS
  <2>4. ASSUME NEW s \in SUBSET (1..(n + 1)), n + 1 \in s
        PROVE  /\ Max(s) = n + 1 /\ s \ {n + 1} \in SUBSET (1..n)
               /\ g[s] = Takes(kind, f[s \ {n + 1}], xs[n + 1])
    <3>1. Max(s) = n + 1
      BY <2>4, MaxIsLast
    <3> QED BY <2>4, <3>1
  <2>5. ASSUME NEW s \in SUBSET (1..(n + 1)), n + 1 \notin s PROVE s \in SUBSET (1..n)
    BY <2>5
  <2>6. g = [s \in SUBSET (1..(n + 1)) |-> g[s]]
    OBVIOUS
  <2> HIDE DEF g
  <2>7. ASSUME NEW s \in SUBSET (1..(n + 1)) PROVE g[s] = Of(g, s)
    <3>1. CASE n + 1 \in s
      <4>1. g[s \ {n + 1}] = f[s \ {n + 1}]
        BY <2>3, <2>4, <3>1
      <4> QED BY <1>2, <2>4, <3>1, <4>1
    <3>2. CASE n + 1 \notin s
      <4>1. s \in SUBSET (1..n) /\ g[s] = f[s]
        BY <2>3, <2>5, <3>2
      <4>2. CASE s = {}
        BY <1>2, <2>2, <4>1, <4>2
      <4>3. CASE s # {}
        <5>1. s \ {Max(s)} \in SUBSET (1..n)
          BY <4>1
        <5>2. g[s \ {Max(s)}] = f[s \ {Max(s)}]
          BY <2>3, <5>1
        <5> QED BY <1>2, <2>2, <4>1, <4>3, <5>2
      <4> QED BY <4>2, <4>3
    <3> QED BY <3>1, <3>2
  <2>8. g = [s \in SUBSET (1..(n + 1)) |-> Of(g, s)]
    BY <2>6, <2>7
  <2>9. Is(g, n + 1)
    BY <1>1, <2>8, Zenon
  <2> QED BY <2>9
<1>5. Nat \subseteq Grows
  <2> HIDE DEF Grows
  <2> QED BY <1>3, <1>4, SetInduction
<1> QED BY <1>5 DEF Is

LEMMA AfterIsAFold ==
    ASSUME NEW kind, NEW base, NEW xs, Len(xs) \in Nat
    PROVE  \E it : /\ \A j : After(kind, base, xs, j) = it[1..j]
                   /\ \A s \in SUBSET (1..Len(xs)) : it[s] = Folded(kind, base, xs, it, s)
<1> DEFINE N == Len(xs)
           it == CHOOSE f : IsFold(kind, base, xs, f, N)
<1>1. IsFold(kind, base, xs, it, N)
  BY FoldExists
<1>2. \A j : After(kind, base, xs, j) = it[1..j]
  BY DEF After
<1> HIDE DEF it
<1>3. \A s \in SUBSET (1..N) : it[s] = Folded(kind, base, xs, it, s)
  BY <1>1, Zenon DEF IsFold
<1> QED BY <1>2, <1>3

(* FoldLeft takes the elements of a batch one by one, in their order. *)
LEMMA AfterNone ==
    ASSUME NEW kind, NEW base, NEW T, NEW xs \in Seq(T)
    PROVE  After(kind, base, xs, 0) = base
<1>1. Len(xs) \in Nat /\ 1..0 = {} /\ {} \in SUBSET (1..Len(xs))
  OBVIOUS
<1>2. PICK it : /\ \A j : After(kind, base, xs, j) = it[1..j]
                /\ \A s \in SUBSET (1..Len(xs)) : it[s] = Folded(kind, base, xs, it, s)
  BY <1>1, AfterIsAFold
<1>3. it[{}] = Folded(kind, base, xs, it, {})
  BY <1>1, <1>2, Zenon
<1> QED BY <1>1, <1>2, <1>3 DEF Folded

LEMMA AfterNext ==
    ASSUME NEW kind, NEW base, NEW T, NEW xs \in Seq(T), NEW k \in 1..Len(xs)
    PROVE  After(kind, base, xs, k) = Takes(kind, After(kind, base, xs, k - 1), xs[k])
<1> DEFINE N == Len(xs)
<1>1. N \in Nat
  OBVIOUS
<1>2. PICK it : /\ \A j : After(kind, base, xs, j) = it[1..j]
                /\ \A s \in SUBSET (1..N) : it[s] = Folded(kind, base, xs, it, s)
  BY <1>1, AfterIsAFold
<1>3. k \in Nat /\ k <= N /\ k >= 1
  BY <1>1
<1> HIDE DEF N
<1>4. 1..k \in SUBSET (1..N) /\ k \in 1..k /\ (1..k) \ {k} = 1..(k - 1) /\ 1..k # {}
  <2>1. 1..k \in SUBSET (1..N)
    BY <1>1, <1>3
  <2>2. k \in 1..k
    BY <1>3
  <2>3. (1..k) \ {k} = 1..(k - 1)
    BY <1>3
  <2> QED BY <2>1, <2>2, <2>3, Zenon
<1>5. Max(1..k) = k
  <2>1. 1..k \in SUBSET (1..k)
    OBVIOUS
  <2> QED BY <1>3, <1>4, <2>1, MaxIsLast
<1>6. it[1..k] = Folded(kind, base, xs, it, 1..k)
  BY <1>2, <1>4, Zenon
<1>7. it[1..k] = Takes(kind, it[(1..k) \ {k}], xs[k])
  BY <1>4, <1>5, <1>6 DEF Folded
<1> QED BY <1>2, <1>4, <1>7

LEMMA AfterAll ==
    ASSUME NEW base, NEW T, NEW xs \in Seq(T)
    PROVE  /\ IngestIdentities(base, xs) = After("entry", base, xs, Len(xs))
           /\ UpsertSubjects(base, xs) = After("subject", base, xs, Len(xs))
           /\ InsertEvents(base, xs) = After("record", base, xs, Len(xs))
           /\ MemIdentities(base, xs) = After("described", base, xs, Len(xs))
           /\ MemEvents(base, xs) = After("sighted", base, xs, Len(xs))
<1>1. DOMAIN xs = 1..Len(xs)
  OBVIOUS
<1>2. IngestIdentities(base, xs) = After("entry", base, xs, Len(xs))
  BY <1>1 DEF IngestIdentities, FoldLeft, MapThenFoldSet, After, IsFold, Folded, Takes
<1>3. UpsertSubjects(base, xs) = After("subject", base, xs, Len(xs))
  BY <1>1 DEF UpsertSubjects, FoldLeft, MapThenFoldSet, After, IsFold, Folded, Takes
<1>4. InsertEvents(base, xs) = After("record", base, xs, Len(xs))
  BY <1>1 DEF InsertEvents, FoldLeft, MapThenFoldSet, After, IsFold, Folded, Takes
<1>5. MemIdentities(base, xs) = After("described", base, xs, Len(xs))
  BY <1>1 DEF MemIdentities, FoldLeft, MapThenFoldSet, After, IsFold, Folded, Takes
<1>6. MemEvents(base, xs) = After("sighted", base, xs, Len(xs))
  BY <1>1 DEF MemEvents, FoldLeft, MapThenFoldSet, After, IsFold, Folded, Takes, Sighted
<1> QED BY <1>2, <1>3, <1>4, <1>5, <1>6

-----------------------------------------------------------------------------
(* Tables of identities rows, and what one element does to them. *)

Table == UNION {[D -> RowType] : D \in SUBSET IDs}

LEMMA TableIs == \A t : t \in Table <=> DOMAIN t \subseteq IDs /\ t \in [DOMAIN t -> RowType]
BY DEF Table

Elements(kind) == IF kind = "entry" THEN Entry ELSE Records
Owner(kind, x) == IF kind = "entry" THEN x.id ELSE Subject[x]

(* The row an element leaves where old was. *)
NextRow(kind, old, x) ==
    IF kind = "entry"
    THEN [fields      |-> MergeColumns(old.fields, x.fields),
          lastUsed    |-> IF x.lastUsed > old.lastUsed THEN x.lastUsed ELSE old.lastUsed,
          privileged  |-> old.privileged \/ x.privileged,
          shadow      |-> old.shadow \/ x.shadow,
          permissions |-> LastOfEach(x.permissions)]
    ELSE [old EXCEPT !.privileged = @ \/ Subject[x] \in Operator]

(* A row keeps what a detector has seen of it, but for lists and grants. *)
Below(r1, r2) ==
    /\ \A f \in Fields \ Lists : r1.fields[f] # NoValue => r2.fields[f] # NoValue
    /\ r1.lastUsed <= r2.lastUsed
    /\ r1.privileged => r2.privileged
    /\ r1.shadow => r2.shadow

Grown(t1, t2) ==
    DOMAIN t1 \subseteq DOMAIN t2 /\ \A id \in DOMAIN t1 : Below(t1[id], t2[id])

LEMMA NewRowIsARow == \A p \in BOOLEAN : NewRow(p) \in RowType
BY DEF NewRow, RowType

LEMMA RowOfIsARow ==
    ASSUME NEW t \in Table, NEW id
    PROVE  RowOf(t, id) \in RowType /\ (id \in DOMAIN t => RowOf(t, id) = t[id])
BY TableIs, NewRowIsARow DEF RowOf

LEMMA PutIsATable ==
    ASSUME NEW t \in Table, NEW id \in IDs, NEW row \in RowType
    PROVE  /\ Put(t, id, row) \in Table
           /\ DOMAIN Put(t, id, row) = DOMAIN t \cup {id}
           /\ Put(t, id, row)[id] = row
           /\ \A i \in DOMAIN t : i # id => Put(t, id, row)[i] = t[i]
<1>1. DOMAIN t \subseteq IDs /\ t \in [DOMAIN t -> RowType]
  BY TableIs
<1> QED BY <1>1, TableIs DEF Put

LEMMA OverlayIsATable ==
    ASSUME NEW t \in Table, NEW own \in Table
    PROVE  /\ Overlay(t, own) \in Table
           /\ DOMAIN Overlay(t, own) = DOMAIN t \cup DOMAIN own
           /\ \A i \in DOMAIN own : Overlay(t, own)[i] = own[i]
           /\ \A i \in DOMAIN t : i \notin DOMAIN own => Overlay(t, own)[i] = t[i]
<1>1. /\ DOMAIN t \subseteq IDs /\ t \in [DOMAIN t -> RowType]
      /\ DOMAIN own \subseteq IDs /\ own \in [DOMAIN own -> RowType]
  BY TableIs
<1> QED BY <1>1, TableIs DEF Overlay

LEMMA LastOfEachAreGrants ==
    ASSUME NEW grants \in Seq(Permission)
    PROVE  LastOfEach(grants) \subseteq Permission
BY DEF LastOfEach

LEMMA ElementsHaveOwners ==
    ASSUME NEW kind, NEW x \in Elements(kind)
    PROVE  Owner(kind, x) \in IDs
BY SubjectAssumption DEF Elements, Owner, Entry

LEMMA NextRowIsARow ==
    ASSUME NEW kind, NEW old \in RowType, NEW x \in Elements(kind)
    PROVE  NextRow(kind, old, x) \in RowType /\ Below(old, NextRow(kind, old, x))
<1>1. CASE kind = "entry"
  <2>1. x \in Entry
    BY <1>1 DEF Elements
  <2>2. MergeColumns(old.fields, x.fields) \in [Fields -> Values \cup {NoValue}]
    BY <2>1 DEF MergeColumns, RowType, Entry
  <2>3. LastOfEach(x.permissions) \subseteq Permission
    BY <2>1, LastOfEachAreGrants DEF Entry
  <2>4. \A f \in Fields \ Lists : old.fields[f] # NoValue =>
             MergeColumns(old.fields, x.fields)[f] # NoValue
    BY DEF MergeColumns
  <2>5. old.privileged \in BOOLEAN /\ x.privileged \in BOOLEAN /\ old.shadow \in BOOLEAN
        /\ x.shadow \in BOOLEAN /\ old.lastUsed \in Nat /\ x.lastUsed \in Nat
    BY <2>1 DEF RowType, Entry
  <2> DEFINE last == IF x.lastUsed > old.lastUsed THEN x.lastUsed ELSE old.lastUsed
  <2>6. last \in Nat /\ old.lastUsed <= last
    BY <2>5
  <2>7. NextRow(kind, old, x) =
          [fields |-> MergeColumns(old.fields, x.fields), lastUsed |-> last,
           privileged |-> old.privileged \/ x.privileged, shadow |-> old.shadow \/ x.shadow,
           permissions |-> LastOfEach(x.permissions)]
    BY <1>1 DEF NextRow
  <2> HIDE DEF last
  <2>8. NextRow(kind, old, x) \in RowType
    BY <2>2, <2>3, <2>5, <2>6, <2>7 DEF RowType
  <2>9. Below(old, NextRow(kind, old, x))
    BY <2>4, <2>5, <2>6, <2>7 DEF Below
  <2> QED BY <2>8, <2>9
<1>2. CASE kind # "entry"
  <2>1. NextRow(kind, old, x) = [old EXCEPT !.privileged = @ \/ Subject[x] \in Operator]
    BY <1>2 DEF NextRow
  <2> DEFINE mark == Subject[x] \in Operator
  <2>2. PICK new : new = [old EXCEPT !.privileged = @ \/ mark]
    OBVIOUS
  <2> HIDE DEF mark
  <2>3. /\ new.fields = old.fields /\ new.lastUsed = old.lastUsed /\ new.shadow = old.shadow
        /\ new \in RowType /\ (old.privileged => new.privileged)
    BY <2>2 DEF RowType
  <2>4. old.lastUsed \in Nat
    BY DEF RowType
  <2> QED BY <2>1, <2>2, <2>3, <2>4 DEF Below, mark
<1> QED BY <1>1, <1>2

LEMMA TakesIsAPut ==
    ASSUME NEW kind \in {"entry", "subject"}, NEW t \in Table, NEW x \in Elements(kind)
    PROVE  LET id == Owner(kind, x)
           IN  Takes(kind, t, x) = Put(t, id, NextRow(kind, RowOf(t, id), x))
<1>1. CASE kind = "entry"
  BY <1>1 DEF Takes, Owner, NextRow, UpsertIdentity
<1>2. CASE kind = "subject"
  BY <1>2 DEF Takes, Owner, NextRow, UpsertSubject
<1> QED BY <1>1, <1>2

LEMMA TakesGrows ==
    ASSUME NEW kind \in {"entry", "subject"}, NEW t \in Table, NEW x \in Elements(kind)
    PROVE  /\ Takes(kind, t, x) \in Table /\ Grown(t, Takes(kind, t, x))
           /\ DOMAIN Takes(kind, t, x) = DOMAIN t \cup {Owner(kind, x)}
<1> DEFINE id == Owner(kind, x)
           row == NextRow(kind, RowOf(t, id), x)
<1>1. id \in IDs /\ RowOf(t, id) \in RowType /\ (id \in DOMAIN t => RowOf(t, id) = t[id])
  BY ElementsHaveOwners, RowOfIsARow
<1>2. row \in RowType /\ Below(RowOf(t, id), row)
  BY <1>1, NextRowIsARow
<1>3. Takes(kind, t, x) = Put(t, id, row)
  BY TakesIsAPut
<1>4. \A i \in DOMAIN t : Below(t[i], t[i])
  BY TableIs DEF Below, RowType
<1> HIDE DEF row
<1>5. /\ Put(t, id, row) \in Table /\ DOMAIN Put(t, id, row) = DOMAIN t \cup {id}
      /\ Put(t, id, row)[id] = row
      /\ \A i \in DOMAIN t : i # id => Put(t, id, row)[i] = t[i]
  BY <1>1, <1>2, PutIsATable
<1> HIDE DEF id
<1> QED BY <1>1, <1>2, <1>3, <1>4, <1>5 DEF Grown, id

LEMMA GrownIsTransitive ==
    ASSUME NEW t1 \in Table, NEW t2 \in Table, NEW t3 \in Table, Grown(t1, t2), Grown(t2, t3)
    PROVE  Grown(t1, t3)
<1> SUFFICES ASSUME NEW id \in DOMAIN t1 PROVE id \in DOMAIN t3 /\ Below(t1[id], t3[id])
  BY DEF Grown
<1>1. id \in DOMAIN t2 /\ id \in DOMAIN t3 /\ Below(t1[id], t2[id]) /\ Below(t2[id], t3[id])
  BY DEF Grown
<1>2. t1[id].lastUsed \in Nat /\ t2[id].lastUsed \in Nat /\ t3[id].lastUsed \in Nat
  BY <1>1, TableIs DEF RowType
<1> QED BY <1>1, <1>2 DEF Below

LEMMA GrownItself == ASSUME NEW t \in Table PROVE Grown(t, t)
BY TableIs DEF Grown, Below, RowType

(* An element about another row does the same with rows over the table. *)
LEMMA TakesBeside ==
    ASSUME NEW kind \in {"entry", "subject"}, NEW t \in Table, NEW over \in Table,
           NEW x \in Elements(kind), Owner(kind, x) \notin DOMAIN over
    PROVE  Takes(kind, Overlay(t, over), x) = Overlay(Takes(kind, t, x), over)
<1> DEFINE id == Owner(kind, x)
           row == NextRow(kind, RowOf(t, id), x)
<1>1. Overlay(t, over) \in Table
  BY OverlayIsATable
<1>2. RowOf(Overlay(t, over), id) = RowOf(t, id)
  BY DEF RowOf, Overlay
<1>3. Takes(kind, Overlay(t, over), x) = Put(Overlay(t, over), id, row)
  BY <1>1, <1>2, TakesIsAPut
<1>4. Takes(kind, t, x) = Put(t, id, row)
  BY TakesIsAPut
<1> HIDE DEF row
<1>5. Put(Overlay(t, over), id, row) = Overlay(Put(t, id, row), over)
  <2> DEFINE D == DOMAIN t \cup DOMAIN over \cup {id}
  <2>1. Put(Overlay(t, over), id, row)
          = [i \in D |-> IF i = id THEN row ELSE IF i \in DOMAIN over THEN over[i] ELSE t[i]]
    BY DEF Put, Overlay
  <2>2. Overlay(Put(t, id, row), over)
          = [i \in D |-> IF i \in DOMAIN over THEN over[i] ELSE IF i = id THEN row ELSE t[i]]
    BY DEF Put, Overlay
  <2> QED BY <2>1, <2>2
<1> QED BY <1>3, <1>4, <1>5

Owners(kind, xs, k) == {Owner(kind, xs[j]) : j \in 1..k}

LEMMA AfterGrows ==
    ASSUME NEW kind \in {"entry", "subject"}, NEW base \in Table, NEW xs \in Seq(Elements(kind))
    PROVE  \A k \in 0..Len(xs) :
             /\ After(kind, base, xs, k) \in Table /\ Grown(base, After(kind, base, xs, k))
             /\ DOMAIN After(kind, base, xs, k) = DOMAIN base \cup Owners(kind, xs, k)
<1> DEFINE N == Len(xs)
           t(k) == After(kind, base, xs, k)
           Right(k) == /\ t(k) \in Table /\ Grown(base, t(k))
                       /\ DOMAIN t(k) = DOMAIN base \cup Owners(kind, xs, k)
           Good == {k \in Nat : k <= N => Right(k)}
<1>1. N \in Nat /\ \A k \in 1..N : xs[k] \in Elements(kind)
  OBVIOUS
<1>2. t(0) = base /\ \A k \in 1..N : t(k) = Takes(kind, t(k - 1), xs[k])
  BY AfterNone, AfterNext
<1> HIDE DEF t, N
<1>3. 0 \in Good
  <2>1. Owners(kind, xs, 0) = {}
    BY DEF Owners
  <2>2. Right(0)
    BY <1>2, <2>1, GrownItself
  <2> QED BY <2>2
<1>4. ASSUME NEW k \in Nat, k \in Good PROVE k + 1 \in Good
  <2> SUFFICES ASSUME k + 1 <= N PROVE Right(k + 1)
    OBVIOUS
  <2>1. k + 1 \in 1..N /\ k <= N /\ (k + 1) - 1 = k
    BY <1>1
  <2>2. Right(k)
    BY <1>4, <2>1
  <2>3. t(k + 1) = Takes(kind, t(k), xs[k + 1]) /\ xs[k + 1] \in Elements(kind)
    BY <1>1, <1>2, <2>1
  <2>4. /\ t(k + 1) \in Table /\ Grown(t(k), t(k + 1))
        /\ DOMAIN t(k + 1) = DOMAIN t(k) \cup {Owner(kind, xs[k + 1])}
    <3>1. t(k) \in Table
      BY <2>2
    <3>2. ASSUME NEW x \in Elements(kind), NEW a \in Table
          PROVE  /\ Takes(kind, a, x) \in Table /\ Grown(a, Takes(kind, a, x))
                 /\ DOMAIN Takes(kind, a, x) = DOMAIN a \cup {Owner(kind, x)}
      BY TakesGrows
    <3> QED BY <2>3, <3>1, <3>2, Zenon
  <2>5. Owners(kind, xs, k + 1) = Owners(kind, xs, k) \cup {Owner(kind, xs[k + 1])}
    <3>1. 1..(k + 1) = (1..k) \cup {k + 1}
      OBVIOUS
    <3> QED BY <3>1 DEF Owners
  <2>6. Grown(base, t(k + 1))
    BY <2>2, <2>4, GrownIsTransitive
  <2> QED BY <2>2, <2>4, <2>5, <2>6
<1>5. Nat \subseteq Good
  <2> HIDE DEF Good
  <2> QED BY <1>3, <1>4, SetInduction
<1> SUFFICES ASSUME NEW k \in 0..N PROVE Right(k)
  BY DEF t, N
<1>6. k \in Nat /\ k <= N
  BY <1>1
<1> QED BY <1>5, <1>6

(* Rows that a batch does not touch may change under it. *)
LEMMA AfterBeside ==
    ASSUME NEW kind \in {"entry", "subject"}, NEW base \in Table, NEW over \in Table,
           NEW xs \in Seq(Elements(kind)), NEW m \in 0..Len(xs),
           Owners(kind, xs, m) \cap DOMAIN over = {}
    PROVE  After(kind, Overlay(base, over), xs, m) = Overlay(After(kind, base, xs, m), over)
<1> DEFINE t(k) == After(kind, base, xs, k)
           u(k) == After(kind, Overlay(base, over), xs, k)
           Good == {k \in Nat : k <= m => u(k) = Overlay(t(k), over)}
<1>1. /\ m \in Nat /\ m <= Len(xs) /\ Len(xs) \in Nat
      /\ \A k \in 1..m : xs[k] \in Elements(kind) /\ k \in 1..Len(xs)
  OBVIOUS
<1>2. t(0) = base /\ \A k \in 1..m : t(k) = Takes(kind, t(k - 1), xs[k])
  BY <1>1, AfterNone, AfterNext
<1>3. u(0) = Overlay(base, over) /\ \A k \in 1..m : u(k) = Takes(kind, u(k - 1), xs[k])
  BY <1>1, AfterNone, AfterNext
<1>4. \A k \in 0..m : t(k) \in Table
  <2>1. \A k \in 0..m : k \in 0..Len(xs)
    BY <1>1
  <2> QED BY <2>1, AfterGrows
<1> HIDE DEF t, u
<1>5. 0 \in Good
  BY <1>2, <1>3
<1>6. ASSUME NEW k \in Nat, k \in Good PROVE k + 1 \in Good
  <2> SUFFICES ASSUME k + 1 <= m PROVE u(k + 1) = Overlay(t(k + 1), over)
    OBVIOUS
  <2>1. k + 1 \in 1..m /\ k <= m /\ k \in 0..m /\ (k + 1) - 1 = k
    BY <1>1
  <2>2. u(k) = Overlay(t(k), over)
    BY <1>6, <2>1
  <2>3. /\ t(k + 1) = Takes(kind, t(k), xs[k + 1]) /\ u(k + 1) = Takes(kind, u(k), xs[k + 1])
        /\ xs[k + 1] \in Elements(kind) /\ t(k) \in Table
    BY <1>1, <1>2, <1>3, <1>4, <2>1
  <2>4. Owner(kind, xs[k + 1]) \notin DOMAIN over
    BY <2>1 DEF Owners
  <2> QED BY <2>2, <2>3, <2>4, TakesBeside
<1>7. Nat \subseteq Good
  <2> HIDE DEF Good
  <2> QED BY <1>5, <1>6, SetInduction
<1>8. u(m) = Overlay(t(m), over)
  BY <1>1, <1>7
<1> QED BY <1>8 DEF t, u

-----------------------------------------------------------------------------
(* The events a batch adds. *)

LEMMA AppendToConcat ==
    ASSUME NEW a \in Seq(Records), NEW b \in Seq(Records), NEW r \in Records
    PROVE  Append(a \o b, r) = a \o Append(b, r)
OBVIOUS

LEMMA InsertIsAnAppend ==
    ASSUME NEW evs \in Seq(Records), NEW x \in Records
    PROVE  /\ Row[x] \in Records
           /\ InsertEvent(evs, x) = IF Row[x] \in ToSet(evs) THEN evs ELSE Append(evs, Row[x])
<1>1. Row[x] \in Records
  BY RowAssumption
<1>2. Contains(evs, Row[x]) <=> Row[x] \in ToSet(evs)
  BY DEF Contains, ToSet
<1> QED BY <1>1, <1>2 DEF InsertEvent

(* Whatever other records stand before them, as long as they are of other  *)
(* identities.                                                             *)
LEMMA AfterAdds ==
    ASSUME NEW evs \in Seq(Records), NEW xs \in Seq(Records), NEW m \in 0..Len(xs)
    PROVE  \E new \in Seq(Records) :
             /\ After("record", evs, xs, m) = evs \o new
             /\ \A r \in ToSet(new) : Subject[r] \in Owners("subject", xs, m)
             /\ \A more \in Seq(Records) :
                  (\A r \in ToSet(more) : Subject[r] \notin Owners("subject", xs, m)) =>
                    After("record", evs \o more, xs, m) = (evs \o more) \o new
<1> DEFINE Whose(k) == Owners("subject", xs, k)
           Apart(more) == \A r \in ToSet(more) : Subject[r] \notin Whose(m)
           Adds(k, new) ==
             /\ After("record", evs, xs, k) = evs \o new
             /\ \A r \in ToSet(new) : Subject[r] \in Whose(k)
             /\ \A more \in Seq(Records) :
                  Apart(more) => After("record", evs \o more, xs, k) = (evs \o more) \o new
           Good == {k \in Nat : k <= m => \E new \in Seq(Records) : Adds(k, new)}
<1>1. /\ m \in Nat /\ m <= Len(xs) /\ Len(xs) \in Nat
      /\ \A k \in 1..m : xs[k] \in Records /\ k \in 1..Len(xs)
  OBVIOUS
<1>2. \A base : /\ After("record", base, xs, 0) = base
                /\ \A k \in 1..m : After("record", base, xs, k)
                                     = InsertEvent(After("record", base, xs, k - 1), xs[k])
  <2> SUFFICES ASSUME NEW base
               PROVE  /\ After("record", base, xs, 0) = base
                      /\ \A k \in 1..m : After("record", base, xs, k)
                                          = InsertEvent(After("record", base, xs, k - 1), xs[k])
    OBVIOUS
  <2>1. After("record", base, xs, 0) = base
    BY AfterNone, AfterNext
  <2>2. \A k \in 1..Len(xs) : After("record", base, xs, k)
                                = Takes("record", After("record", base, xs, k - 1), xs[k])
    BY AfterNone, AfterNext
  <2> QED BY <1>1, <2>1, <2>2 DEF Takes
<1>3. 0 \in Good
  <2>1. Adds(0, <<>>)
    <3>1. ToSet(<<>>) = {}
      BY DEF ToSet
    <3>2. evs = evs \o <<>> /\ \A more \in Seq(Records) : evs \o more = (evs \o more) \o <<>>
      OBVIOUS
    <3> HIDE DEF Apart, Whose
    <3> QED BY <1>2, <3>1, <3>2
  <2> HIDE DEF Adds
  <2>2. <<>> \in Seq(Records)
    OBVIOUS
  <2> QED BY <2>1, <2>2
<1>4. ASSUME NEW k \in Nat, k \in Good PROVE k + 1 \in Good
  <2> SUFFICES ASSUME k + 1 <= m PROVE \E new \in Seq(Records) : Adds(k + 1, new)
    <3> HIDE DEF Adds
    <3> QED OBVIOUS
  <2>1. k + 1 \in 1..m /\ k <= m /\ (k + 1) - 1 = k
    BY <1>1
  <2>2. PICK new \in Seq(Records) : Adds(k, new)
    BY <1>4, <2>1
  <2> DEFINE x == xs[k + 1]
  <2>3. x \in Records /\ Row[x] \in Records /\ Subject[Row[x]] = Subject[x]
    BY <1>1, <2>1, RowAssumption
  <2>4. Whose(k + 1) = Whose(k) \cup {Subject[x]}
    <3>1. 1..(k + 1) = (1..k) \cup {k + 1}
      OBVIOUS
    <3> QED BY <3>1 DEF Owners, Owner
  <2>5. Subject[x] \in Whose(m)
    BY <2>1 DEF Owners, Owner
  <2>6. \A base : After("record", base, xs, k + 1) = InsertEvent(After("record", base, xs, k), x)
    BY <1>2, <2>1
  <2> HIDE DEF x, Whose
  <2>7. ASSUME NEW more \in Seq(Records), Apart(more)
        PROVE  Row[x] \notin ToSet(more)
    BY <2>3, <2>5, <2>7
  <2>8. ASSUME NEW more \in Seq(Records), Apart(more)
        PROVE  /\ After("record", evs \o more, xs, k) = (evs \o more) \o new
               /\ (evs \o more) \o new \in Seq(Records)
               /\ Row[x] \in ToSet((evs \o more) \o new) <=> Row[x] \in ToSet(evs \o new)
    <3>1. ToSet((evs \o more) \o new) = (ToSet(evs) \cup ToSet(more)) \cup ToSet(new)
      <4>1. evs \o more \in Seq(Records) /\ ToSet(evs \o more) = ToSet(evs) \cup ToSet(more)
        BY ToSetConcat
      <4> DEFINE all == evs \o more
      <4> HIDE DEF all
      <4>2. ASSUME all \in Seq(Records)
            PROVE  ToSet(all \o new) = ToSet(all) \cup ToSet(new)
        BY <4>2, ToSetConcat
      <4>3. ToSet((evs \o more) \o new) = ToSet(evs \o more) \cup ToSet(new)
        BY <4>1, <4>2 DEF all
      <4> QED BY <4>1, <4>3
    <3>2. ToSet(evs \o new) = ToSet(evs) \cup ToSet(new)
      BY ToSetConcat
    <3> QED BY <2>2, <2>7, <2>8, <3>1, <3>2
  <2> evs \o new \in Seq(Records)
    BY <2>2
  <2>9. CASE Row[x] \in ToSet(evs \o new)
    <3>1. ASSUME NEW more \in Seq(Records), Apart(more)
          PROVE  After("record", evs \o more, xs, k + 1) = (evs \o more) \o new
      BY <2>3, <2>6, <2>8, <2>9, <3>1, InsertIsAnAppend
    <3>2. After("record", evs, xs, k + 1) = evs \o new
      BY <2>2, <2>3, <2>6, <2>9, InsertIsAnAppend
    <3>3. Adds(k + 1, new)
      <4> HIDE DEF Apart
      <4> QED BY <2>2, <2>4, <3>1, <3>2
    <3> HIDE DEF Adds
    <3> QED BY <3>3
  <2>10. CASE Row[x] \notin ToSet(evs \o new)
    <3> DEFINE newer == Append(new, Row[x])
    <3>0. newer \in Seq(Records) /\ ToSet(newer) = ToSet(new) \cup {Row[x]}
      BY <2>3, ToSetAppend
    <3>1. ASSUME NEW more \in Seq(Records), Apart(more)
          PROVE  After("record", evs \o more, xs, k + 1) = (evs \o more) \o newer
      <4>1. After("record", evs \o more, xs, k + 1) = Append((evs \o more) \o new, Row[x])
        BY <2>3, <2>6, <2>8, <2>10, <3>1, InsertIsAnAppend
      <4>2. evs \o more \in Seq(Records)
        OBVIOUS
      <4>4. Append((evs \o more) \o new, Row[x]) = (evs \o more) \o newer
        BY <2>3, <4>2, AppendToConcat
      <4> HIDE DEF newer
      <4> QED BY <4>1, <4>4
    <3>2. After("record", evs, xs, k + 1) = evs \o newer
      <4>1. After("record", evs, xs, k + 1) = Append(evs \o new, Row[x])
        BY <2>2, <2>3, <2>6, <2>10, InsertIsAnAppend
      <4>2. Append(evs \o new, Row[x]) = evs \o newer
        BY <2>3, AppendToConcat
      <4> QED BY <4>1, <4>2
    <3>3. \A r \in ToSet(newer) : Subject[r] \in Whose(k + 1)
      BY <2>2, <2>3, <2>4, <3>0
    <3> HIDE DEF newer
    <3>4. Adds(k + 1, newer)
      <4> HIDE DEF Apart
      <4> QED BY <3>1, <3>2, <3>3
    <3> HIDE DEF Adds
    <3> QED BY <3>0, <3>4
  <2> QED BY <2>9, <2>10
<1>5. Nat \subseteq Good
  <2> HIDE DEF Good
  <2> QED BY <1>3, <1>4, SetInduction
<1>6. \E new \in Seq(Records) : Adds(m, new)
  <2> HIDE DEF Adds
  <2> QED BY <1>1, <1>5
<1> QED BY <1>6

LEMMA AddsARest ==
    ASSUME NEW evs \in Seq(Records), NEW xs \in Seq(Records), NEW m \in 0..Len(xs)
    PROVE  \E new \in Seq(Records) : After("record", evs, xs, m) = evs \o new
<1>1. \E new \in Seq(Records) :
             /\ After("record", evs, xs, m) = evs \o new
             /\ \A r \in ToSet(new) : Subject[r] \in Owners("subject", xs, m)
             /\ \A more \in Seq(Records) :
                  (\A r \in ToSet(more) : Subject[r] \notin Owners("subject", xs, m)) =>
                    After("record", evs \o more, xs, m) = (evs \o more) \o new
  BY AfterAdds
<1> QED BY <1>1

-----------------------------------------------------------------------------
(* A transaction that runs beside others. *)

Txn == [pos : Nat, rows : Table, events : Seq(Records)]

Db ==
    /\ rows \in Table /\ events \in Seq(Records)
    /\ load \in [Sessions -> Loads \cup {NoLoad}] /\ stage \in [Sessions -> 0..2]
    /\ txn \in [Sessions -> Txn]

BatchOf(l, n) ==
    CASE n = 0 -> Flagged(l.identities)
      [] n = 1 -> l.events
      [] n = 2 -> l.passports

KindAt(n) == IF n = 1 THEN "subject" ELSE "entry"

(* Transaction x has run the n-th batch of load l up to x.pos as it would   *)
(* have run alone on these tables.                                         *)
Ran(l, n, x, tbl, evs) ==
    /\ x.pos \in 0..Len(BatchOf(l, n))
    /\ DOMAIN x.rows = Owners(KindAt(n), BatchOf(l, n), x.pos)
    /\ After(KindAt(n), tbl, BatchOf(l, n), x.pos) = Overlay(tbl, x.rows)
    /\ IF n = 1 THEN After("record", evs, BatchOf(l, n), x.pos) = evs \o x.events
       ELSE x.events = <<>>

Serial ==
    /\ \A s \in Sessions :
          IF load[s] = NoLoad THEN stage[s] = 0 /\ txn[s] = Opened
          ELSE Ran(load[s], stage[s], txn[s], rows, events)
    /\ \A s, t \in Sessions : s # t => DOMAIN txn[s].rows \cap DOMAIN txn[t].rows = {}

LEMMA FlaggedIsABatch ==
    ASSUME NEW batch \in Seq(Entry)
    PROVE  Flagged(batch) \in Seq(Entry)
<1>1. \A i \in DOMAIN batch :
         [batch[i] EXCEPT !.privileged = @ \/ batch[i].id \in Operator] \in Entry
  <2> SUFFICES ASSUME NEW i \in DOMAIN batch
               PROVE  [batch[i] EXCEPT !.privileged = @ \/ batch[i].id \in Operator] \in Entry
    OBVIOUS
  <2> DEFINE x == batch[i]
             mark == batch[i].id \in Operator
  <2>1. x \in Entry
    OBVIOUS
  <2> HIDE DEF x, mark
  <2>2. [x EXCEPT !.privileged = @ \/ mark] \in Entry
    BY <2>1 DEF Entry
  <2> QED BY <2>2 DEF x, mark
<1>2. DOMAIN batch = 1..Len(batch) /\ Len(batch) \in Nat
  OBVIOUS
<1> QED BY <1>1, <1>2 DEF Flagged

LEMMA BatchOfIsABatch ==
    ASSUME NEW l \in Load, NEW n \in 0..2
    PROVE  /\ BatchOf(l, n) \in Seq(Elements(KindAt(n)))
           /\ KindAt(n) \in {"entry", "subject"}
           /\ n = 1 => BatchOf(l, n) \in Seq(Records)
<1>1. l.identities \in Seq(Entry) /\ l.events \in Seq(Records) /\ l.passports \in Seq(Entry)
  BY DEF Load
<1>2. Elements("entry") = Entry /\ Elements("subject") = Records
  BY DEF Elements
<1>3. CASE n = 0
  <2>1. BatchOf(l, n) = Flagged(l.identities) /\ KindAt(n) = "entry"
    BY <1>3 DEF BatchOf, KindAt
  <2> QED BY <1>1, <1>2, <1>3, <2>1, FlaggedIsABatch
<1>4. CASE n = 1
  <2>1. BatchOf(l, n) = l.events /\ KindAt(n) = "subject"
    BY <1>4 DEF BatchOf, KindAt
  <2> QED BY <1>1, <1>2, <2>1
<1>5. CASE n = 2
  <2>1. BatchOf(l, n) = l.passports /\ KindAt(n) = "entry"
    BY <1>5 DEF BatchOf, KindAt
  <2> QED BY <1>1, <1>2, <1>5, <2>1
<1> QED BY <1>3, <1>4, <1>5

LEMMA NoRowsIsATable == NoRows \in Table /\ DOMAIN NoRows = {}
BY TableIs DEF NoRows

LEMMA OverlayNothing ==
    ASSUME NEW t \in Table, NEW none \in Table, DOMAIN none = {}
    PROVE  Overlay(t, none) = t
BY TableIs DEF Overlay

LEMMA NothingRanYet ==
    ASSUME NEW l \in Load, NEW n \in 0..2, NEW tbl \in Table, NEW evs \in Seq(Records)
    PROVE  Opened \in Txn /\ Ran(l, n, Opened, tbl, evs)
<1> DEFINE B == BatchOf(l, n)
<1>1. B \in Seq(Elements(KindAt(n))) /\ (n = 1 => B \in Seq(Records))
  BY BatchOfIsABatch
<1>2. /\ Opened.pos = 0 /\ Opened.rows = NoRows /\ Opened.events = <<>>
      /\ NoRows \in Table /\ DOMAIN NoRows = {} /\ <<>> \in Seq(Records)
  BY NoRowsIsATable DEF Opened
<1>3. Opened \in Txn
  BY <1>2 DEF Txn, Opened
<1> HIDE DEF B
<1>4. After(KindAt(n), tbl, B, 0) = tbl
  BY <1>1, AfterNone
<1>5. n = 1 => After("record", evs, B, 0) = evs
  BY <1>1, AfterNone
<1>6. evs \o <<>> = evs
  OBVIOUS
<1>7. Overlay(tbl, NoRows) = tbl
  BY <1>2, OverlayNothing
<1>8. Owners(KindAt(n), B, 0) = {}
  BY DEF Owners
<1>9. 0 \in 0..Len(B)
  BY <1>1
<1> QED BY <1>2, <1>3, <1>4, <1>5, <1>6, <1>7, <1>8, <1>9 DEF Ran, B

(* What WriteNext leaves of a transaction. *)
WrittenTo(l, n, x, tbl, evs) ==
    LET e     == BatchOf(l, n)[x.pos + 1]
        id    == Owner(KindAt(n), e)
        after == Takes(KindAt(n), Overlay(tbl, x.rows), e)
        known == evs \o x.events
        all   == IF n = 1 THEN InsertEvent(known, e) ELSE known
    IN  [pos    |-> x.pos + 1,
         rows   |-> Put(x.rows, id, after[id]),
         events |-> SubSeq(all, Len(evs) + 1, Len(all))]

LEMMA TheRest ==
    ASSUME NEW a \in Seq(Records), NEW b \in Seq(Records)
    PROVE  SubSeq(a \o b, Len(a) + 1, Len(a \o b)) = b
OBVIOUS

LEMMA SameRest ==
    ASSUME NEW a \in Seq(Records), NEW b \in Seq(Records), NEW c \in Seq(Records),
           a \o b = a \o c
    PROVE  b = c
<1>1. SubSeq(a \o b, Len(a) + 1, Len(a \o b)) = SubSeq(a \o c, Len(a) + 1, Len(a \o c))
  OBVIOUS
<1> QED BY <1>1, TheRest

LEMMA WritingRuns ==
    ASSUME NEW l \in Load, NEW n \in 0..2, NEW x \in Txn, NEW tbl \in Table,
           NEW evs \in Seq(Records), Ran(l, n, x, tbl, evs), x.pos < Len(BatchOf(l, n))
    PROVE  LET y == WrittenTo(l, n, x, tbl, evs)
           IN  /\ y \in Txn /\ Ran(l, n, y, tbl, evs)
               /\ DOMAIN y.rows = DOMAIN x.rows
                                  \cup {Owner(KindAt(n), BatchOf(l, n)[x.pos + 1])}
<1> DEFINE B == BatchOf(l, n)
           kind == KindAt(n)
           k == x.pos
           e == B[k + 1]
           id == Owner(kind, e)
           table == Overlay(tbl, x.rows)
           after == Takes(kind, table, e)
           own == Put(x.rows, id, after[id])
           all == IF n = 1 THEN InsertEvent(evs \o x.events, e) ELSE evs \o x.events
           new == SubSeq(all, Len(evs) + 1, Len(all))
           y == [pos |-> k + 1, rows |-> own, events |-> new]
<1>1. B \in Seq(Elements(kind)) /\ kind \in {"entry", "subject"} /\ (n = 1 => B \in Seq(Records))
  BY BatchOfIsABatch
<1>2. k \in Nat /\ x.rows \in Table /\ x.events \in Seq(Records)
  BY DEF Txn
<1>3. /\ k \in 0..Len(B) /\ k < Len(B) /\ DOMAIN x.rows = Owners(kind, B, k)
      /\ After(kind, tbl, B, k) = table
      /\ n = 1 => After("record", evs, B, k) = evs \o x.events
      /\ n # 1 => x.events = <<>>
  BY DEF Ran
<1>4. WrittenTo(l, n, x, tbl, evs) = y
  BY DEF WrittenTo
<1> HIDE DEF kind, B
<1>5. k + 1 \in 1..Len(B) /\ (k + 1) - 1 = k /\ Len(B) \in Nat /\ k + 1 \in 0..Len(B)
  BY <1>1, <1>2, <1>3
<1>6. e \in Elements(kind) /\ (n = 1 => e \in Records)
  BY <1>1, <1>5
<1> HIDE DEF e, k
<1>7. id \in IDs
  BY <1>6, ElementsHaveOwners
<1>8. table \in Table
  BY <1>2, OverlayIsATable
<1> HIDE DEF table
<1>9. after \in Table /\ DOMAIN after = DOMAIN table \cup {id}
  BY <1>1, <1>6, <1>8, TakesGrows
<1>10. after[id] \in RowType
  BY <1>9, TableIs
<1>11. own \in Table /\ DOMAIN own = DOMAIN x.rows \cup {id}
  BY <1>2, <1>7, <1>10, PutIsATable
<1>12. After(kind, tbl, B, k + 1) = after
  <2>1. After(kind, tbl, B, k + 1) = Takes(kind, After(kind, tbl, B, (k + 1) - 1), B[k + 1])
    BY <1>1, <1>5, AfterNext
  <2> QED BY <1>3, <1>5, <2>1 DEF e
<1>13. Overlay(tbl, own) = after
  <2> DEFINE row == NextRow(kind, RowOf(table, id), e)
  <2>1. after = Put(table, id, row)
    BY <1>1, <1>6, <1>8, TakesIsAPut
  <2> HIDE DEF row
  <2>2. after[id] = row
    BY <2>1 DEF Put
  <2>3. own = Put(x.rows, id, row)
    BY <2>2
  <2> HIDE DEF own, after, id
  <2>4. Overlay(tbl, Put(x.rows, id, row)) = Put(Overlay(tbl, x.rows), id, row)
    <3> DEFINE D == DOMAIN tbl \cup DOMAIN x.rows \cup {id}
    <3>1. Overlay(tbl, Put(x.rows, id, row))
            = [i \in D |-> IF i = id THEN row
                           ELSE IF i \in DOMAIN x.rows THEN x.rows[i] ELSE tbl[i]]
      BY DEF Put, Overlay
    <3>2. Put(Overlay(tbl, x.rows), id, row)
            = [i \in D |-> IF i = id THEN row
                           ELSE IF i \in DOMAIN x.rows THEN x.rows[i] ELSE tbl[i]]
      BY DEF Put, Overlay
    <3> QED BY <3>1, <3>2
  <2> QED BY <2>1, <2>3, <2>4 DEF table
<1>14. Owners(kind, B, k + 1) = Owners(kind, B, k) \cup {id}
  <2>1. 1..(k + 1) = (1..k) \cup {k + 1}
    BY <1>2
  <2> QED BY <2>1 DEF Owners, e
<1>15. /\ new \in Seq(Records)
       /\ IF n = 1 THEN After("record", evs, B, k + 1) = evs \o new ELSE new = <<>>
  <2>1. CASE n = 1
    <3>1. PICK rest \in Seq(Records) : After("record", evs, B, k + 1) = evs \o rest
      <4>1. B \in Seq(Records) /\ k + 1 \in 0..Len(B)
        BY <1>1, <1>5, <2>1
      <4> QED BY <4>1, AddsARest
    <3>2. After("record", evs, B, k + 1)
            = Takes("record", After("record", evs, B, (k + 1) - 1), B[k + 1])
      BY <1>1, <1>5, <2>1, AfterNext
    <3>3. all = evs \o rest
      BY <1>3, <1>5, <2>1, <3>1, <3>2 DEF Takes, e
    <3> HIDE DEF all
    <3>4. new = rest
      BY <3>3, TheRest
    <3> QED BY <2>1, <3>1, <3>4
  <2>2. CASE n # 1
    <3>1. all = evs \o <<>> /\ <<>> \in Seq(Records)
      BY <1>3, <2>2
    <3> HIDE DEF all
    <3>2. new = <<>>
      BY <3>1, TheRest
    <3> QED BY <2>2, <3>1, <3>2
  <2> QED BY <2>1, <2>2
<1> HIDE DEF own, new, all, after, id
<1>16. y \in Txn
  BY <1>2, <1>11, <1>15 DEF Txn
<1>17. y.pos = k + 1 /\ y.rows = own /\ y.events = new
  OBVIOUS
<1> HIDE DEF y
<1>18. Ran(l, n, y, tbl, evs)
  BY <1>3, <1>5, <1>11, <1>12, <1>13, <1>14, <1>15, <1>17 DEF Ran, kind, B
<1> QED BY <1>4, <1>11, <1>16, <1>17, <1>18 DEF id, e, kind, B, k

(* The records a transaction has added are about identities it has locked. *)
LEMMA OwnEvents ==
    ASSUME NEW l \in Load, NEW n \in 0..2, NEW x \in Txn, NEW tbl \in Table,
           NEW evs \in Seq(Records), Ran(l, n, x, tbl, evs)
    PROVE  \A r \in ToSet(x.events) : Subject[r] \in DOMAIN x.rows
<1> DEFINE B == BatchOf(l, n)
<1>1. x.events \in Seq(Records) /\ x.pos \in 0..Len(B)
  BY DEF Txn, Ran
<1>2. CASE n = 1
  <2>1. B \in Seq(Records)
    BY <1>2, BatchOfIsABatch
  <2>2. /\ After("record", evs, B, x.pos) = evs \o x.events
        /\ DOMAIN x.rows = Owners("subject", B, x.pos)
    BY <1>2 DEF Ran, KindAt
  <2> HIDE DEF B
  <2>3. \E new \in Seq(Records) :
             /\ After("record", evs, B, x.pos) = evs \o new
             /\ \A r \in ToSet(new) : Subject[r] \in Owners("subject", B, x.pos)
             /\ \A more \in Seq(Records) :
                  (\A r \in ToSet(more) : Subject[r] \notin Owners("subject", B, x.pos)) =>
                    After("record", evs \o more, B, x.pos) = (evs \o more) \o new
    BY <1>1, <2>1, AfterAdds
  <2>4. PICK new \in Seq(Records) :
             /\ After("record", evs, B, x.pos) = evs \o new
             /\ \A r \in ToSet(new) : Subject[r] \in Owners("subject", B, x.pos)
    BY <2>3
  <2>5. new = x.events
    BY <1>1, <2>2, <2>4, SameRest
  <2> QED BY <2>2, <2>4, <2>5
<1>3. CASE n # 1
  <2>1. x.events = <<>>
    BY <1>3 DEF Ran
  <2> QED BY <2>1 DEF ToSet
<1> QED BY <1>2, <1>3

(* The commit of a transaction changes nothing for one beside it. *)
LEMMA RanBeside ==
    ASSUME NEW l \in Load, NEW n \in 0..2, NEW x \in Txn, NEW tbl \in Table,
           NEW evs \in Seq(Records), Ran(l, n, x, tbl, evs),
           NEW over \in Table, NEW more \in Seq(Records),
           DOMAIN x.rows \cap DOMAIN over = {},
           \A r \in ToSet(more) : Subject[r] \in DOMAIN over
    PROVE  Ran(l, n, x, Overlay(tbl, over), evs \o more)
<1> DEFINE B == BatchOf(l, n)
           kind == KindAt(n)
           k == x.pos
<1>1. B \in Seq(Elements(kind)) /\ kind \in {"entry", "subject"} /\ (n = 1 => B \in Seq(Records))
  BY BatchOfIsABatch
<1>2. x.rows \in Table /\ x.events \in Seq(Records)
  BY DEF Txn
<1>3. /\ k \in 0..Len(B) /\ DOMAIN x.rows = Owners(kind, B, k)
      /\ After(kind, tbl, B, k) = Overlay(tbl, x.rows)
      /\ n = 1 => kind = "subject" /\ After("record", evs, B, k) = evs \o x.events
      /\ n # 1 => x.events = <<>>
  BY DEF Ran, KindAt
<1> HIDE DEF B, kind, k
<1>4. After(kind, Overlay(tbl, over), B, k) = Overlay(Overlay(tbl, x.rows), over)
  <2>1. Owners(kind, B, k) \cap DOMAIN over = {}
    BY <1>3
  <2> QED BY <1>1, <1>3, <2>1, AfterBeside
<1>5. Overlay(Overlay(tbl, x.rows), over) = Overlay(Overlay(tbl, over), x.rows)
  <2> DEFINE D == DOMAIN tbl \cup DOMAIN x.rows \cup DOMAIN over
  <2>1. Overlay(Overlay(tbl, x.rows), over)
          = [i \in D |-> IF i \in DOMAIN over THEN over[i]
                         ELSE IF i \in DOMAIN x.rows THEN x.rows[i] ELSE tbl[i]]
    BY DEF Overlay
  <2>2. Overlay(Overlay(tbl, over), x.rows)
          = [i \in D |-> IF i \in DOMAIN x.rows THEN x.rows[i]
                         ELSE IF i \in DOMAIN over THEN over[i] ELSE tbl[i]]
    BY DEF Overlay
  <2> QED BY <2>1, <2>2
<1>6. n = 1 => After("record", evs \o more, B, k) = (evs \o more) \o x.events
  <2> SUFFICES ASSUME n = 1
               PROVE  After("record", evs \o more, B, k) = (evs \o more) \o x.events
    OBVIOUS
  <2>1. \E new \in Seq(Records) :
             /\ After("record", evs, B, k) = evs \o new
             /\ \A r \in ToSet(new) : Subject[r] \in Owners("subject", B, k)
             /\ \A add \in Seq(Records) :
                  (\A r \in ToSet(add) : Subject[r] \notin Owners("subject", B, k)) =>
                    After("record", evs \o add, B, k) = (evs \o add) \o new
    BY <1>1, <1>3, AfterAdds
  <2>2. PICK new \in Seq(Records) :
             /\ After("record", evs, B, k) = evs \o new
             /\ \A add \in Seq(Records) :
                  (\A r \in ToSet(add) : Subject[r] \notin Owners("subject", B, k)) =>
                    After("record", evs \o add, B, k) = (evs \o add) \o new
    BY <2>1
  <2>3. new = x.events
    BY <1>2, <1>3, <2>2, SameRest
  <2>4. \A r \in ToSet(more) : Subject[r] \notin Owners("subject", B, k)
    BY <1>3
  <2> QED BY <2>2, <2>3, <2>4
<1> QED BY <1>3, <1>4, <1>5, <1>6 DEF Ran, B, kind, k

(* A transaction that has written its whole batch. *)
LEMMA WholeRun ==
    ASSUME NEW l \in Load, NEW n \in 0..2, NEW x \in Txn, NEW tbl \in Table,
           NEW evs \in Seq(Records), Ran(l, n, x, tbl, evs), ~(x.pos < Len(BatchOf(l, n)))
    PROVE  /\ n # 1 => /\ Overlay(tbl, x.rows) = IngestIdentities(tbl, BatchOf(l, n))
                       /\ evs \o x.events = evs
           /\ n = 1 => /\ Overlay(tbl, x.rows) = UpsertSubjects(tbl, l.events)
                       /\ evs \o x.events = InsertEvents(evs, l.events)
<1> DEFINE B == BatchOf(l, n)
<1>1. B \in Seq(Elements(KindAt(n)))
  BY BatchOfIsABatch
<1>2. x.pos = Len(B)
  <2>1. x.pos \in 0..Len(B) /\ Len(B) \in Nat
    BY <1>1 DEF Ran
  <2> QED BY <2>1
<1>3. /\ IngestIdentities(tbl, B) = After("entry", tbl, B, Len(B))
      /\ UpsertSubjects(tbl, B) = After("subject", tbl, B, Len(B))
      /\ InsertEvents(evs, B) = After("record", evs, B, Len(B))
  BY <1>1, AfterAll
<1>4. n = 1 => B = l.events
  BY DEF BatchOf
<1>5. evs \o <<>> = evs
  OBVIOUS
<1> QED BY <1>2, <1>3, <1>4, <1>5 DEF Ran, KindAt

LEMMA IngestGrows ==
    ASSUME NEW tbl \in Table, NEW batch \in Seq(Entry)
    PROVE  IngestIdentities(tbl, batch) \in Table /\ Grown(tbl, IngestIdentities(tbl, batch))
<1>1. Elements("entry") = Entry
  BY DEF Elements
<1>2. Len(batch) \in 0..Len(batch)
  OBVIOUS
<1>3. IngestIdentities(tbl, batch) = After("entry", tbl, batch, Len(batch))
  BY AfterAll
<1>4. batch \in Seq(Elements("entry"))
  BY <1>1
<1>5. /\ After("entry", tbl, batch, Len(batch)) \in Table
      /\ Grown(tbl, After("entry", tbl, batch, Len(batch)))
  BY <1>2, <1>4, AfterGrows
<1> QED BY <1>3, <1>5

LEMMA UpsertGrows ==
    ASSUME NEW tbl \in Table, NEW batch \in Seq(Records)
    PROVE  UpsertSubjects(tbl, batch) \in Table /\ Grown(tbl, UpsertSubjects(tbl, batch))
<1>1. Elements("subject") = Records
  BY DEF Elements
<1>2. Len(batch) \in 0..Len(batch)
  OBVIOUS
<1>3. UpsertSubjects(tbl, batch) = After("subject", tbl, batch, Len(batch))
  BY AfterAll
<1>4. batch \in Seq(Elements("subject"))
  BY <1>1
<1>5. /\ After("subject", tbl, batch, Len(batch)) \in Table
      /\ Grown(tbl, After("subject", tbl, batch, Len(batch)))
  BY <1>2, <1>4, AfterGrows
<1> QED BY <1>3, <1>5

LEMMA InsertGrows ==
    ASSUME NEW evs \in Seq(Records), NEW batch \in Seq(Records)
    PROVE  \E new \in Seq(Records) : InsertEvents(evs, batch) = evs \o new
<1>1. Len(batch) \in 0..Len(batch)
  OBVIOUS
<1>2. InsertEvents(evs, batch) = After("record", evs, batch, Len(batch))
  BY AfterAll
<1> QED BY <1>1, <1>2, AddsARest

LEMMA CleanRowsIsATable ==
    ASSUME NEW tbl \in Table, NEW l \in Load
    PROVE  CleanRows(tbl, l) \in Table
<1>1. l.identities \in Seq(Entry) /\ l.events \in Seq(Records) /\ l.passports \in Seq(Entry)
  BY DEF Load
<1>2. IngestIdentities(tbl, Flagged(l.identities)) \in Table
  BY <1>1, FlaggedIsABatch, IngestGrows
<1>3. UpsertSubjects(IngestIdentities(tbl, Flagged(l.identities)), l.events) \in Table
  BY <1>1, <1>2, UpsertGrows
<1> QED BY <1>1, <1>3, IngestGrows DEF CleanRows

-----------------------------------------------------------------------------
(* Transactions are isolated by the locks they take. *)

LEMMA SerialAtFirst == Init => Db /\ Serial
<1> SUFFICES ASSUME Init PROVE Db /\ Serial
  OBVIOUS
<1>1. PICK l \in Earlier : rows = CleanRows(NoRows, l) /\ events = InsertEvents(<<>>, l.events)
  BY DEF Init, InitAfter
<1>2. l \in Load /\ l.events \in Seq(Records) /\ <<>> \in Seq(Records)
  BY LoadsAssumption DEF Load
<1>3. rows \in Table
  BY <1>1, <1>2, NoRowsIsATable, CleanRowsIsATable
<1>4. events \in Seq(Records)
  <2>1. PICK new \in Seq(Records) : InsertEvents(<<>>, l.events) = <<>> \o new
    BY <1>2, InsertGrows
  <2> QED BY <1>1, <2>1
<1>5. /\ load = [s \in Sessions |-> NoLoad] /\ stage = [s \in Sessions |-> 0]
      /\ txn = [s \in Sessions |-> Opened]
  BY DEF Init
<1>6. Opened \in Txn /\ DOMAIN Opened.rows = {}
  <2>1. Opened.rows = NoRows /\ <<>> \in Seq(Records)
    BY DEF Opened
  <2> QED BY <2>1, NoRowsIsATable DEF Opened, Txn
<1>7. Db
  BY <1>3, <1>4, <1>5, <1>6 DEF Db
<1>8. Serial
  BY <1>5, <1>6 DEF Serial
<1> QED BY <1>7, <1>8

(* A session that begins a transaction, or ends one, while the others go on. *)
LEMMA SerialReset ==
    ASSUME Db, Serial, NEW s \in Sessions, NEW a, NEW b,
           (a = NoLoad /\ b = 0) \/ (a \in Loads /\ b \in 0..2),
           rows' \in Table, events' \in Seq(Records),
           load' = [load EXCEPT ![s] = a], stage' = [stage EXCEPT ![s] = b],
           txn' = [txn EXCEPT ![s] = Opened],
           \A t \in Sessions : t # s /\ load[t] # NoLoad =>
              Ran(load[t], stage[t], txn[t], rows', events')
    PROVE  Db' /\ Serial'
<1>1. a \in Loads \cup {NoLoad} /\ b \in 0..2
  OBVIOUS
<1>2. Opened \in Txn /\ DOMAIN Opened.rows = {}
  <2>1. Opened.rows = NoRows /\ <<>> \in Seq(Records)
    BY DEF Opened
  <2> QED BY <2>1, NoRowsIsATable DEF Opened, Txn
<1>3. Db'
  BY <1>1, <1>2 DEF Db
<1>4. /\ load'[s] = a /\ stage'[s] = b /\ txn'[s] = Opened
      /\ \A t \in Sessions : t # s => load'[t] = load[t] /\ stage'[t] = stage[t] /\ txn'[t] = txn[t]
  BY DEF Db
<1>5. ASSUME NEW t \in Sessions
      PROVE  IF load'[t] = NoLoad THEN stage'[t] = 0 /\ txn'[t] = Opened
             ELSE Ran(load'[t], stage'[t], txn'[t], rows', events')
  <2>1. CASE t # s
    BY <1>4, <2>1 DEF Serial
  <2>2. CASE t = s /\ a = NoLoad
    <3>1. b = 0
      BY <2>2, LoadsAssumption
    <3> QED BY <1>4, <2>2, <3>1
  <2>3. CASE t = s /\ a # NoLoad
    <3>1. a \in Load /\ b \in 0..2
      BY <2>3, LoadsAssumption
    <3>2. Ran(a, b, Opened, rows', events')
      BY <3>1, NothingRanYet
    <3> QED BY <1>4, <2>3, <3>2
  <2> QED BY <2>1, <2>2, <2>3
<1>6. ASSUME NEW t \in Sessions, NEW u \in Sessions, t # u
      PROVE  DOMAIN txn'[t].rows \cap DOMAIN txn'[u].rows = {}
  <2>1. CASE t # s /\ u # s
    BY <1>4, <1>6, <2>1 DEF Serial
  <2>2. CASE t = s \/ u = s
    BY <1>2, <1>4, <2>2
  <2> QED BY <2>1, <2>2
<1>7. Serial'
  BY <1>5, <1>6 DEF Serial
<1> QED BY <1>3, <1>7

LEMMA LoadOf ==
    ASSUME Db, NEW s \in Sessions, load[s] # NoLoad
    PROVE  /\ load[s] \in Loads /\ load[s] \in Load /\ stage[s] \in 0..2 /\ txn[s] \in Txn
           /\ Batch(s) = BatchOf(load[s], stage[s])
<1>1. load[s] \in Loads /\ stage[s] \in 0..2 /\ txn[s] \in Txn
  BY DEF Db
<1> QED BY <1>1, LoadsAssumption DEF Batch, BatchOf

LEMMA WriteNextKeeps ==
    ASSUME Db, Serial, NEW s \in Sessions, WriteNext(s)
    PROVE  Db' /\ Serial'
<1> DEFINE l == load[s]
           n == stage[s]
           x == txn[s]
           e == BatchOf(l, n)[x.pos + 1]
           id == Owner(KindAt(n), e)
           y == WrittenTo(l, n, x, rows, events)
<1>1. /\ l # NoLoad /\ x.pos < Len(Batch(s))
      /\ \A t \in Sessions : ~WaitsFor(s, t)
      /\ txn' = [txn EXCEPT ![s] = Written(s)]
      /\ rows' = rows /\ events' = events /\ load' = load /\ stage' = stage
  BY DEF WriteNext, Unwritten
<1>2. /\ l \in Loads /\ l \in Load /\ n \in 0..2 /\ x \in Txn /\ Batch(s) = BatchOf(l, n)
  BY <1>1, LoadOf
<1>3. Ran(l, n, x, rows, events) /\ rows \in Table /\ events \in Seq(Records)
  BY <1>1 DEF Serial, Db
<1>4. /\ y \in Txn /\ Ran(l, n, y, rows, events)
      /\ DOMAIN y.rows = DOMAIN x.rows \cup {id}
  BY <1>1, <1>2, <1>3, WritingRuns
<1>5. Target(s) = id
  BY <1>2 DEF Target, Owner, KindAt
<1>6. Written(s) = y
  <2>1. stage[s] = 1 => KindAt(stage[s]) = "subject"
    BY DEF KindAt
  <2>2. stage[s] # 1 => KindAt(stage[s]) = "entry"
    BY DEF KindAt
  <2>3. CASE stage[s] = 1
    BY <1>2, <1>5, <2>1, <2>3 DEF Written, WrittenTo, Takes
  <2>4. CASE stage[s] # 1
    BY <1>2, <1>5, <2>2, <2>4 DEF Written, WrittenTo, Takes
  <2> QED BY <2>3, <2>4
<1>7. \A t \in Sessions : t # s => id \notin DOMAIN txn[t].rows
  BY <1>1, <1>5 DEF WaitsFor, Unwritten
<1> HIDE DEF l, n, x, y, id, e
<1>8. txn' = [txn EXCEPT ![s] = y]
  BY <1>1, <1>6
<1>9. Db'
  BY <1>1, <1>4, <1>8 DEF Db
<1>10. txn'[s] = y /\ \A t \in Sessions : t # s => txn'[t] = txn[t]
  BY <1>8 DEF Db
<1>11. ASSUME NEW t \in Sessions
       PROVE  IF load'[t] = NoLoad THEN stage'[t] = 0 /\ txn'[t] = Opened
              ELSE Ran(load'[t], stage'[t], txn'[t], rows', events')
  <2>1. CASE t = s
    BY <1>1, <1>4, <1>10, <2>1 DEF l, n
  <2>2. CASE t # s
    BY <1>1, <1>10, <2>2 DEF Serial
  <2> QED BY <2>1, <2>2
<1>12. ASSUME NEW t \in Sessions, NEW u \in Sessions, t # u
       PROVE  DOMAIN txn'[t].rows \cap DOMAIN txn'[u].rows = {}
  <2>1. DOMAIN txn[t].rows \cap DOMAIN txn[u].rows = {}
    BY <1>12 DEF Serial
  <2>2. CASE t = s
    BY <1>4, <1>7, <1>10, <1>12, <2>1, <2>2 DEF x
  <2>3. CASE u = s
    BY <1>4, <1>7, <1>10, <1>12, <2>1, <2>3 DEF x
  <2>4. CASE t # s /\ u # s
    BY <1>10, <2>1, <2>4
  <2> QED BY <2>2, <2>3, <2>4
<1>13. Serial'
  BY <1>11, <1>12 DEF Serial
<1> QED BY <1>9, <1>13

LEMMA CommitKeeps ==
    ASSUME Db, Serial, NEW s \in Sessions, NEW n, Commit(s, n), NEW a, NEW b,
           (a = NoLoad /\ b = 0) \/ (a \in Loads /\ b \in 0..2),
           load' = [load EXCEPT ![s] = a], stage' = [stage EXCEPT ![s] = b]
    PROVE  Db' /\ Serial'
<1>1. /\ load[s] # NoLoad
      /\ rows' = Overlay(rows, txn[s].rows) /\ events' = events \o txn[s].events
      /\ txn' = [txn EXCEPT ![s] = Opened]
  BY DEF Commit
<1>2. load[s] \in Load /\ stage[s] \in 0..2 /\ txn[s] \in Txn
  BY <1>1, LoadOf
<1>3. rows \in Table /\ events \in Seq(Records) /\ Ran(load[s], stage[s], txn[s], rows, events)
  BY <1>1 DEF Db, Serial
<1> DEFINE own == txn[s].rows
           add == txn[s].events
<1>4. own \in Table /\ add \in Seq(Records)
  BY <1>2 DEF Txn
<1>5. \A r \in ToSet(add) : Subject[r] \in DOMAIN own
  BY <1>2, <1>3, OwnEvents
<1>6. rows' \in Table
  BY <1>1, <1>3, <1>4, OverlayIsATable
<1>7. events' \in Seq(Records)
  BY <1>1, <1>3, <1>4
<1>8. ASSUME NEW t \in Sessions, t # s, load[t] # NoLoad
      PROVE  Ran(load[t], stage[t], txn[t], rows', events')
  <2>1. load[t] \in Load /\ stage[t] \in 0..2 /\ txn[t] \in Txn
    BY <1>8, LoadOf
  <2>2. Ran(load[t], stage[t], txn[t], rows, events) /\ DOMAIN txn[t].rows \cap DOMAIN own = {}
    BY <1>8 DEF Serial
  <2> HIDE DEF own, add
  <2>3. Ran(load[t], stage[t], txn[t], Overlay(rows, own), events \o add)
    BY <1>3, <1>4, <1>5, <2>1, <2>2, RanBeside
  <2> QED BY <1>1, <2>3 DEF own, add
<1> QED BY <1>1, <1>6, <1>7, <1>8, SerialReset

LEMMA SerialKept == Db /\ Serial /\ [Next]_vars => Db' /\ Serial'
<1> SUFFICES ASSUME Db, Serial, [Next]_vars PROVE Db' /\ Serial'
  OBVIOUS
<1>1. /\ rows \in Table /\ events \in Seq(Records)
      /\ \A t \in Sessions : load[t] # NoLoad => Ran(load[t], stage[t], txn[t], rows, events)
  BY DEF Db, Serial
<1>2. ASSUME NEW s \in Sessions, load[s] # NoLoad PROVE load[s] \in Loads /\ stage[s] \in 0..2
  BY <1>2, LoadOf
<1>3. \A s \in Sessions : load = [load EXCEPT ![s] = load[s]]
  BY DEF Db
<1>4. ASSUME NEW s \in Sessions, NEW l \in Loads, StartLoad(s, l) PROVE Db' /\ Serial'
  <2>1. /\ load[s] = NoLoad /\ load' = [load EXCEPT ![s] = l] /\ stage' = [stage EXCEPT ![s] = 0]
        /\ rows' = rows /\ events' = events /\ txn' = txn
    BY <1>4 DEF StartLoad
  <2>2. txn[s] = Opened /\ txn = [txn EXCEPT ![s] = txn[s]]
    BY <2>1 DEF Serial, Db
  <2>3. /\ rows' \in Table /\ events' \in Seq(Records) /\ txn' = [txn EXCEPT ![s] = Opened]
        /\ \A t \in Sessions : t # s /\ load[t] # NoLoad =>
              Ran(load[t], stage[t], txn[t], rows', events')
    BY <1>1, <2>1, <2>2
  <2>4. 0 \in 0..2
    OBVIOUS
  <2> QED BY <2>1, <2>3, <2>4, SerialReset
<1>5. ASSUME NEW s \in Sessions, WriteNext(s) PROVE Db' /\ Serial'
  BY <1>5, WriteNextKeeps
<1>6. ASSUME NEW s \in Sessions, CommitIdentities(s) PROVE Db' /\ Serial'
  <2>1. /\ Commit(s, 0) /\ load[s] # NoLoad /\ load' = load
        /\ stage' = [stage EXCEPT ![s] = 1]
    BY <1>6 DEF CommitIdentities, Commit
  <2>2. load' = [load EXCEPT ![s] = load[s]] /\ load[s] \in Loads /\ 1 \in 0..2
    BY <1>2, <1>3, <2>1
  <2> QED BY <2>1, <2>2, CommitKeeps
<1>7. ASSUME NEW s \in Sessions, CommitEvents(s) PROVE Db' /\ Serial'
  <2>1. /\ Commit(s, 1) /\ load[s] # NoLoad /\ load' = load
        /\ stage' = [stage EXCEPT ![s] = 2]
    BY <1>7 DEF CommitEvents, Commit
  <2>2. load' = [load EXCEPT ![s] = load[s]] /\ load[s] \in Loads /\ 2 \in 0..2
    BY <1>2, <1>3, <2>1
  <2> QED BY <2>1, <2>2, CommitKeeps
<1>8. ASSUME NEW s \in Sessions, CommitPassports(s) PROVE Db' /\ Serial'
  <2>1. /\ Commit(s, 2) /\ load' = [load EXCEPT ![s] = NoLoad]
        /\ stage' = [stage EXCEPT ![s] = 0]
    BY <1>8 DEF CommitPassports
  <2> QED BY <2>1, CommitKeeps
<1>9. ASSUME NEW s \in Sessions, Fail(s) PROVE Db' /\ Serial'
  <2>1. /\ load' = [load EXCEPT ![s] = NoLoad] /\ stage' = [stage EXCEPT ![s] = 0]
        /\ txn' = [txn EXCEPT ![s] = Opened] /\ rows' = rows /\ events' = events
    BY <1>9 DEF Fail
  <2> QED BY <1>1, <2>1, SerialReset
<1>10. CASE /\ rows' = rows /\ events' = events /\ load' = load
            /\ stage' = stage /\ txn' = txn
  BY <1>10 DEF Db, Serial
<1>11. ASSUME \/ ReadFlags \/ ReadIdentities \/ ReadLists \/ ReadActions \/ ReadPermissions
              \/ ReadEvents \/ UNCHANGED vars
       PROVE  UNCHANGED loadVars
  BY <1>11 DEF ReadFlags, ReadIdentities, ReadLists, ReadActions, ReadPermissions, ReadEvents,
               vars
<1>12. CASE \E s \in Sessions : \/ \E l \in Loads : StartLoad(s, l)
                                \/ WriteNext(s)
                                \/ CommitIdentities(s)
                                \/ CommitEvents(s)
                                \/ CommitPassports(s)
                                \/ AbortLoad(s)
                                \/ BreakDeadlock(s)
  BY <1>4, <1>5, <1>6, <1>7, <1>8, <1>9, <1>12 DEF AbortLoad, BreakDeadlock
<1>13. CASE \/ ReadFlags \/ ReadIdentities \/ ReadLists \/ ReadActions \/ ReadPermissions
            \/ ReadEvents \/ UNCHANGED vars
  BY <1>10, <1>11, <1>13 DEF loadVars
<1> QED BY <1>12, <1>13 DEF Next

LEMMA SerialHolds == Spec => [](Db /\ Serial)
BY SerialAtFirst, SerialKept, PTL DEF Spec

(* The commits of session s, run alone on what the others had committed. *)
Alone(s) ==
    /\ CommitIdentities(s) =>
         rows' = IngestIdentities(rows, Flagged(load[s].identities)) /\ events' = events
    /\ CommitEvents(s) =>
         rows' = UpsertSubjects(rows, load[s].events) /\
         events' = InsertEvents(events, load[s].events)
    /\ CommitPassports(s) =>
         rows' = IngestIdentities(rows, load[s].passports) /\ events' = events

LEMMA CommitsAreAlone ==
    ASSUME Db, Serial, NEW s \in Sessions
    PROVE  Alone(s)
<1>1. ASSUME NEW n \in 0..2, Commit(s, n)
      PROVE  /\ n # 1 => /\ rows' = IngestIdentities(rows, BatchOf(load[s], n))
                         /\ events' = events
             /\ n = 1 => /\ rows' = UpsertSubjects(rows, load[s].events)
                         /\ events' = InsertEvents(events, load[s].events)
  <2>1. /\ load[s] # NoLoad /\ stage[s] = n /\ ~Unwritten(s)
        /\ rows' = Overlay(rows, txn[s].rows) /\ events' = events \o txn[s].events
    BY <1>1 DEF Commit
  <2>2. load[s] \in Load /\ txn[s] \in Txn /\ Batch(s) = BatchOf(load[s], n)
    BY <2>1, LoadOf
  <2>3. ~(txn[s].pos < Len(BatchOf(load[s], n)))
    BY <2>1, <2>2 DEF Unwritten
  <2>4. Ran(load[s], n, txn[s], rows, events) /\ rows \in Table /\ events \in Seq(Records)
    BY <2>1 DEF Db, Serial
  <2>5. PICK l \in Load, x \in Txn : l = load[s] /\ x = txn[s]
    BY <2>2
  <2>6. Ran(l, n, x, rows, events) /\ ~(x.pos < Len(BatchOf(l, n)))
    BY <2>3, <2>4, <2>5
  <2>7. /\ n # 1 => /\ Overlay(rows, x.rows) = IngestIdentities(rows, BatchOf(l, n))
                    /\ events \o x.events = events
        /\ n = 1 => /\ Overlay(rows, x.rows) = UpsertSubjects(rows, l.events)
                    /\ events \o x.events = InsertEvents(events, l.events)
    BY <2>4, <2>6, WholeRun
  <2> QED BY <2>1, <2>5, <2>7
<1>2. /\ BatchOf(load[s], 0) = Flagged(load[s].identities)
      /\ BatchOf(load[s], 2) = load[s].passports
  BY DEF BatchOf
<1> QED BY <1>1, <1>2 DEF Alone, CommitIdentities, CommitEvents, CommitPassports

(* Two loads at a time: a transaction takes effect as if it had run alone   *)
(* at its commit, on what the others had committed by then (Ingest and     *)
(* IngestIdentities take no lock but their statements' row locks).         *)
THEOREM TransactionsSerialize == Spec => CommitsSerialize
<1>1. Db /\ Serial => \A s \in Sessions : Alone(s)
  BY CommitsAreAlone
<1> QED BY <1>1, SerialHolds, PTL DEF CommitsSerialize, Alone

-----------------------------------------------------------------------------
(* What a batch does to one row is a change that is known before the row:   *)
(* some columns are set, the last use is raised, flags are raised, and the  *)
(* grants are replaced or not.                                             *)

Change == [sets : SUBSET Fields, values : [Fields -> Values \cup {NoValue}], last : Nat,
           privileged : BOOLEAN, shadow : BOOLEAN, granted : BOOLEAN, grants : SUBSET Permission]

Changed(c, row) ==
    [fields      |-> [f \in Fields |-> IF f \in c.sets THEN c.values[f] ELSE row.fields[f]],
     lastUsed    |-> IF c.last > row.lastUsed THEN c.last ELSE row.lastUsed,
     privileged  |-> row.privileged \/ c.privileged,
     shadow      |-> row.shadow \/ c.shadow,
     permissions |-> IF c.granted THEN c.grants ELSE row.permissions]

(* The change that the subject of an event sees. *)
FlagsOnly(c) == c.sets = {} /\ c.last = 0 /\ ~c.shadow /\ ~c.granted

NoChange ==
    [sets |-> {}, values |-> [f \in Fields |-> NoValue], last |-> 0, privileged |-> FALSE,
     shadow |-> FALSE, granted |-> FALSE, grants |-> {}]

ChangedTable(on, by, t) ==
    [i \in DOMAIN t \cup on |-> IF i \in on THEN Changed(by[i], RowOf(t, i)) ELSE t[i]]

(* Rows are equal when their columns are. *)
LEMMA SameRow ==
    ASSUME NEW r1 \in RowType, NEW r2 \in RowType,
           r1.fields = r2.fields, r1.lastUsed = r2.lastUsed, r1.privileged = r2.privileged,
           r1.shadow = r2.shadow, r1.permissions = r2.permissions
    PROVE  r1 = r2
BY DEF RowType

LEMMA ColumnsOf ==
    ASSUME NEW row \in RowType
    PROVE  /\ row.fields \in [Fields -> Values \cup {NoValue}] /\ row.lastUsed \in Nat
           /\ row.privileged \in BOOLEAN /\ row.shadow \in BOOLEAN
           /\ row.permissions \in SUBSET Permission
BY DEF RowType

LEMMA ChangedIsARow ==
    ASSUME NEW c \in Change, NEW row \in RowType
    PROVE  /\ Changed(c, row) \in RowType
           /\ \A f \in Fields : Changed(c, row).fields[f]
                                  = IF f \in c.sets THEN c.values[f] ELSE row.fields[f]
           /\ Changed(c, row).lastUsed = IF c.last > row.lastUsed THEN c.last ELSE row.lastUsed
           /\ Changed(c, row).privileged = (row.privileged \/ c.privileged)
           /\ Changed(c, row).shadow = (row.shadow \/ c.shadow)
           /\ Changed(c, row).permissions = IF c.granted THEN c.grants ELSE row.permissions
<1> DEFINE fs == [f \in Fields |-> IF f \in c.sets THEN c.values[f] ELSE row.fields[f]]
           last == IF c.last > row.lastUsed THEN c.last ELSE row.lastUsed
           grants == IF c.granted THEN c.grants ELSE row.permissions
           priv == row.privileged \/ c.privileged
           shad == row.shadow \/ c.shadow
<1>1. /\ fs \in [Fields -> Values \cup {NoValue}] /\ last \in Nat /\ grants \in SUBSET Permission
      /\ priv \in BOOLEAN /\ shad \in BOOLEAN
  BY ColumnsOf DEF Change
<1>2. Changed(c, row) = [fields |-> fs, lastUsed |-> last, privileged |-> priv,
                         shadow |-> shad, permissions |-> grants]
  BY DEF Changed
<1>3. \A f \in Fields : fs[f] = IF f \in c.sets THEN c.values[f] ELSE row.fields[f]
  OBVIOUS
<1> HIDE DEF fs, last, grants, priv, shad
<1>4. Changed(c, row) \in RowType
  BY <1>1, <1>2 DEF RowType
<1> QED BY <1>2, <1>3, <1>4 DEF last, grants, priv, shad

LEMMA NoChangeIsNone ==
    ASSUME NEW row \in RowType
    PROVE  NoChange \in Change /\ FlagsOnly(NoChange) /\ Changed(NoChange, row) = row
<1>1. NoChange \in Change /\ FlagsOnly(NoChange)
  BY DEF NoChange, Change, FlagsOnly
<1>2. /\ NoChange.sets = {} /\ NoChange.last = 0 /\ NoChange.privileged = FALSE
      /\ NoChange.shadow = FALSE /\ NoChange.granted = FALSE
  BY DEF NoChange
<1> DEFINE new == Changed(NoChange, row)
<1>3. /\ new \in RowType /\ \A f \in Fields : new.fields[f] = row.fields[f]
      /\ new.lastUsed = row.lastUsed /\ new.privileged = row.privileged
      /\ new.shadow = row.shadow /\ new.permissions = row.permissions
  <2>1. row.lastUsed \in Nat /\ row.privileged \in BOOLEAN /\ row.shadow \in BOOLEAN
    BY ColumnsOf
  <2>2. ~(0 > row.lastUsed)
    BY <2>1
  <2> QED BY <1>1, <1>2, <2>1, <2>2, ChangedIsARow
<1> HIDE DEF new
<1>4. new.fields = row.fields
  BY <1>3, ColumnsOf
<1>5. new = row
  BY <1>3, <1>4, SameRow
<1> QED BY <1>1, <1>5 DEF new

(* One element on top of a change is a change. *)
LEMMA ChangeAndNext ==
    ASSUME NEW kind \in {"entry", "subject"}, NEW c \in Change, NEW x \in Elements(kind)
    PROVE  \E d \in Change :
             /\ \A row \in RowType : NextRow(kind, Changed(c, row), x) = Changed(d, row)
             /\ kind = "subject" /\ FlagsOnly(c) => FlagsOnly(d)
<1>1. /\ c.sets \in SUBSET Fields /\ c.values \in [Fields -> Values \cup {NoValue}]
      /\ c.last \in Nat /\ c.privileged \in BOOLEAN /\ c.shadow \in BOOLEAN
      /\ c.granted \in BOOLEAN /\ c.grants \in SUBSET Permission
  BY DEF Change
<1>2. CASE kind = "entry"
  <2>0. x \in Entry
    BY <1>2 DEF Elements
  <2>1. /\ x.fields \in [Fields -> Values \cup {NoValue}] /\ x.lastUsed \in Nat
        /\ x.privileged \in BOOLEAN /\ x.shadow \in BOOLEAN
        /\ LastOfEach(x.permissions) \in SUBSET Permission
    BY <2>0, LastOfEachAreGrants DEF Entry
  <2> DEFINE S == {f \in Fields : f \in Lists \/ x.fields[f] # NoValue}
             vals == [f \in Fields |-> IF f \in S THEN x.fields[f] ELSE c.values[f]]
             top == IF x.lastUsed > c.last THEN x.lastUsed ELSE c.last
             priv == c.privileged \/ x.privileged
             shad == c.shadow \/ x.shadow
             grants == LastOfEach(x.permissions)
             d == [sets |-> c.sets \cup S, values |-> vals, last |-> top, privileged |-> priv,
                   shadow |-> shad, granted |-> TRUE, grants |-> grants]
  <2>2. /\ c.sets \cup S \in SUBSET Fields /\ vals \in [Fields -> Values \cup {NoValue}]
        /\ top \in Nat /\ priv \in BOOLEAN /\ shad \in BOOLEAN
    BY <1>1, <2>1
  <2>3. \A f \in Fields : vals[f] = IF f \in S THEN x.fields[f] ELSE c.values[f]
    OBVIOUS
  <2>4. \A f \in Fields : f \in S <=> f \in Lists \/ x.fields[f] # NoValue
    OBVIOUS
  <2>5. /\ d.sets = c.sets \cup S /\ d.values = vals /\ d.last = top /\ d.privileged = priv
        /\ d.shadow = shad /\ d.granted = TRUE /\ d.grants = grants
    OBVIOUS
  <2>6. d \in Change
    <3> HIDE DEF S, vals, top, priv, shad
    <3> QED BY <2>1, <2>2 DEF Change
  <2> HIDE DEF d, S, vals
  <2>7. ASSUME NEW row \in RowType PROVE NextRow(kind, Changed(c, row), x) = Changed(d, row)
    <3> DEFINE mid == Changed(c, row)
               r1 == NextRow(kind, mid, x)
               r2 == Changed(d, row)
    <3>1. mid \in RowType /\ r2 \in RowType
      BY <2>6, ChangedIsARow
    <3>2. r1 \in RowType
      BY <3>1, NextRowIsARow
    <3>3. /\ r1.fields = MergeColumns(mid.fields, x.fields)
          /\ r1.lastUsed = IF x.lastUsed > mid.lastUsed THEN x.lastUsed ELSE mid.lastUsed
          /\ r1.privileged = (mid.privileged \/ x.privileged)
          /\ r1.shadow = (mid.shadow \/ x.shadow)
          /\ r1.permissions = grants
      <4> HIDE DEF mid
      <4> QED BY <1>2 DEF NextRow
    <3>4. /\ \A f \in Fields : mid.fields[f] = IF f \in c.sets THEN c.values[f] ELSE row.fields[f]
          /\ mid.lastUsed = IF c.last > row.lastUsed THEN c.last ELSE row.lastUsed
          /\ mid.privileged = (row.privileged \/ c.privileged)
          /\ mid.shadow = (row.shadow \/ c.shadow)
      BY ChangedIsARow
    <3>5. /\ \A f \in Fields : r2.fields[f] = IF f \in d.sets THEN d.values[f] ELSE row.fields[f]
          /\ r2.lastUsed = IF d.last > row.lastUsed THEN d.last ELSE row.lastUsed
          /\ r2.privileged = (row.privileged \/ d.privileged)
          /\ r2.shadow = (row.shadow \/ d.shadow)
          /\ r2.permissions = d.grants
      BY <2>5, <2>6, ChangedIsARow
    <3>6. row.lastUsed \in Nat /\ row.privileged \in BOOLEAN /\ row.shadow \in BOOLEAN
      BY ColumnsOf
    <3> HIDE DEF mid, r1, r2
    <3>7. r1.fields = r2.fields
      <4>1. \A f \in Fields : r1.fields[f] = IF f \in S THEN x.fields[f] ELSE mid.fields[f]
        BY <2>4, <3>3 DEF MergeColumns
      <4>2. \A f \in Fields : r2.fields[f] = IF f \in S THEN x.fields[f] ELSE mid.fields[f]
        BY <2>3, <2>5, <3>4, <3>5
      <4>3. /\ r1.fields \in [Fields -> Values \cup {NoValue}]
            /\ r2.fields \in [Fields -> Values \cup {NoValue}]
        BY <3>1, <3>2, ColumnsOf
      <4> QED BY <4>1, <4>2, <4>3
    <3>8. r1.lastUsed = r2.lastUsed
      BY <1>1, <2>1, <2>5, <3>3, <3>4, <3>5, <3>6
    <3>9. r1.privileged = r2.privileged
      BY <1>1, <2>1, <2>5, <3>3, <3>4, <3>5, <3>6
    <3>10. r1.shadow = r2.shadow
      BY <1>1, <2>1, <2>5, <3>3, <3>4, <3>5, <3>6
    <3>11. r1 = r2
      BY <2>5, <3>1, <3>2, <3>3, <3>5, <3>7, <3>8, <3>9, <3>10, SameRow
    <3> QED BY <3>11 DEF r1, r2, mid
  <2> QED BY <1>2, <2>6, <2>7
<1>3. CASE kind = "subject"
  <2> DEFINE mark == Subject[x] \in Operator
             priv == c.privileged \/ mark
             d == [c EXCEPT !.privileged = priv]
  <2>1. priv \in BOOLEAN
    OBVIOUS
  <2> HIDE DEF priv
  <2>2. /\ d \in Change /\ d.sets = c.sets /\ d.values = c.values /\ d.last = c.last
        /\ d.privileged = priv /\ d.shadow = c.shadow /\ d.granted = c.granted
        /\ d.grants = c.grants
    BY <2>1 DEF Change
  <2> HIDE DEF d
  <2>3. FlagsOnly(c) => FlagsOnly(d)
    BY <2>2 DEF FlagsOnly
  <2>4. ASSUME NEW row \in RowType PROVE NextRow(kind, Changed(c, row), x) = Changed(d, row)
    <3> DEFINE mid == Changed(c, row)
               r1 == NextRow(kind, mid, x)
               r2 == Changed(d, row)
    <3>1. mid \in RowType /\ r2 \in RowType
      BY <2>2, ChangedIsARow
    <3>2. r1 \in RowType
      BY <3>1, NextRowIsARow
    <3>3. /\ r1.fields = mid.fields /\ r1.lastUsed = mid.lastUsed /\ r1.shadow = mid.shadow
          /\ r1.permissions = mid.permissions /\ r1.privileged = (mid.privileged \/ mark)
      <4>1. r1 = [mid EXCEPT !.privileged = @ \/ mark]
        BY <1>3 DEF NextRow
      <4> HIDE DEF mid, r1, mark
      <4> QED BY <3>1, <4>1 DEF RowType
    <3>4. /\ \A f \in Fields : mid.fields[f] = IF f \in c.sets THEN c.values[f] ELSE row.fields[f]
          /\ mid.lastUsed = IF c.last > row.lastUsed THEN c.last ELSE row.lastUsed
          /\ mid.privileged = (row.privileged \/ c.privileged)
          /\ mid.shadow = (row.shadow \/ c.shadow)
          /\ mid.permissions = IF c.granted THEN c.grants ELSE row.permissions
      BY ChangedIsARow
    <3>5. /\ \A f \in Fields : r2.fields[f] = IF f \in c.sets THEN c.values[f] ELSE row.fields[f]
          /\ r2.lastUsed = IF c.last > row.lastUsed THEN c.last ELSE row.lastUsed
          /\ r2.privileged = (row.privileged \/ priv)
          /\ r2.shadow = (row.shadow \/ c.shadow)
          /\ r2.permissions = IF c.granted THEN c.grants ELSE row.permissions
      BY <2>2, ChangedIsARow
    <3>6. row.privileged \in BOOLEAN
      BY ColumnsOf
    <3> HIDE DEF mid, r1, r2
    <3>7. r1.fields = r2.fields
      <4>1. /\ r1.fields \in [Fields -> Values \cup {NoValue}]
            /\ r2.fields \in [Fields -> Values \cup {NoValue}]
        BY <3>1, <3>2, ColumnsOf
      <4>2. \A f \in Fields : r1.fields[f] = r2.fields[f]
        BY <3>3, <3>4, <3>5
      <4> QED BY <4>1, <4>2
    <3>8. r1.privileged = r2.privileged
      BY <1>1, <3>3, <3>4, <3>5, <3>6 DEF priv
    <3>9. r1 = r2
      BY <3>1, <3>2, <3>3, <3>4, <3>5, <3>7, <3>8, SameRow
    <3> QED BY <3>9 DEF r1, r2, mid
  <2> QED BY <1>3, <2>2, <2>3, <2>4
<1> QED BY <1>2, <1>3

(* A batch is one change per identity it is about. *)
LEMMA AfterIsAChange ==
    ASSUME NEW kind \in {"entry", "subject"}, NEW xs \in Seq(Elements(kind)), NEW m \in 0..Len(xs)
    PROVE  \E by \in [IDs -> Change] :
             /\ \A t \in Table : After(kind, t, xs, m) = ChangedTable(Owners(kind, xs, m), by, t)
             /\ kind = "subject" => \A id \in IDs : FlagsOnly(by[id])
<1> DEFINE Is(k, by) ==
             /\ \A t \in Table : After(kind, t, xs, k) = ChangedTable(Owners(kind, xs, k), by, t)
             /\ kind = "subject" => \A id \in IDs : FlagsOnly(by[id])
           Good == {k \in Nat : k <= m => \E by \in [IDs -> Change] : Is(k, by)}
<1>1. /\ m \in Nat /\ m <= Len(xs) /\ Len(xs) \in Nat
      /\ \A k \in 1..m : xs[k] \in Elements(kind) /\ k \in 1..Len(xs) /\ k \in 0..Len(xs)
  OBVIOUS
<1>2. 0 \in Good
  <2> DEFINE by == [id \in IDs |-> NoChange]
  <2>1. Owners(kind, xs, 0) = {}
    BY DEF Owners
  <2>2. ASSUME NEW t \in Table PROVE After(kind, t, xs, 0) = ChangedTable({}, by, t)
    <3>1. After(kind, t, xs, 0) = t
      BY AfterNone
    <3>2. ChangedTable({}, by, t) = t
      BY TableIs DEF ChangedTable
    <3> QED BY <3>1, <3>2
  <2>3. NoChange \in Change /\ FlagsOnly(NoChange)
    BY DEF NoChange, Change, FlagsOnly
  <2>4. by \in [IDs -> Change] /\ \A id \in IDs : FlagsOnly(by[id])
    BY <2>3
  <2> HIDE DEF by
  <2>5. Is(0, by)
    BY <2>1, <2>2, <2>4
  <2> HIDE DEF Is
  <2> QED BY <2>4, <2>5
<1>3. ASSUME NEW k \in Nat, k \in Good PROVE k + 1 \in Good
  <2> SUFFICES ASSUME k + 1 <= m PROVE \E by \in [IDs -> Change] : Is(k + 1, by)
    <3> HIDE DEF Is
    <3> QED OBVIOUS
  <2>1. k + 1 \in 1..m /\ k <= m /\ (k + 1) - 1 = k
    BY <1>1
  <2>2. PICK by \in [IDs -> Change] : Is(k, by)
    <3> HIDE DEF Is
    <3> QED BY <1>3, <2>1
  <2> DEFINE x == xs[k + 1]
             id == Owner(kind, x)
             on == Owners(kind, xs, k)
             c == IF id \in on THEN by[id] ELSE NoChange
  <2>3. x \in Elements(kind) /\ id \in IDs
    BY <1>1, <2>1, ElementsHaveOwners
  <2>4. Owners(kind, xs, k + 1) = on \cup {id}
    <3>1. 1..(k + 1) = (1..k) \cup {k + 1}
      OBVIOUS
    <3> QED BY <3>1 DEF Owners
  <2>5. c \in Change /\ (kind = "subject" => FlagsOnly(c))
    <3>1. NoChange \in Change /\ FlagsOnly(NoChange)
      BY DEF NoChange, Change, FlagsOnly
    <3> QED BY <2>2, <2>3, <3>1
  <2>6. PICK d \in Change :
             /\ \A row \in RowType : NextRow(kind, Changed(c, row), x) = Changed(d, row)
             /\ kind = "subject" /\ FlagsOnly(c) => FlagsOnly(d)
    <3> HIDE DEF x, c
    <3> QED BY <2>3, <2>5, ChangeAndNext
  <2> DEFINE new == [by EXCEPT ![id] = d]
  <2>7. /\ new \in [IDs -> Change] /\ new[id] = d
        /\ \A i \in IDs : i # id => new[i] = by[i]
    <3> HIDE DEF id
    <3> QED BY <2>3
  <2> HIDE DEF new
  <2>8. ASSUME NEW t \in Table
        PROVE  After(kind, t, xs, k + 1) = ChangedTable(on \cup {id}, new, t)
    <3> DEFINE u == After(kind, t, xs, k)
               D == DOMAIN t \cup on \cup {id}
    <3>1. After(kind, t, xs, k + 1) = Takes(kind, u, x)
      <4>1. k + 1 \in 1..Len(xs)
        BY <1>1, <2>1
      <4>2. After(kind, t, xs, k + 1) = Takes(kind, After(kind, t, xs, (k + 1) - 1), xs[k + 1])
        BY <4>1, AfterNext
      <4> QED BY <2>1, <4>2
    <3>2. u = ChangedTable(on, by, t)
      BY <2>2
    <3>3. u \in Table
      <4>1. k \in 0..Len(xs)
        BY <1>1, <2>1
      <4> QED BY <4>1, AfterGrows
    <3>4. Takes(kind, u, x) = Put(u, id, NextRow(kind, RowOf(u, id), x))
      <4> HIDE DEF u, x
      <4> QED BY <2>3, <3>3, TakesIsAPut DEF id
    <3> HIDE DEF u, x
    <3>5. RowOf(u, id) = Changed(c, RowOf(t, id))
      <4>1. CASE id \in on
        BY <3>2, <4>1 DEF RowOf, ChangedTable
      <4>2. CASE id \notin on
        <5>1. RowOf(u, id) = RowOf(t, id)
          BY <3>2, <4>2 DEF RowOf, ChangedTable
        <5>2. RowOf(t, id) \in RowType
          BY RowOfIsARow
        <5> QED BY <4>2, <5>1, <5>2, NoChangeIsNone
      <4> QED BY <4>1, <4>2
    <3>6. NextRow(kind, RowOf(u, id), x) = Changed(d, RowOf(t, id))
      BY <2>6, <3>5, RowOfIsARow
    <3> DEFINE row == Changed(d, RowOf(t, id))
    <3> HIDE DEF id, on, c
    <3>7. Put(u, id, row) = [i \in D |-> IF i = id THEN row
                                         ELSE IF i \in on THEN Changed(by[i], RowOf(t, i)) ELSE t[i]]
      BY <3>2 DEF Put, ChangedTable
    <3>8. \A i \in on : i \in IDs
      <4>1. on \subseteq IDs
        <5>1. \A j \in 1..k : xs[j] \in Elements(kind)
          BY <1>1, <2>1
        <5> QED BY <5>1, ElementsHaveOwners DEF on, Owners
      <4> QED BY <4>1
    <3>9. ChangedTable(on \cup {id}, new, t)
            = [i \in D |-> IF i = id THEN row
                           ELSE IF i \in on THEN Changed(by[i], RowOf(t, i)) ELSE t[i]]
      <4>1. \A i \in D : (IF i \in on \cup {id} THEN Changed(new[i], RowOf(t, i)) ELSE t[i])
                          = IF i = id THEN row
                            ELSE IF i \in on THEN Changed(by[i], RowOf(t, i)) ELSE t[i]
        BY <2>7, <3>8
      <4>2. ChangedTable(on \cup {id}, new, t)
              = [i \in D |-> IF i \in on \cup {id} THEN Changed(new[i], RowOf(t, i)) ELSE t[i]]
        BY DEF ChangedTable
      <4> HIDE DEF row, D
      <4> QED BY <4>1, <4>2
    <3> HIDE DEF row
    <3> QED BY <3>1, <3>4, <3>6, <3>7, <3>9 DEF row
  <2>9. kind = "subject" => \A i \in IDs : FlagsOnly(new[i])
    BY <2>2, <2>5, <2>6, <2>7
  <2> HIDE DEF x, id, on, c
  <2>10. Is(k + 1, new)
    BY <2>4, <2>8, <2>9
  <2> HIDE DEF Is
  <2> QED BY <2>7, <2>10
<1>4. Nat \subseteq Good
  <2> HIDE DEF Good
  <2> QED BY <1>2, <1>3, SetInduction
<1>5. \E by \in [IDs -> Change] : Is(m, by)
  <2> HIDE DEF Is
  <2> QED BY <1>1, <1>4
<1> QED BY <1>5

LEMMA ChangedTwice ==
    ASSUME NEW c \in Change, NEW row \in RowType
    PROVE  Changed(c, Changed(c, row)) = Changed(c, row)
<1> DEFINE r1 == Changed(c, row)
           r2 == Changed(c, r1)
<1>1. r1 \in RowType /\ r2 \in RowType
  BY ChangedIsARow
<1>2. /\ \A f \in Fields : r1.fields[f] = IF f \in c.sets THEN c.values[f] ELSE row.fields[f]
      /\ r1.lastUsed = IF c.last > row.lastUsed THEN c.last ELSE row.lastUsed
      /\ r1.privileged = (row.privileged \/ c.privileged)
      /\ r1.shadow = (row.shadow \/ c.shadow)
      /\ r1.permissions = IF c.granted THEN c.grants ELSE row.permissions
  BY ChangedIsARow
<1> HIDE DEF r1
<1>3. /\ \A f \in Fields : r2.fields[f] = IF f \in c.sets THEN c.values[f] ELSE r1.fields[f]
      /\ r2.lastUsed = IF c.last > r1.lastUsed THEN c.last ELSE r1.lastUsed
      /\ r2.privileged = (r1.privileged \/ c.privileged)
      /\ r2.shadow = (r1.shadow \/ c.shadow)
      /\ r2.permissions = IF c.granted THEN c.grants ELSE r1.permissions
  BY <1>1, ChangedIsARow
<1> HIDE DEF r2
<1>4. /\ c.last \in Nat /\ c.privileged \in BOOLEAN /\ c.shadow \in BOOLEAN
      /\ row.lastUsed \in Nat /\ row.privileged \in BOOLEAN /\ row.shadow \in BOOLEAN
  BY ColumnsOf DEF Change
<1>5. r1.fields = r2.fields
  <2>1. /\ r1.fields \in [Fields -> Values \cup {NoValue}]
        /\ r2.fields \in [Fields -> Values \cup {NoValue}]
    BY <1>1, ColumnsOf
  <2>2. \A f \in Fields : r1.fields[f] = r2.fields[f]
    BY <1>2, <1>3
  <2> QED BY <2>1, <2>2
<1>6. r1.lastUsed = r2.lastUsed
  BY <1>2, <1>3, <1>4
<1>7. r1.privileged = r2.privileged /\ r1.shadow = r2.shadow
  BY <1>2, <1>3, <1>4
<1>8. r1.permissions = r2.permissions
  BY <1>2, <1>3
<1>9. r1 = r2
  BY <1>1, <1>5, <1>6, <1>7, <1>8, SameRow
<1> QED BY <1>9 DEF r1, r2

LEMMA ChangedEitherWay ==
    ASSUME NEW c \in Change, NEW d \in Change, FlagsOnly(d), NEW row \in RowType
    PROVE  Changed(c, Changed(d, row)) = Changed(d, Changed(c, row))
<1> DEFINE rd == Changed(d, row)
           rc == Changed(c, row)
           r1 == Changed(c, rd)
           r2 == Changed(d, rc)
<1>1. rd \in RowType /\ rc \in RowType /\ r1 \in RowType /\ r2 \in RowType
  BY ChangedIsARow
<1>2. d.sets = {} /\ d.last = 0 /\ ~d.shadow /\ ~d.granted
  BY DEF FlagsOnly
<1>3. /\ \A f \in Fields : rc.fields[f] = IF f \in c.sets THEN c.values[f] ELSE row.fields[f]
      /\ rc.lastUsed = IF c.last > row.lastUsed THEN c.last ELSE row.lastUsed
      /\ rc.privileged = (row.privileged \/ c.privileged)
      /\ rc.shadow = (row.shadow \/ c.shadow)
      /\ rc.permissions = IF c.granted THEN c.grants ELSE row.permissions
  BY ChangedIsARow
<1>4. /\ \A f \in Fields : rd.fields[f] = row.fields[f]
      /\ rd.lastUsed = IF d.last > row.lastUsed THEN d.last ELSE row.lastUsed
      /\ rd.privileged = (row.privileged \/ d.privileged)
      /\ rd.shadow = (row.shadow \/ d.shadow)
      /\ rd.permissions = row.permissions
  BY <1>2, ChangedIsARow
<1> HIDE DEF rc, rd
<1>5. /\ \A f \in Fields : r1.fields[f] = IF f \in c.sets THEN c.values[f] ELSE rd.fields[f]
      /\ r1.lastUsed = IF c.last > rd.lastUsed THEN c.last ELSE rd.lastUsed
      /\ r1.privileged = (rd.privileged \/ c.privileged)
      /\ r1.shadow = (rd.shadow \/ c.shadow)
      /\ r1.permissions = IF c.granted THEN c.grants ELSE rd.permissions
  BY <1>1, ChangedIsARow
<1>6. /\ \A f \in Fields : r2.fields[f] = rc.fields[f]
      /\ r2.lastUsed = IF d.last > rc.lastUsed THEN d.last ELSE rc.lastUsed
      /\ r2.privileged = (rc.privileged \/ d.privileged)
      /\ r2.shadow = (rc.shadow \/ d.shadow)
      /\ r2.permissions = rc.permissions
  BY <1>1, <1>2, ChangedIsARow
<1> HIDE DEF r1, r2
<1>7. /\ c.last \in Nat /\ c.privileged \in BOOLEAN /\ c.shadow \in BOOLEAN
      /\ d.privileged \in BOOLEAN /\ d.shadow \in BOOLEAN
      /\ row.lastUsed \in Nat /\ row.privileged \in BOOLEAN /\ row.shadow \in BOOLEAN
  BY ColumnsOf DEF Change
<1>8. r1.fields = r2.fields
  <2>1. /\ r1.fields \in [Fields -> Values \cup {NoValue}]
        /\ r2.fields \in [Fields -> Values \cup {NoValue}]
    BY <1>1, ColumnsOf
  <2>2. \A f \in Fields : r1.fields[f] = r2.fields[f]
    BY <1>3, <1>4, <1>5, <1>6
  <2> QED BY <2>1, <2>2
<1>9. r1.lastUsed = r2.lastUsed
  BY <1>2, <1>3, <1>4, <1>5, <1>6, <1>7
<1>10. r1.privileged = r2.privileged
  BY <1>3, <1>4, <1>5, <1>6, <1>7
<1>11. r1.shadow = r2.shadow
  BY <1>2, <1>3, <1>4, <1>5, <1>6, <1>7
<1>12. r1.permissions = r2.permissions
  BY <1>3, <1>4, <1>5, <1>6
<1>13. r1 = r2
  BY <1>1, <1>8, <1>9, <1>10, <1>11, <1>12, SameRow
<1> QED BY <1>13 DEF r1, r2, rc, rd

(* What running a batch again leaves, and running another after it. *)
LEMMA ChangedAgain ==
    ASSUME NEW on \in SUBSET IDs, NEW by \in [IDs -> Change], NEW t \in Table
    PROVE  ChangedTable(on, by, ChangedTable(on, by, t)) = ChangedTable(on, by, t)
<1> DEFINE u == ChangedTable(on, by, t)
           D == DOMAIN t \cup on
<1>1. u = [i \in D |-> IF i \in on THEN Changed(by[i], RowOf(t, i)) ELSE t[i]]
  BY DEF ChangedTable
<1>2. ChangedTable(on, by, u) = [i \in D |-> IF i \in on THEN Changed(by[i], RowOf(u, i)) ELSE u[i]]
  <2> HIDE DEF u
  <2>1. DOMAIN u \cup on = D
    BY <1>1
  <2> QED BY <2>1 DEF ChangedTable
<1> HIDE DEF u
<1>3. ASSUME NEW i \in on PROVE Changed(by[i], RowOf(u, i)) = u[i]
  <2>1. RowOf(u, i) = Changed(by[i], RowOf(t, i)) /\ u[i] = Changed(by[i], RowOf(t, i))
    BY <1>1 DEF RowOf
  <2>2. by[i] \in Change /\ RowOf(t, i) \in RowType
    BY RowOfIsARow
  <2> QED BY <2>1, <2>2, ChangedTwice
<1>4. \A i \in D : (IF i \in on THEN Changed(by[i], RowOf(u, i)) ELSE u[i]) = u[i]
  BY <1>3
<1>5. ChangedTable(on, by, u) = [i \in D |-> u[i]]
  BY <1>2, <1>4
<1>6. u = [i \in D |-> u[i]]
  BY <1>1
<1> QED BY <1>5, <1>6 DEF u

LEMMA ChangedInAnyOrder ==
    ASSUME NEW on \in SUBSET IDs, NEW by \in [IDs -> Change], NEW t \in Table,
           NEW up \in SUBSET IDs, NEW flag \in [IDs -> Change], \A id \in IDs : FlagsOnly(flag[id])
    PROVE  ChangedTable(on, by, ChangedTable(up, flag, t))
             = ChangedTable(up, flag, ChangedTable(on, by, t))
<1> DEFINE u == ChangedTable(up, flag, t)
           v == ChangedTable(on, by, t)
           D == DOMAIN t \cup on \cup up
           uv == ChangedTable(on, by, u)
           vu == ChangedTable(up, flag, v)
<1>1. /\ DOMAIN u = DOMAIN t \cup up /\ DOMAIN v = DOMAIN t \cup on
      /\ \A i \in DOMAIN u : u[i] = IF i \in up THEN Changed(flag[i], RowOf(t, i)) ELSE t[i]
      /\ \A i \in DOMAIN v : v[i] = IF i \in on THEN Changed(by[i], RowOf(t, i)) ELSE t[i]
  BY DEF ChangedTable
<1> HIDE DEF u, v
<1>2. uv = [i \in D |-> IF i \in on THEN Changed(by[i], RowOf(u, i)) ELSE u[i]]
  <2>1. DOMAIN u \cup on = D
    BY <1>1
  <2> QED BY <2>1 DEF ChangedTable
<1>3. vu = [i \in D |-> IF i \in up THEN Changed(flag[i], RowOf(v, i)) ELSE v[i]]
  <2>1. DOMAIN v \cup up = D
    BY <1>1
  <2> QED BY <2>1 DEF ChangedTable
<1>4. ASSUME NEW i \in D
      PROVE  (IF i \in on THEN Changed(by[i], RowOf(u, i)) ELSE u[i])
             = IF i \in up THEN Changed(flag[i], RowOf(v, i)) ELSE v[i]
  <2>1. CASE i \in on /\ i \in up
    <3>1. RowOf(u, i) = Changed(flag[i], RowOf(t, i)) /\ RowOf(v, i) = Changed(by[i], RowOf(t, i))
      BY <1>1, <2>1 DEF RowOf
    <3>2. by[i] \in Change /\ flag[i] \in Change /\ FlagsOnly(flag[i]) /\ RowOf(t, i) \in RowType
      BY <2>1, RowOfIsARow
    <3> QED BY <2>1, <3>1, <3>2, ChangedEitherWay
  <2>2. CASE i \in on /\ i \notin up
    <3>1. RowOf(u, i) = RowOf(t, i)
      BY <1>1, <2>2 DEF RowOf
    <3>2. v[i] = Changed(by[i], RowOf(t, i))
      BY <1>1, <2>2
    <3> QED BY <2>2, <3>1, <3>2
  <2>3. CASE i \notin on /\ i \in up
    <3>1. RowOf(v, i) = RowOf(t, i)
      BY <1>1, <2>3 DEF RowOf
    <3>2. u[i] = Changed(flag[i], RowOf(t, i))
      BY <1>1, <2>3
    <3> QED BY <2>3, <3>1, <3>2
  <2>4. CASE i \notin on /\ i \notin up
    BY <1>1, <2>4
  <2> QED BY <2>1, <2>2, <2>3, <2>4
<1> QED BY <1>2, <1>3, <1>4 DEF u, v

LEMMA OwnersAreIDs ==
    ASSUME NEW kind, NEW xs \in Seq(Elements(kind)), NEW m \in 0..Len(xs)
    PROVE  Owners(kind, xs, m) \in SUBSET IDs
<1>1. \A j \in 1..m : xs[j] \in Elements(kind)
  OBVIOUS
<1> QED BY <1>1, ElementsHaveOwners DEF Owners

LEMMA IngestIsAChange ==
    ASSUME NEW batch \in Seq(Entry)
    PROVE  \E on \in SUBSET IDs, by \in [IDs -> Change] :
             \A t \in Table : IngestIdentities(t, batch) = ChangedTable(on, by, t)
<1> DEFINE on == Owners("entry", batch, Len(batch))
<1>1. batch \in Seq(Elements("entry")) /\ Len(batch) \in 0..Len(batch)
  BY DEF Elements
<1>2. on \in SUBSET IDs
  BY <1>1, OwnersAreIDs
<1>3. PICK by \in [IDs -> Change] :
        \A t \in Table : After("entry", t, batch, Len(batch)) = ChangedTable(on, by, t)
  BY <1>1, AfterIsAChange
<1>4. \A t \in Table : IngestIdentities(t, batch) = After("entry", t, batch, Len(batch))
  BY AfterAll
<1> HIDE DEF on
<1> QED BY <1>2, <1>3, <1>4

LEMMA UpsertIsAChange ==
    ASSUME NEW batch \in Seq(Records)
    PROVE  \E on \in SUBSET IDs, by \in [IDs -> Change] :
             /\ \A t \in Table : UpsertSubjects(t, batch) = ChangedTable(on, by, t)
             /\ \A id \in IDs : FlagsOnly(by[id])
<1> DEFINE on == Owners("subject", batch, Len(batch))
<1>1. batch \in Seq(Elements("subject")) /\ Len(batch) \in 0..Len(batch)
  BY DEF Elements
<1>2. on \in SUBSET IDs
  BY <1>1, OwnersAreIDs
<1>3. PICK by \in [IDs -> Change] :
        /\ \A t \in Table : After("subject", t, batch, Len(batch)) = ChangedTable(on, by, t)
        /\ \A id \in IDs : FlagsOnly(by[id])
  BY <1>1, AfterIsAChange
<1>4. \A t \in Table : UpsertSubjects(t, batch) = After("subject", t, batch, Len(batch))
  BY AfterAll
<1> HIDE DEF on
<1> QED BY <1>2, <1>3, <1>4

(* A record that is stored is not stored again, and a batch that is stored *)
(* adds nothing.                                                           *)
LEMMA InsertedOnce ==
    ASSUME NEW evs \in Seq(Records), NEW batch \in Seq(Records)
    PROVE  InsertEvents(InsertEvents(evs, batch), batch) = InsertEvents(evs, batch)
<1> DEFINE N == Len(batch)
           at(k) == After("record", evs, batch, k)
           full == at(N)
           again(k) == After("record", full, batch, k)
           Good == {k \in Nat : k <= N => Row[batch[k]] \in ToSet(at(N))}
<1>1. N \in Nat /\ \A k \in 1..N : batch[k] \in Records
  OBVIOUS
<1>2. \A b : InsertEvents(b, batch) = After("record", b, batch, N)
  BY AfterAll
<1>3. /\ \A k \in 1..N : at(k) = InsertEvent(at(k - 1), batch[k])
      /\ \A k \in 1..N : again(k) = InsertEvent(again(k - 1), batch[k])
      /\ again(0) = full
  BY AfterNone, AfterNext DEF Takes
<1>4. \A k \in 0..N : at(k) \in Seq(Records)
  <2> SUFFICES ASSUME NEW k \in 0..N PROVE at(k) \in Seq(Records)
    OBVIOUS
  <2>1. PICK new \in Seq(Records) : at(k) = evs \o new
    BY AddsARest
  <2>2. evs \o new \in Seq(Records)
    OBVIOUS
  <2> HIDE DEF at
  <2> QED BY <2>1, <2>2
<1> HIDE DEF at, again
<1>5. ASSUME NEW k \in 1..N
      PROVE  ToSet(at(k - 1)) \subseteq ToSet(at(k)) /\ Row[batch[k]] \in ToSet(at(k))
  <2>1. k \in 0..N /\ k - 1 \in 0..N
    BY <1>1
  <2>2. at(k) \in Seq(Records) /\ at(k - 1) \in Seq(Records) /\ batch[k] \in Records
    BY <1>1, <1>4, <2>1
  <2>3. at(k) = InsertEvent(at(k - 1), batch[k])
    BY <1>3
  <2> DEFINE before == at(k - 1)
             r == batch[k]
  <2> HIDE DEF before, r
  <2>4. before \in Seq(Records) /\ r \in Records /\ at(k) = InsertEvent(before, r)
    BY <2>2, <2>3 DEF before, r
  <2>5. /\ Row[r] \in Records
        /\ at(k) = IF Row[r] \in ToSet(before) THEN before ELSE Append(before, Row[r])
    BY <2>4, InsertIsAnAppend
  <2>6. ToSet(Append(before, Row[r])) = ToSet(before) \cup {Row[r]}
    BY <2>4, <2>5, ToSetAppend
  <2>7. ToSet(before) \subseteq ToSet(at(k)) /\ Row[r] \in ToSet(at(k))
    BY <2>5, <2>6
  <2> QED BY <2>7 DEF before, r
<1>6. \A k \in 1..N : Row[batch[k]] \in ToSet(full)
  <2> DEFINE Kept == {n \in Nat : n <= N => \A k \in 1..n : Row[batch[k]] \in ToSet(at(n))}
  <2>1. 0 \in Kept
    OBVIOUS
  <2>2. ASSUME NEW n \in Nat, n \in Kept PROVE n + 1 \in Kept
    <3> SUFFICES ASSUME n + 1 <= N, NEW k \in 1..(n + 1)
                 PROVE  Row[batch[k]] \in ToSet(at(n + 1))
      OBVIOUS
    <3>1. n + 1 \in 1..N /\ (n + 1) - 1 = n /\ n <= N
      BY <1>1
    <3>2. ToSet(at(n)) \subseteq ToSet(at(n + 1)) /\ Row[batch[n + 1]] \in ToSet(at(n + 1))
      BY <1>5, <3>1
    <3>3. k \in 1..n \/ k = n + 1
      OBVIOUS
    <3> QED BY <2>2, <3>1, <3>2, <3>3
  <2>3. Nat \subseteq Kept
    <3> HIDE DEF Kept
    <3> QED BY <2>1, <2>2, SetInduction
  <2> QED BY <1>1, <2>3
<1>7. full \in Seq(Records)
  BY <1>1, <1>4
<1> HIDE DEF full
<1> DEFINE Still == {n \in Nat : n <= N => again(n) = full}
<1>8. 0 \in Still
  BY <1>3
<1>9. ASSUME NEW n \in Nat, n \in Still PROVE n + 1 \in Still
  <2> SUFFICES ASSUME n + 1 <= N PROVE again(n + 1) = full
    OBVIOUS
  <2>1. n + 1 \in 1..N /\ (n + 1) - 1 = n /\ n <= N
    BY <1>1
  <2>2. again(n + 1) = InsertEvent(full, batch[n + 1])
    BY <1>3, <1>9, <2>1
  <2>3. batch[n + 1] \in Records /\ Row[batch[n + 1]] \in ToSet(full)
    BY <1>1, <1>6, <2>1
  <2> QED BY <1>7, <2>2, <2>3, InsertIsAnAppend
<1>10. Nat \subseteq Still
  <2> HIDE DEF Still
  <2> QED BY <1>8, <1>9, SetInduction
<1>11. again(N) = full
  BY <1>1, <1>10
<1> QED BY <1>2, <1>11 DEF again, full, at

-----------------------------------------------------------------------------
(* Running a failed load again. *)

(* The tables once m transactions of the load attempted have committed. *)
RowsAt(a, m) ==
    IF m = 0 THEN a.rows
    ELSE IF m = 1 THEN IngestIdentities(a.rows, Flagged(a.load.identities))
    ELSE UpsertSubjects(IngestIdentities(a.rows, Flagged(a.load.identities)), a.load.events)

EventsAt(a, m) == IF m = 2 THEN InsertEvents(a.events, a.load.events) ELSE a.events

(* However many attempts there were, and in whichever transactions they     *)
(* died, the tables are those of one clean run that got as far.            *)
Retry ==
    attempt.load # NoLoad =>
      /\ attempt.load \in Loads /\ attempt.rows \in Table /\ attempt.events \in Seq(Records)
      /\ \A s, t \in Sessions : load[s] # NoLoad /\ load[t] # NoLoad => s = t
      /\ \E m \in 0..2 :
           /\ rows = RowsAt(attempt, m) /\ events = EventsAt(attempt, m)
           /\ \A s \in Sessions : load[s] # NoLoad => load[s] = attempt.load /\ stage[s] <= m

LEMMA TransactionsRepeat ==
    ASSUME NEW tbl \in Table, NEW evs \in Seq(Records), NEW l \in Load
    PROVE  LET first(t)  == IngestIdentities(t, Flagged(l.identities))
               second(t) == UpsertSubjects(t, l.events)
               stored(e) == InsertEvents(e, l.events)
           IN  /\ first(first(tbl)) = first(tbl)
               /\ first(second(first(tbl))) = second(first(tbl))
               /\ second(second(first(tbl))) = second(first(tbl))
               /\ stored(stored(evs)) = stored(evs)
<1> DEFINE first(t)  == IngestIdentities(t, Flagged(l.identities))
           second(t) == UpsertSubjects(t, l.events)
<1>1. /\ Flagged(l.identities) \in Seq(Entry) /\ l.events \in Seq(Records)
  BY FlaggedIsABatch DEF Load
<1>2. PICK on \in SUBSET IDs, by \in [IDs -> Change] :
        \A t \in Table : first(t) = ChangedTable(on, by, t)
  BY <1>1, IngestIsAChange
<1>3. PICK up \in SUBSET IDs, flag \in [IDs -> Change] :
        /\ \A t \in Table : second(t) = ChangedTable(up, flag, t)
        /\ \A id \in IDs : FlagsOnly(flag[id])
  BY <1>1, UpsertIsAChange
<1>4. first(tbl) \in Table /\ second(first(tbl)) \in Table
  <2>1. first(tbl) \in Table
    BY <1>1, IngestGrows
  <2> HIDE DEF first
  <2> QED BY <1>1, <2>1, UpsertGrows
<1> HIDE DEF first, second
<1>5. first(first(tbl)) = first(tbl)
  <2>1. first(tbl) = ChangedTable(on, by, tbl)
        /\ first(first(tbl)) = ChangedTable(on, by, first(tbl))
    BY <1>2, <1>4
  <2> QED BY <2>1, ChangedAgain
<1>6. second(second(first(tbl))) = second(first(tbl))
  <2>1. /\ second(first(tbl)) = ChangedTable(up, flag, first(tbl))
        /\ second(second(first(tbl))) = ChangedTable(up, flag, second(first(tbl)))
    BY <1>3, <1>4
  <2> QED BY <1>4, <2>1, ChangedAgain
<1>7. first(second(first(tbl))) = second(first(first(tbl)))
  <2>1. /\ second(first(tbl)) = ChangedTable(up, flag, first(tbl))
        /\ first(second(first(tbl))) = ChangedTable(on, by, second(first(tbl)))
        /\ first(first(tbl)) = ChangedTable(on, by, first(tbl))
        /\ second(first(first(tbl))) = ChangedTable(up, flag, first(first(tbl)))
    BY <1>2, <1>3, <1>4, <1>5
  <2> QED BY <1>3, <1>4, <2>1, ChangedInAnyOrder
<1> QED BY <1>1, <1>5, <1>6, <1>7, InsertedOnce DEF first, second

LEMMA RetryAtFirst == Init => Retry
BY DEF Init, Retry, NoAttempt

LEMMA CommitOf ==
    ASSUME NEW s \in Sessions
    PROVE  /\ CommitIdentities(s) =>
                load[s] # NoLoad /\ stage[s] = 0 /\ load' = load /\ attempt' = attempt /\
                stage' = [stage EXCEPT ![s] = 1]
           /\ CommitEvents(s) =>
                load[s] # NoLoad /\ stage[s] = 1 /\ load' = load /\ attempt' = attempt /\
                stage' = [stage EXCEPT ![s] = 2]
           /\ CommitPassports(s) =>
                load[s] # NoLoad /\ stage[s] = 2 /\ attempt' = NoAttempt
BY DEF CommitIdentities, CommitEvents, CommitPassports, Commit

LEMMA StageStays ==
    ASSUME Db, NEW s \in Sessions, NEW n \in 0..2, stage' = [stage EXCEPT ![s] = n]
    PROVE  stage'[s] = n /\ \A t \in Sessions : t # s => stage'[t] = stage[t]
BY DEF Db

LEMMA RetryKept == Db /\ Serial /\ Retry /\ [Next]_vars => Retry'
<1> SUFFICES ASSUME Db, Serial, Retry, [Next]_vars, attempt'.load # NoLoad
             PROVE  Retry'
  BY DEF Retry
<1> DEFINE a == attempt
           Got(m) == /\ m \in 0..2 /\ rows = RowsAt(a, m) /\ events = EventsAt(a, m)
                     /\ \A s \in Sessions : load[s] # NoLoad => load[s] = a.load /\ stage[s] <= m
           One == \A s, t \in Sessions : load[s] # NoLoad /\ load[t] # NoLoad => s = t
<1>0. NoAttempt.load = NoLoad
  BY DEF NoAttempt
<1>1. ASSUME a.load # NoLoad
      PROVE  /\ a.load \in Loads /\ a.load \in Load /\ a.rows \in Table /\ a.events \in Seq(Records)
             /\ One /\ \E m \in 0..2 : Got(m)
  BY <1>1, LoadsAssumption DEF Retry
<1>2. ASSUME a.load # NoLoad
      PROVE  /\ IngestIdentities(RowsAt(a, 0), Flagged(a.load.identities)) = RowsAt(a, 1)
             /\ IngestIdentities(RowsAt(a, 1), Flagged(a.load.identities)) = RowsAt(a, 1)
             /\ IngestIdentities(RowsAt(a, 2), Flagged(a.load.identities)) = RowsAt(a, 2)
             /\ UpsertSubjects(RowsAt(a, 1), a.load.events) = RowsAt(a, 2)
             /\ UpsertSubjects(RowsAt(a, 2), a.load.events) = RowsAt(a, 2)
             /\ EventsAt(a, 0) = a.events /\ EventsAt(a, 1) = a.events
             /\ InsertEvents(a.events, a.load.events) = EventsAt(a, 2)
             /\ InsertEvents(EventsAt(a, 2), a.load.events) = EventsAt(a, 2)
  <2>1. /\ RowsAt(a, 0) = a.rows
        /\ RowsAt(a, 1) = IngestIdentities(a.rows, Flagged(a.load.identities))
        /\ RowsAt(a, 2) = UpsertSubjects(IngestIdentities(a.rows, Flagged(a.load.identities)),
                                         a.load.events)
    BY DEF RowsAt
  <2>2. /\ EventsAt(a, 0) = a.events /\ EventsAt(a, 1) = a.events
        /\ InsertEvents(a.events, a.load.events) = EventsAt(a, 2)
    BY DEF EventsAt
  <2> HIDE DEF a
  <2> QED BY <1>1, <1>2, <2>1, <2>2, TransactionsRepeat
<1>3. ASSUME NEW s \in Sessions, NEW l \in Loads, StartLoad(s, l) PROVE Retry'
  <2>1. /\ load[s] = NoLoad /\ load' = [load EXCEPT ![s] = l] /\ stage' = [stage EXCEPT ![s] = 0]
        /\ rows' = rows /\ events' = events
        /\ attempt' = IF \E t \in Sessions : load[t] # NoLoad THEN NoAttempt
                      ELSE IF attempt.load = l THEN attempt
                      ELSE [load |-> l, rows |-> rows, events |-> events]
    BY <1>3 DEF StartLoad
  <2>2. \A t \in Sessions : load[t] = NoLoad
    BY <1>0, <2>1
  <2>3. /\ load'[s] = l /\ stage'[s] = 0
        /\ \A t \in Sessions : load'[t] # NoLoad => t = s
    BY <2>1, <2>2 DEF Db
  <2>4. l # NoLoad
    BY LoadsAssumption
  <2>5. CASE attempt.load = l
    <3>1. attempt' = attempt
      BY <2>1, <2>2, <2>5
    <3>2. PICK m \in 0..2 : Got(m)
      BY <1>1, <2>4, <2>5
    <3>3. /\ rows' = RowsAt(attempt', m) /\ events' = EventsAt(attempt', m)
          /\ \A t \in Sessions : load'[t] # NoLoad => load'[t] = attempt'.load /\ stage'[t] <= m
      BY <2>1, <2>3, <2>5, <3>1, <3>2
    <3>4. /\ attempt'.load \in Loads /\ attempt'.rows \in Table
          /\ attempt'.events \in Seq(Records)
      BY <1>1, <2>4, <2>5, <3>1
    <3> QED BY <2>3, <3>3, <3>4 DEF Retry
  <2>6. CASE attempt.load # l
    <3>1. attempt' = [load |-> l, rows |-> rows, events |-> events]
      BY <2>1, <2>2, <2>6
    <3>2. attempt'.load = l /\ attempt'.rows = rows /\ attempt'.events = events
      BY <3>1
    <3>3. RowsAt(attempt', 0) = rows /\ EventsAt(attempt', 0) = events
      BY <3>2 DEF RowsAt, EventsAt
    <3>4. rows \in Table /\ events \in Seq(Records)
      BY DEF Db
    <3>5. /\ 0 \in 0..2 /\ rows' = RowsAt(attempt', 0) /\ events' = EventsAt(attempt', 0)
          /\ \A t \in Sessions : load'[t] # NoLoad => load'[t] = attempt'.load /\ stage'[t] <= 0
      BY <2>1, <2>3, <3>2, <3>3
    <3> QED BY <2>3, <3>2, <3>4, <3>5 DEF Retry
  <2> QED BY <2>5, <2>6
<1>4. ASSUME NEW s \in Sessions, CommitIdentities(s) PROVE Retry'
  <2>1. /\ load[s] # NoLoad /\ stage[s] = 0 /\ load' = load /\ attempt' = attempt
        /\ stage' = [stage EXCEPT ![s] = 1]
    BY <1>4, CommitOf
  <2>2. /\ rows' = IngestIdentities(rows, Flagged(load[s].identities)) /\ events' = events
    BY <1>4, CommitsAreAlone DEF Alone
  <2>3. a.load # NoLoad
    BY <2>1
  <2>4. PICK m \in 0..2 : Got(m)
    BY <1>1, <2>3
  <2>5. load[s] = a.load
    BY <2>1, <2>4
  <2> DEFINE n == IF m = 0 THEN 1 ELSE m
  <2>6. n \in 0..2 /\ 1 <= n /\ m <= n /\ (m = 0 \/ m = 1 \/ m = 2)
    OBVIOUS
  <2>7. rows' = RowsAt(a, n) /\ events' = EventsAt(a, n)
    BY <1>2, <2>2, <2>3, <2>4, <2>5, <2>6
  <2> HIDE DEF n
  <2>8. \A t \in Sessions : load'[t] # NoLoad => load'[t] = a.load /\ stage'[t] <= n
    <3>1. ASSUME NEW t \in Sessions, load[t] # NoLoad PROVE t = s
      BY <1>1, <2>1, <2>3, <3>1
    <3>2. stage'[s] = 1
      <4>1. 1 \in 0..2
        OBVIOUS
      <4> QED BY <2>1, <4>1, StageStays
    <3> QED BY <2>1, <2>5, <2>6, <3>1, <3>2
  <2> QED BY <1>1, <2>1, <2>3, <2>6, <2>7, <2>8 DEF Retry
<1>5. ASSUME NEW s \in Sessions, CommitEvents(s) PROVE Retry'
  <2>1. /\ load[s] # NoLoad /\ stage[s] = 1 /\ load' = load /\ attempt' = attempt
        /\ stage' = [stage EXCEPT ![s] = 2]
    BY <1>5, CommitOf
  <2>2. /\ rows' = UpsertSubjects(rows, load[s].events)
        /\ events' = InsertEvents(events, load[s].events)
    BY <1>5, CommitsAreAlone DEF Alone
  <2>3. a.load # NoLoad
    BY <2>1
  <2>4. PICK m \in 0..2 : Got(m)
    BY <1>1, <2>3
  <2>5. load[s] = a.load /\ stage[s] <= m /\ (m = 1 \/ m = 2)
    BY <2>1, <2>4
  <2>6. rows' = RowsAt(a, 2) /\ events' = EventsAt(a, 2)
    BY <1>2, <2>2, <2>3, <2>4, <2>5
  <2>7. \A t \in Sessions : load'[t] # NoLoad => load'[t] = a.load /\ stage'[t] <= 2
    <3>1. ASSUME NEW t \in Sessions, load[t] # NoLoad PROVE t = s
      BY <1>1, <2>1, <2>3, <3>1
    <3>2. stage'[s] = 2
      <4>1. 2 \in 0..2
        OBVIOUS
      <4> QED BY <2>1, <4>1, StageStays
    <3> QED BY <2>1, <2>5, <3>1, <3>2
  <2> QED BY <1>1, <2>1, <2>3, <2>6, <2>7 DEF Retry
<1>6. ASSUME NEW s \in Sessions, CommitPassports(s) PROVE Retry'
  BY <1>0, <1>6, CommitOf
<1>7. ASSUME NEW s \in Sessions, Fail(s) PROVE Retry'
  <2>1. /\ load' = [load EXCEPT ![s] = NoLoad] /\ stage' = [stage EXCEPT ![s] = 0]
        /\ rows' = rows /\ events' = events /\ attempt' = attempt
    BY <1>7 DEF Fail
  <2>2. PICK m \in 0..2 : Got(m)
    BY <1>1, <2>1
  <2>3. \A t \in Sessions : load'[t] # NoLoad => load[t] # NoLoad /\ load'[t] = load[t]
                                                 /\ stage'[t] = stage[t]
    BY <2>1 DEF Db
  <2>4. /\ rows' = RowsAt(attempt', m) /\ events' = EventsAt(attempt', m)
        /\ \A t \in Sessions : load'[t] # NoLoad => load'[t] = attempt'.load /\ stage'[t] <= m
    BY <2>1, <2>2, <2>3
  <2>5. \A t, u \in Sessions : load'[t] # NoLoad /\ load'[u] # NoLoad => t = u
    BY <1>1, <2>1, <2>3
  <2> QED BY <1>1, <2>1, <2>4, <2>5 DEF Retry
<1>8. CASE /\ rows' = rows /\ events' = events /\ load' = load
           /\ stage' = stage /\ attempt' = attempt
  BY <1>8 DEF Retry
<1>9. ASSUME NEW s \in Sessions, WriteNext(s) PROVE Retry'
  BY <1>8, <1>9 DEF WriteNext
<1>10. CASE \E s \in Sessions : \/ \E l \in Loads : StartLoad(s, l)
                                \/ WriteNext(s)
                                \/ CommitIdentities(s)
                                \/ CommitEvents(s)
                                \/ CommitPassports(s)
                                \/ AbortLoad(s)
                                \/ BreakDeadlock(s)
  BY <1>3, <1>4, <1>5, <1>6, <1>7, <1>9, <1>10 DEF AbortLoad, BreakDeadlock
<1>11. CASE \/ ReadFlags \/ ReadIdentities \/ ReadLists \/ ReadActions \/ ReadPermissions
            \/ ReadEvents \/ UNCHANGED vars
  <2>1. UNCHANGED loadVars
    BY <1>11 DEF ReadFlags, ReadIdentities, ReadLists, ReadActions, ReadPermissions,
                 ReadEvents, vars
  <2> QED BY <1>8, <2>1 DEF loadVars
<1> QED BY <1>10, <1>11 DEF Next

LEMMA RetryHolds == Spec => [](Db /\ Serial /\ Retry)
BY SerialAtFirst, SerialKept, RetryAtFirst, RetryKept, PTL DEF Spec

(* "re-running a load is idempotent" (schema.sql:43): a load run again until *)
(* it succeeds leaves what one clean run would have left, in whichever of   *)
(* its transactions, and however often, the earlier attempts died.         *)
THEOREM RetriesConverge == Spec => RetryConverges
<1>1. ASSUME Db, Serial, Retry, NEW s \in Sessions, CommitPassports(s), attempt.load = load[s]
      PROVE  /\ rows' = CleanRows(attempt.rows, load[s])
             /\ events' = InsertEvents(attempt.events, load[s].events)
  <2>1. load[s] # NoLoad /\ stage[s] = 2
    BY <1>1, CommitOf
  <2>2. rows' = IngestIdentities(rows, load[s].passports) /\ events' = events
    BY <1>1, CommitsAreAlone DEF Alone
  <2>3. PICK m \in 0..2 : /\ rows = RowsAt(attempt, m) /\ events = EventsAt(attempt, m)
                          /\ \A t \in Sessions : load[t] # NoLoad => stage[t] <= m
    BY <1>1, <2>1 DEF Retry
  <2>4. m = 2
    BY <2>1, <2>3
  <2> QED BY <1>1, <2>2, <2>3, <2>4 DEF RowsAt, EventsAt, CleanRows
<1>2. Db /\ Serial /\ Retry =>
        \A s \in Sessions : CommitPassports(s) /\ attempt.load = load[s] =>
          /\ rows' = CleanRows(attempt.rows, load[s])
          /\ events' = InsertEvents(attempt.events, load[s].events)
  BY <1>1
<1> QED BY <1>2, RetryHolds, PTL DEF RetryConverges


-----------------------------------------------------------------------------
(* The order of the events that a snapshot shows. *)

About(recs, id) == {r \in ToSet(recs) : Subject[r] = id}

InTimeOrder(q) == \A m, n \in DOMAIN q : m < n => TimeOf[q[m]] <= TimeOf[q[n]]

LEMMA RanksAreOnto ==
    ASSUME NEW recs \in Seq(Records), NEW S \in SUBSET DOMAIN recs
    PROVE  /\ Cardinality(S) \in Nat
           /\ \A i, j \in S : Before(recs, j, i) =>
                Cardinality({k \in S : Before(recs, k, j)})
                  < Cardinality({k \in S : Before(recs, k, i)})
           /\ \A n \in 1..Cardinality(S) : \E i \in S :
                Cardinality({j \in S : Before(recs, j, i)}) = n - 1
<1> DEFINE N == Cardinality(S)
           Lower(i) == {j \in S : Before(recs, j, i)}
           rank == [i \in S |-> Cardinality(Lower(i))]
<1>1. /\ S \subseteq Nat /\ IsFiniteSet(S) /\ N \in Nat
      /\ \A i \in S : recs[i] \in Records /\ TimeOf[recs[i]] \in Nat
  <2>1. DOMAIN recs = 1..Len(recs) /\ Len(recs) \in Nat /\ Len(recs) \in Int /\ 1 \in Int
    OBVIOUS
  <2>2. IsFiniteSet(1..Len(recs))
    BY <2>1, FS_Interval
  <2>3. IsFiniteSet(S)
    BY <2>1, <2>2, FS_Subset
  <2>4. \A i \in S : recs[i] \in Records /\ TimeOf[recs[i]] \in Nat
    BY TimeOfAssumption
  <2> QED BY <2>1, <2>3, <2>4, FS_CardinalityType
<1>2. \A i \in S : IsFiniteSet(Lower(i)) /\ Cardinality(Lower(i)) \in Nat
  BY <1>1, FS_Subset, FS_CardinalityType
<1>3. ASSUME NEW i \in S, NEW j \in S, Before(recs, j, i)
      PROVE  Cardinality(Lower(j)) < Cardinality(Lower(i))
  <2>1. \A k \in S : Before(recs, k, j) => Before(recs, k, i)
    BY <1>1, <1>3 DEF Before
  <2>2. ~Before(recs, j, j)
    BY <1>1 DEF Before
  <2>3. Lower(j) \in SUBSET Lower(i) /\ j \in Lower(i) /\ j \notin Lower(j)
    BY <1>3, <2>1, <2>2
  <2> HIDE DEF Lower
  <2>4. Cardinality(Lower(j)) <= Cardinality(Lower(i))
    BY <1>2, <2>3, FS_Subset
  <2>5. Cardinality(Lower(i)) # Cardinality(Lower(j))
    BY <1>2, <2>3, FS_Subset
  <2> QED BY <1>2, <2>4, <2>5
<1>4. ASSUME NEW i \in S PROVE rank[i] \in 0..(N - 1)
  <2>1. ~Before(recs, i, i)
    BY <1>1 DEF Before
  <2>2. Lower(i) \in SUBSET S /\ Lower(i) # S
    BY <2>1
  <2>3. rank[i] = Cardinality(Lower(i))
    OBVIOUS
  <2> HIDE DEF Lower, rank
  <2>4. Cardinality(Lower(i)) <= N /\ Cardinality(Lower(i)) # N
    BY <1>1, <2>2, FS_Subset
  <2> QED BY <1>1, <1>2, <2>3, <2>4
<1>5. rank \in Injection(S, 0..(N - 1))
  <2>1. ASSUME NEW i \in S, NEW j \in S, i # j PROVE rank[i] # rank[j]
    <3>1. Before(recs, i, j) \/ Before(recs, j, i)
      BY <1>1, <2>1 DEF Before
    <3>2. rank[i] = Cardinality(Lower(i)) /\ rank[j] = Cardinality(Lower(j))
      OBVIOUS
    <3> HIDE DEF Lower, rank
    <3> QED BY <1>2, <1>3, <3>1, <3>2
  <2>2. rank \in [S -> 0..(N - 1)]
    BY <1>4
  <2> HIDE DEF rank
  <2>3. IsInjective(rank)
    <3>1. DOMAIN rank = S
      BY <2>2
    <3> QED BY <2>1, <3>1 DEF IsInjective
  <2> QED BY <2>2, <2>3 DEF Injection
<1>6. IsFiniteSet(0..(N - 1)) /\ Cardinality(0..(N - 1)) = N
  <2>1. 0 \in Int /\ N - 1 \in Int
    BY <1>1
  <2> HIDE DEF N
  <2>2. /\ IsFiniteSet(0..(N - 1))
        /\ Cardinality(0..(N - 1)) = IF 0 > N - 1 THEN 0 ELSE N - 1 - 0 + 1
    BY <2>1, FS_Interval
  <2> QED BY <1>1, <2>2
<1>7. rank \in Surjection(S, 0..(N - 1))
  <2> HIDE DEF rank
  <2> QED BY <1>5, <1>6, FS_Injection
<1>8. \A n \in 1..N : \E i \in S : rank[i] = n - 1
  <2> HIDE DEF rank
  <2>1. \A n \in 1..N : n - 1 \in 0..(N - 1)
    BY <1>1
  <2> QED BY <1>7, <2>1 DEF Surjection
<1> QED BY <1>1, <1>3, <1>8

LEMMA InOrderIsSorted ==
    ASSUME NEW recs \in Seq(Records), NEW S \in SUBSET DOMAIN recs
    PROVE  /\ InOrder(recs, S) \in Seq(Records)
           /\ ToSet(InOrder(recs, S)) = {recs[i] : i \in S}
           /\ InTimeOrder(InOrder(recs, S))
<1> DEFINE N == Cardinality(S)
           Rank(i) == Cardinality({j \in S : Before(recs, j, i)})
           at == [n \in 1..N |-> CHOOSE i \in S : Rank(i) = n - 1]
           q == InOrder(recs, S)
<1>1. /\ N \in Nat
      /\ \A i, j \in S : Before(recs, j, i) => Rank(j) < Rank(i)
      /\ \A n \in 1..N : \E i \in S : Rank(i) = n - 1
  BY RanksAreOnto
<1>2. \A n \in 1..N : at[n] \in S /\ Rank(at[n]) = n - 1
  <2> HIDE DEF Rank
  <2> QED BY <1>1
<1>3. q = [n \in 1..N |-> recs[at[n]]]
  BY DEF InOrder
<1>4. \A i \in S : recs[i] \in Records /\ TimeOf[recs[i]] \in Nat /\ i \in Nat
  BY TimeOfAssumption
<1>5. \A i \in S : \E n \in 1..N : at[n] = i
  <2> SUFFICES ASSUME NEW i \in S PROVE \E n \in 1..N : at[n] = i
    OBVIOUS
  <2>1. Rank(i) \in 0..(N - 1)
    <3>1. IsFiniteSet(S)
      <4>1. DOMAIN recs = 1..Len(recs) /\ Len(recs) \in Int /\ 1 \in Int
        OBVIOUS
      <4>2. IsFiniteSet(1..Len(recs))
        BY <4>1, FS_Interval
      <4> QED BY <4>1, <4>2, FS_Subset
    <3>2. ~Before(recs, i, i)
      BY <1>4 DEF Before
    <3> DEFINE L == {j \in S : Before(recs, j, i)}
    <3>3. L \in SUBSET S /\ L # S /\ Rank(i) = Cardinality(L)
      BY <3>2
    <3> HIDE DEF L, Rank
    <3>4. Cardinality(L) \in Nat /\ Cardinality(L) <= N /\ Cardinality(L) # N
      BY <3>1, <3>3, FS_Subset, FS_CardinalityType
    <3> QED BY <1>1, <3>3, <3>4
  <2> DEFINE n == Rank(i) + 1
  <2>2. n \in 1..N /\ n - 1 = Rank(i)
    <3> HIDE DEF Rank
    <3> QED BY <1>1, <2>1
  <2>3. at[n] \in S /\ Rank(at[n]) = Rank(i)
    <3> HIDE DEF Rank, at, n
    <3> QED BY <1>2, <2>2
  <2>4. at[n] = i
    <3>1. at[n] # i => Before(recs, at[n], i) \/ Before(recs, i, at[n])
      <4>1. TimeOf[recs[at[n]]] \in Nat /\ TimeOf[recs[i]] \in Nat /\ at[n] \in Nat /\ i \in Nat
        <5> HIDE DEF at, n
        <5> QED BY <1>4, <2>3
      <4> HIDE DEF at, n
      <4> QED BY <4>1 DEF Before
    <3>2. Rank(i) \in Nat
      <4> HIDE DEF Rank
      <4> QED BY <1>1, <2>1
    <3> HIDE DEF Rank, at, n
    <3> QED BY <1>1, <2>3, <3>1, <3>2
  <2> HIDE DEF Rank, at, n
  <2> QED BY <2>2, <2>4
<1>6. q \in Seq(Records) /\ DOMAIN q = 1..N /\ \A n \in 1..N : q[n] = recs[at[n]]
  <2> HIDE DEF at, q
  <2>1. q \in [1..N -> Records]
    BY <1>2, <1>3, <1>4
  <2> QED BY <1>1, <1>3, <2>1
<1>7. ToSet(q) = {recs[i] : i \in S}
  <2> HIDE DEF at, q, N, Rank
  <2>1. ToSet(q) = {q[n] : n \in DOMAIN q}
    BY DEF ToSet
  <2> QED BY <1>2, <1>5, <1>6, <2>1
<1>8. ASSUME NEW m \in DOMAIN q, NEW n \in DOMAIN q, m < n
      PROVE  TimeOf[q[m]] <= TimeOf[q[n]]
  <2>1. m \in 1..N /\ n \in 1..N
    <3> HIDE DEF q, at
    <3> QED BY <1>6
  <2> HIDE DEF at, q, N, Rank
  <2>2. /\ at[m] \in S /\ at[n] \in S /\ Rank(at[m]) = m - 1 /\ Rank(at[n]) = n - 1
        /\ q[m] = recs[at[m]] /\ q[n] = recs[at[n]]
    BY <1>2, <1>6, <2>1
  <2>3. m \in Nat /\ n \in Nat
    BY <1>1, <2>1
  <2>4. ~Before(recs, at[n], at[m])
    BY <1>1, <1>8, <2>2, <2>3
  <2> QED BY <1>4, <2>2, <2>4 DEF Before
<1> QED BY <1>6, <1>7, <1>8 DEF InTimeOrder

LEMMA EventsOfAnIdentity ==
    ASSUME NEW recs \in Seq(Records), NEW id
    PROVE  /\ EventsOf(recs, id) \in Seq(Records)
           /\ ToSet(EventsOf(recs, id)) = About(recs, id)
           /\ InTimeOrder(EventsOf(recs, id))
<1> DEFINE S == {i \in DOMAIN recs : Subject[recs[i]] = id}
<1>1. {recs[i] : i \in S} = About(recs, id)
  BY DEF About, ToSet
<1>2. S \in SUBSET DOMAIN recs /\ EventsOf(recs, id) = InOrder(recs, S)
  BY DEF EventsOf
<1> HIDE DEF S
<1> QED BY <1>1, <1>2, InOrderIsSorted
-----------------------------------------------------------------------------
(* The tables a snapshot reads only grow under it. *)

(* What an identity's node keeps of the row that was there when the        *)
(* snapshot began.                                                         *)
Shows(node, row) ==
    /\ \A f \in Fields \ Lists : row.fields[f] # NoValue => node.fields[f] # NoValue
    /\ row.lastUsed <= node.lastUsed
    /\ row.privileged => node.privileged
    /\ row.shadow => node.shadow

ShowsAll(nodes) ==
    \A id \in DOMAIN began.rows : id \in DOMAIN nodes /\ Shows(nodes[id], began.rows[id])

Nodes == UNION {[D -> Mem!Node] : D \in SUBSET IDs}

(* The tables extend those the snapshot began on, and its store holds what *)
(* the queries so far have read of them.                                   *)
Reading ==
    /\ began.rows \in Table /\ began.events \in Seq(Records)
    /\ Grown(began.rows, rows)
    /\ \E new \in Seq(Records) : events = began.events \o new
    /\ query \in 0..Delivered
    /\ snap \in Nodes
    /\ actionsByPerm \in [IDs -> [Names -> SUBSET Actions]]
    /\ query \in 2..Delivered => ShowsAll(snap)
    /\ query \in 1..5 => \A id \in DOMAIN snap : snap[id].events = <<>>
    /\ SnapshotCovers

LEMMA NodesAre == \A t : t \in Nodes <=> DOMAIN t \subseteq IDs /\ t \in [DOMAIN t -> Mem!Node]
BY DEF Nodes

LEMMA EmptyNodes ==
    LET none == [i \in {} |-> Mem!NewNode(FALSE)]
    IN  none \in Nodes /\ DOMAIN none = {}
BY NodesAre

LEMMA NewNodeIsANode ==
    ASSUME NEW p \in BOOLEAN
    PROVE  /\ Mem!NewNode(p) \in Mem!Node
           /\ Mem!NewNode(p) = [fields |-> [f \in Fields |-> NoValue], lastUsed |-> 0,
                                privileged |-> p, shadow |-> FALSE, permissions |-> {},
                                events |-> <<>>]
BY DEF Mem!NewNode, Mem!Node

LEMMA ConcatAssociates ==
    ASSUME NEW a \in Seq(Records), NEW b \in Seq(Records), NEW c \in Seq(Records)
    PROVE  (a \o b) \o c = a \o (b \o c) /\ b \o c \in Seq(Records)
<1> DEFINE l == (a \o b) \o c
           r == a \o (b \o c)
<1>1. l \in Seq(Records) /\ r \in Seq(Records) /\ Len(l) = Len(r) /\ Len(l) \in Nat
  OBVIOUS
<1>2. \A k \in 1..Len(l) : l[k] = r[k]
  OBVIOUS
<1> HIDE DEF l, r
<1>3. l = r
  BY <1>1, <1>2
<1> QED BY <1>3 DEF l, r

LEMMA TablesGrow ==
    ASSUME Db, Serial, [Next]_vars
    PROVE  /\ rows' \in Table /\ Grown(rows, rows')
           /\ \E new \in Seq(Records) : events' = events \o new
<1> DEFINE Same == \E new \in Seq(Records) : events' = events \o new
<1>1. /\ rows \in Table /\ events \in Seq(Records) /\ Grown(rows, rows)
      /\ events = events \o <<>> /\ <<>> \in Seq(Records)
  BY GrownItself DEF Db
<1>2. CASE UNCHANGED <<rows, events>>
  <2>1. rows' = rows /\ events' = events
    BY <1>2
  <2>2. events' = events \o <<>>
    BY <1>1, <2>1
  <2>3. Same
    BY <1>1, <2>2
  <2> QED BY <1>1, <2>1, <2>3
<1>3. ASSUME NEW s \in Sessions, CommitIdentities(s) \/ CommitEvents(s) \/ CommitPassports(s)
      PROVE  /\ rows' \in Table /\ Grown(rows, rows')
             /\ \E new \in Seq(Records) : events' = events \o new
  <2>1. load[s] \in Load
    <3>1. load[s] # NoLoad
      BY <1>3, CommitOf
    <3> QED BY <3>1, LoadOf
  <2>2. /\ Flagged(load[s].identities) \in Seq(Entry) /\ load[s].passports \in Seq(Entry)
        /\ load[s].events \in Seq(Records)
    BY <2>1, FlaggedIsABatch DEF Load
  <2>3. Alone(s)
    BY CommitsAreAlone
  <2>4. CASE CommitEvents(s)
    <3>1. /\ rows' = UpsertSubjects(rows, load[s].events)
          /\ events' = InsertEvents(events, load[s].events)
      BY <2>3, <2>4 DEF Alone
    <3>2. Same
      BY <1>1, <2>2, <3>1, InsertGrows
    <3> QED BY <1>1, <2>2, <3>1, <3>2, UpsertGrows
  <2>5. CASE CommitIdentities(s)
    <3>1. rows' = IngestIdentities(rows, Flagged(load[s].identities)) /\ events' = events
      BY <2>3, <2>5 DEF Alone
    <3>2. events' = events \o <<>>
      BY <1>1, <3>1
    <3>3. Same
      BY <1>1, <3>2
    <3> QED BY <1>1, <2>2, <3>1, <3>3, IngestGrows
  <2>6. CASE CommitPassports(s)
    <3>1. rows' = IngestIdentities(rows, load[s].passports) /\ events' = events
      BY <2>3, <2>6 DEF Alone
    <3>2. events' = events \o <<>>
      BY <1>1, <3>1
    <3>3. Same
      BY <1>1, <3>2
    <3> QED BY <1>1, <2>2, <3>1, <3>3, IngestGrows
  <2> QED BY <1>3, <2>4, <2>5, <2>6
<1>4. ASSUME NEW s \in Sessions, \/ \E l \in Loads : StartLoad(s, l)
                                 \/ WriteNext(s) \/ AbortLoad(s) \/ BreakDeadlock(s)
      PROVE  UNCHANGED <<rows, events>>
  BY <1>4 DEF StartLoad, WriteNext, AbortLoad, BreakDeadlock, Fail
<1>5. CASE \/ ReadFlags \/ ReadIdentities \/ ReadLists \/ ReadActions \/ ReadPermissions
           \/ ReadEvents \/ UNCHANGED vars
  BY <1>2, <1>5 DEF ReadFlags, ReadIdentities, ReadLists, ReadActions, ReadPermissions,
                    ReadEvents, vars, loadVars
<1> QED BY <1>2, <1>3, <1>4, <1>5 DEF Next

LEMMA ReadingAtFirst == Init => Reading
<1> SUFFICES ASSUME Init PROVE Reading
  OBVIOUS
<1>1. Db
  BY SerialAtFirst
<1>2. began.rows = rows /\ began.events = events /\ query = 0
  BY DEF Init
<1>3. Grown(began.rows, rows) /\ events = began.events \o <<>> /\ <<>> \in Seq(Records)
  BY <1>1, <1>2, GrownItself DEF Db
<1>4. snap \in Nodes /\ actionsByPerm \in [IDs -> [Names -> SUBSET Actions]]
  BY EmptyNodes DEF Init, NoActions
<1>5. query \notin 2..Delivered /\ query \notin 1..5 /\ query # Delivered /\ query \in 0..Delivered
  BY <1>2 DEF Delivered
<1> QED BY <1>1, <1>2, <1>3, <1>4, <1>5 DEF Reading, SnapshotCovers, Db

(* A step that is no query of the snapshot.                                *)
LEMMA ReadingStays ==
    ASSUME Db, Reading, UNCHANGED snapVars,
           rows' \in Table, Grown(rows, rows'), NEW new \in Seq(Records), events' = events \o new
    PROVE  Reading'
<1>1. /\ query' = query /\ snap' = snap /\ actionsByPerm' = actionsByPerm /\ began' = began
  BY DEF snapVars
<1>2. Grown(began.rows, rows')
  BY GrownIsTransitive DEF Db, Reading
<1>3. \E more \in Seq(Records) : events' = began.events \o more
  <2>1. PICK old \in Seq(Records) : events = began.events \o old
    BY DEF Reading
  <2>2. began.events \in Seq(Records)
    BY DEF Reading
  <2>3. events' = began.events \o (old \o new) /\ old \o new \in Seq(Records)
    BY <2>1, <2>2, ConcatAssociates
  <2> QED BY <2>3
<1>4. SnapshotCovers' /\ (query' \in 2..Delivered => ShowsAll(snap)')
  BY <1>1 DEF Reading, SnapshotCovers, ShowsAll, RecordsOf
<1> QED BY <1>1, <1>2, <1>3, <1>4 DEF Reading
LEMMA EnsuredIsANode ==
    ASSUME snap \in Nodes, NEW id
    PROVE  /\ Mem!Ensure(snap, flags, id) \in Mem!Node
           /\ id \in DOMAIN snap => Mem!Ensure(snap, flags, id) = snap[id]
           /\ id \notin DOMAIN snap => Mem!Ensure(snap, flags, id).events = <<>>
<1>1. (id \in flags) \in BOOLEAN
  OBVIOUS
<1>2. id \notin DOMAIN snap => Mem!Ensure(snap, flags, id) = Mem!NewNode(id \in flags)
  BY DEF Mem!Ensure
<1>3. id \in DOMAIN snap => Mem!Ensure(snap, flags, id) = snap[id] /\ snap[id] \in Mem!Node
  BY NodesAre DEF Mem!Ensure
<1>4. CASE id \in DOMAIN snap
  BY <1>3, <1>4
<1>5. CASE id \notin DOMAIN snap
  <2>1. Mem!NewNode(id \in flags) \in Mem!Node /\ Mem!NewNode(id \in flags).events = <<>>
    <3>1. PICK p \in BOOLEAN : p = (id \in flags)
      BY <1>1, Zenon
    <3>2. Mem!NewNode(p) \in Mem!Node /\ Mem!NewNode(p).events = <<>>
      BY NewNodeIsANode
    <3> QED BY <3>1, <3>2, Zenon
  <2> QED BY <1>2, <1>5, <2>1
<1> QED BY <1>4, <1>5

(* A query that leaves everything but the snapshot's store as it was.      *)
LEMMA ReadingGoesOn ==
    ASSUME Reading, UNCHANGED <<loadVars, began>>, query' = query + 1, query \in 1..4,
           snap' \in Nodes, actionsByPerm' \in [IDs -> [Names -> SUBSET Actions]],
           \A id \in DOMAIN began.rows :
              id \in DOMAIN snap' /\ Shows(snap'[id], began.rows[id]),
           \A id \in DOMAIN snap' : snap'[id].events = <<>>
    PROVE  Reading'
<1>1. rows' = rows /\ events' = events /\ began' = began
  BY DEF loadVars
<1>2. query' \in 2..5 /\ query' \in 0..Delivered /\ query' # Delivered
  BY DEF Delivered
<1>3. ShowsAll(snap)'
  BY <1>1 DEF ShowsAll, Shows
<1> QED BY <1>1, <1>2, <1>3 DEF Reading, SnapshotCovers

LEMMA ReadFlagsReads == Db /\ Reading /\ ReadFlags => Reading'
<1> SUFFICES ASSUME Db, Reading, ReadFlags PROVE Reading'
  OBVIOUS
<1>1. /\ query' = 1 /\ snap' = [i \in {} |-> Mem!NewNode(FALSE)]
      /\ began' = [rows |-> rows, events |-> events]
      /\ rows' = rows /\ events' = events
  BY DEF ReadFlags, loadVars
<1>2. began'.rows = rows /\ began'.events = events
  BY <1>1
<1>3. /\ rows \in Table /\ events \in Seq(Records) /\ Grown(rows, rows)
      /\ events = events \o <<>> /\ <<>> \in Seq(Records)
  BY GrownItself DEF Db
<1>4. snap' \in Nodes /\ DOMAIN snap' = {}
  BY <1>1, EmptyNodes
<1>5. query' \in 0..Delivered /\ query' # Delivered /\ query' \notin 2..Delivered
  BY <1>1 DEF Delivered
<1>6. \E new \in Seq(Records) : events' = began'.events \o new
  BY <1>1, <1>2, <1>3
<1>7. Grown(began.rows, rows)'
  BY <1>1, <1>2, <1>3
<1>8. actionsByPerm' \in [IDs -> [Names -> SUBSET Actions]]
  BY DEF Reading, ReadFlags
<1> QED BY <1>1, <1>2, <1>3, <1>4, <1>5, <1>6, <1>7, <1>8 DEF Reading, SnapshotCovers

(* The node that ReadIdentities makes of a row. *)
LEMMA ColumnsRead ==
    ASSUME Db, ReadIdentities, NEW id \in DOMAIN rows
    PROVE  snap'[id] = [fields |-> [f \in Fields |-> IF f \in Lists THEN NoValue
                                                     ELSE rows[id].fields[f]],
                        lastUsed |-> rows[id].lastUsed,
                        privileged |-> (id \in flags \/ rows[id].privileged),
                        shadow |-> rows[id].shadow, permissions |-> {}, events |-> <<>>]
<1> DEFINE Flag == id \in flags \/ rows[id].privileged
           Columns == [f \in Fields |-> IF f \in Lists THEN NoValue ELSE rows[id].fields[f]]
           new == Mem!NewNode(Flag)
<1>1. snap'[id] = [new EXCEPT !.fields = Columns, !.lastUsed = rows[id].lastUsed,
                              !.shadow = rows[id].shadow]
  BY DEF ReadIdentities
<1>2. Flag \in BOOLEAN
  BY TableIs DEF Db, RowType
<1>3. new = [fields |-> [f \in Fields |-> NoValue], lastUsed |-> 0, privileged |-> Flag,
             shadow |-> FALSE, permissions |-> {}, events |-> <<>>]
  <2> HIDE DEF Flag
  <2> QED BY <1>2, NewNodeIsANode
<1> HIDE DEF Flag, Columns, new
<1>4. snap'[id] = [fields |-> Columns, lastUsed |-> rows[id].lastUsed, privileged |-> Flag,
                   shadow |-> rows[id].shadow, permissions |-> {}, events |-> <<>>]
  BY <1>1, <1>3
<1> QED BY <1>4 DEF Flag, Columns

LEMMA ReadIdentitiesReads == Db /\ Reading /\ ReadIdentities => Reading'
<1> SUFFICES ASSUME Db, Reading, ReadIdentities PROVE Reading'
  OBVIOUS
<1> DEFINE Flag(id) == id \in flags \/ rows[id].privileged
           Columns(id) == [f \in Fields |-> IF f \in Lists THEN NoValue ELSE rows[id].fields[f]]
<1>1. /\ query = 1 /\ query' = 2 /\ UNCHANGED <<loadVars, began, actionsByPerm>>
      /\ snap' = [id \in DOMAIN rows |->
                    [Mem!NewNode(Flag(id)) EXCEPT !.fields = Columns(id),
                                                  !.lastUsed = rows[id].lastUsed,
                                                  !.shadow = rows[id].shadow]]
  BY DEF ReadIdentities
<1>2. DOMAIN rows \subseteq IDs /\ \A id \in DOMAIN rows : rows[id] \in RowType
  BY TableIs DEF Db
<1>3. ASSUME NEW id \in DOMAIN rows
      PROVE  snap'[id] = [fields |-> Columns(id), lastUsed |-> rows[id].lastUsed,
                          privileged |-> Flag(id), shadow |-> rows[id].shadow,
                          permissions |-> {}, events |-> <<>>]
  BY <1>3, ColumnsRead
<1>4. ASSUME NEW id \in DOMAIN rows PROVE snap'[id] \in Mem!Node
  <2>1. /\ Columns(id) \in [Fields -> Values \cup {NoValue}] /\ rows[id].lastUsed \in Nat
        /\ Flag(id) \in BOOLEAN /\ rows[id].shadow \in BOOLEAN
    BY <1>2 DEF RowType
  <2>2. <<>> \in Seq(Mem!Event) /\ {} \in SUBSET Mem!Permission
    OBVIOUS
  <2> HIDE DEF Flag, Columns
  <2>3. \A p \in BOOLEAN :
          [fields |-> Columns(id), lastUsed |-> rows[id].lastUsed, privileged |-> p,
           shadow |-> rows[id].shadow, permissions |-> {}, events |-> <<>>] \in Mem!Node
    <3> HIDE DEF Columns
    <3> QED BY <2>1, <2>2 DEF Mem!Node
  <2> HIDE DEF Flag, Columns
  <2>4. PICK p \in BOOLEAN : p = Flag(id)
    BY <2>1, Zenon
  <2> QED BY <1>3, <2>3, <2>4
<1>5. DOMAIN snap' = DOMAIN rows /\ snap' \in Nodes
  <2>1. DOMAIN snap' = DOMAIN rows /\ snap' = [id \in DOMAIN rows |-> snap'[id]]
    BY <1>1
  <2>2. snap' \in [DOMAIN rows -> Mem!Node]
    BY <1>4, <2>1
  <2> QED BY <1>2, <2>1, <2>2, NodesAre
<1>6. ASSUME NEW id \in DOMAIN began.rows
      PROVE  id \in DOMAIN snap' /\ Shows(snap'[id], began.rows[id])
  <2>1. id \in DOMAIN rows /\ Below(began.rows[id], rows[id])
    BY DEF Reading, Grown
  <2> DEFINE n == snap'[id]
             row == began.rows[id]
  <2>2. n = [fields |-> Columns(id), lastUsed |-> rows[id].lastUsed, privileged |-> Flag(id),
             shadow |-> rows[id].shadow, permissions |-> {}, events |-> <<>>]
    BY <1>3, <2>1
  <2>3. /\ \A f \in Fields \ Lists : n.fields[f] = rows[id].fields[f]
        /\ n.lastUsed = rows[id].lastUsed /\ n.shadow = rows[id].shadow
    <3> HIDE DEF n, Flag
    <3> QED BY <2>2
  <2>4. rows[id].privileged => n.privileged
    <3>1. n.privileged = Flag(id)
      <4> HIDE DEF n, Flag
      <4> QED BY <2>2
    <3> HIDE DEF n
    <3> QED BY <3>1
  <2> HIDE DEF n, Flag, Columns
  <2>5. Shows(n, row)
    BY <2>1, <2>3, <2>4 DEF Shows, Below
  <2> QED BY <1>5, <2>1, <2>5 DEF n
<1>7. \A id \in DOMAIN snap' : snap'[id].events = <<>>
  BY <1>3, <1>5
<1>8. query \in 1..4 /\ query' = query + 1
  <2>1. query = 1 /\ query' = 2
    BY DEF ReadIdentities
  <2> QED BY <2>1
<1>9. actionsByPerm' \in [IDs -> [Names -> SUBSET Actions]]
  BY <1>1 DEF Reading
<1> HIDE DEF Flag, Columns
<1> QED BY <1>1, <1>5, <1>6, <1>7, <1>8, <1>9, ReadingGoesOn

(* A node that differs from the one it replaces in lists and grants only.  *)
LEMMA ReadingAttached ==
    ASSUME Reading, query \in 2..4, query' = query + 1, UNCHANGED <<loadVars, began, actionsByPerm>>,
           NEW owners \in SUBSET IDs, NEW node \in [owners -> Mem!Node],
           snap' = [id \in DOMAIN snap \cup owners |->
                      IF id \in owners THEN node[id] ELSE snap[id]],
           \A id \in owners :
              LET old == Mem!Ensure(snap, flags, id)
              IN  /\ \A f \in Fields \ Lists : node[id].fields[f] = old.fields[f]
                  /\ node[id].lastUsed = old.lastUsed /\ node[id].privileged = old.privileged
                  /\ node[id].shadow = old.shadow /\ node[id].events = old.events
    PROVE  Reading'
<1>1. snap \in Nodes /\ DOMAIN snap \subseteq IDs /\ snap \in [DOMAIN snap -> Mem!Node]
  BY NodesAre DEF Reading
<1>2. snap' \in Nodes /\ DOMAIN snap' = DOMAIN snap \cup owners
  BY <1>1, NodesAre
<1>3. query \in 1..4 /\ query \in 2..Delivered /\ query \in 1..5
  BY DEF Delivered
<1>4. ASSUME NEW id \in DOMAIN began.rows
      PROVE  id \in DOMAIN snap' /\ Shows(snap'[id], began.rows[id])
  <2>1. id \in DOMAIN snap /\ Shows(snap[id], began.rows[id])
    BY <1>3 DEF Reading, ShowsAll
  <2>2. Mem!Ensure(snap, flags, id) = snap[id]
    BY <1>1, <2>1, EnsuredIsANode
  <2>3. CASE id \in owners
    BY <1>2, <2>1, <2>2, <2>3 DEF Shows
  <2>4. CASE id \notin owners
    BY <1>2, <2>1, <2>4
  <2> QED BY <2>3, <2>4
<1>5. ASSUME NEW id \in DOMAIN snap' PROVE snap'[id].events = <<>>
  <2>1. id \in DOMAIN snap => snap[id].events = <<>>
    BY <1>3 DEF Reading
  <2>2. Mem!Ensure(snap, flags, id).events = <<>>
    BY <1>1, <2>1, EnsuredIsANode
  <2>3. CASE id \in owners
    BY <2>2, <2>3
  <2>4. CASE id \notin owners
    BY <1>2, <2>1, <2>4
  <2> QED BY <2>3, <2>4
<1>6. actionsByPerm' \in [IDs -> [Names -> SUBSET Actions]]
  BY DEF Reading
<1> QED BY <1>2, <1>3, <1>4, <1>5, <1>6, ReadingGoesOn

LEMMA ReadListsReads == Db /\ Reading /\ ReadLists => Reading'
<1> SUFFICES ASSUME Db, Reading, ReadLists PROVE Reading'
  OBVIOUS
<1> DEFINE owners == {id \in DOMAIN rows : \E f \in Lists : rows[id].fields[f] # NoValue}
           Old(id) == Mem!Ensure(snap, flags, id)
           Listed(id) == [f \in Fields |-> IF f \in Lists THEN rows[id].fields[f]
                                           ELSE Old(id).fields[f]]
           node == [id \in owners |-> [Old(id) EXCEPT !.fields = Listed(id)]]
<1>1. DOMAIN rows \subseteq IDs /\ \A id \in DOMAIN rows : rows[id] \in RowType
  BY TableIs DEF Db
<1>2. \A id : Old(id) \in Mem!Node
  BY EnsuredIsANode DEF Reading
<1>3. query = 2 /\ query' = 3 /\ UNCHANGED <<loadVars, began, actionsByPerm>>
  BY DEF ReadLists
<1>4. snap' = [id \in DOMAIN snap \cup owners |-> IF id \in owners THEN node[id] ELSE snap[id]]
  BY DEF ReadLists, Attach
<1>5. owners \in SUBSET IDs
  BY <1>1
<1>6. ASSUME NEW id \in owners
      PROVE  /\ node[id] \in Mem!Node
             /\ \A f \in Fields \ Lists : node[id].fields[f] = Old(id).fields[f]
             /\ node[id].lastUsed = Old(id).lastUsed /\ node[id].privileged = Old(id).privileged
             /\ node[id].shadow = Old(id).shadow /\ node[id].events = Old(id).events
  <2>1. Old(id) \in Mem!Node /\ Listed(id) \in [Fields -> Values \cup {NoValue}]
    BY <1>1, <1>2 DEF RowType, Mem!Node
  <2>2. \A f \in Fields \ Lists : Listed(id)[f] = Old(id).fields[f]
    OBVIOUS
  <2>3. node[id] = [Old(id) EXCEPT !.fields = Listed(id)]
    OBVIOUS
  <2> HIDE DEF node, Listed, Old, owners
  <2> QED BY <2>1, <2>2, <2>3 DEF Mem!Node
<1>7. query \in 2..4 /\ query' = query + 1
  BY <1>3
<1>8. node \in [owners -> Mem!Node]
  BY <1>6
<1> HIDE DEF owners, node, Listed
<1> QED BY <1>3, <1>4, <1>5, <1>6, <1>7, <1>8, ReadingAttached

LEMMA ReadActionsReads == Db /\ Reading /\ ReadActions => Reading'
<1> SUFFICES ASSUME Db, Reading, ReadActions PROVE Reading'
  OBVIOUS
<1>1. query = 3 /\ query' = 4 /\ UNCHANGED <<loadVars, began, snap>>
  BY DEF ReadActions
<1>2. actionsByPerm' \in [IDs -> [Names -> SUBSET Actions]]
  <2>1. ASSUME NEW id \in IDs, NEW n \in Names
        PROVE  UNION {p.actions : p \in {q \in RowOf(rows, id).permissions : q.name = n}}
                 \in SUBSET Actions
    <3>1. RowOf(rows, id).permissions \in SUBSET Permission
      BY RowOfIsARow DEF Db, RowType
    <3> QED BY <3>1 DEF Permission
  <2> QED BY <2>1 DEF ReadActions
<1>3. /\ query \in 1..4 /\ query' = query + 1 /\ query \in 2..Delivered /\ query \in 1..5
      /\ snap' = snap
  BY <1>1 DEF Delivered
<1>4. /\ snap' \in Nodes /\ \A id \in DOMAIN snap' : snap'[id].events = <<>>
      /\ \A id \in DOMAIN began.rows : id \in DOMAIN snap' /\ Shows(snap'[id], began.rows[id])
  BY <1>3 DEF Reading, ShowsAll
<1> QED BY <1>1, <1>2, <1>3, <1>4, ReadingGoesOn

LEMMA ReadPermissionsReads == Db /\ Reading /\ ReadPermissions => Reading'
<1> SUFFICES ASSUME Db, Reading, ReadPermissions PROVE Reading'
  OBVIOUS
<1> DEFINE owners == {id \in DOMAIN rows : rows[id].permissions # {}}
           Old(id) == Mem!Ensure(snap, flags, id)
           Granted(id) == {[p EXCEPT !.actions = actionsByPerm[id][p.name]] :
                             p \in rows[id].permissions}
           node == [id \in owners |-> [Old(id) EXCEPT !.permissions = Granted(id)]]
<1>1. DOMAIN rows \subseteq IDs /\ \A id \in DOMAIN rows : rows[id] \in RowType
  BY TableIs DEF Db
<1>2. \A id : Old(id) \in Mem!Node
  BY EnsuredIsANode DEF Reading
<1>3. query = 4 /\ query' = 5 /\ UNCHANGED <<loadVars, began, actionsByPerm>>
  BY DEF ReadPermissions
<1>4. snap' = [id \in DOMAIN snap \cup owners |-> IF id \in owners THEN node[id] ELSE snap[id]]
  BY DEF ReadPermissions, Attach
<1>5. owners \in SUBSET IDs
  BY <1>1
<1>6. ASSUME NEW id \in owners
      PROVE  /\ node[id] \in Mem!Node
             /\ \A f \in Fields \ Lists : node[id].fields[f] = Old(id).fields[f]
             /\ node[id].lastUsed = Old(id).lastUsed /\ node[id].privileged = Old(id).privileged
             /\ node[id].shadow = Old(id).shadow /\ node[id].events = Old(id).events
  <2>1. Granted(id) \in SUBSET Mem!Permission
    <3>1. id \in IDs /\ rows[id].permissions \in SUBSET Permission
      BY <1>1 DEF RowType
    <3>2. \A p \in Permission : actionsByPerm[id][p.name] \in SUBSET Actions
      BY <3>1 DEF Reading, Permission
    <3> QED BY <3>1, <3>2 DEF Permission, Mem!Permission
  <2>2. Old(id) \in Mem!Node
    BY <1>2
  <2>3. node[id] = [Old(id) EXCEPT !.permissions = Granted(id)]
    OBVIOUS
  <2> HIDE DEF node, Granted, Old, owners
  <2> QED BY <2>1, <2>2, <2>3 DEF Mem!Node
<1>7. query \in 2..4 /\ query' = query + 1
  BY <1>3
<1>8. node \in [owners -> Mem!Node]
  BY <1>6
<1> HIDE DEF owners, node, Granted
<1> QED BY <1>3, <1>4, <1>5, <1>6, <1>7, <1>8, ReadingAttached
LEMMA ReadEventsReads == Db /\ Reading /\ ReadEvents => Reading'
<1> SUFFICES ASSUME Db, Reading, ReadEvents PROVE Reading'
  OBVIOUS
<1> DEFINE owners == {Subject[r] : r \in ToSet(events)}
           Old(id) == Mem!Ensure(snap, flags, id)
           Told(id) == [k \in DOMAIN EventsOf(events, id) |->
                          Mem!Parsed(EventsOf(events, id)[k], 0)]
           node == [id \in owners |-> [Old(id) EXCEPT !.events = Told(id)]]
           full == [id \in DOMAIN snap \cup owners |->
                      IF id \in owners THEN node[id] ELSE snap[id]]
<1>1. /\ query = 5 /\ query' = Delivered /\ actionsByPerm' = NoActions
      /\ UNCHANGED <<loadVars, began>>
  BY DEF ReadEvents
<1>2. snap' = [id \in DOMAIN full |-> [full[id] EXCEPT !.privileged = @ \/ id \in Operator]]
  BY DEF ReadEvents, Attach
<1>3. /\ events \in Seq(Records) /\ DOMAIN snap \subseteq IDs /\ snap \in [DOMAIN snap -> Mem!Node]
      /\ \A id : Old(id) \in Mem!Node
  BY NodesAre, EnsuredIsANode DEF Db, Reading
<1>4. owners \subseteq IDs
  BY <1>3, SubjectAssumption DEF ToSet
<1>5. ASSUME NEW id
      PROVE  /\ Told(id) \in Seq(Mem!Event) /\ DOMAIN Told(id) = DOMAIN EventsOf(events, id)
             /\ \A k \in DOMAIN EventsOf(events, id) : Told(id)[k].record = EventsOf(events, id)[k]
  <2> DEFINE q == EventsOf(events, id)
  <2>1. q \in Seq(Records)
    BY <1>3, EventsOfAnIdentity
  <2>2. \A r \in Records : Mem!Parsed(r, 0) \in Mem!Event /\ Mem!Parsed(r, 0).record = r
    BY DEF Mem!Parsed, Mem!Event
  <2> HIDE DEF q
  <2>3. [k \in DOMAIN q |-> Mem!Parsed(q[k], 0)] \in Seq(Mem!Event)
    <3>1. DOMAIN q = 1..Len(q) /\ Len(q) \in Nat /\ \A k \in 1..Len(q) : q[k] \in Records
      BY <2>1
    <3>2. [k \in DOMAIN q |-> Mem!Parsed(q[k], 0)] \in [1..Len(q) -> Mem!Event]
      BY <2>2, <3>1
    <3> QED BY <3>1, <3>2
  <2>4. \A k \in DOMAIN q : q[k] \in Records
    BY <2>1
  <2> QED BY <2>2, <2>3, <2>4 DEF q
<1>6. /\ DOMAIN full = DOMAIN snap \cup owners
      /\ \A id \in owners : full[id] = [Old(id) EXCEPT !.events = Told(id)]
      /\ \A id \in DOMAIN snap : id \notin owners => full[id] = snap[id]
  <2> HIDE DEF owners, Old, Told
  <2> QED OBVIOUS
<1> HIDE DEF owners, Told, node, full
<1>7. \A id \in DOMAIN full : full[id] \in Mem!Node
  <2>1. ASSUME NEW id \in owners PROVE full[id] \in Mem!Node
    <3> HIDE DEF Old
    <3>1. PICK o \in Mem!Node, t \in Seq(Mem!Event) : o = Old(id) /\ t = Told(id)
      BY <1>3, <1>5
    <3>2. full[id] = [o EXCEPT !.events = t]
      BY <1>6, <3>1
    <3> QED BY <3>2 DEF Mem!Node
  <2> QED BY <1>3, <1>6, <2>1
<1>8. ASSUME NEW id \in DOMAIN full
      PROVE  /\ snap'[id] \in Mem!Node
             /\ snap'[id].fields = full[id].fields /\ snap'[id].lastUsed = full[id].lastUsed
             /\ snap'[id].shadow = full[id].shadow /\ snap'[id].events = full[id].events
             /\ full[id].privileged => snap'[id].privileged
  <2>1. snap'[id] = [full[id] EXCEPT !.privileged = full[id].privileged \/ id \in Operator]
    BY <1>2
  <2>2. full[id] \in Mem!Node
    BY <1>7
  <2>3. PICK p \in BOOLEAN : p = (full[id].privileged \/ id \in Operator)
    BY Zenon
  <2>4. full[id].privileged => p
    BY <2>3, Zenon
  <2>5. snap'[id] = [full[id] EXCEPT !.privileged = p]
    BY <2>1, <2>3, Zenon
  <2> QED BY <2>2, <2>4, <2>5 DEF Mem!Node
<1>9. snap' \in Nodes /\ DOMAIN snap' = DOMAIN snap \cup owners
  <2>1. DOMAIN snap' = DOMAIN full /\ snap' = [id \in DOMAIN full |-> snap'[id]]
    BY <1>2
  <2>2. snap' \in [DOMAIN full -> Mem!Node]
    BY <1>8, <2>1
  <2> QED BY <1>3, <1>4, <1>6, <2>1, <2>2, NodesAre
<1>10. ASSUME NEW id \in DOMAIN began.rows
       PROVE  id \in DOMAIN snap' /\ Shows(snap'[id], began.rows[id])
  <2>1. id \in DOMAIN snap /\ Shows(snap[id], began.rows[id])
    <3>1. query \in 2..Delivered
      BY <1>1 DEF Delivered
    <3> QED BY <3>1 DEF Reading, ShowsAll
  <2>2. Old(id) = snap[id]
    BY <2>1, EnsuredIsANode DEF Reading
  <2>3. /\ full[id].fields = snap[id].fields /\ full[id].lastUsed = snap[id].lastUsed
        /\ full[id].shadow = snap[id].shadow /\ full[id].privileged = snap[id].privileged
    <3>1. snap[id] \in Mem!Node
      BY <1>3, <2>1
    <3> HIDE DEF Old
    <3> QED BY <1>6, <2>1, <2>2, <3>1 DEF Mem!Node
  <2>4. id \in DOMAIN full
    BY <1>6, <2>1
  <2> QED BY <1>6, <1>8, <1>9, <2>1, <2>3, <2>4 DEF Shows
<1>11. ASSUME NEW id \in owners
       PROVE  RecordsOf(snap'[id]) = EventsOf(events, id)
  <2>1. snap'[id].events = Told(id)
    <3>1. id \in DOMAIN full /\ Old(id) \in Mem!Node
      BY <1>3, <1>6
    <3> HIDE DEF Old
    <3> QED BY <1>6, <1>8, <3>1 DEF Mem!Node
  <2>2. EventsOf(events, id) \in Seq(Records)
    BY <1>3, EventsOfAnIdentity
  <2>3. RecordsOf(snap'[id]) = [k \in DOMAIN EventsOf(events, id) |-> EventsOf(events, id)[k]]
    BY <1>5, <2>1 DEF RecordsOf
  <2> QED BY <2>2, <2>3
<1>12. ASSUME NEW id \in DOMAIN snap', id \notin owners
       PROVE  snap'[id].events = <<>>
  <2>1. query \in 1..5
    BY <1>1
  <2>2. id \in DOMAIN snap /\ snap[id].events = <<>>
    BY <1>9, <1>12, <2>1 DEF Reading
  <2> QED BY <1>6, <1>8, <1>12, <2>2
<1>13. ASSUME NEW id \in DOMAIN began.rows
       PROVE  ToSet(EventsOf(began.events, id)) \subseteq ToSet(RecordsOf(snap'[id]))
  <2>1. PICK new \in Seq(Records) : events = began.events \o new
    BY DEF Reading
  <2>2. began.events \in Seq(Records) /\ ToSet(began.events) \subseteq ToSet(events)
    <3>1. began.events \in Seq(Records)
      BY DEF Reading
    <3>2. ToSet(events) = ToSet(began.events) \cup ToSet(new)
      BY <2>1, <3>1, ToSetConcat
    <3> QED BY <3>1, <3>2
  <2>3. /\ ToSet(EventsOf(began.events, id)) = About(began.events, id)
        /\ ToSet(EventsOf(events, id)) = About(events, id)
    BY <1>3, <2>2, EventsOfAnIdentity
  <2>4. About(began.events, id) \subseteq About(events, id)
    BY <2>2 DEF About
  <2>5. id \notin owners => About(events, id) = {}
    BY DEF About, owners
  <2> QED BY <1>11, <2>3, <2>4, <2>5
<1>14. ASSUME NEW id \in DOMAIN snap', NEW i \in DOMAIN snap'[id].events,
              NEW j \in DOMAIN snap'[id].events, i < j
       PROVE  TimeOf[RecordsOf(snap'[id])[i]] <= TimeOf[RecordsOf(snap'[id])[j]]
  <2>1. id \in owners
    <3>1. DOMAIN <<>> = {}
      OBVIOUS
    <3> QED BY <1>12, <1>14, <3>1
  <2>2. RecordsOf(snap'[id]) = EventsOf(events, id)
    BY <1>11, <2>1
  <2>3. DOMAIN RecordsOf(snap'[id]) = DOMAIN snap'[id].events
    BY DEF RecordsOf
  <2>4. InTimeOrder(EventsOf(events, id))
    BY <1>3, EventsOfAnIdentity
  <2> QED BY <1>14, <2>2, <2>3, <2>4 DEF InTimeOrder
<1>15. began' = began /\ rows' = rows /\ events' = events
  BY <1>1 DEF loadVars
<1>16. SnapshotCovers'
  BY <1>10, <1>13, <1>14, <1>15 DEF SnapshotCovers, Shows
<1>17. ShowsAll(snap)'
  BY <1>10, <1>15 DEF ShowsAll, Shows
<1>18. query' \in 0..Delivered /\ query' \notin 1..5
  BY <1>1 DEF Delivered
<1>19. actionsByPerm' \in [IDs -> [Names -> SUBSET Actions]]
  BY <1>1 DEF NoActions
<1> QED BY <1>9, <1>15, <1>16, <1>17, <1>18, <1>19 DEF Reading

LEMMA ReadingKept == Db /\ Serial /\ Reading /\ [Next]_vars => Reading'
<1> SUFFICES ASSUME Db, Serial, Reading, [Next]_vars PROVE Reading'
  OBVIOUS
<1>1. CASE UNCHANGED snapVars
  <2>1. PICK new \in Seq(Records) : events' = events \o new
    BY TablesGrow
  <2> QED BY <1>1, <2>1, TablesGrow, ReadingStays
<1>2. CASE ReadFlags \/ ReadIdentities \/ ReadLists \/ ReadActions \/ ReadPermissions \/ ReadEvents
  BY <1>2, ReadFlagsReads, ReadIdentitiesReads, ReadListsReads, ReadActionsReads,
     ReadPermissionsReads, ReadEventsReads
<1>3. ASSUME NEW s \in Sessions, \/ \E l \in Loads : StartLoad(s, l)
                                 \/ WriteNext(s) \/ CommitIdentities(s) \/ CommitEvents(s)
                                 \/ CommitPassports(s) \/ AbortLoad(s) \/ BreakDeadlock(s)
      PROVE  UNCHANGED snapVars
  BY <1>3 DEF StartLoad, WriteNext, CommitIdentities, CommitEvents, CommitPassports, Commit,
              AbortLoad, BreakDeadlock, Fail, snapVars
<1>4. CASE UNCHANGED vars
  BY <1>1, <1>4 DEF vars
<1> QED BY <1>1, <1>2, <1>3, <1>4 DEF Next

LEMMA ReadingHolds == Spec => [](Db /\ Serial /\ Reading)
BY SerialAtFirst, SerialKept, ReadingAtFirst, ReadingKept, PTL DEF Spec

(* Snapshot under concurrent loads: its queries run with no transaction     *)
(* around them, and still what was committed when it began is in it,       *)
(* whatever commits between them, with every identity's events in order.   *)
THEOREM SnapshotsCover == Spec => []SnapshotCovers
BY ReadingHolds, PTL DEF Reading

-----------------------------------------------------------------------------
(* The two backends, fed the same batches. *)

(* The records that the loads hold. *)
Used == UNION {ToSet(l.events) : l \in Loads \cup Earlier}

(* No two records that are loaded differ in their source alone: the events *)
(* table would hold one row for both, where the in-memory graph keeps two. *)
OneRecordPerRow == \A r, s \in Used : Row[r] = Row[s] => r = s

Of(ids, id) == Mem!Ensure(ids, Operator, id)

(* A row and a node hold the same columns; the operator's flag may still   *)
(* be missing from the row.                                                *)
Alike(id, row, node) ==
    /\ \A f \in Fields \ Lists : row.fields[f] = node.fields[f]
    /\ row.lastUsed = node.lastUsed
    /\ row.shadow <=> node.shadow
    /\ node.privileged <=> (row.privileged \/ id \in Operator)

(* What a row or a node says that has had these descriptions: nothing, or  *)
(* what the one description says that names each grant once.               *)
Plain(d) == \A p, q \in d.permissions : p.name = q.name => p = q

Says(told, x) ==
    /\ told = {} => x.permissions = {} /\ \A f \in Lists : x.fields[f] = NoValue
    /\ \A d \in told : told = {d} /\ Plain(d) =>
         x.permissions = d.permissions /\ \A f \in Lists : x.fields[f] = d.fields[f]

(* The records of an identity are the table's rows about it, in the table's *)
(* order.                                                                  *)
InStepAt(evs, id, recs, pos) ==
    LET S == {i \in DOMAIN evs : Subject[evs[i]] = id}
    IN  /\ pos \in [DOMAIN recs -> S]
        /\ \A i, j \in DOMAIN recs : i < j => pos[i] < pos[j]
        /\ \A i \in S : \E k \in DOMAIN recs : pos[k] = i
        /\ \A k \in DOMAIN recs : evs[pos[k]] = Row[recs[k]]

InStep(evs, id, recs) == \E pos : InStepAt(evs, id, recs, pos)

Same(id, row, node, told) == Alike(id, row, node) /\ Says(told, row) /\ Says(told, node)

(* The tables and the in-memory graph say the same of every identity. *)
Like(t, m, told) ==
    /\ t \in Table /\ m \in Nodes /\ DOMAIN t = DOMAIN m
    /\ \A id \in IDs : Same(id, RowOf(t, id), Of(m, id), told[id])

(* And they hold the same events. *)
Held(evs, m, sn) ==
    /\ evs \in Seq(Records) /\ sn \subseteq Mem!Event
    /\ \A id \in IDs : InStep(evs, id, RecordsOf(Of(m, id)))
    /\ \A r \in ToSet(evs) : \E e \in sn : r = Row[e.record]
    /\ \A e \in sn : /\ e.record \in Used /\ e = Mem!Parsed(e.record, 0)
                     /\ Row[e.record] \in ToSet(evs)

LEMMA OfIsANode ==
    ASSUME NEW m \in Nodes, NEW id
    PROVE  /\ Of(m, id) \in Mem!Node
           /\ id \in DOMAIN m => Of(m, id) = m[id]
           /\ id \notin DOMAIN m => /\ Of(m, id).fields = [f \in Fields |-> NoValue]
                                    /\ Of(m, id).lastUsed = 0 /\ Of(m, id).shadow = FALSE
                                    /\ Of(m, id).permissions = {} /\ Of(m, id).events = <<>>
                                    /\ Of(m, id).privileged <=> id \in Operator
<1>1. CASE id \in DOMAIN m
  BY <1>1, NodesAre DEF Of, Mem!Ensure
<1>2. CASE id \notin DOMAIN m
  <2>0. (id \in Operator) \in BOOLEAN
    OBVIOUS
  <2>1. PICK p \in BOOLEAN : p = (id \in Operator)
    BY <2>0, Zenon
  <2>2. Of(m, id) = Mem!NewNode(p)
    BY <1>2, <2>1 DEF Of, Mem!Ensure
  <2>3. /\ Mem!NewNode(p) \in Mem!Node
        /\ Mem!NewNode(p) = [fields |-> [f \in Fields |-> NoValue], lastUsed |-> 0,
                             privileged |-> p, shadow |-> FALSE, permissions |-> {},
                             events |-> <<>>]
    BY NewNodeIsANode
  <2>4. p <=> id \in Operator
    BY <2>1, Zenon
  <2> QED BY <1>2, <2>2, <2>3, <2>4
<1> QED BY <1>1, <1>2

LEMMA OfNobody ==
    ASSUME NEW m \in Nodes, NEW id, id \notin DOMAIN m
    PROVE  /\ Of(m, id).fields = [f \in Fields |-> NoValue]
           /\ Of(m, id).lastUsed = 0 /\ Of(m, id).shadow = FALSE
           /\ Of(m, id).permissions = {} /\ Of(m, id).events = <<>>
           /\ Of(m, id).privileged <=> id \in Operator
BY OfIsANode

LEMMA PutNode ==
    ASSUME NEW m \in Nodes, NEW id \in IDs, NEW node \in Mem!Node
    PROVE  /\ Mem!Put(m, id, node) \in Nodes
           /\ DOMAIN Mem!Put(m, id, node) = DOMAIN m \cup {id}
           /\ Of(Mem!Put(m, id, node), id) = node
           /\ \A i : i # id => Of(Mem!Put(m, id, node), i) = Of(m, i)
<1>1. DOMAIN m \subseteq IDs /\ m \in [DOMAIN m -> Mem!Node]
  BY NodesAre
<1>2. Mem!Put(m, id, node) \in Nodes
  <2>1. DOMAIN Mem!Put(m, id, node) \subseteq IDs
    BY <1>1 DEF Mem!Put
  <2>2. Mem!Put(m, id, node) \in [DOMAIN Mem!Put(m, id, node) -> Mem!Node]
    BY <1>1 DEF Mem!Put
  <2> QED BY <2>1, <2>2, NodesAre
<1> QED BY <1>2 DEF Mem!Put, Mem!Ensure, Of

LEMMA PutRow ==
    ASSUME NEW t \in Table, NEW id \in IDs, NEW row \in RowType
    PROVE  /\ Put(t, id, row) \in Table /\ DOMAIN Put(t, id, row) = DOMAIN t \cup {id}
           /\ RowOf(Put(t, id, row), id) = row
           /\ \A i : i # id => RowOf(Put(t, id, row), i) = RowOf(t, i)
<1>1. Put(t, id, row) \in Table
  BY PutIsATable
<1> QED BY <1>1 DEF Put, RowOf

(* Both put the row and the node of one identity. *)
LEMMA PutLike ==
    ASSUME NEW t, NEW m, NEW told, Like(t, m, told), NEW id \in IDs, NEW row \in RowType,
           NEW node \in Mem!Node, NEW more, Same(id, row, node, more[id]),
           \A i \in IDs : i # id => more[i] = told[i]
    PROVE  Like(Put(t, id, row), Mem!Put(m, id, node), more)
<1>1. t \in Table /\ m \in Nodes
  BY DEF Like
<1>2. /\ Put(t, id, row) \in Table /\ DOMAIN Put(t, id, row) = DOMAIN t \cup {id}
      /\ RowOf(Put(t, id, row), id) = row
      /\ \A i : i # id => RowOf(Put(t, id, row), i) = RowOf(t, i)
  BY <1>1, PutRow
<1>3. /\ Mem!Put(m, id, node) \in Nodes
      /\ DOMAIN Mem!Put(m, id, node) = DOMAIN m \cup {id}
      /\ Of(Mem!Put(m, id, node), id) = node
      /\ \A i : i # id => Of(Mem!Put(m, id, node), i) = Of(m, i)
  BY <1>1, PutNode
<1> QED BY <1>2, <1>3 DEF Like

(* A description whose grants have names of their own is taken as it is. *)
LEMMA FoldOfPlain ==
    ASSUME NEW P \in SUBSET Permission, \A p, q \in P : p.name = q.name => p = q
    PROVE  {Mem!FoldGrant(n, P) : n \in {p.name : p \in P}} = P
<1>1. ASSUME NEW p \in P PROVE Mem!FoldGrant(p.name, P) = p
  <2>1. p \in Permission
    OBVIOUS
  <2>2. p.admin \in BOOLEAN /\ p.used \in BOOLEAN
        /\ p = [name |-> p.name, admin |-> p.admin, used |-> p.used, actions |-> p.actions]
    BY <2>1 DEF Permission
  <2> DEFINE of == {q \in P : q.name = p.name}
             adm == \E q \in of : q.admin
             usd == \E q \in of : q.used
  <2>3. of = {p}
    OBVIOUS
  <2>4. Mem!FoldGrant(p.name, P) = [name |-> p.name, admin |-> adm, used |-> usd,
                                    actions |-> UNION {q.actions : q \in of}]
    BY Zenon DEF Mem!FoldGrant
  <2>5. UNION {q.actions : q \in of} = p.actions
    BY <2>3
  <2>6. adm = p.admin
    <3>1. adm <=> p.admin
      BY <2>3
    <3>2. adm \in BOOLEAN
      OBVIOUS
    <3> HIDE DEF adm
    <3> QED BY <2>2, <3>1, <3>2, Zenon
  <2>7. usd = p.used
    <3>1. usd <=> p.used
      BY <2>3
    <3>2. usd \in BOOLEAN
      OBVIOUS
    <3> HIDE DEF usd
    <3> QED BY <2>2, <3>1, <3>2, Zenon
  <2> HIDE DEF adm, usd, of
  <2> QED BY <2>2, <2>4, <2>5, <2>6, <2>7, Zenon
<1> QED BY <1>1

LEMMA MergeOfPlain ==
    ASSUME NEW P \in SUBSET Permission, \A p, q \in P : p.name = q.name => p = q
    PROVE  Mem!MergePermissions({}, P) = P /\ Mem!MergePermissions(P, P) = P
<1>1. {} \cup P = P /\ P \cup P = P
  OBVIOUS
<1>2. {Mem!FoldGrant(n, P) : n \in {p.name : p \in P}} = P
  BY FoldOfPlain
<1> QED BY <1>1, <1>2, Zenon DEF Mem!MergePermissions

LEMMA LastOfPlain ==
    ASSUME NEW g \in Seq(Permission), \A p, q \in ToSet(g) : p.name = q.name => p = q
    PROVE  LastOfEach(g) = ToSet(g)
<1>1. DOMAIN g = 1..Len(g) /\ Len(g) \in Nat /\ ToSet(g) = {g[i] : i \in DOMAIN g}
  BY DEF ToSet
<1>2. ASSUME NEW i \in DOMAIN g
      PROVE  \E k \in DOMAIN g : g[k] = g[i] /\ \A j \in DOMAIN g : j > k => g[j].name # g[k].name
  <2> DEFINE Homonym(k) == k \in DOMAIN g /\ g[k].name = g[i].name
             left == {n \in Nat : Homonym(Len(g) - n)}
             R == OpToRel(<, Nat)
  <2>1. IsWellFoundedOn(R, Nat)
    BY NatLessThanWellFounded
  <2>2. \A x, y \in Nat : <<y, x>> \in R <=> y < x
    BY DEF OpToRel
  <2>3. left \subseteq Nat /\ left # {}
    <3>1. Len(g) - i \in Nat /\ Len(g) - (Len(g) - i) = i
      BY <1>1
    <3>2. Homonym(i)
      OBVIOUS
    <3> HIDE DEF Homonym
    <3>3. Len(g) - i \in left
      BY <3>1, <3>2
    <3> QED BY <3>3
  <2> HIDE DEF R
  <2>4. PICK n \in left : \A y \in left : <<y, n>> \notin R
    <3> HIDE DEF left
    <3> QED BY <2>1, <2>3, WFMin
  <2> DEFINE k == Len(g) - n
  <2>5. k \in DOMAIN g /\ g[k].name = g[i].name
    BY <2>4
  <2>6. ASSUME NEW j \in DOMAIN g, j > k PROVE g[j].name # g[k].name
    <3>1. j \in Nat /\ n \in Nat /\ j <= Len(g)
      BY <1>1
    <3>2. Len(g) - j \in Nat /\ Len(g) - j < n /\ Len(g) - (Len(g) - j) = j
      BY <1>1, <2>6, <3>1
    <3>3. Len(g) - j \notin left
      BY <2>2, <2>4, <3>1, <3>2
    <3> QED BY <2>5, <3>2, <3>3
  <2>7. g[k] = g[i]
    BY <1>1, <2>5
  <2> HIDE DEF k
  <2> QED BY <2>5, <2>6, <2>7
<1> QED BY <1>1, <1>2 DEF LastOfEach

-----------------------------------------------------------------------------
(* An entry, as the transaction of its batch takes it and as it was read.   *)
SameEntry(y, x) ==
    /\ y.id = x.id /\ y.fields = x.fields /\ y.lastUsed = x.lastUsed /\ y.shadow = x.shadow
    /\ y.permissions = x.permissions
    /\ (y.privileged \/ x.id \in Operator) <=> (x.privileged \/ x.id \in Operator)

LEMMA UnorderedIs ==
    ASSUME NEW x \in Entry
    PROVE  /\ Unordered(x) \in Mem!Entry
           /\ Unordered(x).id = x.id /\ Unordered(x).fields = x.fields
           /\ Unordered(x).lastUsed = x.lastUsed /\ Unordered(x).privileged = x.privileged
           /\ Unordered(x).shadow = x.shadow /\ Unordered(x).permissions = ToSet(x.permissions)
           /\ ToSet(x.permissions) \subseteq Permission
<1>1. x.permissions \in Seq(Permission)
  BY DEF Entry
<1>2. ToSet(x.permissions) \subseteq Permission
  BY <1>1 DEF ToSet
<1>3. PICK P : P = ToSet(x.permissions)
  OBVIOUS
<1>4. Unordered(x) = [x EXCEPT !.permissions = P]
  BY <1>3 DEF Unordered
<1>5. P \in SUBSET Mem!Permission
  BY <1>2, <1>3 DEF Permission, Mem!Permission
<1>6. [x EXCEPT !.permissions = P] \in Mem!Entry
  BY <1>5 DEF Entry, Mem!Entry
<1>7. /\ Unordered(x).id = x.id /\ Unordered(x).fields = x.fields
      /\ Unordered(x).lastUsed = x.lastUsed /\ Unordered(x).privileged = x.privileged
      /\ Unordered(x).shadow = x.shadow /\ Unordered(x).permissions = P
  BY <1>4 DEF Entry
<1> QED BY <1>2, <1>3, <1>4, <1>6, <1>7

LEMMA MergedNode ==
    ASSUME NEW node \in Mem!Node, NEW d \in Mem!Entry
    PROVE  /\ Mem!MergeNode(node, d) \in Mem!Node
           /\ Mem!MergeNode(node, d).fields = Mem!MergeFields(node.fields, d.fields)
           /\ Mem!MergeNode(node, d).lastUsed
                = IF d.lastUsed > node.lastUsed THEN d.lastUsed ELSE node.lastUsed
           /\ Mem!MergeNode(node, d).privileged <=> (node.privileged \/ d.privileged)
           /\ Mem!MergeNode(node, d).shadow <=> (node.shadow \/ d.shadow)
           /\ Mem!MergeNode(node, d).permissions
                = Mem!MergePermissions(node.permissions, d.permissions)
           /\ Mem!MergeNode(node, d).events = node.events
<1> DEFINE F == Mem!MergeFields(node.fields, d.fields)
           L == IF d.lastUsed > node.lastUsed THEN d.lastUsed ELSE node.lastUsed
           P == Mem!MergePermissions(node.permissions, d.permissions)
<1>1. (node.privileged \/ d.privileged) \in BOOLEAN /\ (node.shadow \/ d.shadow) \in BOOLEAN
  OBVIOUS
<1>2. PICK a \in BOOLEAN : a = (node.privileged \/ d.privileged)
  BY <1>1, Zenon
<1>3. PICK b \in BOOLEAN : b = (node.shadow \/ d.shadow)
  BY <1>1, Zenon
<1>4. (a <=> (node.privileged \/ d.privileged)) /\ (b <=> (node.shadow \/ d.shadow))
  BY <1>2, <1>3, Zenon
<1>5. F \in [Fields -> Values \cup {NoValue}] /\ L \in Nat
  BY DEF Mem!MergeFields, Mem!Node, Mem!Entry
<1>6. P \in SUBSET Mem!Permission
  <2>1. /\ node.permissions \subseteq Mem!Permission /\ d.permissions \subseteq Mem!Permission
    BY DEF Mem!Node, Mem!Entry
  <2> DEFINE all == node.permissions \cup d.permissions
  <2>2. all \subseteq Mem!Permission
    BY <2>1
  <2>3. ASSUME NEW p \in all PROVE Mem!FoldGrant(p.name, all) \in Mem!Permission
    <3>1. PICK adm \in BOOLEAN : adm = (\E q \in {r \in all : r.name = p.name} : q.admin)
      <4>1. (\E q \in {r \in all : r.name = p.name} : q.admin) \in BOOLEAN
        OBVIOUS
      <4> QED BY <4>1, Zenon
    <3>2. PICK usd \in BOOLEAN : usd = (\E q \in {r \in all : r.name = p.name} : q.used)
      <4>1. (\E q \in {r \in all : r.name = p.name} : q.used) \in BOOLEAN
        OBVIOUS
      <4> QED BY <4>1, Zenon
    <3>3. PICK acts : acts = UNION {q.actions : q \in {r \in all : r.name = p.name}}
      OBVIOUS
    <3>4. acts \subseteq Actions /\ p.name \in Names
      BY <2>2, <3>3 DEF Mem!Permission
    <3>5. Mem!FoldGrant(p.name, all)
            = [name |-> p.name, admin |-> adm, used |-> usd, actions |-> acts]
      BY <3>1, <3>2, <3>3, Zenon DEF Mem!FoldGrant
    <3> QED BY <3>4, <3>5 DEF Mem!Permission
  <2>4. P = {Mem!FoldGrant(n, all) : n \in {p.name : p \in all}}
    BY Zenon DEF Mem!MergePermissions
  <2> HIDE DEF all, P
  <2> QED BY <2>3, <2>4
<1>7. node.events \in Seq(Mem!Event)
  BY DEF Mem!Node
<1>8. Mem!MergeNode(node, d) = [fields |-> F, lastUsed |-> L, privileged |-> a, shadow |-> b,
                                permissions |-> P, events |-> node.events]
  BY <1>2, <1>3, Zenon DEF Mem!MergeNode
<1> HIDE DEF F, L, P
<1>9. Mem!MergeNode(node, d) \in Mem!Node
  BY <1>5, <1>6, <1>7, <1>8 DEF Mem!Node
<1>10. /\ Mem!MergeNode(node, d).fields = F /\ Mem!MergeNode(node, d).lastUsed = L
       /\ Mem!MergeNode(node, d).privileged = a /\ Mem!MergeNode(node, d).shadow = b
       /\ Mem!MergeNode(node, d).permissions = P
       /\ Mem!MergeNode(node, d).events = node.events
  BY <1>8
<1> QED BY <1>4, <1>9, <1>10 DEF F, L, P

(* An entry about an identity that the two backends say the same of.        *)
LEMMA DescribedSame ==
    ASSUME NEW row \in RowType, NEW node \in Mem!Node, NEW told,
           NEW x \in Entry, NEW y \in Entry, SameEntry(y, x), Same(x.id, row, node, told)
    PROVE  /\ NextRow("entry", row, y) \in RowType
           /\ Mem!MergeNode(node, Unordered(x)) \in Mem!Node
           /\ Same(x.id, NextRow("entry", row, y), Mem!MergeNode(node, Unordered(x)),
                   told \cup {Unordered(x)})
<1> DEFINE d == Unordered(x)
           new == NextRow("entry", row, y)
           merged == Mem!MergeNode(node, d)
<1>1. /\ d \in Mem!Entry /\ d.fields = x.fields /\ d.lastUsed = x.lastUsed
      /\ d.privileged = x.privileged /\ d.shadow = x.shadow
      /\ d.permissions = ToSet(x.permissions) /\ d.permissions \subseteq Permission
  BY UnorderedIs
<1>2. y \in Elements("entry")
  BY DEF Elements
<1>3. new \in RowType
  BY <1>2, NextRowIsARow
<1>4. /\ new.fields = MergeColumns(row.fields, x.fields)
      /\ new.lastUsed = IF x.lastUsed > row.lastUsed THEN x.lastUsed ELSE row.lastUsed
      /\ new.privileged <=> (row.privileged \/ y.privileged)
      /\ new.shadow <=> (row.shadow \/ x.shadow)
      /\ new.permissions = LastOfEach(x.permissions)
  BY DEF NextRow, SameEntry
<1>5. /\ merged \in Mem!Node
      /\ merged.fields = Mem!MergeFields(node.fields, x.fields)
      /\ merged.lastUsed = IF x.lastUsed > node.lastUsed THEN x.lastUsed ELSE node.lastUsed
      /\ merged.privileged <=> (node.privileged \/ x.privileged)
      /\ merged.shadow <=> (node.shadow \/ x.shadow)
      /\ merged.permissions = Mem!MergePermissions(node.permissions, d.permissions)
  <2> HIDE DEF d
  <2>1. /\ Mem!MergeNode(node, d) \in Mem!Node
        /\ Mem!MergeNode(node, d).fields = Mem!MergeFields(node.fields, d.fields)
        /\ Mem!MergeNode(node, d).lastUsed
             = IF d.lastUsed > node.lastUsed THEN d.lastUsed ELSE node.lastUsed
        /\ Mem!MergeNode(node, d).privileged <=> (node.privileged \/ d.privileged)
        /\ Mem!MergeNode(node, d).shadow <=> (node.shadow \/ d.shadow)
        /\ Mem!MergeNode(node, d).permissions
             = Mem!MergePermissions(node.permissions, d.permissions)
    BY <1>1, MergedNode
  <2> QED BY <1>1, <2>1
<1> HIDE DEF new, merged, d
<1>6. Alike(x.id, row, node) /\ Says(told, row) /\ Says(told, node)
  BY DEF Same
<1>7. Alike(x.id, new, merged)
  <2>1. \A f \in Fields \ Lists : new.fields[f] = merged.fields[f]
    BY <1>4, <1>5, <1>6 DEF MergeColumns, Mem!MergeFields, Alike
  <2> QED BY <1>4, <1>5, <1>6, <2>1 DEF Alike, SameEntry
<1>8. ASSUME NEW e \in told \cup {d}, told \cup {d} = {e}, Plain(e)
      PROVE  /\ new.permissions = e.permissions /\ merged.permissions = e.permissions
             /\ \A f \in Lists : new.fields[f] = e.fields[f] /\ merged.fields[f] = e.fields[f]
  <2>1. e = d /\ (told = {} \/ told = {d})
    BY <1>8
  <2>2. new.permissions = d.permissions
    <3>1. x.permissions \in Seq(Permission)
      BY DEF Entry
    <3>2. \A p, q \in ToSet(x.permissions) : p.name = q.name => p = q
      BY <1>1, <1>8, <2>1 DEF Plain
    <3> QED BY <1>1, <1>4, <3>1, <3>2, LastOfPlain
  <2>3. merged.permissions = d.permissions
    <3>1. node.permissions = {} \/ node.permissions = d.permissions
      BY <1>6, <1>8, <2>1 DEF Says
    <3>2. \A p, q \in d.permissions : p.name = q.name => p = q
      BY <1>8, <2>1 DEF Plain
    <3>3. /\ Mem!MergePermissions({}, d.permissions) = d.permissions
          /\ Mem!MergePermissions(d.permissions, d.permissions) = d.permissions
      BY <1>1, <3>2, MergeOfPlain
    <3> QED BY <1>5, <3>1, <3>3
  <2>4. ASSUME NEW f \in Lists PROVE new.fields[f] = d.fields[f] /\ merged.fields[f] = d.fields[f]
    <3>1. f \in Fields
      BY ListsAssumption
    <3>2. node.fields[f] = NoValue \/ node.fields[f] = d.fields[f]
      BY <1>6, <1>8, <2>1 DEF Says
    <3> QED BY <1>1, <1>4, <1>5, <3>1, <3>2 DEF MergeColumns, Mem!MergeFields
  <2> QED BY <2>1, <2>2, <2>3, <2>4
<1>9. Says(told \cup {d}, new) /\ Says(told \cup {d}, merged)
  BY <1>8 DEF Says
<1> QED BY <1>3, <1>5, <1>7, <1>9 DEF Same, new, merged, d

(* The descriptions that the first k entries of a batch add. *)
Told(told, xs, k) ==
    [id \in IDs |-> told[id] \cup {Unordered(xs[j]) : j \in {i \in 1..k : xs[i].id = id}}]

LEMMA IdentitiesLike ==
    ASSUME NEW t, NEW m, NEW told, Like(t, m, told), NEW xs \in Seq(Entry), NEW ys \in Seq(Entry),
           Len(ys) = Len(xs), \A k \in 1..Len(xs) : SameEntry(ys[k], xs[k]),
           told \in [IDs -> SUBSET Mem!Entry]
    PROVE  /\ Like(IngestIdentities(t, ys), MemIdentities(m, xs), Reported(told, xs))
           /\ \A id \in IDs : Of(MemIdentities(m, xs), id).events = Of(m, id).events
           /\ Reported(told, xs) \in [IDs -> SUBSET Mem!Entry]
<1> DEFINE N == Len(xs)
           a(k) == After("entry", t, ys, k)
           b(k) == After("described", m, xs, k)
           c(k) == Told(told, xs, k)
           Right(k) == /\ Like(a(k), b(k), c(k))
                       /\ \A id \in IDs : Of(b(k), id).events = Of(m, id).events
           Good == {k \in Nat : k <= N => Right(k)}
<1>1. N \in Nat /\ \A k \in 1..N : xs[k] \in Entry /\ ys[k] \in Entry /\ SameEntry(ys[k], xs[k])
  OBVIOUS
<1>2. /\ a(0) = t /\ \A k \in 1..N : a(k) = Takes("entry", a(k - 1), ys[k])
      /\ b(0) = m /\ \A k \in 1..N : b(k) = Takes("described", b(k - 1), xs[k])
  BY AfterNone, AfterNext
<1>3. /\ IngestIdentities(t, ys) = a(N) /\ MemIdentities(m, xs) = b(N)
      /\ Reported(told, xs) = c(N)
  <2>1. IngestIdentities(t, ys) = a(N) /\ MemIdentities(m, xs) = b(N)
    BY AfterAll
  <2>2. ASSUME NEW id \in IDs
        PROVE  {Unordered(in) : in \in {x \in ToSet(xs) : x.id = id}}
                 = {Unordered(xs[j]) : j \in {i \in 1..N : xs[i].id = id}}
    <3>1. ToSet(xs) = {xs[i] : i \in 1..N}
      BY DEF ToSet
    <3> QED BY <3>1
  <2>3. Reported(told, xs) = c(N)
    BY <2>2 DEF Reported, Told
  <2> QED BY <2>1, <2>3
<1>4. c(0) = told
  <2>1. \A id \in IDs : {Unordered(xs[j]) : j \in {i \in 1..0 : xs[i].id = id}} = {}
    OBVIOUS
  <2> QED BY <2>1 DEF Told
<1>5. ASSUME NEW k \in Nat
      PROVE  /\ c(k + 1)[xs[k + 1].id] = c(k)[xs[k + 1].id] \cup {Unordered(xs[k + 1])}
                \/ xs[k + 1].id \notin IDs
             /\ \A id \in IDs : id # xs[k + 1].id => c(k + 1)[id] = c(k)[id]
  <2>1. 1..(k + 1) = (1..k) \cup {k + 1}
    OBVIOUS
  <2> QED BY <2>1 DEF Told
<1> HIDE DEF N, a, b, c
<1>6. 0 \in Good
  BY <1>2, <1>4
<1>7. ASSUME NEW k \in Nat, k \in Good PROVE k + 1 \in Good
  <2> SUFFICES ASSUME k + 1 <= N PROVE Right(k + 1)
    OBVIOUS
  <2>1. k + 1 \in 1..N /\ k <= N /\ (k + 1) - 1 = k
    BY <1>1
  <2>2. Right(k)
    BY <1>7, <2>1
  <2> DEFINE x == xs[k + 1]
             y == ys[k + 1]
             id == x.id
             row == RowOf(a(k), id)
             node == Of(b(k), id)
  <2>3. x \in Entry /\ y \in Entry /\ SameEntry(y, x) /\ id \in IDs /\ y.id = id
        /\ y \in Elements("entry")
    BY <1>1, <2>1 DEF Entry, SameEntry, Elements
  <2>4. /\ a(k) \in Table /\ b(k) \in Nodes /\ Same(id, row, node, c(k)[id])
    BY <2>2, <2>3 DEF Like
  <2>5. row \in RowType /\ node \in Mem!Node
    BY <2>4, RowOfIsARow, OfIsANode
  <2>6. a(k + 1) = Put(a(k), id, NextRow("entry", row, y))
    <3>1. a(k + 1) = Takes("entry", a(k), y)
      BY <1>2, <2>1
    <3>2. Owner("entry", y) = id
      BY <2>3 DEF Owner
    <3>3. Takes("entry", a(k), y)
            = Put(a(k), Owner("entry", y), NextRow("entry", RowOf(a(k), Owner("entry", y)), y))
      BY <2>3, <2>4, TakesIsAPut
    <3> QED BY <3>1, <3>2, <3>3
  <2>7. b(k + 1) = Mem!Put(b(k), id, Mem!MergeNode(node, Unordered(x)))
    <3>1. b(k + 1) = Mem!WithIdentity(b(k), Operator, Unordered(x))
      BY <1>2, <2>1 DEF Takes
    <3>2. Unordered(x).id = id
      BY <2>3, UnorderedIs
    <3> QED BY <3>1, <3>2 DEF Mem!WithIdentity, Of
  <2>8. /\ c(k + 1)[id] = c(k)[id] \cup {Unordered(x)}
        /\ \A i \in IDs : i # id => c(k + 1)[i] = c(k)[i]
    BY <1>5, <2>3
  <2> HIDE DEF id, x, y, row, node
  <2>9. /\ NextRow("entry", row, y) \in RowType
        /\ Mem!MergeNode(node, Unordered(x)) \in Mem!Node
        /\ Same(id, NextRow("entry", row, y), Mem!MergeNode(node, Unordered(x)),
                c(k)[id] \cup {Unordered(x)})
    BY <2>3, <2>4, <2>5, DescribedSame DEF id
  <2>0. PICK new, merged : /\ new = NextRow("entry", row, y)
                           /\ merged = Mem!MergeNode(node, Unordered(x))
    OBVIOUS
  <2>10. /\ new \in RowType /\ merged \in Mem!Node /\ id \in IDs
         /\ Same(id, new, merged, c(k + 1)[id]) /\ Like(a(k), b(k), c(k))
         /\ a(k + 1) = Put(a(k), id, new) /\ b(k + 1) = Mem!Put(b(k), id, merged)
    BY <2>0, <2>2, <2>3, <2>6, <2>7, <2>8, <2>9
  <2>12. Like(a(k + 1), b(k + 1), c(k + 1))
    <3> HIDE DEF Right
    <3>1. Like(Put(a(k), id, new), Mem!Put(b(k), id, merged), c(k + 1))
      BY <2>8, <2>10, PutLike
    <3> QED BY <2>10, <3>1
  <2>11. ASSUME NEW i \in IDs PROVE Of(b(k + 1), i).events = Of(m, i).events
    <3>1. /\ Of(b(k + 1), id) = merged
          /\ \A j : j # id => Of(b(k + 1), j) = Of(b(k), j)
      <4>1. /\ Of(Mem!Put(b(k), id, merged), id) = merged
            /\ \A j : j # id => Of(Mem!Put(b(k), id, merged), j) = Of(b(k), j)
        BY <2>4, <2>10, PutNode
      <4> QED BY <2>10, <4>1
    <3>2. Mem!MergeNode(node, Unordered(x)).events = node.events
      BY DEF Mem!MergeNode
    <3> QED BY <2>0, <2>2, <3>1, <3>2 DEF node
  <2> QED BY <2>11, <2>12
<1>8. Nat \subseteq Good
  <2> HIDE DEF Good
  <2> QED BY <1>6, <1>7, SetInduction
<1>9. Right(N)
  BY <1>1, <1>8
<1>10. Reported(told, xs) \in [IDs -> SUBSET Mem!Entry]
  <2>1. ASSUME NEW id \in IDs
        PROVE  told[id] \cup {Unordered(in) : in \in {x \in ToSet(xs) : x.id = id}}
                 \in SUBSET Mem!Entry
    <3>1. \A in \in ToSet(xs) : in \in Entry
      BY DEF ToSet
    <3> QED BY <3>1, UnorderedIs
  <2> QED BY <2>1 DEF Reported
<1> QED BY <1>3, <1>9, <1>10

LEMMA InStepGrows ==
    ASSUME NEW evs \in Seq(Records), NEW r \in Records, NEW id, NEW recs \in Seq(Records),
           InStep(evs, id, recs)
    PROVE  /\ Subject[r] = id => InStep(Append(evs, Row[r]), id, Append(recs, r))
           /\ Subject[r] # id => InStep(Append(evs, Row[r]), id, recs)
<1> DEFINE S == {i \in DOMAIN evs : Subject[evs[i]] = id}
           more == Append(evs, Row[r])
           T == {i \in DOMAIN more : Subject[more[i]] = id}
           n == Len(evs) + 1
           m == Len(recs) + 1
<1>1. PICK pos : InStepAt(evs, id, recs, pos)
  BY DEF InStep
<1>2. /\ pos \in [DOMAIN recs -> S]
      /\ \A i, j \in DOMAIN recs : i < j => pos[i] < pos[j]
      /\ \A i \in S : \E k \in DOMAIN recs : pos[k] = i
      /\ \A k \in DOMAIN recs : evs[pos[k]] = Row[recs[k]]
  BY <1>1 DEF InStepAt
<1>3. /\ Row[r] \in Records /\ Subject[Row[r]] = Subject[r]
  BY RowAssumption
<1>4. /\ more \in Seq(Records) /\ Len(evs) \in Nat /\ DOMAIN evs = 1..Len(evs)
      /\ DOMAIN more = 1..n /\ more[n] = Row[r] /\ \A i \in 1..Len(evs) : more[i] = evs[i]
  BY <1>3
<1>5. /\ Append(recs, r) \in Seq(Records) /\ Len(recs) \in Nat /\ DOMAIN recs = 1..Len(recs)
      /\ DOMAIN Append(recs, r) = 1..m /\ Append(recs, r)[m] = r
      /\ \A k \in 1..Len(recs) : Append(recs, r)[k] = recs[k]
  OBVIOUS
<1>6. S \subseteq 1..Len(evs) /\ T = IF Subject[r] = id THEN S \cup {n} ELSE S
  <2>1. 1..n = (1..Len(evs)) \cup {n} /\ n \notin 1..Len(evs)
    BY <1>4
  <2> HIDE DEF more
  <2> QED BY <1>3, <1>4, <2>1
<1> HIDE DEF S, T, more
<1>7. CASE Subject[r] = id
  <2> DEFINE new == [k \in 1..m |-> IF k = m THEN n ELSE pos[k]]
  <2>1. DOMAIN new = 1..m /\ new[m] = n /\ \A k \in 1..Len(recs) : new[k] = pos[k] /\ k # m
    BY <1>5
  <2>2. 1..m = (1..Len(recs)) \cup {m} /\ m \notin 1..Len(recs)
    BY <1>5
  <2>3. new \in [1..m -> T]
    BY <1>2, <1>5, <1>6, <1>7, <2>2
  <2> HIDE DEF new
  <2>4. ASSUME NEW i \in 1..m, NEW j \in 1..m, i < j PROVE new[i] < new[j]
    <3>1. i \in 1..Len(recs) /\ pos[i] \in 1..Len(evs)
      BY <1>2, <1>5, <1>6, <2>4
    <3>2. CASE j = m
      BY <1>4, <2>1, <3>1, <3>2
    <3>3. CASE j # m
      BY <1>2, <1>5, <2>1, <2>2, <2>4, <3>1, <3>3
    <3> QED BY <3>2, <3>3
  <2>5. ASSUME NEW i \in T PROVE \E k \in 1..m : new[k] = i
    <3>1. CASE i = n
      BY <2>1, <2>2, <3>1
    <3>2. CASE i # n
      BY <1>2, <1>5, <1>6, <1>7, <2>1, <2>2, <3>2
    <3> QED BY <3>1, <3>2
  <2>6. ASSUME NEW k \in 1..m PROVE more[new[k]] = Row[Append(recs, r)[k]]
    <3>1. CASE k = m
      BY <1>4, <1>5, <2>1, <3>1
    <3>2. CASE k # m
      <4>1. k \in 1..Len(recs) /\ pos[k] \in 1..Len(evs)
        BY <1>2, <1>5, <1>6, <2>2, <3>2
      <4> QED BY <1>2, <1>4, <1>5, <2>1, <4>1
    <3> QED BY <3>1, <3>2
  <2>7. InStepAt(more, id, Append(recs, r), new)
    BY <1>5, <2>3, <2>4, <2>5, <2>6 DEF InStepAt, T
  <2> QED BY <1>7, <2>7 DEF InStep, more
<1>8. CASE Subject[r] # id
  <2>1. \A k \in DOMAIN recs : more[pos[k]] = Row[recs[k]]
    BY <1>2, <1>4, <1>6
  <2>2. InStepAt(more, id, recs, pos)
    BY <1>2, <1>6, <1>8, <2>1 DEF InStepAt, T
  <2> QED BY <1>8, <2>2 DEF InStep, more
<1> QED BY <1>7, <1>8

(* The record of an event, as both take it. *)
Taken(t, evs, st, told) ==
    /\ st = [ids |-> st.ids, seen |-> st.seen]
    /\ Like(t, st.ids, told) /\ Held(evs, st.ids, st.seen)

LEMMA ParsedIs ==
    ASSUME NEW r \in Records
    PROVE  /\ Mem!Parsed(r, 0) \in Mem!Event /\ Mem!Parsed(r, 0).record = r
           /\ Mem!Parsed(r, 0) = [record |-> r, zone |-> 0]
BY DEF Mem!Parsed, Mem!Event

LEMMA RecordsOfNode ==
    ASSUME NEW node \in Mem!Node
    PROVE  RecordsOf(node) \in Seq(Records)
<1>1. PICK es \in Seq(Mem!Event) : es = node.events
  BY DEF Mem!Node
<1>2. DOMAIN es = 1..Len(es) /\ Len(es) \in Nat /\ \A k \in 1..Len(es) : es[k] \in Mem!Event
  OBVIOUS
<1>3. \A e \in Mem!Event : e.record \in Records
  BY DEF Mem!Event
<1>4. \A n \in Nat : \A q : q \in [1..n -> Records] => q \in Seq(Records)
  OBVIOUS
<1>5. [k \in 1..Len(es) |-> es[k].record] \in [1..Len(es) -> Records]
  BY <1>2, <1>3
<1>6. RecordsOf(node) = [k \in 1..Len(es) |-> es[k].record]
  BY <1>1, <1>2 DEF RecordsOf
<1> QED BY <1>2, <1>4, <1>5, <1>6

LEMMA SightedSame ==
    ASSUME OneRecordPerRow, NEW t, NEW evs, NEW st, NEW told, Taken(t, evs, st, told),
           NEW r \in Records, r \in Used
    PROVE  Taken(Takes("subject", t, r), InsertEvent(evs, r), Sighted(st, r), told)
<1> DEFINE e == Mem!Parsed(r, 0)
           id == Subject[r]
           m == st.ids
           sn == st.seen
           row == RowOf(t, id)
           node == Of(m, id)
           marked == NextRow("subject", row, r)
<1>1. /\ Like(t, m, told) /\ Held(evs, m, sn) /\ st = [ids |-> m, seen |-> sn]
      /\ t \in Table /\ m \in Nodes /\ DOMAIN t = DOMAIN m
      /\ evs \in Seq(Records) /\ sn \subseteq Mem!Event
  BY DEF Taken, Like, Held
<1>2. id \in IDs /\ Row[r] \in Records /\ Subject[Row[r]] = id
  BY SubjectAssumption, RowAssumption
<1>3. e \in Mem!Event /\ e.record = r
  BY ParsedIs
<1>4. row \in RowType /\ node \in Mem!Node /\ Same(id, row, node, told[id])
  BY <1>1, <1>2, RowOfIsARow, OfIsANode DEF Like
<1>5. /\ marked \in RowType /\ marked.fields = row.fields /\ marked.lastUsed = row.lastUsed
      /\ marked.shadow = row.shadow /\ marked.permissions = row.permissions
      /\ marked.privileged <=> (row.privileged \/ id \in Operator)
  <2>1. marked = [row EXCEPT !.privileged = row.privileged \/ id \in Operator]
    BY DEF NextRow
  <2>2. (row.privileged \/ id \in Operator) \in BOOLEAN
    OBVIOUS
  <2>3. PICK p \in BOOLEAN : p = (row.privileged \/ id \in Operator)
    BY <2>2, Zenon
  <2>4. p <=> (row.privileged \/ id \in Operator)
    BY <2>3, Zenon
  <2>5. marked = [row EXCEPT !.privileged = p]
    BY <2>1, <2>3, Zenon
  <2> HIDE DEF marked, row, id
  <2> QED BY <1>4, <2>4, <2>5 DEF RowType
<1>6. Takes("subject", t, r) = Put(t, id, marked)
  <2>1. r \in Elements("subject") /\ Owner("subject", r) = id
    BY DEF Elements, Owner
  <2> QED BY <1>1, <2>1, TakesIsAPut
<1>7. Same(id, marked, node, told[id])
  BY <1>4, <1>5 DEF Same, Alike, Says
<1>8. InsertEvent(evs, r) = IF Row[r] \in ToSet(evs) THEN evs ELSE Append(evs, Row[r])
  BY <1>1, InsertIsAnAppend
<1>9. e \in sn <=> Row[r] \in ToSet(evs)
  <2>1. e \in sn => Row[r] \in ToSet(evs)
    BY <1>1, <1>3 DEF Held
  <2>2. ASSUME Row[r] \in ToSet(evs) PROVE e \in sn
    <3>1. PICK f \in sn : Row[r] = Row[f.record] /\ f.record \in Used
                          /\ f = Mem!Parsed(f.record, 0)
      BY <1>1, <2>2 DEF Held
    <3>2. f.record = r
      BY <3>1 DEF OneRecordPerRow
    <3> QED BY <3>1, <3>2
  <2> QED BY <2>1, <2>2
<1> HIDE DEF e, id, m, sn, row, node, marked
<1>10. CASE e \in sn
  <2>1. Sighted(st, r) = st
    BY <1>10 DEF Sighted, e, sn
  <2>2. InsertEvent(evs, r) = evs
    BY <1>8, <1>9, <1>10
  <2>3. id \in DOMAIN m
    <3>1. PICK i \in DOMAIN evs : evs[i] = Row[r]
      BY <1>9, <1>10 DEF ToSet
    <3>2. PICK pos : InStepAt(evs, id, RecordsOf(node), pos)
      BY <1>1, <1>2 DEF Held, InStep, node
    <3>3. PICK k \in DOMAIN RecordsOf(node) : pos[k] = i
      BY <1>2, <3>1, <3>2 DEF InStepAt
    <3>4. DOMAIN RecordsOf(node) = DOMAIN node.events
      BY DEF RecordsOf
    <3>5. node.events # <<>>
      BY <3>3, <3>4
    <3>6. m \in Nodes
      BY <1>1
    <3>7. id \notin DOMAIN m => Of(m, id).events = <<>>
      BY <3>6, OfIsANode
    <3> QED BY <3>5, <3>7 DEF node
  <2>4. Mem!Put(m, id, node) = m
    <3>1. m \in [DOMAIN m -> Mem!Node]
      BY <1>1, NodesAre
    <3>2. node = m[id] /\ DOMAIN m \cup {id} = DOMAIN m
      <4>1. DOMAIN m \cup {id} = DOMAIN m
        BY <2>3
      <4>2. m \in Nodes
        BY <1>1
      <4>3. Of(m, id) = m[id]
        BY <2>3, <4>2, OfIsANode
      <4> QED BY <4>1, <4>3 DEF node
    <3>3. Mem!Put(m, id, node) = [i \in DOMAIN m |-> m[i]]
      <4>1. Mem!Put(m, id, node) = [i \in DOMAIN m \cup {id} |-> IF i = id THEN node ELSE m[i]]
        BY Zenon DEF Mem!Put
      <4> QED BY <3>2, <4>1
    <3> QED BY <3>1, <3>3
  <2>5. Like(Put(t, id, marked), Mem!Put(m, id, node), told)
    BY <1>1, <1>2, <1>4, <1>5, <1>7, PutLike
  <2> QED BY <1>1, <1>6, <2>1, <2>2, <2>4, <2>5 DEF Taken, m, sn
<1>11. CASE e \notin sn
  <2> DEFINE told1 == Append(node.events, e)
             seen1 == [node EXCEPT !.events = told1]
             m1 == Mem!Put(m, id, seen1)
             sn1 == sn \cup {e}
             evs1 == Append(evs, Row[r])
  <2>1. Sighted(st, r) = [ids |-> m1, seen |-> sn1]
    <3>1. Mem!WithEvent(m, Operator, id, e) = m1
      BY DEF Mem!WithEvent, Of, node
    <3> QED BY <1>11, <3>1 DEF Sighted, e, m, sn, id
  <2>2. InsertEvent(evs, r) = evs1 /\ evs1 \in Seq(Records)
    BY <1>1, <1>2, <1>8, <1>9, <1>11
  <2>3. node.events \in Seq(Mem!Event) /\ told1 \in Seq(Mem!Event)
    BY <1>3, <1>4 DEF Mem!Node
  <2> HIDE DEF told1
  <2>4. /\ seen1 \in Mem!Node /\ seen1.fields = node.fields /\ seen1.lastUsed = node.lastUsed
        /\ seen1.shadow = node.shadow /\ seen1.permissions = node.permissions
        /\ seen1.privileged = node.privileged /\ seen1.events = told1
    BY <1>4, <2>3 DEF Mem!Node
  <2> HIDE DEF seen1
  <2>5. Same(id, marked, seen1, told[id])
    BY <1>7, <2>4 DEF Same, Alike, Says
  <2>6. Like(Put(t, id, marked), m1, told)
    BY <1>1, <1>2, <1>5, <2>4, <2>5, PutLike
  <2>7. /\ Of(m1, id) = seen1 /\ \A i : i # id => Of(m1, i) = Of(m, i)
    BY <1>1, <1>2, <2>4, PutNode
  <2>8. RecordsOf(seen1) = Append(RecordsOf(node), r)
    <3> DEFINE es == node.events
    <3>1. /\ es \in Seq(Mem!Event) /\ Len(es) \in Nat /\ DOMAIN es = 1..Len(es)
          /\ told1 = Append(es, e) /\ DOMAIN told1 = 1..(Len(es) + 1)
          /\ told1[Len(es) + 1] = e /\ \A k \in 1..Len(es) : told1[k] = es[k]
      BY <1>3, <2>3 DEF told1
    <3>2. RecordsOf(seen1) = [k \in 1..(Len(es) + 1) |-> told1[k].record]
      BY <2>4, <3>1 DEF RecordsOf
    <3>3. RecordsOf(node) = [k \in 1..Len(es) |-> es[k].record] /\ RecordsOf(node) \in Seq(Records)
      BY <1>4, <3>1, RecordsOfNode DEF RecordsOf
    <3> HIDE DEF es
    <3>4. Len(RecordsOf(node)) = Len(es)
      BY <3>1, <3>3
    <3>5. Append(RecordsOf(node), r) = [k \in 1..(Len(es) + 1) |->
                                          IF k = Len(es) + 1 THEN r ELSE RecordsOf(node)[k]]
      BY <3>1, <3>3, <3>4
    <3>6. \A k \in 1..(Len(es) + 1) : k # Len(es) + 1 => k \in 1..Len(es)
      BY <3>1
    <3> QED BY <1>3, <3>1, <3>2, <3>3, <3>5, <3>6
  <2>9. ASSUME NEW i \in IDs PROVE InStep(evs1, i, RecordsOf(Of(m1, i)))
    <3>1. InStep(evs, i, RecordsOf(Of(m, i))) /\ RecordsOf(Of(m, i)) \in Seq(Records)
      BY <1>1, OfIsANode, RecordsOfNode DEF Held
    <3>2. CASE i = id
      BY <1>1, <2>7, <2>8, <3>1, <3>2, InStepGrows DEF node, id
    <3>3. CASE i # id
      BY <1>1, <2>7, <3>1, <3>3, InStepGrows DEF id
    <3> QED BY <3>2, <3>3
  <2>10. ToSet(evs1) = ToSet(evs) \cup {Row[r]}
    BY <1>1, <1>2, ToSetAppend
  <2> HIDE DEF m1, evs1
  <2>11. Held(evs1, m1, sn1)
    <3>1. sn1 \subseteq Mem!Event
      BY <1>1, <1>3
    <3>2. \A x \in ToSet(evs1) : \E f \in sn1 : x = Row[f.record]
      BY <1>1, <1>3, <2>10 DEF Held
    <3>3. \A f \in sn1 : /\ f.record \in Used /\ f = Mem!Parsed(f.record, 0)
                         /\ Row[f.record] \in ToSet(evs1)
      BY <1>1, <1>3, <2>10 DEF Held, e
    <3> QED BY <2>2, <2>9, <3>1, <3>2, <3>3 DEF Held
  <2> QED BY <1>6, <2>1, <2>2, <2>6, <2>11 DEF Taken
<1> QED BY <1>10, <1>11

LEMMA EventsLike ==
    ASSUME OneRecordPerRow, NEW t, NEW evs, NEW st, NEW told, Taken(t, evs, st, told),
           NEW xs \in Seq(Records), ToSet(xs) \subseteq Used
    PROVE  Taken(UpsertSubjects(t, xs), InsertEvents(evs, xs), MemEvents(st, xs), told)
<1> DEFINE N == Len(xs)
           a(k) == After("subject", t, xs, k)
           b(k) == After("record", evs, xs, k)
           c(k) == After("sighted", st, xs, k)
           Good == {k \in Nat : k <= N => Taken(a(k), b(k), c(k), told)}
<1>1. N \in Nat /\ \A k \in 1..N : xs[k] \in Records /\ xs[k] \in Used
  BY DEF ToSet
<1>2. /\ a(0) = t /\ \A k \in 1..N : a(k) = Takes("subject", a(k - 1), xs[k])
      /\ b(0) = evs /\ \A k \in 1..N : b(k) = Takes("record", b(k - 1), xs[k])
      /\ c(0) = st /\ \A k \in 1..N : c(k) = Takes("sighted", c(k - 1), xs[k])
  BY AfterNone, AfterNext
<1>3. /\ UpsertSubjects(t, xs) = a(N) /\ InsertEvents(evs, xs) = b(N) /\ MemEvents(st, xs) = c(N)
  BY AfterAll
<1>4. \A s, x : Takes("record", s, x) = InsertEvent(s, x) /\ Takes("sighted", s, x) = Sighted(s, x)
  BY DEF Takes
<1> HIDE DEF N, a, b, c
<1>5. 0 \in Good
  BY <1>2
<1>6. ASSUME NEW k \in Nat, k \in Good PROVE k + 1 \in Good
  <2> SUFFICES ASSUME k + 1 <= N PROVE Taken(a(k + 1), b(k + 1), c(k + 1), told)
    OBVIOUS
  <2>1. k + 1 \in 1..N /\ k <= N /\ (k + 1) - 1 = k
    BY <1>1
  <2>2. Taken(a(k), b(k), c(k), told) /\ xs[k + 1] \in Records /\ xs[k + 1] \in Used
    BY <1>1, <1>6, <2>1
  <2>3. /\ a(k + 1) = Takes("subject", a(k), xs[k + 1])
        /\ b(k + 1) = InsertEvent(b(k), xs[k + 1]) /\ c(k + 1) = Sighted(c(k), xs[k + 1])
    BY <1>2, <1>4, <2>1
  <2> HIDE DEF Good
  <2> QED BY <2>2, <2>3, SightedSame
<1>7. Nat \subseteq Good
  <2> HIDE DEF Good
  <2> QED BY <1>5, <1>6, SetInduction
<1>8. Taken(a(N), b(N), c(N), told)
  BY <1>1, <1>7
<1> QED BY <1>3, <1>8

(* The tables and the in-memory graph that was fed the same batches. *)
Mirrored ==
    /\ reports \in [IDs -> SUBSET Mem!Entry]
    /\ Like(rows, memory, reports) /\ Held(events, memory, seen)

(* An inventory batch, which `idryx load` flags, or a Passport batch.       *)
LEMMA BatchLike ==
    ASSUME NEW t, NEW m, NEW told, Like(t, m, told), NEW evs, NEW sn, Held(evs, m, sn),
           NEW xs \in Seq(Entry), told \in [IDs -> SUBSET Mem!Entry],
           NEW ys \in {xs, Flagged(xs)}
    PROVE  /\ Like(IngestIdentities(t, ys), MemIdentities(m, xs), Reported(told, xs))
           /\ Held(evs, MemIdentities(m, xs), sn)
           /\ Reported(told, xs) \in [IDs -> SUBSET Mem!Entry]
<1>1. ys \in Seq(Entry) /\ Len(ys) = Len(xs)
  <2>1. Len(Flagged(xs)) = Len(xs) /\ Flagged(xs) \in Seq(Entry)
    <3>1. Flagged(xs) \in Seq(Entry)
      BY FlaggedIsABatch
    <3>2. DOMAIN Flagged(xs) = DOMAIN xs
      BY DEF Flagged
    <3>3. DOMAIN Flagged(xs) = 1..Len(Flagged(xs)) /\ DOMAIN xs = 1..Len(xs)
          /\ Len(Flagged(xs)) \in Nat /\ Len(xs) \in Nat
      BY <3>1
    <3>4. Len(Flagged(xs)) = Len(xs)
      <4> DEFINE p == Len(Flagged(xs))
                 q == Len(xs)
      <4> HIDE DEF p, q
      <4>1. 1..p = 1..q /\ p \in Nat /\ q \in Nat
        BY <3>2, <3>3 DEF p, q
      <4>2. p = q
        BY <4>1
      <4> QED BY <4>2 DEF p, q
    <3> QED BY <3>1, <3>4
  <2> QED BY <2>1
<1>2. ASSUME NEW k \in 1..Len(xs) PROVE SameEntry(ys[k], xs[k])
  <2> DEFINE x == xs[k]
             mark == x.privileged \/ x.id \in Operator
  <2>1. x \in Entry /\ k \in DOMAIN xs
    OBVIOUS
  <2>2. CASE ys = xs
    BY <2>2 DEF SameEntry
  <2>3. CASE ys = Flagged(xs)
    <3>1. ys[k] = [x EXCEPT !.privileged = mark]
      BY <2>1, <2>3 DEF Flagged
    <3>2. mark \in BOOLEAN
      OBVIOUS
    <3>3. PICK p \in BOOLEAN : p = mark
      BY <3>2, Zenon
    <3>4. p <=> mark
      BY <3>3, Zenon
    <3>5. ys[k] = [x EXCEPT !.privileged = p]
      BY <3>1, <3>3, Zenon
    <3> HIDE DEF x
    <3>6. /\ ys[k].id = x.id /\ ys[k].fields = x.fields /\ ys[k].lastUsed = x.lastUsed
          /\ ys[k].shadow = x.shadow /\ ys[k].permissions = x.permissions
          /\ ys[k].privileged = p
      BY <2>1, <3>5 DEF Entry
    <3> QED BY <3>4, <3>6 DEF SameEntry, x
  <2> QED BY <2>2, <2>3
<1>3. /\ Like(IngestIdentities(t, ys), MemIdentities(m, xs), Reported(told, xs))
      /\ \A id \in IDs : Of(MemIdentities(m, xs), id).events = Of(m, id).events
      /\ Reported(told, xs) \in [IDs -> SUBSET Mem!Entry]
  BY <1>1, <1>2, IdentitiesLike
<1>4. \A id \in IDs : RecordsOf(Of(MemIdentities(m, xs), id)) = RecordsOf(Of(m, id))
  BY <1>3 DEF RecordsOf
<1>5. Held(evs, MemIdentities(m, xs), sn)
  BY <1>4 DEF Held
<1> QED BY <1>3, <1>5

LEMMA MirroredAtFirst == OneRecordPerRow /\ Init => Mirrored
<1> SUFFICES ASSUME OneRecordPerRow, Init PROVE Mirrored
  OBVIOUS
<1> DEFINE none == [i \in {} |-> Mem!NewNode(FALSE)]
           untold == [id \in IDs |-> {}]
<1>1. PICK l \in Earlier : InitAfter(l)
  BY DEF Init
<1>2. /\ l \in Load /\ l.identities \in Seq(Entry) /\ l.events \in Seq(Records)
      /\ l.passports \in Seq(Entry) /\ ToSet(l.events) \subseteq Used
  BY LoadsAssumption DEF Load, Used
<1>3. Like(NoRows, none, untold) /\ untold \in [IDs -> SUBSET Mem!Entry]
  <2>1. NoRows \in Table /\ DOMAIN NoRows = {} /\ none \in Nodes /\ DOMAIN none = {}
    BY NoRowsIsATable, EmptyNodes
  <2> HIDE DEF none
  <2>2. ASSUME NEW id \in IDs PROVE Same(id, RowOf(NoRows, id), Of(none, id), {})
    <3>1. /\ Of(none, id).fields = [f \in Fields |-> NoValue]
          /\ Of(none, id).lastUsed = 0 /\ Of(none, id).shadow = FALSE
          /\ Of(none, id).permissions = {}
          /\ Of(none, id).privileged <=> id \in Operator
      <4>1. PICK n \in Nodes : n = none
        BY <2>1
      <4>2. id \notin DOMAIN n
        BY <2>1, <4>1
      <4> QED BY <4>1, <4>2, OfNobody
    <3>2. RowOf(NoRows, id) = NewRow(FALSE)
      BY <2>1 DEF RowOf
    <3>3. /\ NewRow(FALSE).fields = [f \in Fields |-> NoValue] /\ NewRow(FALSE).lastUsed = 0
          /\ NewRow(FALSE).shadow = FALSE /\ NewRow(FALSE).permissions = {}
          /\ NewRow(FALSE).privileged = FALSE
      BY DEF NewRow
    <3>4. PICK row, node : row = RowOf(NoRows, id) /\ node = Of(none, id)
      OBVIOUS
    <3>5. Alike(id, row, node)
      BY <3>1, <3>2, <3>3, <3>4 DEF Alike
    <3>6. Says({}, row) /\ Says({}, node)
      BY <3>1, <3>2, <3>3, <3>4, ListsAssumption DEF Says
    <3> QED BY <3>4, <3>5, <3>6 DEF Same
  <2> QED BY <2>1, <2>2 DEF Like
<1>4. Held(<<>>, none, {})
  <2>1. none \in Nodes /\ DOMAIN none = {}
    BY EmptyNodes
  <2> HIDE DEF none
  <2>2. ASSUME NEW id \in IDs PROVE InStep(<<>>, id, RecordsOf(Of(none, id)))
    <3>1. Of(none, id).events = <<>>
      BY <2>1, OfIsANode
    <3>2. DOMAIN <<>> = {}
      OBVIOUS
    <3>3. DOMAIN RecordsOf(Of(none, id)) = {}
      BY <3>1, <3>2 DEF RecordsOf
    <3> DEFINE recs == RecordsOf(Of(none, id))
    <3> HIDE DEF recs
    <3>4. InStepAt(<<>>, id, recs, [k \in {} |-> 0])
      BY <3>2, <3>3 DEF InStepAt, recs
    <3> QED BY <3>4 DEF InStep, recs
  <2>3. ToSet(<<>>) = {} /\ <<>> \in Seq(Records)
    BY DEF ToSet
  <2> QED BY <2>2, <2>3 DEF Held
<1> HIDE DEF none, untold
<1> DEFINE t1 == IngestIdentities(NoRows, Flagged(l.identities))
           m1 == MemIdentities(none, l.identities)
           told1 == Reported(untold, l.identities)
           st == [ids |-> m1, seen |-> {}]
           t2 == UpsertSubjects(t1, l.events)
           evs2 == InsertEvents(<<>>, l.events)
           then == MemEvents(st, l.events)
<1>5. Like(t1, m1, told1) /\ Held(<<>>, m1, {}) /\ told1 \in [IDs -> SUBSET Mem!Entry]
  BY <1>2, <1>3, <1>4, BatchLike
<1>6. Taken(t1, <<>>, st, told1)
  <2> HIDE DEF t1, m1, told1
  <2> QED BY <1>5 DEF Taken
<1> HIDE DEF t1, m1, told1, st
<1>7. Taken(t2, evs2, then, told1)
  BY <1>2, <1>6, EventsLike
<1> HIDE DEF t2, evs2, then
<1>8. Like(t2, then.ids, told1) /\ Held(evs2, then.ids, then.seen)
  BY <1>7 DEF Taken
<1>9. /\ Like(IngestIdentities(t2, l.passports), MemIdentities(then.ids, l.passports),
              Reported(told1, l.passports))
      /\ Held(evs2, MemIdentities(then.ids, l.passports), then.seen)
      /\ Reported(told1, l.passports) \in [IDs -> SUBSET Mem!Entry]
  BY <1>2, <1>5, <1>8, BatchLike
<1>10. /\ rows = IngestIdentities(t2, l.passports) /\ events = evs2
       /\ memory = MemIdentities(then.ids, l.passports) /\ seen = then.seen
       /\ reports = Reported(told1, l.passports)
  BY <1>1 DEF InitAfter, CleanRows, t1, m1, told1, st, t2, evs2, then, none, untold
<1> QED BY <1>9, <1>10 DEF Mirrored

LEMMA MirroredKept ==
    ASSUME OneRecordPerRow, Db, Serial, Mirrored, [Next]_vars
    PROVE  Mirrored'
<1>1. CASE UNCHANGED <<rows, events, memory, seen, reports>>
  BY <1>1 DEF Mirrored
<1>2. ASSUME NEW s \in Sessions, load[s] # NoLoad
      PROVE  /\ load[s].identities \in Seq(Entry) /\ load[s].events \in Seq(Records)
             /\ load[s].passports \in Seq(Entry) /\ ToSet(load[s].events) \subseteq Used
  <2>1. load[s] \in Loads /\ load[s] \in Load
    BY <1>2, LoadOf
  <2> QED BY <2>1 DEF Load, Used
<1>3. ASSUME NEW s \in Sessions PROVE Alone(s)
  BY CommitsAreAlone
<1>4. /\ Like(rows, memory, reports) /\ Held(events, memory, seen)
      /\ reports \in [IDs -> SUBSET Mem!Entry]
  BY DEF Mirrored
<1>5. ASSUME NEW s \in Sessions, CommitIdentities(s) PROVE Mirrored'
  <2>1. /\ load[s] # NoLoad /\ memory' = MemIdentities(memory, load[s].identities)
        /\ reports' = Reported(reports, load[s].identities) /\ seen' = seen
    BY <1>5 DEF CommitIdentities, Commit
  <2>2. rows' = IngestIdentities(rows, Flagged(load[s].identities)) /\ events' = events
    BY <1>3, <1>5 DEF Alone
  <2>3. PICK xs \in Seq(Entry) : xs = load[s].identities
    BY <1>2, <2>1
  <2>4. /\ Like(IngestIdentities(rows, Flagged(xs)), MemIdentities(memory, xs),
                Reported(reports, xs))
        /\ Held(events, MemIdentities(memory, xs), seen)
        /\ Reported(reports, xs) \in [IDs -> SUBSET Mem!Entry]
    BY <1>4, <2>3, BatchLike
  <2> QED BY <2>1, <2>2, <2>3, <2>4 DEF Mirrored
<1>6. ASSUME NEW s \in Sessions, CommitPassports(s) PROVE Mirrored'
  <2>1. /\ load[s] # NoLoad /\ memory' = MemIdentities(memory, load[s].passports)
        /\ reports' = Reported(reports, load[s].passports) /\ seen' = seen
    BY <1>6 DEF CommitPassports, Commit
  <2>2. rows' = IngestIdentities(rows, load[s].passports) /\ events' = events
    BY <1>3, <1>6 DEF Alone
  <2>3. PICK xs \in Seq(Entry) : xs = load[s].passports
    BY <1>2, <2>1
  <2>4. /\ Like(IngestIdentities(rows, xs), MemIdentities(memory, xs), Reported(reports, xs))
        /\ Held(events, MemIdentities(memory, xs), seen)
        /\ Reported(reports, xs) \in [IDs -> SUBSET Mem!Entry]
    BY <1>4, <2>3, BatchLike
  <2> QED BY <2>1, <2>2, <2>3, <2>4 DEF Mirrored
<1>7. ASSUME NEW s \in Sessions, CommitEvents(s) PROVE Mirrored'
  <2> DEFINE st == [ids |-> memory, seen |-> seen]
             g == MemEvents(st, load[s].events)
  <2>1. /\ load[s] # NoLoad /\ memory' = g.ids /\ seen' = g.seen /\ reports' = reports
    BY <1>7 DEF CommitEvents, Commit
  <2>2. /\ rows' = UpsertSubjects(rows, load[s].events)
        /\ events' = InsertEvents(events, load[s].events)
    BY <1>3, <1>7 DEF Alone
  <2>3. Taken(rows, events, st, reports)
    BY <1>4 DEF Taken
  <2> HIDE DEF st
  <2>4. Taken(UpsertSubjects(rows, load[s].events), InsertEvents(events, load[s].events), g,
              reports)
    BY <1>2, <2>1, <2>3, EventsLike
  <2> HIDE DEF g
  <2> QED BY <1>4, <2>1, <2>2, <2>4 DEF Mirrored, Taken
<1>8. ASSUME NEW s \in Sessions, \/ \E l \in Loads : StartLoad(s, l)
                                 \/ WriteNext(s) \/ AbortLoad(s) \/ BreakDeadlock(s)
      PROVE  UNCHANGED <<rows, events, memory, seen, reports>>
  <2>1. CASE \E l \in Loads : StartLoad(s, l)
    BY <2>1 DEF StartLoad
  <2>2. CASE WriteNext(s)
    BY <2>2 DEF WriteNext
  <2>3. CASE AbortLoad(s) \/ BreakDeadlock(s)
    BY <2>3 DEF AbortLoad, BreakDeadlock, Fail
  <2> QED BY <1>8, <2>1, <2>2, <2>3
<1>9. ASSUME \/ ReadFlags \/ ReadIdentities \/ ReadLists \/ ReadActions \/ ReadPermissions
             \/ ReadEvents \/ UNCHANGED vars
      PROVE  UNCHANGED <<rows, events, memory, seen, reports>>
  BY <1>9 DEF ReadFlags, ReadIdentities, ReadLists, ReadActions, ReadPermissions,
              ReadEvents, vars, loadVars
<1> QED BY <1>1, <1>5, <1>6, <1>7, <1>8, <1>9 DEF Next

-----------------------------------------------------------------------------
(* The events of a quiet snapshot are in the order a detector reads them    *)
(* from the in-memory graph.                                               *)

RankIn(recs, S, i) == Cardinality({k \in S : Before(recs, k, i)})

LEMMA RankIsOne ==
    ASSUME NEW recs \in Seq(Records), NEW S \in SUBSET DOMAIN recs, NEW i \in S, NEW j \in S,
           RankIn(recs, S, i) = RankIn(recs, S, j)
    PROVE  i = j
<1> DEFINE Rank(x) == Cardinality({k \in S : Before(recs, k, x)})
<1>1. /\ Cardinality(S) \in Nat
      /\ \A x, y \in S : Before(recs, y, x) => Rank(y) < Rank(x)
  BY RanksAreOnto
<1>2. Rank(i) \in Nat
  <2>1. IsFiniteSet(S)
    <3>1. DOMAIN recs = 1..Len(recs) /\ Len(recs) \in Int /\ 1 \in Int
      OBVIOUS
    <3>2. IsFiniteSet(1..Len(recs))
      BY <3>1, FS_Interval
    <3> QED BY <3>1, <3>2, FS_Subset
  <2>2. {k \in S : Before(recs, k, i)} \in SUBSET S
    OBVIOUS
  <2> QED BY <2>1, <2>2, FS_Subset, FS_CardinalityType
<1>3. Rank(i) = Rank(j)
  BY DEF RankIn
<1>4. i \in Nat /\ j \in Nat /\ TimeOf[recs[i]] \in Nat /\ TimeOf[recs[j]] \in Nat
  BY TimeOfAssumption
<1>5. i # j => Before(recs, i, j) \/ Before(recs, j, i)
  BY <1>4 DEF Before
<1> HIDE DEF Rank
<1> QED BY <1>1, <1>2, <1>3, <1>5

LEMMA InStepSorts ==
    ASSUME NEW evs \in Seq(Records), NEW recs \in Seq(Records), NEW id, InStep(evs, id, recs)
    PROVE  EventsOf(evs, id) = [k \in DOMAIN Chronological(recs) |-> Row[Chronological(recs)[k]]]
<1> DEFINE S == {i \in DOMAIN evs : Subject[evs[i]] = id}
           D == DOMAIN recs
           RankS(x) == Cardinality({k \in S : Before(evs, k, x)})
           RankD(x) == Cardinality({k \in D : Before(recs, k, x)})
<1>1. PICK pos : InStepAt(evs, id, recs, pos)
  BY DEF InStep
<1>2. /\ pos \in [D -> S]
      /\ \A i, j \in D : i < j => pos[i] < pos[j]
      /\ \A i \in S : \E k \in D : pos[k] = i
      /\ \A k \in D : evs[pos[k]] = Row[recs[k]]
  BY <1>1 DEF InStepAt
<1>3. /\ D \subseteq Nat /\ S \subseteq Nat /\ S \in SUBSET DOMAIN evs /\ D \in SUBSET DOMAIN recs
      /\ \A k \in D : recs[k] \in Records
  OBVIOUS
<1>4. EventsOf(evs, id) = InOrder(evs, S) /\ Chronological(recs) = InOrder(recs, D)
  BY DEF EventsOf, Chronological
<1> HIDE DEF S, D
<1>5. ASSUME NEW i \in D, NEW j \in D
      PROVE  Before(evs, pos[i], pos[j]) <=> Before(recs, i, j)
  <2>1. /\ TimeOf[evs[pos[i]]] = TimeOf[recs[i]] /\ TimeOf[evs[pos[j]]] = TimeOf[recs[j]]
        /\ pos[i] \in Nat /\ pos[j] \in Nat /\ i \in Nat /\ j \in Nat
    BY <1>2, <1>3, RowAssumption
  <2>2. pos[i] < pos[j] <=> i < j
    <3>1. i < j \/ i = j \/ j < i
      BY <2>1
    <3> QED BY <1>2, <2>1, <3>1
  <2> QED BY <2>1, <2>2 DEF Before
<1>6. IsFiniteSet(D)
  <2>1. D = 1..Len(recs) /\ Len(recs) \in Int /\ 1 \in Int
    BY DEF D
  <2> QED BY <2>1, FS_Interval
<1>7. ASSUME NEW A \in SUBSET D, NEW B \in SUBSET S, \A i \in D : pos[i] \in B <=> i \in A
      PROVE  Cardinality(A) = Cardinality(B)
  <2> DEFINE f == [i \in A |-> pos[i]]
  <2>1. f \in [A -> B]
    BY <1>2, <1>7
  <2>2. \A i \in A : f[i] = pos[i]
    OBVIOUS
  <2> HIDE DEF f
  <2>3. ASSUME NEW i \in A, NEW j \in A, f[i] = f[j] PROVE i = j
    <3>1. i \in Nat /\ j \in Nat /\ pos[i] \in Nat /\ pos[j] \in Nat /\ i \in D /\ j \in D
      BY <1>2, <1>3
    <3>2. pos[i] = pos[j]
      BY <2>2, <2>3
    <3> QED BY <1>2, <3>1, <3>2
  <2>4. \A b \in B : \E i \in A : f[i] = b
    BY <1>2, <1>7, <2>2
  <2>5. DOMAIN f = A
    BY <2>1
  <2>6. f \in Bijection(A, B)
    <3>1. f \in Injection(A, B)
      BY <2>1, <2>3, <2>5 DEF Injection, IsInjective
    <3>2. f \in Surjection(A, B)
      BY <2>1, <2>4 DEF Surjection
    <3> QED BY <3>1, <3>2 DEF Bijection
  <2>7. IsFiniteSet(A)
    BY <1>6, FS_Subset
  <2> QED BY <2>6, <2>7, FS_Bijection DEF ExistsBijection
<1>8. Cardinality(S) = Cardinality(D)
  BY <1>2, <1>7
<1>9. ASSUME NEW i \in D PROVE RankS(pos[i]) = RankD(i)
  <2> DEFINE A == {k \in D : Before(recs, k, i)}
             B == {k \in S : Before(evs, k, pos[i])}
  <2>1. A \in SUBSET D /\ B \in SUBSET S /\ \A k \in D : pos[k] \in B <=> k \in A
    BY <1>2, <1>5
  <2> HIDE DEF A, B
  <2>2. Cardinality(A) = Cardinality(B)
    BY <1>7, <2>1
  <2> QED BY <2>2 DEF A, B
<1> DEFINE N == Cardinality(D)
           atS == [n \in 1..N |-> CHOOSE i \in S : RankS(i) = n - 1]
           atD == [n \in 1..N |-> CHOOSE i \in D : RankD(i) = n - 1]
<1>10. \A n \in 1..N : atS[n] \in S /\ RankS(atS[n]) = n - 1
  <2>1. \A n \in 1..N : \E i \in S : RankS(i) = n - 1
    BY <1>3, <1>8, RanksAreOnto
  <2> HIDE DEF RankS
  <2> QED BY <2>1
<1>11. \A n \in 1..N : atD[n] \in D /\ RankD(atD[n]) = n - 1
  <2>1. \A n \in 1..N : \E i \in D : RankD(i) = n - 1
    BY <1>3, RanksAreOnto
  <2> HIDE DEF RankD
  <2> QED BY <2>1
<1>12. /\ InOrder(evs, S) = [n \in 1..N |-> evs[atS[n]]]
       /\ InOrder(recs, D) = [n \in 1..N |-> recs[atD[n]]]
  BY <1>8 DEF InOrder
<1> HIDE DEF atS, atD, N
<1>13. ASSUME NEW n \in 1..N PROVE evs[atS[n]] = Row[recs[atD[n]]]
  <2>1. atD[n] \in D /\ pos[atD[n]] \in S /\ atS[n] \in S
    BY <1>2, <1>10, <1>11
  <2>2. RankS(pos[atD[n]]) = RankS(atS[n])
    <3> HIDE DEF RankS, RankD
    <3> QED BY <1>9, <1>10, <1>11, <2>1
  <2>3. pos[atD[n]] = atS[n]
    <3>1. PICK i \in S, j \in S : i = pos[atD[n]] /\ j = atS[n]
      BY <2>1
    <3>2. RankIn(evs, S, i) = RankIn(evs, S, j)
      BY <2>2, <3>1 DEF RankIn
    <3>3. i = j
      BY <1>3, <3>2, RankIsOne
    <3> QED BY <3>1, <3>3
  <2> QED BY <1>2, <2>1, <2>3
<1>14. DOMAIN InOrder(recs, D) = 1..N /\ \A n \in 1..N : InOrder(recs, D)[n] = recs[atD[n]]
  BY <1>12
<1> HIDE DEF RankS, RankD
<1> QED BY <1>4, <1>12, <1>13, <1>14

-----------------------------------------------------------------------------
(* What the queries so far have read into a node, while no load commits.    *)

UniqueNames(P) == \A p, q \in P : p.name = q.name => p = q

Copies(n, evs, id, row, node) ==
    /\ \A f \in Fields \ Lists : node.fields[f] = row.fields[f]
    /\ \A f \in Lists : node.fields[f] = IF n >= 3 THEN row.fields[f] ELSE NoValue
    /\ node.lastUsed = row.lastUsed
    /\ node.shadow <=> row.shadow
    /\ node.privileged <=> (row.privileged \/ (n = Delivered /\ id \in Operator))
    /\ n < 5 => node.permissions = {}
    /\ n >= 5 /\ UniqueNames(row.permissions) => node.permissions = row.permissions
    /\ n = Delivered => RecordsOf(node) = EventsOf(evs, id)

Granted(row, n) == UNION {p.actions : p \in {q \in row.permissions : q.name = n}}

Faithful ==
    quiet =>
      /\ query = 1 => flags = {id \in DOMAIN rows : rows[id].privileged}
      /\ query >= 2 => /\ DOMAIN snap = DOMAIN rows
                       /\ \A id \in DOMAIN rows :
                            Copies(query, events, id, rows[id], snap[id])
      /\ query = 4 => \A id \in DOMAIN rows : \A n \in Names :
                         actionsByPerm[id][n] = Granted(rows[id], n)

LEMMA FaithfulIdentities ==
    ASSUME Db, Reading, Faithful, ReadIdentities PROVE Faithful'
<1>1. /\ query = 1 /\ query' = 2 /\ quiet' = quiet /\ rows' = rows /\ events' = events
      /\ DOMAIN snap' = DOMAIN rows
  BY DEF ReadIdentities, loadVars
<1>2. ASSUME quiet, NEW id \in DOMAIN rows PROVE Copies(2, events, id, rows[id], snap'[id])
  <2> DEFINE Flag == id \in flags \/ rows[id].privileged
             Columns == [f \in Fields |-> IF f \in Lists THEN NoValue ELSE rows[id].fields[f]]
  <2>1. Flag <=> rows[id].privileged
    BY <1>1, <1>2 DEF Faithful
  <2>2. snap'[id] = [fields |-> Columns, lastUsed |-> rows[id].lastUsed, privileged |-> Flag,
                     shadow |-> rows[id].shadow, permissions |-> {}, events |-> <<>>]
    BY ColumnsRead
  <2>3. PICK node : node = snap'[id]
    OBVIOUS
  <2> HIDE DEF Flag
  <2>4. /\ node.fields = Columns /\ node.lastUsed = rows[id].lastUsed
        /\ node.privileged = Flag /\ node.shadow = rows[id].shadow /\ node.permissions = {}
    <3> HIDE DEF Columns
    <3> QED BY <2>2, <2>3
  <2>5. node.privileged <=> rows[id].privileged
    BY <2>1, <2>4
  <2>6. Copies(2, events, id, rows[id], node)
    BY <2>4, <2>5, ListsAssumption DEF Copies, Delivered
  <2> QED BY <2>3, <2>6
<1> QED BY <1>1, <1>2 DEF Faithful

(* A query that replaces the nodes of some identities the store knows.      *)
LEMMA FaithfulAttached ==
    ASSUME Db, Reading, quiet, Faithful, query >= 2, NEW owners \in SUBSET DOMAIN rows, NEW node,
           query' = query + 1, UNCHANGED <<rows, events>>,
           snap' = [id \in DOMAIN snap \cup owners |->
                      IF id \in owners THEN node[id] ELSE snap[id]],
           query' # 4 /\ query' # Delivered,
           \A id \in owners : Copies(query', events, id, rows[id], node[id]),
           \A id \in DOMAIN rows \ owners :
              Copies(query, events, id, rows[id], snap[id]) =>
                Copies(query', events, id, rows[id], snap[id])
    PROVE  Faithful'
<1>1. query \in 0..Delivered
  BY DEF Reading
<1>2. DOMAIN snap = DOMAIN rows
  BY DEF Faithful
<1>3. DOMAIN snap' = DOMAIN rows
  BY <1>2
<1>4. ASSUME NEW id \in DOMAIN rows PROVE Copies(query', events, id, rows[id], snap'[id])
  <2>1. CASE id \in owners
    BY <1>2, <2>1
  <2>2. CASE id \notin owners
    BY <1>2, <2>2 DEF Faithful
  <2> QED BY <2>1, <2>2
<1>5. query' # 1
  BY <1>1 DEF Delivered
<1> QED BY <1>3, <1>4, <1>5 DEF Faithful

LEMMA FaithfulLists ==
    ASSUME Db, Reading, quiet, Faithful, ReadLists PROVE Faithful'
<1> DEFINE owners == {id \in DOMAIN rows : \E f \in Lists : rows[id].fields[f] # NoValue}
           Listed(id) == [f \in Fields |-> IF f \in Lists THEN rows[id].fields[f]
                                           ELSE snap[id].fields[f]]
           node == [id \in owners |-> [snap[id] EXCEPT !.fields = Listed(id)]]
<1>1. /\ query = 2 /\ query' = 3 /\ UNCHANGED <<rows, events>>
      /\ DOMAIN snap = DOMAIN rows
      /\ \A id \in DOMAIN rows : Copies(2, events, id, rows[id], snap[id])
  <2>1. query = 2 /\ query' = 3 /\ UNCHANGED loadVars
    BY DEF ReadLists
  <2> QED BY <2>1 DEF loadVars, Faithful
<1>2. snap' = [id \in DOMAIN snap \cup owners |-> IF id \in owners THEN node[id] ELSE snap[id]]
  <2>1. ASSUME NEW id \in owners PROVE Mem!Ensure(snap, flags, id) = snap[id]
    <3>1. id \in DOMAIN snap /\ snap \in Nodes
      BY <1>1 DEF Reading
    <3> QED BY <3>1, EnsuredIsANode
  <2>2. snap' = [id \in DOMAIN snap \cup owners |->
                   IF id \in owners
                   THEN [Mem!Ensure(snap, flags, id) EXCEPT !.fields =
                           [f \in Fields |-> IF f \in Lists THEN rows[id].fields[f] ELSE @[f]]]
                   ELSE snap[id]]
    BY DEF ReadLists, Attach
  <2> QED BY <2>1, <2>2
<1>3. ASSUME NEW id \in owners PROVE Copies(3, events, id, rows[id], node[id])
  <2>1. Copies(2, events, id, rows[id], snap[id]) /\ snap[id] \in Mem!Node
    BY <1>1, NodesAre DEF Reading
  <2>2. PICK old, new : old = snap[id] /\ new = node[id]
    OBVIOUS
  <2>3. new = [old EXCEPT !.fields = Listed(id)]
    BY <2>2
  <2>4. \A f \in Fields : Listed(id)[f] = IF f \in Lists THEN rows[id].fields[f] ELSE old.fields[f]
    BY <2>2
  <2> HIDE DEF Listed
  <2>5. /\ new.fields = Listed(id) /\ new.lastUsed = old.lastUsed /\ new.shadow = old.shadow
        /\ new.privileged = old.privileged /\ new.permissions = old.permissions
    BY <2>1, <2>2, <2>3 DEF Mem!Node
  <2> HIDE DEF node
  <2>6. Copies(3, events, id, rows[id], new)
    BY <2>1, <2>2, <2>4, <2>5, ListsAssumption DEF Copies, Delivered
  <2> QED BY <2>2, <2>6
<1>4. ASSUME NEW id \in DOMAIN rows \ owners, Copies(2, events, id, rows[id], snap[id])
      PROVE  Copies(3, events, id, rows[id], snap[id])
  <2>1. \A f \in Lists : rows[id].fields[f] = NoValue
    BY <1>4
  <2> QED BY <1>4, <2>1 DEF Copies, Delivered
<1> HIDE DEF owners, node
<1>5. owners \in SUBSET DOMAIN rows
  BY DEF owners
<1>6. query' # 4 /\ query' # Delivered /\ query >= 2 /\ query' = query + 1
  BY <1>1 DEF Delivered
<1> QED BY <1>1, <1>2, <1>3, <1>4, <1>5, <1>6, FaithfulAttached

LEMMA FaithfulPermissions ==
    ASSUME Db, Reading, quiet, Faithful, ReadPermissions PROVE Faithful'
<1> DEFINE owners == {id \in DOMAIN rows : rows[id].permissions # {}}
           Grants(id) == {[p EXCEPT !.actions = actionsByPerm[id][p.name]] :
                            p \in rows[id].permissions}
           node == [id \in owners |-> [snap[id] EXCEPT !.permissions = Grants(id)]]
<1>1. /\ query = 4 /\ query' = 5 /\ UNCHANGED <<rows, events>>
      /\ DOMAIN snap = DOMAIN rows
      /\ \A id \in DOMAIN rows : Copies(4, events, id, rows[id], snap[id])
      /\ \A id \in DOMAIN rows : \A n \in Names : actionsByPerm[id][n] = Granted(rows[id], n)
  <2>1. query = 4 /\ query' = 5 /\ UNCHANGED loadVars
    BY DEF ReadPermissions
  <2> QED BY <2>1 DEF loadVars, Faithful
<1>2. snap' = [id \in DOMAIN snap \cup owners |-> IF id \in owners THEN node[id] ELSE snap[id]]
  <2>1. ASSUME NEW id \in owners PROVE Mem!Ensure(snap, flags, id) = snap[id]
    <3>1. id \in DOMAIN snap /\ snap \in Nodes
      BY <1>1 DEF Reading
    <3> QED BY <3>1, EnsuredIsANode
  <2>2. snap' = [id \in DOMAIN snap \cup owners |->
                   IF id \in owners
                   THEN [Mem!Ensure(snap, flags, id) EXCEPT !.permissions = Grants(id)]
                   ELSE snap[id]]
    BY DEF ReadPermissions, Attach
  <2> QED BY <2>1, <2>2
<1>3. ASSUME NEW id \in owners PROVE Copies(5, events, id, rows[id], node[id])
  <2>1. Copies(4, events, id, rows[id], snap[id]) /\ snap[id] \in Mem!Node
    BY <1>1, NodesAre DEF Reading
  <2>2. PICK old, new, P : old = snap[id] /\ new = node[id] /\ P = rows[id].permissions
    OBVIOUS
  <2>3. new = [old EXCEPT !.permissions = Grants(id)]
    BY <2>2
  <2>4. ASSUME UniqueNames(P) PROVE Grants(id) = P
    <3>1. P \subseteq Permission
      BY <2>2, TableIs DEF Db, RowType
    <3>2. ASSUME NEW p \in P PROVE [p EXCEPT !.actions = actionsByPerm[id][p.name]] = p
      <4>1. {q \in P : q.name = p.name} = {p}
        BY <2>4 DEF UniqueNames
      <4>2. p.name \in Names /\ p = [p EXCEPT !.actions = p.actions]
        BY <3>1 DEF Permission
      <4>3. actionsByPerm[id][p.name] = UNION {q.actions : q \in {q \in P : q.name = p.name}}
        BY <1>1, <2>2, <4>2 DEF Granted
      <4>4. actionsByPerm[id][p.name] = p.actions
        BY <4>1, <4>3
      <4> QED BY <4>2, <4>4
    <3> QED BY <2>2, <3>2
  <2> HIDE DEF Grants
  <2>5. /\ new.fields = old.fields /\ new.lastUsed = old.lastUsed /\ new.shadow = old.shadow
        /\ new.privileged = old.privileged /\ new.permissions = Grants(id)
    BY <2>1, <2>2, <2>3 DEF Mem!Node
  <2> HIDE DEF node
  <2>6. Copies(5, events, id, rows[id], new)
    BY <2>1, <2>2, <2>4, <2>5 DEF Copies, Delivered
  <2> QED BY <2>2, <2>6
<1>4. ASSUME NEW id \in DOMAIN rows \ owners, Copies(4, events, id, rows[id], snap[id])
      PROVE  Copies(5, events, id, rows[id], snap[id])
  <2>1. rows[id].permissions = {}
    BY <1>4
  <2> QED BY <1>4, <2>1 DEF Copies, Delivered
<1> HIDE DEF owners, node
<1>5. owners \in SUBSET DOMAIN rows
  BY DEF owners
<1>6. query' # 4 /\ query' # Delivered /\ query >= 2 /\ query' = query + 1
  BY <1>1 DEF Delivered
<1> QED BY <1>1, <1>2, <1>3, <1>4, <1>5, <1>6, FaithfulAttached

LEMMA EventsOfNone ==
    ASSUME NEW evs \in Seq(Records), NEW id, \A r \in ToSet(evs) : Subject[r] # id
    PROVE  EventsOf(evs, id) = <<>>
<1>1. EventsOf(evs, id) \in Seq(Records) /\ ToSet(EventsOf(evs, id)) = {}
  BY EventsOfAnIdentity DEF About
<1> DEFINE q == EventsOf(evs, id)
<1>2. q \in Seq(Records) /\ \A k \in DOMAIN q : q[k] \in ToSet(q)
  BY <1>1 DEF ToSet
<1> HIDE DEF q
<1>3. q = <<>>
  BY <1>1, <1>2 DEF q
<1> QED BY <1>3 DEF q

(* Every event is about an identity that has a row. *)
LEMMA EventsHaveRows ==
    ASSUME Mirrored, NEW r \in ToSet(events)
    PROVE  Subject[r] \in DOMAIN rows
<1> DEFINE id == Subject[r]
<1>1. /\ events \in Seq(Records) /\ memory \in Nodes /\ DOMAIN rows = DOMAIN memory
      /\ \A i \in IDs : InStep(events, i, RecordsOf(Of(memory, i)))
  BY DEF Mirrored, Like, Held
<1>2. PICK i \in DOMAIN events : events[i] = r
  BY DEF ToSet
<1>3. id \in IDs
  BY <1>1, <1>2, SubjectAssumption
<1> HIDE DEF id
<1>4. PICK pos : InStepAt(events, id, RecordsOf(Of(memory, id)), pos)
  BY <1>1, <1>3 DEF InStep
<1>5. PICK k \in DOMAIN RecordsOf(Of(memory, id)) : pos[k] = i
  BY <1>2, <1>4 DEF InStepAt, id
<1>6. Of(memory, id).events # <<>>
  BY <1>5 DEF RecordsOf
<1>7. id \in DOMAIN memory
  <2>1. PICK m \in Nodes : m = memory
    BY <1>1
  <2>2. id \notin DOMAIN m => Of(m, id).events = <<>>
    BY OfIsANode
  <2> QED BY <1>6, <2>1, <2>2
<1> QED BY <1>1, <1>7 DEF id

LEMMA FaithfulEvents ==
    ASSUME Db, Reading, Mirrored, quiet, Faithful, ReadEvents PROVE Faithful'
<1> DEFINE owners == {Subject[r] : r \in ToSet(events)}
           Seen(id) == [k \in DOMAIN EventsOf(events, id) |->
                          Mem!Parsed(EventsOf(events, id)[k], 0)]
           node == [id \in owners |-> [snap[id] EXCEPT !.events = Seen(id)]]
           full == [id \in DOMAIN snap |-> IF id \in owners THEN node[id] ELSE snap[id]]
<1>1. /\ query = 5 /\ query' = Delivered /\ UNCHANGED <<rows, events, quiet>>
      /\ DOMAIN snap = DOMAIN rows
      /\ \A id \in DOMAIN rows : Copies(5, events, id, rows[id], snap[id])
  <2>1. query = 5 /\ query' = Delivered /\ UNCHANGED loadVars /\ quiet' = quiet
    BY DEF ReadEvents
  <2> QED BY <2>1 DEF loadVars, Faithful
<1>2. /\ events \in Seq(Records) /\ snap \in Nodes /\ DOMAIN snap \subseteq IDs
      /\ snap \in [DOMAIN snap -> Mem!Node] /\ \A id \in DOMAIN snap : snap[id].events = <<>>
  BY <1>1, NodesAre DEF Db, Reading
<1>3. owners \subseteq DOMAIN snap
  BY <1>1, EventsHaveRows
<1>4. /\ DOMAIN snap' = DOMAIN rows
      /\ \A id \in DOMAIN rows :
           snap'[id] = [full[id] EXCEPT !.privileged = @ \/ id \in Operator]
  <2> DEFINE Ensured == [id \in DOMAIN snap \cup owners |->
                           IF id \in owners
                           THEN [Mem!Ensure(snap, flags, id) EXCEPT !.events = Seen(id)]
                           ELSE snap[id]]
  <2>1. snap' = [id \in DOMAIN Ensured |->
                   [Ensured[id] EXCEPT !.privileged = @ \/ id \in Operator]]
    BY DEF ReadEvents, Attach
  <2>2. ASSUME NEW id \in owners PROVE Mem!Ensure(snap, flags, id) = snap[id]
    BY <1>2, <1>3, EnsuredIsANode
  <2>3. Ensured = full
    <3> HIDE DEF owners, Seen
    <3> QED BY <1>3, <2>2
  <2>4. DOMAIN full = DOMAIN rows
    BY <1>1
  <2> HIDE DEF Ensured, full
  <2> QED BY <2>1, <2>3, <2>4
<1>5. ASSUME NEW id \in DOMAIN rows
      PROVE  Copies(Delivered, events, id, rows[id], snap'[id])
  <2>1. Copies(5, events, id, rows[id], snap[id]) /\ snap[id] \in Mem!Node
        /\ snap[id].events = <<>>
    BY <1>1, <1>2
  <2> DEFINE evs == EventsOf(events, id)
             shown == IF id \in owners THEN Seen(id) ELSE <<>>
  <2>2. PICK old, mid, new : old = snap[id] /\ mid = full[id] /\ new = snap'[id]
    OBVIOUS
  <2>3. /\ evs \in Seq(Records) /\ (id \notin owners => evs = <<>>)
    BY <1>2, EventsOfAnIdentity, EventsOfNone
  <2>4. mid = [old EXCEPT !.events = shown]
    <3>1. CASE id \in owners
      BY <1>1, <2>2, <3>1
    <3>2. CASE id \notin owners
      <4>1. mid = old /\ shown = <<>> /\ old.events = <<>> /\ old \in Mem!Node
        BY <1>1, <2>1, <2>2, <3>2
      <4> HIDE DEF full, shown
      <4>2. [old EXCEPT !.events = <<>>] = old
        BY <4>1 DEF Mem!Node
      <4> QED BY <4>1, <4>2
    <3> QED BY <3>1, <3>2
  <2>5. DOMAIN shown = DOMAIN evs /\ \A k \in DOMAIN evs : shown[k].record = evs[k]
    <3>1. CASE id \in owners
      BY <3>1 DEF Mem!Parsed
    <3>2. CASE id \notin owners
      <4>1. shown = <<>> /\ evs = <<>>
        BY <2>3, <3>2
      <4> HIDE DEF shown, evs
      <4> QED BY <4>1
    <3> QED BY <3>1, <3>2
  <2> HIDE DEF full, shown, owners, Seen
  <2>6. /\ mid.fields = old.fields /\ mid.lastUsed = old.lastUsed /\ mid.shadow = old.shadow
        /\ mid.privileged = old.privileged /\ mid.permissions = old.permissions
        /\ mid.events = shown /\ DOMAIN mid = DOMAIN old
    BY <2>1, <2>2, <2>4 DEF Mem!Node
  <2>7. (mid.privileged \/ id \in Operator) \in BOOLEAN
    OBVIOUS
  <2>8. PICK p \in BOOLEAN : p = (mid.privileged \/ id \in Operator)
    BY <2>7, Zenon
  <2>9. p <=> (mid.privileged \/ id \in Operator)
    BY <2>8, Zenon
  <2>10. new = [mid EXCEPT !.privileged = p]
    <3>1. new = [mid EXCEPT !.privileged = mid.privileged \/ id \in Operator]
      BY <1>4, <2>2
    <3> QED BY <2>8, <3>1, Zenon
  <2>11. /\ new.fields = old.fields /\ new.lastUsed = old.lastUsed /\ new.shadow = old.shadow
         /\ new.permissions = old.permissions /\ new.events = shown /\ new.privileged = p
    BY <2>1, <2>2, <2>6, <2>10 DEF Mem!Node
  <2>12. RecordsOf(new) = evs
    <3>1. RecordsOf(new) = [k \in DOMAIN evs |-> evs[k]]
      <4> HIDE DEF evs
      <4> QED BY <2>5, <2>11 DEF RecordsOf
    <3> HIDE DEF evs
    <3> QED BY <2>3, <3>1
  <2>13. new.privileged <=> (rows[id].privileged \/ id \in Operator)
    BY <2>1, <2>2, <2>6, <2>9, <2>11 DEF Copies, Delivered
  <2>14. Copies(Delivered, events, id, rows[id], new)
    <3>1. Copies(5, events, id, rows[id], old)
      BY <2>1, <2>2
    <3> QED BY <2>11, <2>12, <2>13, <3>1 DEF Copies, Delivered
  <2> QED BY <2>2, <2>14
<1>6. query' # 1 /\ query' # 4
  BY <1>1 DEF Delivered
<1> QED BY <1>1, <1>4, <1>5, <1>6 DEF Faithful

LEMMA FaithfulFlags ==
    ASSUME Db, ReadFlags PROVE Faithful'
<1>1. /\ query' = 1 /\ flags' = {id \in DOMAIN rows : rows[id].privileged}
      /\ UNCHANGED loadVars
  BY DEF ReadFlags
<1>2. rows' = rows
  BY <1>1 DEF loadVars
<1> QED BY <1>1, <1>2 DEF Faithful

LEMMA FaithfulActions ==
    ASSUME Db, Reading, quiet, Faithful, ReadActions PROVE Faithful'
<1>1. query = 3 /\ query' = 4 /\ UNCHANGED <<snap, quiet, loadVars>>
  BY DEF ReadActions
<1>2. rows' = rows /\ events' = events /\ snap' = snap
  BY <1>1 DEF loadVars
<1>3. /\ DOMAIN snap = DOMAIN rows
      /\ \A id \in DOMAIN rows : Copies(3, events, id, rows[id], snap[id])
  BY <1>1 DEF Faithful
<1>4. \A id \in DOMAIN rows : Copies(4, events, id, rows[id], snap[id])
  BY <1>3 DEF Copies, Delivered
<1>5. ASSUME NEW id \in DOMAIN rows, NEW n \in Names
      PROVE  actionsByPerm'[id][n] = Granted(rows[id], n)
  <2>1. id \in IDs /\ RowOf(rows, id) = rows[id]
    BY TableIs DEF Db, RowOf
  <2>2. actionsByPerm' = [i \in IDs |-> [m \in Names |-> Granted(RowOf(rows, i), m)]]
    BY DEF ReadActions, Granted
  <2> QED BY <2>1, <2>2
<1> QED BY <1>1, <1>2, <1>3, <1>4, <1>5 DEF Faithful

LEMMA FaithfulAtFirst == Init => Faithful
BY DEF Init, Faithful, Delivered

LEMMA FaithfulKept ==
    ASSUME Db, Reading, Mirrored, Faithful, [Next]_vars
    PROVE  Faithful'
<1>1. CASE UNCHANGED <<rows, events, snapVars, quiet>>
  BY <1>1 DEF Faithful, snapVars
<1>2. ASSUME NEW s \in Sessions, \/ \E l \in Loads : StartLoad(s, l)
                                 \/ WriteNext(s) \/ AbortLoad(s) \/ BreakDeadlock(s)
      PROVE  UNCHANGED <<rows, events, snapVars, quiet>>
  <2>1. CASE \E l \in Loads : StartLoad(s, l)
    BY <2>1 DEF StartLoad
  <2>2. CASE WriteNext(s)
    BY <2>2 DEF WriteNext
  <2>3. CASE AbortLoad(s) \/ BreakDeadlock(s)
    BY <2>3 DEF AbortLoad, BreakDeadlock, Fail
  <2> QED BY <1>2, <2>1, <2>2, <2>3
<1>3. ASSUME NEW s \in Sessions, CommitIdentities(s) \/ CommitEvents(s) \/ CommitPassports(s)
      PROVE  Faithful'
  <2>1. quiet' = FALSE
    BY <1>3 DEF CommitIdentities, CommitEvents, CommitPassports, Commit
  <2> QED BY <2>1 DEF Faithful
<1>4. CASE ReadFlags
  BY <1>4, FaithfulFlags
<1>5. CASE \/ ReadIdentities \/ ReadLists \/ ReadActions \/ ReadPermissions \/ ReadEvents
  <2>1. quiet' = quiet
    BY <1>5 DEF ReadIdentities, ReadLists, ReadActions, ReadPermissions, ReadEvents
  <2>2. CASE quiet
    BY <1>5, <2>2, FaithfulIdentities, FaithfulLists, FaithfulActions, FaithfulPermissions,
       FaithfulEvents
  <2>3. CASE ~quiet
    BY <2>1, <2>3 DEF Faithful
  <2> QED BY <2>2, <2>3
<1>6. CASE UNCHANGED vars
  BY <1>1, <1>6 DEF vars, loadVars
<1> QED BY <1>1, <1>2, <1>3, <1>4, <1>5, <1>6 DEF Next

-----------------------------------------------------------------------------
(* A quiet snapshot and the in-memory graph. *)

Agree(id, pg, mem) ==
    /\ \A f \in Fields \ Lists : pg.fields[f] = mem.fields[f]
    /\ pg.lastUsed = mem.lastUsed
    /\ pg.privileged = mem.privileged
    /\ pg.shadow = mem.shadow
    /\ RecordsOf(pg) = [k \in DOMAIN Chronological(RecordsOf(mem)) |->
                          Row[Chronological(RecordsOf(mem))[k]]]
    /\ DescribedOnce(id) => /\ pg.permissions = mem.permissions
                            /\ \A f \in Lists : pg.fields[f] = mem.fields[f]

LEMMA ParityShown ==
    ASSUME Db, Reading, Mirrored, Faithful PROVE BackendParity
<1> SUFFICES ASSUME Quiet
             PROVE  /\ DOMAIN snap = DOMAIN memory
                    /\ \A id \in DOMAIN snap : Agree(id, snap[id], memory[id])
  BY DEF BackendParity, Agree
<1>1. /\ DOMAIN snap = DOMAIN rows
      /\ \A id \in DOMAIN rows : Copies(Delivered, events, id, rows[id], snap[id])
  BY DEF Quiet, Faithful, Delivered
<1>2. /\ rows \in Table /\ memory \in Nodes /\ DOMAIN rows = DOMAIN memory
      /\ \A id \in IDs : Same(id, RowOf(rows, id), Of(memory, id), reports[id])
      /\ events \in Seq(Records) /\ \A id \in IDs : InStep(events, id, RecordsOf(Of(memory, id)))
  BY DEF Mirrored, Like, Held
<1>3. /\ DOMAIN rows \subseteq IDs /\ snap \in [DOMAIN snap -> Mem!Node]
      /\ memory \in [DOMAIN memory -> Mem!Node]
  BY <1>2, TableIs, NodesAre DEF Reading
<1> SUFFICES ASSUME NEW id \in DOMAIN rows PROVE Agree(id, snap[id], memory[id])
  BY <1>1, <1>2
<1>4. PICK row, pg, mem, told : /\ row = rows[id] /\ pg = snap[id] /\ mem = memory[id]
                                /\ told = reports[id]
  OBVIOUS
<1>5. pg \in Mem!Node /\ mem \in Mem!Node /\ id \in IDs
  BY <1>1, <1>2, <1>3, <1>4
<1>6. RowOf(rows, id) = row /\ Of(memory, id) = mem
  BY <1>2, <1>4 DEF RowOf, Of, Mem!Ensure
<1>7. /\ Copies(Delivered, events, id, row, pg) /\ Same(id, row, mem, told)
      /\ InStep(events, id, RecordsOf(mem))
  BY <1>1, <1>2, <1>4, <1>5, <1>6
<1>8. Alike(id, row, mem) /\ Says(told, row) /\ Says(told, mem)
  BY <1>7 DEF Same
<1>9. /\ \A f \in Fields \ Lists : pg.fields[f] = mem.fields[f]
      /\ pg.lastUsed = mem.lastUsed
  BY <1>7, <1>8 DEF Copies, Alike
<1>10. pg.privileged = mem.privileged
  <2>1. pg.privileged <=> mem.privileged
    BY <1>7, <1>8 DEF Copies, Alike
  <2>2. pg.privileged \in BOOLEAN /\ mem.privileged \in BOOLEAN
    BY <1>5 DEF Mem!Node
  <2>3. PICK p \in BOOLEAN, q \in BOOLEAN : p = pg.privileged /\ q = mem.privileged
    BY <2>2
  <2> QED BY <2>1, <2>3
<1>11. pg.shadow = mem.shadow
  <2>1. pg.shadow <=> mem.shadow
    BY <1>7, <1>8 DEF Copies, Alike
  <2>2. pg.shadow \in BOOLEAN /\ mem.shadow \in BOOLEAN
    BY <1>5 DEF Mem!Node
  <2> QED BY <2>1, <2>2
<1>12. RecordsOf(pg) = [k \in DOMAIN Chronological(RecordsOf(mem)) |->
                          Row[Chronological(RecordsOf(mem))[k]]]
  <2>1. RecordsOf(pg) = EventsOf(events, id)
    BY <1>7 DEF Copies
  <2>2. RecordsOf(mem) \in Seq(Records)
    BY <1>5, RecordsOfNode
  <2>3. PICK recs \in Seq(Records) : recs = RecordsOf(mem)
    BY <2>2
  <2>4. InStep(events, id, recs)
    BY <1>7, <2>3
  <2>5. EventsOf(events, id) = [k \in DOMAIN Chronological(recs) |-> Row[Chronological(recs)[k]]]
    BY <1>2, <2>4, InStepSorts
  <2> QED BY <2>1, <2>3, <2>5
<1>13. ASSUME DescribedOnce(id)
       PROVE  pg.permissions = mem.permissions /\ \A f \in Lists : pg.fields[f] = mem.fields[f]
  <2>1. \A d, e \in told : d = e /\ Plain(d)
    BY <1>4, <1>13 DEF DescribedOnce, Plain
  <2>2. row.permissions = mem.permissions /\ \A f \in Lists : row.fields[f] = mem.fields[f]
    <3>1. CASE told = {}
      BY <1>8, <3>1 DEF Says
    <3>2. CASE told # {}
      <4>1. PICK d \in told : told = {d} /\ Plain(d)
        BY <2>1, <3>2
      <4> QED BY <1>8, <4>1 DEF Says
    <3> QED BY <3>1, <3>2
  <2>3. UniqueNames(row.permissions)
    <3>1. CASE told = {}
      BY <1>8, <3>1 DEF Says, UniqueNames
    <3>2. CASE told # {}
      <4>1. PICK d \in told : told = {d} /\ Plain(d)
        BY <2>1, <3>2
      <4> QED BY <1>8, <4>1 DEF Says, Plain, UniqueNames
    <3> QED BY <3>1, <3>2
  <2>4. /\ UniqueNames(row.permissions) => pg.permissions = row.permissions
        /\ \A f \in Lists : pg.fields[f] = row.fields[f]
    BY <1>7 DEF Copies, Delivered
  <2> QED BY <2>2, <2>3, <2>4
<1> QED BY <1>4, <1>9, <1>10, <1>11, <1>12, <1>13 DEF Agree

LEMMA ParityHolds ==
    ASSUME OneRecordPerRow
    PROVE  Spec => [](Db /\ Serial /\ Reading /\ Mirrored /\ Faithful)
<1>1. Init => Db /\ Serial /\ Reading /\ Mirrored /\ Faithful
  BY SerialAtFirst, ReadingAtFirst, MirroredAtFirst, FaithfulAtFirst
<1>2. Db /\ Serial /\ Reading /\ Mirrored /\ Faithful /\ [Next]_vars
        => (Db /\ Serial /\ Reading /\ Mirrored /\ Faithful)'
  BY SerialKept, ReadingKept, MirroredKept, FaithfulKept
<1> QED BY <1>1, <1>2, PTL DEF Spec

(* PgStore, "detectors run unchanged against either backend": a snapshot    *)
(* that no load commits under holds what the in-memory graph holds that    *)
(* was fed the same batches, the same identities, columns and flags, the    *)
(* events in the same order when their times tie, and the grants and lists *)
(* of an identity whose description was never replaced.  It is so for all  *)
(* loads in which no two records differ in their source alone: the events  *)
(* table has no column for it and keeps one row for both, where AddEvent   *)
(* keeps two events.                                                       *)
THEOREM BackendsAgree ==
    ASSUME OneRecordPerRow
    PROVE  Spec => []BackendParity
<1>1. Db /\ Reading /\ Mirrored /\ Faithful => BackendParity
  BY ParityShown
<1> QED BY <1>1, ParityHolds, PTL
=============================================================================
