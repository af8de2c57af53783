------------------------- MODULE AlertDeliveryProofs -------------------------
(***************************************************************************)
(* Proofs about AlertDelivery, for any number of runs, any batches of      *)
(* alerts, any settings and any destinations that stop answering.          *)
(*                                                                         *)
(* A run is Early or Late or killed, and a step of one run leaves the      *)
(* other runs' part of the state alone (OthersStand), their part of the    *)
(* shared journal included.  What a run has written is the alerts of its   *)
(* batch at some positions W below the one it is at; W, the skipped and    *)
(* the failed are all of those (Accounted).  Picking positions of a        *)
(* sequence is the subject of the first part.                              *)
(*                                                                         *)
(* The same picking is what a bus file's attested chains and the detectors *)
(* over events are made of, and their theorems follow, for any event bus   *)
(* file and any feed: BusIngest's chains are checked link by link, and an  *)
(* identity's history stays in the order of time (FeedInv), from which its *)
(* full windows of challenges, the legs of its travels and what one more   *)
(* event can change are computed.  The last part is what a load of the bus *)
(* has counted and kept (BusInv), as sets of lines by their positions.     *)
(***************************************************************************)
EXTENDS AlertDelivery, BusIngest, EventDetectors, WellFoundedInduction, FiniteSetTheorems, TLAPS

-----------------------------------------------------------------------------
(* The elements at some positions of a sequence. *)

LEMMA SetInduction ==
    ASSUME NEW S, 0 \in S, \A n \in Nat : n \in S => n + 1 \in S
    PROVE  Nat \subseteq S
<1> DEFINE T == Nat \ S
           R == OpToRel(<, Nat)
<1>1. IsWellFoundedOn(R, Nat)
  BY NatLessThanWellFounded
<1>2. \A x, y \in Nat : <<y, x>> \in R <=> y < x
  BY DEF OpToRel
<1> HIDE DEF R
<1>3. SUFFICES ASSUME T # {} PROVE FALSE
  OBVIOUS
<1>4. PICK x \in T : \A y \in T : <<y, x>> \notin R
  <2>1. T \subseteq Nat
    OBVIOUS
  <2> HIDE DEF T
  <2> QED BY <1>1, <1>3, <2>1, WFMin
<1>5. x # 0 /\ x - 1 \in Nat /\ x - 1 < x
  OBVIOUS
<1>6. x - 1 \in S
  BY <1>2, <1>4, <1>5
<1> QED BY <1>5, <1>6

(* at lists the positions T from the lowest to the highest.                *)
Lists(at_, n, T) ==
    /\ at_ \in [1..n -> T]
    /\ \A i, j \in 1..n : i < j => at_[i] < at_[j]
    /\ \A t \in T : \E i \in 1..n : at_[i] = t

LEMMA ListsCount ==
    ASSUME NEW n \in Nat, NEW T \in SUBSET Nat, NEW at_, Lists(at_, n, T)
    PROVE  /\ IsFiniteSet(T) /\ Cardinality(T) = n
           /\ \A k \in 1..n : Cardinality({j \in T : j <= at_[k]}) = k
<1>1. ASSUME NEW i \in 1..n, NEW j \in 1..n, at_[i] = at_[j] PROVE i = j
  <2>1. at_[i] \in Nat /\ (i < j => at_[i] < at_[j]) /\ (j < i => at_[j] < at_[i])
    BY DEF Lists
  <2>2. i < j \/ i = j \/ j < i
    OBVIOUS
  <2> QED BY <1>1, <2>1, <2>2
<1>2. ASSUME NEW k \in 0..n, NEW U, U = {at_[i] : i \in 1..k}
      PROVE  IsFiniteSet(U) /\ Cardinality(U) = k
  <2> DEFINE f == [i \in 1..k |-> at_[i]]
  <2>1. /\ 1..k \subseteq 1..n /\ IsFiniteSet(1..k) /\ Cardinality(1..k) = k
    <3>1. k \in Int /\ 1 \in Int /\ k \in Nat
      OBVIOUS
    <3> QED BY <3>1, FS_Interval
  <2>2. f \in Surjection(1..k, U)
    <3>1. f \in [1..k -> U] /\ \A u \in U : \E i \in 1..k : f[i] = u
      BY <1>2
    <3> HIDE DEF f
    <3> QED BY <3>1 DEF Surjection
  <2>3. f \in Injection(1..k, U)
    <3>1. f \in [1..k -> U] /\ \A i, j \in 1..k : f[i] = f[j] => i = j
      BY <1>1, <1>2, <2>1
    <3> HIDE DEF f
    <3> QED BY <3>1 DEF Injection, IsInjective
  <2> HIDE DEF f
  <2> QED BY <2>1, <2>2, <2>3, FS_Surjection
<1>3. T = {at_[i] : i \in 1..n}
  BY DEF Lists
<1>4. ASSUME NEW k \in 1..n
      PROVE  Cardinality({j \in T : j <= at_[k]}) = k
  <2> DEFINE U == {j \in T : j <= at_[k]}
  <2>1. \A i \in 1..n : at_[i] \in Nat /\ (at_[i] <= at_[k] <=> i <= k)
    <3> SUFFICES ASSUME NEW i \in 1..n PROVE at_[i] \in Nat /\ (at_[i] <= at_[k] <=> i <= k)
      OBVIOUS
    <3>1. at_[i] \in Nat /\ at_[k] \in Nat
      BY DEF Lists
    <3>2. (i < k => at_[i] < at_[k]) /\ (k < i => at_[k] < at_[i])
      BY DEF Lists
    <3>3. i < k \/ i = k \/ k < i
      OBVIOUS
    <3> QED BY <3>1, <3>2, <3>3
  <2>2. U = {at_[i] : i \in 1..k}
    <3>1. ASSUME NEW u \in U PROVE u \in {at_[i] : i \in 1..k}
      <4>1. PICK i \in 1..n : at_[i] = u
        BY DEF Lists
      <4> QED BY <2>1, <4>1
    <3>2. ASSUME NEW i \in 1..k PROVE at_[i] \in U
      <4>1. i \in 1..n /\ i <= k
        OBVIOUS
      <4> QED BY <2>1, <4>1 DEF Lists
    <3> HIDE DEF U
    <3> QED BY <3>1, <3>2
  <2>3. k \in 0..n
    OBVIOUS
  <2> HIDE DEF U
  <2>4. Cardinality(U) = k
    BY <1>2, <2>2, <2>3
  <2> QED BY <2>4 DEF U
<1>5. n \in 0..n
  OBVIOUS
<1> QED BY <1>2, <1>3, <1>4, <1>5

(* What is at the positions T of s, of which at lists the n, is of S.       *)
Into(s, T, S) == \A i \in T : s[i] \in S

Picks(s, T, S, n, at_) ==
    /\ Cardinality(T) = n /\ Pick(s, T) \in [1..n -> S]
    /\ \A k \in 1..n : Pick(s, T)[k] = s[at_[k]]

LEMMA PickAlong ==
    ASSUME NEW s, NEW T \in SUBSET Nat, NEW S, NEW n \in Nat, NEW at_, Lists(at_, n, T),
           Into(s, T, S)
    PROVE  Picks(s, T, S, n, at_)
<1> DEFINE Upto(i) == Cardinality({j \in T : j <= i})
<1>1. Cardinality(T) = n /\ \A k \in 1..n : Upto(at_[k]) = k
  BY ListsCount
<1>2. \A k \in 1..n : at_[k] \in T
  BY DEF Lists
<1> DEFINE found == [k \in 1..n |-> CHOOSE i \in T : Upto(i) = k]
<1>3. \A k \in 1..n : found[k] \in T /\ Upto(found[k]) = k
  <2>1. \A k \in 1..n : \E i \in T : Upto(i) = k
    BY <1>1, <1>2
  <2> HIDE DEF Upto
  <2> QED BY <2>1
<1>4. Pick(s, T) = [k \in 1..n |-> s[found[k]]]
  <2>1. Pick(s, T) = [k \in 1..Cardinality(T) |-> s[CHOOSE i \in T : Upto(i) = k]]
    BY DEF Pick
  <2> HIDE DEF Upto
  <2> QED BY <1>1, <2>1
<1> HIDE DEF found
<1>5. ASSUME NEW k \in 1..n PROVE found[k] = at_[k]
  <2> HIDE DEF Upto
  <2>1. PICK m \in 1..n : at_[m] = found[k]
    BY <1>3 DEF Lists
  <2> QED BY <1>1, <1>3, <2>1
<1> HIDE DEF Upto
<1>6. \A k \in 1..n : Pick(s, T)[k] = s[at_[k]] /\ s[at_[k]] \in S
  BY <1>2, <1>4, <1>5 DEF Into
<1>7. Pick(s, T) \in [1..n -> S]
  BY <1>4, <1>6
<1> QED BY <1>1, <1>6, <1>7 DEF Picks

LEMMA ListsGrow ==
    ASSUME NEW n \in Nat, NEW T \in SUBSET Nat, NEW at_, Lists(at_, n, T),
           NEW p \in Nat, \A t \in T : t < p
    PROVE  Lists([k \in 1..(n + 1) |-> IF k = n + 1 THEN p ELSE at_[k]], n + 1, T \cup {p})
<1> DEFINE b == [k \in 1..(n + 1) |-> IF k = n + 1 THEN p ELSE at_[k]]
<1>1. /\ \A k \in 1..(n + 1) : k = n + 1 \/ (k \in 1..n /\ k < n + 1)
      /\ 1..n \subseteq 1..(n + 1) /\ n + 1 \in 1..(n + 1) /\ n + 1 \notin 1..n
  OBVIOUS
<1>2. b[n + 1] = p /\ \A k \in 1..n : b[k] = at_[k] /\ at_[k] \in T
  BY <1>1 DEF Lists
<1>3. b \in [1..(n + 1) -> T \cup {p}]
  BY <1>1 DEF Lists
<1> HIDE DEF b
<1>4. ASSUME NEW i \in 1..(n + 1), NEW j \in 1..(n + 1), i < j PROVE b[i] < b[j]
  <2>1. i \in 1..n
    BY <1>4
  <2>2. CASE j = n + 1
    BY <1>2, <2>1, <2>2
  <2>3. CASE j \in 1..n
    BY <1>2, <1>4, <2>1, <2>3 DEF Lists
  <2> QED BY <1>1, <2>2, <2>3
<1>5. ASSUME NEW t \in T \cup {p} PROVE \E i \in 1..(n + 1) : b[i] = t
  <2>1. CASE t = p
    BY <1>1, <1>2, <2>1
  <2>2. CASE t \in T
    <3>1. PICK i \in 1..n : at_[i] = t
      BY <2>2 DEF Lists
    <3> QED BY <1>1, <1>2, <3>1
  <2> QED BY <2>1, <2>2
<1>6. Lists(b, n + 1, T \cup {p})
  BY <1>3, <1>4, <1>5 DEF Lists
<1> QED BY <1>6 DEF b

LEMMA ListsExist ==
    ASSUME NEW L \in Nat, NEW T \in SUBSET (1..L)
    PROVE  \E n \in Nat : \E at_ : Lists(at_, n, T)
<1> DEFINE Listed(U) == \E n \in Nat : \E at_ : Lists(at_, n, U)
           Good == {l \in Nat : \A U \in SUBSET (1..l) : Listed(U)}
<1>1. 0 \in Good
  <2>1. 1..0 = {}
    OBVIOUS
  <2>2. Lists([i \in 1..0 |-> i], 0, {})
    BY <2>1 DEF Lists
  <2>3. 0 \in Nat /\ \A U \in SUBSET (1..0) : U = {}
    BY <2>1
  <2> QED BY <2>2, <2>3
<1>2. ASSUME NEW l \in Nat, l \in Good PROVE l + 1 \in Good
  <2> SUFFICES ASSUME NEW U \in SUBSET (1..(l + 1)) PROVE Listed(U)
    OBVIOUS
  <2> DEFINE V == U \ {l + 1}
  <2>1. V \in SUBSET (1..l) /\ V \in SUBSET Nat /\ l + 1 \in Nat /\ \A t \in V : t < l + 1
    <3>1. \A t \in 1..(l + 1) : t = l + 1 \/ t \in 1..l
      OBVIOUS
    <3> QED BY <3>1
  <2>2a. PICK n \in Nat : \E at_ : Lists(at_, n, V)
    <3> HIDE DEF V, Listed
    <3>1. Listed(V)
      BY <1>2, <2>1
    <3> QED BY <3>1 DEF Listed
  <2>2. PICK at_ : Lists(at_, n, V)
    BY <2>2a
  <2>3. CASE l + 1 \notin U
    <3>1. U = V
      BY <2>3
    <3> QED BY <2>2, <3>1
  <2>4. CASE l + 1 \in U
    <3>1. U = V \cup {l + 1} /\ n + 1 \in Nat
      BY <2>4
    <3> DEFINE b == [k \in 1..(n + 1) |-> IF k = n + 1 THEN l + 1 ELSE at_[k]]
    <3> HIDE DEF V
    <3>2. Lists(b, n + 1, V \cup {l + 1})
      BY <2>1, <2>2, ListsGrow
    <3> HIDE DEF b
    <3>3. Lists(b, n + 1, U)
      BY <3>1, <3>2
    <3> QED BY <3>1, <3>3
  <2> QED BY <2>3, <2>4
<1> HIDE DEF Good
<1>3. Nat \subseteq Good
  BY <1>1, <1>2, SetInduction
<1> QED BY <1>3 DEF Good

LEMMA PickOf ==
    ASSUME NEW s, NEW L \in Nat, NEW T \in SUBSET (1..L), NEW S, Into(s, T, S)
    PROVE  \E n \in Nat : \E at_ : Lists(at_, n, T) /\ Picks(s, T, S, n, at_)
<1>1a. PICK n \in Nat : \E at_ : Lists(at_, n, T)
  BY ListsExist
<1>1. PICK at_ : Lists(at_, n, T)
  BY <1>1a
<1>2. T \in SUBSET Nat
  OBVIOUS
<1> QED BY <1>1, <1>2, PickAlong

LEMMA PickIsASequence ==
    ASSUME NEW s, NEW L \in Nat, NEW T \in SUBSET (1..L), NEW S, Into(s, T, S)
    PROVE  /\ Pick(s, T) \in Seq(S) /\ Len(Pick(s, T)) = Cardinality(T)
           /\ Cardinality(T) \in Nat /\ IsFiniteSet(T)
           /\ \A k \in 1..Cardinality(T) : \E i \in T : Pick(s, T)[k] = s[i]
           /\ \A i \in T : \E k \in 1..Cardinality(T) : Pick(s, T)[k] = s[i]
           /\ (\A i, j \in T : s[i] = s[j] => i = j) =>
                \A k, m \in 1..Cardinality(T) : Pick(s, T)[k] = Pick(s, T)[m] => k = m
<1>1a. PICK n \in Nat : \E at_ : Lists(at_, n, T) /\ Picks(s, T, S, n, at_)
  BY PickOf
<1>1. PICK at_ : Lists(at_, n, T) /\ Picks(s, T, S, n, at_)
  BY <1>1a
<1> DEFINE p == Pick(s, T)
<1>2. Cardinality(T) = n /\ p \in [1..n -> S] /\ \A k \in 1..n : p[k] = s[at_[k]]
  BY <1>1 DEF Picks
<1> HIDE DEF p
<1>3. /\ \A k \in 1..n : at_[k] \in T /\ at_[k] \in Nat
      /\ \A t \in T : \E k \in 1..n : at_[k] = t
      /\ \A i, j \in 1..n : i < j => at_[i] < at_[j]
  <2>1. T \subseteq Nat
    OBVIOUS
  <2> QED BY <1>1, <2>1 DEF Lists
<1>4. p \in Seq(S) /\ Len(p) = n
  BY <1>2
<1>5. ASSUME \A i, j \in T : s[i] = s[j] => i = j,
             NEW k \in 1..n, NEW m \in 1..n, p[k] = p[m]
      PROVE  k = m
  <2>1. at_[k] = at_[m] /\ at_[k] \in Nat
    BY <1>2, <1>3, <1>5
  <2>2. k < m \/ k = m \/ m < k
    OBVIOUS
  <2> QED BY <1>3, <2>1, <2>2
<1>6. IsFiniteSet(T)
  <2>1. T \in SUBSET Nat
    OBVIOUS
  <2> QED BY <1>1, <2>1, ListsCount
<1>7. /\ \A k \in 1..n : \E i \in T : p[k] = s[i]
      /\ \A i \in T : \E k \in 1..n : p[k] = s[i]
  BY <1>2, <1>3
<1> QED BY <1>2, <1>4, <1>5, <1>6, <1>7 DEF p

LEMMA PickTyped ==
    ASSUME NEW s, NEW L \in Nat, NEW T \in SUBSET (1..L), NEW S, Into(s, T, S)
    PROVE  Pick(s, T) \in Seq(S)
<1>1a. PICK n \in Nat : \E at_ : Lists(at_, n, T) /\ Picks(s, T, S, n, at_)
  BY PickOf
<1>1. PICK at_ : Lists(at_, n, T) /\ Picks(s, T, S, n, at_)
  BY <1>1a
<1> DEFINE p == Pick(s, T)
<1>2. p \in [1..n -> S]
  BY <1>1 DEF Picks
<1> HIDE DEF p
<1>3. p \in Seq(S)
  BY <1>2
<1> QED BY <1>3 DEF p

LEMMA PickSame ==
    ASSUME NEW s, NEW t, NEW L \in Nat, NEW T \in SUBSET (1..L), NEW S,
           Into(s, T, S), \A i \in T : s[i] = t[i]
    PROVE  Pick(s, T) = Pick(t, T)
<1>1a. PICK n \in Nat : \E at_ : Lists(at_, n, T)
  BY ListsExist
<1>1. PICK at_ : Lists(at_, n, T)
  BY <1>1a
<1>2. T \in SUBSET Nat /\ Into(t, T, S)
  BY DEF Into
<1>3. Picks(s, T, S, n, at_) /\ Picks(t, T, S, n, at_)
  BY <1>1, <1>2, PickAlong
<1> DEFINE p == Pick(s, T)
           q == Pick(t, T)
<1>4. /\ p \in [1..n -> S] /\ \A k \in 1..n : p[k] = s[at_[k]]
      /\ q \in [1..n -> S] /\ \A k \in 1..n : q[k] = t[at_[k]]
  BY <1>3 DEF Picks
<1>5. \A k \in 1..n : s[at_[k]] = t[at_[k]]
  BY <1>1 DEF Lists
<1> HIDE DEF p, q
<1>6. p = q
  BY <1>4, <1>5
<1> QED BY <1>6 DEF p, q

LEMMA PickNone == ASSUME NEW s PROVE Pick(s, {}) = <<>> /\ Cardinality({}) = 0
<1>1. Cardinality({}) = 0 /\ 1..0 = {}
  BY FS_EmptySet
<1> QED BY <1>1 DEF Pick

(* Picking one more, further on, adds its value at the end. *)
PickGrows(s, T, p) ==
    /\ Pick(s, T \cup {p}) = Append(Pick(s, T), s[p])
    /\ Cardinality(T \cup {p}) = Cardinality(T) + 1

LEMMA PickMore ==
    ASSUME NEW s, NEW L \in Nat, NEW T \in SUBSET (1..L), NEW S, Into(s, T, S),
           NEW p \in Nat, \A t \in T : t < p, s[p] \in S
    PROVE  PickGrows(s, T, p)
<1>1a. PICK n \in Nat : \E at_ : Lists(at_, n, T)
  BY ListsExist
<1>1. PICK at_ : Lists(at_, n, T)
  BY <1>1a
<1>2. /\ T \in SUBSET Nat /\ T \cup {p} \in SUBSET Nat /\ n + 1 \in Nat
      /\ Into(s, T \cup {p}, S)
  BY DEF Into
<1> DEFINE b == [k \in 1..(n + 1) |-> IF k = n + 1 THEN p ELSE at_[k]]
           old == Pick(s, T)
           new == Pick(s, T \cup {p})
<1>3. Lists(b, n + 1, T \cup {p})
  BY <1>1, <1>2, ListsGrow
<1>4. Cardinality(T) = n /\ old \in [1..n -> S] /\ \A k \in 1..n : old[k] = s[at_[k]]
  <2>1. Picks(s, T, S, n, at_)
    BY <1>1, <1>2, PickAlong
  <2> QED BY <2>1 DEF Picks
<1>5. /\ \A k \in 1..(n + 1) : k = n + 1 \/ (k \in 1..n /\ k # n + 1)
      /\ n + 1 \in 1..(n + 1) /\ 1..n \subseteq 1..(n + 1)
  OBVIOUS
<1>6. b[n + 1] = p /\ \A k \in 1..n : b[k] = at_[k]
  BY <1>5
<1> HIDE DEF b
<1>7. /\ Cardinality(T \cup {p}) = n + 1 /\ new \in [1..(n + 1) -> S]
      /\ \A k \in 1..(n + 1) : new[k] = s[b[k]]
  <2>1. Picks(s, T \cup {p}, S, n + 1, b)
    BY <1>2, <1>3, PickAlong
  <2> QED BY <2>1 DEF Picks
<1> HIDE DEF old, new
<1>8. old \in Seq(S) /\ Len(old) = n
  BY <1>4
<1> DEFINE more == Append(old, s[p])
<1>9. more \in [1..(n + 1) -> S] /\ more[n + 1] = s[p] /\ \A k \in 1..n : more[k] = old[k]
  <2>1. more \in Seq(S) /\ Len(more) = n + 1
    BY <1>8
  <2>2. more[n + 1] = s[p] /\ \A k \in 1..n : more[k] = old[k]
    BY <1>8
  <2> HIDE DEF more
  <2> QED BY <2>1, <2>2
<1> HIDE DEF more
<1>10. ASSUME NEW k \in 1..(n + 1) PROVE new[k] = more[k]
  <2>1. CASE k = n + 1
    BY <1>5, <1>6, <1>7, <1>9, <2>1
  <2>2. CASE k \in 1..n
    BY <1>4, <1>5, <1>6, <1>7, <1>9, <2>2
  <2> QED BY <1>5, <2>1, <2>2
<1>11. new = more
  BY <1>7, <1>9, <1>10
<1>12. new = Append(old, s[p]) /\ Cardinality(T \cup {p}) = Cardinality(T) + 1
  BY <1>4, <1>7, <1>11 DEF more
<1> QED BY <1>12 DEF old, new, PickGrows

(* What is picked of a sequence and of what was picked of it before.       *)
LEMMA PickOfAPick ==
    ASSUME NEW s, NEW L \in Nat, NEW H \in SUBSET (1..L), NEW W \in SUBSET H, NEW S,
           Into(s, H, S)
    PROVE  \E kept \in SUBSET (1..Cardinality(H)) : Pick(s, W) = Pick(Pick(s, H), kept)
<1>1a. PICK n \in Nat : \E up : Lists(up, n, H) /\ Picks(s, H, S, n, up)
  <2>1. \E n \in Nat : \E up : Lists(up, n, H) /\ Picks(s, H, S, n, up)
    BY PickOf
  <2> QED BY <2>1
<1>1. PICK up : Lists(up, n, H) /\ Picks(s, H, S, n, up)
  BY <1>1a
<1> DEFINE half == Pick(s, H)
           kept == {k \in 1..n : up[k] \in W}
<1>2. /\ Cardinality(H) = n /\ half \in [1..n -> S] /\ \A k \in 1..n : half[k] = s[up[k]]
  BY <1>1 DEF Picks
<1> HIDE DEF half
<1>3. /\ kept \in SUBSET (1..n) /\ kept \in SUBSET Nat /\ W \in SUBSET Nat
      /\ Into(s, W, S) /\ Into(half, kept, S)
  BY <1>2 DEF Into
<1>4a. PICK m \in Nat : \E low : Lists(low, m, kept)
  <2> HIDE DEF kept
  <2> QED BY <1>3, ListsExist
<1>4. PICK low : Lists(low, m, kept)
  BY <1>4a
<1> DEFINE both == [k \in 1..m |-> up[low[k]]]
<1>5. \A k \in 1..m : low[k] \in kept /\ low[k] \in 1..n /\ up[low[k]] \in W
  BY <1>4 DEF Lists
<1>6. Lists(both, m, W)
  <2>1. both \in [1..m -> W]
    BY <1>5
  <2>2. ASSUME NEW i \in 1..m, NEW j \in 1..m, i < j PROVE both[i] < both[j]
    <3>1. low[i] < low[j]
      BY <1>4, <2>2 DEF Lists
    <3> QED BY <1>1, <1>5, <3>1 DEF Lists
  <2>3. ASSUME NEW w \in W PROVE \E i \in 1..m : both[i] = w
    <3>1. PICK k \in 1..n : up[k] = w
      BY <1>1 DEF Lists
    <3>2. k \in kept
      BY <3>1
    <3>3. PICK i \in 1..m : low[i] = k
      BY <1>4, <3>2 DEF Lists
    <3> QED BY <3>1, <3>3
  <2> HIDE DEF both
  <2> QED BY <2>1, <2>2, <2>3 DEF Lists
<1>7. \A k \in 1..m : both[k] = up[low[k]]
  OBVIOUS
<1> DEFINE one == Pick(s, W)
           two == Pick(half, kept)
<1> HIDE DEF both, kept
<1>8. one \in [1..m -> S] /\ \A k \in 1..m : one[k] = s[both[k]]
  <2>1. Picks(s, W, S, m, both)
    BY <1>3, <1>6, PickAlong
  <2> QED BY <2>1 DEF Picks
<1>9. two \in [1..m -> S] /\ \A k \in 1..m : two[k] = half[low[k]]
  <2>1. Picks(half, kept, S, m, low)
    BY <1>3, <1>4, PickAlong
  <2> QED BY <2>1 DEF Picks
<1> HIDE DEF one, two
<1>10. \A k \in 1..m : one[k] = two[k]
  BY <1>2, <1>5, <1>7, <1>8, <1>9
<1>11. one = two
  BY <1>8, <1>9, <1>10
<1> QED BY <1>2, <1>3, <1>11 DEF one, two, half

-----------------------------------------------------------------------------
(* Lists of sinks, and the journal. *)

LEMMA SinksAre ==
    /\ Sinks = HttpSinks \cup {"agent-event"} /\ "agent-event" \notin HttpSinks
    /\ SinkOrder \in Seq(Sinks) /\ DOMAIN SinkOrder = 1..4
    /\ \A i, j \in 1..4 : SinkOrder[i] = SinkOrder[j] => i = j
    /\ \A s \in Sinks : \E i \in 1..4 : SinkOrder[i] = s
<1>1. DOMAIN SinkOrder = 1..4
  BY DEF SinkOrder
<1>2. /\ SinkOrder[1] = "slack" /\ SinkOrder[2] = "webhook" /\ SinkOrder[3] = "otlp"
      /\ SinkOrder[4] = "agent-event"
  BY DEF SinkOrder
<1>3. \A i \in 1..4 : i = 1 \/ i = 2 \/ i = 3 \/ i = 4
  OBVIOUS
<1>4. 1 \in 1..4 /\ 2 \in 1..4 /\ 3 \in 1..4 /\ 4 \in 1..4
  OBVIOUS
<1>5. Sinks = {SinkOrder[i] : i \in 1..4}
  BY <1>1 DEF Sinks, ToSet
<1>6. Sinks = {"slack", "webhook", "otlp", "agent-event"}
  BY <1>2, <1>3, <1>4, <1>5
<1>7. SinkOrder \in Seq(Sinks)
  BY <1>6 DEF SinkOrder
<1> QED BY <1>1, <1>2, <1>3, <1>5, <1>6, <1>7 DEF HttpSinks

Distinct(q) == \A i, j \in DOMAIN q : q[i] = q[j] => i = j

LEMMA TailLeaves ==
    ASSUME NEW q \in Seq(Sinks), q # <<>>, Distinct(q)
    PROVE  /\ Tail(q) \in Seq(Sinks) /\ Distinct(Tail(q)) /\ Head(q) \in ToSet(q)
           /\ ToSet(Tail(q)) = ToSet(q) \ {Head(q)}
<1>1. /\ DOMAIN q = 1..Len(q) /\ Len(q) \in Nat \ {0} /\ Head(q) = q[1] /\ 1 \in 1..Len(q)
      /\ Tail(q) \in Seq(Sinks) /\ DOMAIN Tail(q) = 1..(Len(q) - 1)
      /\ \A k \in 1..(Len(q) - 1) : Tail(q)[k] = q[k + 1] /\ k + 1 \in 1..Len(q) /\ k + 1 # 1
      /\ \A k \in 1..Len(q) : k # 1 => k - 1 \in 1..(Len(q) - 1) /\ (k - 1) + 1 = k
  OBVIOUS
<1>2. ASSUME NEW x \in ToSet(Tail(q)) PROVE x \in ToSet(q) \ {Head(q)}
  <2>1. PICK k \in 1..(Len(q) - 1) : x = q[k + 1]
    BY <1>1 DEF ToSet
  <2> QED BY <1>1, <2>1 DEF ToSet, Distinct
<1>3. ASSUME NEW x \in ToSet(q), x # Head(q) PROVE x \in ToSet(Tail(q))
  <2>1. PICK k \in 1..Len(q) : x = q[k]
    BY <1>1 DEF ToSet
  <2>2. k - 1 \in DOMAIN Tail(q) /\ Tail(q)[k - 1] = x
    BY <1>1, <1>3, <2>1
  <2> QED BY <2>2 DEF ToSet
<1>4. Distinct(Tail(q))
  <2> SUFFICES ASSUME NEW i \in 1..(Len(q) - 1), NEW j \in 1..(Len(q) - 1), q[i + 1] = q[j + 1]
               PROVE  i = j
    BY <1>1 DEF Distinct
  <2>1. i + 1 = j + 1
    BY <1>1 DEF Distinct
  <2> QED BY <2>1
<1>5. Head(q) \in ToSet(q)
  BY <1>1 DEF ToSet
<1> QED BY <1>1, <1>2, <1>3, <1>4, <1>5

LEMMA ConfiguredAre ==
    ASSUME NEW r, config[r].sinks \subseteq Sinks
    PROVE  /\ Configured(r) \in Seq(Sinks) /\ Distinct(Configured(r))
           /\ ToSet(Configured(r)) = config[r].sinks
<1> DEFINE T == {i \in DOMAIN SinkOrder : SinkOrder[i] \in config[r].sinks}
           q == Pick(SinkOrder, T)
<1>1. T \in SUBSET (1..4) /\ Into(SinkOrder, T, Sinks) /\ 4 \in Nat
  BY SinksAre DEF Into
<1>2. \A i, j \in T : SinkOrder[i] = SinkOrder[j] => i = j
  BY SinksAre
<1>3. \A s \in config[r].sinks : \E i \in T : SinkOrder[i] = s
  BY SinksAre
<1>4. \A i \in T : SinkOrder[i] \in config[r].sinks
  OBVIOUS
<1> HIDE DEF T
<1>5. /\ q \in Seq(Sinks) /\ Len(q) = Cardinality(T) /\ Cardinality(T) \in Nat
      /\ \A k \in 1..Cardinality(T) : \E i \in T : q[k] = SinkOrder[i]
      /\ \A i \in T : \E k \in 1..Cardinality(T) : q[k] = SinkOrder[i]
      /\ \A k, m \in 1..Cardinality(T) : q[k] = q[m] => k = m
  BY <1>1, <1>2, PickIsASequence
<1> HIDE DEF q
<1>6. DOMAIN q = 1..Cardinality(T)
  BY <1>5
<1>7. ToSet(q) = config[r].sinks
  <2>1. \A s \in config[r].sinks : s \in ToSet(q)
    BY <1>3, <1>5, <1>6 DEF ToSet
  <2>2. \A s \in ToSet(q) : s \in config[r].sinks
    BY <1>4, <1>5, <1>6 DEF ToSet
  <2> QED BY <2>1, <2>2
<1>8. Configured(r) = q
  BY DEF Configured, q, T
<1> QED BY <1>5, <1>6, <1>7, <1>8 DEF Distinct

(* The journal's entries of one run.                                       *)
OfRun(entries, r) == Pick(entries, {i \in DOMAIN entries : entries[i].run = r})

LEMMA OfRunGrows ==
    ASSUME NEW entries \in Seq(Entry), NEW r
    PROVE  /\ OfRun(entries, r) \in Seq(Entry)
           /\ \A e \in Entry :
                OfRun(Append(entries, e), r) =
                  IF e.run = r THEN Append(OfRun(entries, r), e) ELSE OfRun(entries, r)
<1> DEFINE L == Len(entries)
           T == {i \in DOMAIN entries : entries[i].run = r}
<1>1. L \in Nat /\ T \in SUBSET (1..L) /\ Into(entries, T, Entry) /\ DOMAIN entries = 1..L
  BY DEF Into
<1>2. OfRun(entries, r) = Pick(entries, T)
  BY DEF OfRun
<1>3. OfRun(entries, r) \in Seq(Entry)
  <2> DEFINE picked == Pick(entries, T)
             Typed(x) == x \in Seq(Entry)
  <2>1. Typed(picked)
    <3> SUFFICES picked \in Seq(Entry)
      OBVIOUS
    <3> HIDE DEF T, L
    <3> QED BY <1>1, PickTyped
  <2> HIDE DEF picked
  <2> QED BY <1>2, <2>1 DEF picked
<1>4. ASSUME NEW e \in Entry
      PROVE  OfRun(Append(entries, e), r) =
               IF e.run = r THEN Append(OfRun(entries, r), e) ELSE OfRun(entries, r)
  <2> DEFINE more == Append(entries, e)
             U == {i \in DOMAIN more : more[i].run = r}
             p == L + 1
  <2>1. /\ DOMAIN more = 1..p /\ more[p] = e /\ \A i \in 1..L : more[i] = entries[i]
        /\ p \in Nat /\ \A i \in 1..p : i = p \/ i \in 1..L
        /\ \A i \in 1..L : i \in 1..p /\ i < p
    OBVIOUS
  <2>2. OfRun(more, r) = Pick(more, U)
    BY DEF OfRun
  <2>3. /\ \A i \in U : i = p \/ i \in T
        /\ \A i \in T : i \in U
        /\ p \in U <=> e.run = r
        /\ \A i \in T : entries[i] = more[i] /\ i < p
        /\ Into(more, T, Entry)
    <3>1. \A i \in T : i \in 1..L /\ entries[i] \in Entry /\ entries[i].run = r
      BY <1>1 DEF Into
    <3>2. \A i \in 1..L : entries[i].run = r => i \in T
      BY <1>1
    <3>3. \A i \in U : i \in 1..p /\ more[i].run = r
      BY <2>1
    <3>4. \A i \in 1..p : more[i].run = r => i \in U
      BY <2>1
    <3>5. p \in 1..p
      BY <2>1
    <3> HIDE DEF more, p, L, T, U
    <3>6. \A i \in U : i = p \/ i \in T
      BY <2>1, <3>2, <3>3
    <3>7. \A i \in T : i \in U /\ entries[i] = more[i] /\ i < p
      BY <2>1, <3>1, <3>4
    <3>8. p \in U <=> e.run = r
      BY <2>1, <3>3, <3>4, <3>5
    <3>9. Into(more, T, Entry)
      BY <3>1, <3>7 DEF Into
    <3> QED BY <3>6, <3>7, <3>8, <3>9
  <2> HIDE DEF T, U, more, p, L
  <2>4. Pick(more, T) = Pick(entries, T)
    <3>1. \A i \in T : entries[i] = more[i]
      BY <2>3
    <3> QED BY <1>1, <3>1, PickSame
  <2>5. CASE e.run = r
    <3>1. U = T \cup {p}
      BY <2>3, <2>5
    <3>2. Pick(more, T \cup {p}) = Append(Pick(more, T), more[p])
      <4>1. \A t \in T : t < p
        BY <2>3
      <4>2. more[p] \in Entry
        BY <2>1
      <4>3. PickGrows(more, T, p)
        BY <1>1, <2>1, <2>3, <4>1, <4>2, PickMore
      <4> QED BY <4>3 DEF PickGrows
    <3> QED BY <1>2, <2>1, <2>2, <2>4, <2>5, <3>1, <3>2 DEF more
  <2>6. CASE e.run # r
    <3>1. U = T
      BY <2>3, <2>6
    <3> QED BY <1>2, <2>2, <2>4, <2>6, <3>1 DEF more
  <2> QED BY <2>5, <2>6
<1> QED BY <1>3, <1>4

ClaimsIn(entries) == Cardinality({k \in DOMAIN entries : entries[k].schema = "v0.3"})

LEMMA ClaimsCount == ASSUME NEW q \in Seq(Entry) PROVE ClaimsIn(q) \in Nat
<1> DEFINE T == {k \in DOMAIN q : q[k].schema = "v0.3"}
<1>1. IsFiniteSet(1..Len(q)) /\ T \in SUBSET (1..Len(q))
  <2>1. 1 \in Int /\ Len(q) \in Int /\ DOMAIN q = 1..Len(q)
    OBVIOUS
  <2> QED BY <2>1, FS_Interval
<1> HIDE DEF T
<1>2. Cardinality(T) \in Nat
  BY <1>1, FS_Subset, FS_CardinalityType
<1> QED BY <1>2 DEF ClaimsIn, T

LEMMA ClaimsGrow ==
    ASSUME NEW q \in Seq(Entry), NEW e \in Entry
    PROVE  /\ ClaimsIn(q) \in Nat
           /\ ClaimsIn(Append(q, e)) = IF e.schema = "v0.3" THEN ClaimsIn(q) + 1 ELSE ClaimsIn(q)
<1> DEFINE p == Len(q) + 1
           T == {k \in DOMAIN q : q[k].schema = "v0.3"}
           U == {k \in DOMAIN Append(q, e) : Append(q, e)[k].schema = "v0.3"}
<1>1. /\ DOMAIN q = 1..Len(q) /\ Len(q) \in Nat /\ DOMAIN Append(q, e) = 1..p
      /\ Append(q, e)[p] = e /\ \A i \in 1..Len(q) : Append(q, e)[i] = q[i] /\ i \in 1..p /\ i # p
      /\ \A i \in 1..p : i = p \/ i \in 1..Len(q)
      /\ p \in 1..p
  OBVIOUS
<1>2. IsFiniteSet(T) /\ Cardinality(T) \in Nat
  <2>1. IsFiniteSet(1..Len(q)) /\ T \in SUBSET (1..Len(q))
    <3>1. 1 \in Int /\ Len(q) \in Int
      OBVIOUS
    <3> QED BY <1>1, <3>1, FS_Interval
  <2> HIDE DEF T
  <2> QED BY <2>1, FS_Subset, FS_CardinalityType
<1>3. U = (IF e.schema = "v0.3" THEN T \cup {p} ELSE T) /\ p \notin T
  <2> HIDE DEF p
  <2> QED BY <1>1
<1> HIDE DEF T, U, p
<1>4. Cardinality(T \cup {p}) = Cardinality(T) + 1
  BY <1>2, <1>3, FS_AddElement
<1> QED BY <1>2, <1>3, <1>4 DEF ClaimsIn, T, U

LEMMA AlertsLen == ASSUME NEW q \in Seq(Entry) PROVE Len(AlertsIn(q)) = Len(q)
<1> DEFINE a == AlertsIn(q)
           n == Len(q)
<1>1. n \in Nat /\ DOMAIN q = 1..n
  OBVIOUS
<1>2. DOMAIN a = 1..n
  BY <1>1 DEF AlertsIn
<1>3. a = [k \in 1..n |-> [about |-> q[k].about, severity |-> q[k].severity]]
  <2> HIDE DEF n
  <2> QED BY <1>1 DEF AlertsIn
<1> HIDE DEF a, n
<1>4. Len(a) = n
  BY <1>1, <1>3
<1> QED BY <1>4 DEF a, n

LEMMA AlertsGrow ==
    ASSUME NEW q \in Seq(Entry), NEW e \in Entry
    PROVE  /\ AlertsIn(q) \in Seq(Alert) /\ Len(AlertsIn(q)) = Len(q)
           /\ AlertsIn(Append(q, e)) = Append(AlertsIn(q), [about |-> e.about, severity |-> e.severity])
<1> DEFINE a == AlertsIn(q)
           x == [about |-> e.about, severity |-> e.severity]
           n == Len(q)
           b == AlertsIn(Append(q, e))
<1>1. n \in Nat /\ \A k \in 1..n : q[k] \in Entry
  OBVIOUS
<1>2. x \in Alert
  BY DEF Entry, Alert
<1>3. a \in [1..n -> Alert] /\ \A k \in 1..n : a[k] = [about |-> q[k].about, severity |-> q[k].severity]
  <2>1. a = [k \in 1..n |-> [about |-> q[k].about, severity |-> q[k].severity]]
    <3>1. DOMAIN q = 1..n
      OBVIOUS
    <3> HIDE DEF n
    <3> QED BY <3>1 DEF AlertsIn
  <2>2. \A k \in 1..n : [about |-> q[k].about, severity |-> q[k].severity] \in Alert
    BY <1>1 DEF Entry, Alert
  <2> HIDE DEF a, n
  <2> QED BY <2>1, <2>2
<1>4. /\ DOMAIN Append(q, e) = 1..(n + 1) /\ Append(q, e)[n + 1] = e
      /\ \A k \in 1..n : Append(q, e)[k] = q[k] /\ k \in 1..(n + 1)
      /\ \A k \in 1..(n + 1) : k = n + 1 \/ k \in 1..n
      /\ n + 1 \in 1..(n + 1)
  OBVIOUS
<1>5. b = [k \in 1..(n + 1) |->
             [about |-> Append(q, e)[k].about, severity |-> Append(q, e)[k].severity]]
  BY <1>4 DEF AlertsIn
<1>6. b[n + 1] = x /\ \A k \in 1..n : b[k] = a[k]
  <2> HIDE DEF a, b, n
  <2> QED BY <1>3, <1>4, <1>5
<1>7. DOMAIN b = 1..(n + 1) /\ b = [k \in 1..(n + 1) |-> b[k]]
  <2> HIDE DEF n
  <2> QED BY <1>5
<1> HIDE DEF a, b, x, n
<1>8. a \in Seq(Alert) /\ Len(a) = n
  BY <1>1, <1>3
<1>9. /\ Append(a, x) \in Seq(Alert) /\ Len(Append(a, x)) = n + 1
      /\ Append(a, x)[n + 1] = x /\ \A k \in 1..n : Append(a, x)[k] = a[k]
  BY <1>1, <1>2, <1>8
<1>10. b \in [1..(n + 1) -> Alert]
  BY <1>2, <1>3, <1>4, <1>6, <1>7
<1>11. \A k \in 1..(n + 1) : b[k] = Append(a, x)[k]
  BY <1>4, <1>6, <1>9
<1>12. b = Append(a, x)
  <2> DEFINE c == Append(a, x)
  <2>1. c \in Seq(Alert) /\ Len(c) = n + 1 /\ \A k \in 1..(n + 1) : b[k] = c[k]
    BY <1>9, <1>11
  <2> HIDE DEF c
  <2>2. c \in [1..(n + 1) -> Alert]
    BY <1>1, <2>1
  <2>3. b = c
    BY <1>10, <2>1, <2>2
  <2> QED BY <2>3 DEF c
<1> QED BY <1>8, <1>12 DEF a, b, x, n

-----------------------------------------------------------------------------
(* The inductive invariant. *)

(* A run that has not come to its sinks, or whose invocation was broken,    *)
(* has told nobody anything.                                               *)
Early(r) == phase[r] \in {"idle", "scanning", "wiring"} \/ exit[r] = 1

Untold(r) ==
    /\ counts[r] = NoCounts /\ failedSinks[r] = {} /\ JournalOf(r) = <<>>
    /\ \A s \in HttpSinks : received[s][r] = <<>>

(* A run that is at its sinks or has been through them.                     *)
Late(r) == phase[r] = "sending" \/ exit[r] \in {0, 3}

Control(r) ==
    /\ exit[r] # None <=> phase[r] = "exited"
    /\ phase[r] # "idle" => config[r] \in Configs
    /\ Early(r) => Untold(r)
    /\ exit[r] \in {0, 3} => todo[r] = <<>>
    /\ exit[r] = 0 => failedSinks[r] = {}

(* A destination still to be tried has nothing; one that has been tried and *)
(* has not failed has what it was due.                                     *)
Posted(r) ==
    /\ Distinct(todo[r]) /\ ToSet(todo[r]) \subseteq config[r].sinks
    /\ \A s \in HttpSinks \cap ToSet(todo[r]) : received[s][r] = <<>>
    /\ \A s \in (HttpSinks \cap config[r].sinks) \ ToSet(todo[r]) :
           s \notin failedSinks[r] => received[s][r] = Due(r)

(* The journal sink is through the batch once it is off the list.           *)
Recording(r) ==
    /\ "agent-event" \in config[r].sinks => config[r].domain \in {"blank", "acme"}
    /\ at[r] \in 1..(Len(batch[r]) + 1)
    /\ "agent-event" \in config[r].sinks \ ToSet(todo[r]) => at[r] = Len(batch[r]) + 1

(* W, the alerts of the batch the journal has: with the skipped and the     *)
(* failed they are those before at, and unless an append failed, all those  *)
(* of them that have a subject.                                            *)
Accounted(r, W) ==
    /\ \A i \in W : i < at[r]
    /\ Cardinality(W) + counts[r].skipped + counts[r].failed = at[r] - 1
    /\ "agent-event" \notin failedSinks[r] => \A i \in Subjects(r) : i < at[r] => i \in W

Written(r) ==
    \E W \in SUBSET Subjects(r) :
        /\ AlertsIn(JournalOf(r)) = Pick(batch[r], W)
        /\ Late(r) => Accounted(r, W)

Claims(r) ==
    counts[r].claimed \in
        ClaimsIn(JournalOf(r))..(ClaimsIn(JournalOf(r)) + counts[r].failed)

Own(r) ==
    /\ Control(r)
    /\ Late(r) => Posted(r) /\ Recording(r)
    /\ Written(r)
    /\ Claims(r)

IInv == TypeOK /\ \A r \in Runs : Own(r)

-----------------------------------------------------------------------------
(* Types, and the runs a step is not about. *)

LEMMA BatchIs ==
    ASSUME TypeOK, NEW r \in Runs
    PROVE  /\ batch[r] \in Seq(Alert) /\ Len(batch[r]) \in Nat
           /\ DOMAIN batch[r] = 1..Len(batch[r])
           /\ \A i \in 1..Len(batch[r]) : batch[r][i] \in Alert
           /\ Subjects(r) \in SUBSET (1..Len(batch[r]))
           /\ Into(batch[r], Subjects(r), Alert)
<1>1. batch[r] \in Seq(Alert)
  <2>1. batch[r] \in Batches \cup {<<>>} /\ <<>> \in Seq(Alert)
    BY DEF TypeOK
  <2> QED BY <2>1, BatchesAssumption
<1>2. /\ Len(batch[r]) \in Nat /\ DOMAIN batch[r] = 1..Len(batch[r])
      /\ \A i \in 1..Len(batch[r]) : batch[r][i] \in Alert
  BY <1>1
<1>3. Subjects(r) \in SUBSET (1..Len(batch[r]))
  BY <1>2 DEF Subjects
<1> QED BY <1>1, <1>2, <1>3 DEF Into

LEMMA ConfigIs ==
    ASSUME NEW r \in Runs, config[r] \in Configs
    PROVE  /\ config[r].sinks \subseteq Sinks /\ config[r].usable \in BOOLEAN
           /\ config[r].domain \in {"", "blank", "Bad", "acme"}
BY ConfigsAssumption DEF Config

Untouched(q) ==
    /\ phase'[q] = phase[q] /\ config'[q] = config[q] /\ batch'[q] = batch[q]
    /\ todo'[q] = todo[q] /\ at'[q] = at[q] /\ counts'[q] = counts[q]
    /\ failedSinks'[q] = failedSinks[q] /\ exit'[q] = exit[q]
    /\ \A s \in HttpSinks : received'[s][q] = received[s][q]
    /\ JournalOf(q)' = JournalOf(q)

LEMMA Stands ==
    ASSUME NEW q \in Runs, Own(q), Untouched(q)
    PROVE  Own(q)'
<1>1. Subjects(q)' = Subjects(q) /\ Due(q)' = Due(q)
  BY DEF Subjects, Due, Untouched
<1>2. (Late(q)' <=> Late(q)) /\ (Early(q)' <=> Early(q))
  BY DEF Late, Early, Untouched
<1>3. Control(q)'
  BY <1>2 DEF Own, Control, Untold, Untouched
<1>4. Late(q)' => Posted(q)' /\ Recording(q)'
  BY <1>1, <1>2 DEF Own, Posted, Recording, Untouched
<1>5. Written(q)'
  <2>1. PICK W \in SUBSET Subjects(q) :
          AlertsIn(JournalOf(q)) = Pick(batch[q], W) /\ (Late(q) => Accounted(q, W))
    BY DEF Own, Written
  <2>2. Accounted(q, W) => Accounted(q, W)'
    BY <1>1 DEF Accounted, Untouched
  <2>3. AlertsIn(JournalOf(q))' = Pick(batch[q], W)'
    <3>1. AlertsIn(JournalOf(q))' = AlertsIn(JournalOf(q)')
      BY DEF AlertsIn
    <3> QED BY <2>1, <3>1 DEF Untouched
  <2> QED BY <1>1, <1>2, <2>1, <2>2, <2>3 DEF Written
<1>6. Claims(q)'
  <2>1. ClaimsIn(JournalOf(q))' = ClaimsIn(JournalOf(q))
    BY DEF ClaimsIn, Untouched
  <2> QED BY <2>1 DEF Own, Claims, Untouched
<1> QED BY <1>3, <1>4, <1>5, <1>6 DEF Own

(* The journal does not change, or it gets an entry of r.                   *)
LEMMA JournalsOfOthers ==
    ASSUME TypeOK, NEW r \in Runs
    PROVE  /\ journal' = journal => \A q \in Runs : JournalOf(q)' = JournalOf(q)
           /\ \A e \in Entry : journal' = Append(journal, e) /\ e.run = r =>
                /\ JournalOf(r)' = Append(JournalOf(r), e)
                /\ \A q \in Runs : q # r => JournalOf(q)' = JournalOf(q)
<1>1. \A q \in Runs : JournalOf(q) = OfRun(journal, q) /\ JournalOf(q)' = OfRun(journal', q)
  BY DEF JournalOf, OfRun
<1>2. journal \in Seq(Entry)
  BY DEF TypeOK
<1>3. ASSUME NEW e \in Entry, NEW q \in Runs
      PROVE  OfRun(Append(journal, e), q) =
               IF e.run = q THEN Append(OfRun(journal, q), e) ELSE OfRun(journal, q)
  BY <1>2, OfRunGrows
<1> QED BY <1>1, <1>3

-----------------------------------------------------------------------------
(* The steps. *)

(* e is what the next alert of r becomes in the journal, and c the claims   *)
(* it counts.                                                              *)
EntryOf(r, e, c) ==
    /\ e \in Entry /\ e.run = r /\ c \in {0, 1} /\ (e.schema = "v0.3" <=> c = 1)
    /\ at[r] \in Subjects(r)
    /\ [about |-> e.about, severity |-> e.severity] = batch[r][at[r]]

LEMMA AtTheJournal ==
    ASSUME TypeOK, NEW r \in Runs, Own(r), Writing(r)
    PROVE  /\ Late(r) /\ ~Early(r) /\ exit[r] = None /\ phase[r] = "sending"
           /\ config[r].domain \in {"blank", "acme"}
           /\ at[r] \in 1..Len(batch[r]) /\ batch[r][at[r]] \in Alert
           /\ "agent-event" \in ToSet(todo[r])
<1>1. phase[r] = "sending" /\ todo[r] # <<>> /\ Head(todo[r]) = "agent-event"
      /\ at[r] <= Len(batch[r])
  BY DEF Writing, Sending
<1>2. Late(r) /\ exit[r] = None
  BY <1>1 DEF Late, Own, Control
<1>3. ~Early(r)
  BY <1>1, <1>2, NoneAssumption DEF Early
<1>4. Posted(r) /\ Recording(r)
  BY <1>2 DEF Own
<1>5. "agent-event" \in ToSet(todo[r])
  <2>1. todo[r] \in Seq(Sinks) /\ Distinct(todo[r])
    BY <1>4 DEF TypeOK, Posted
  <2> QED BY <1>1, <2>1, TailLeaves
<1>6. "agent-event" \in config[r].sinks
  BY <1>4, <1>5 DEF Posted
<1>7. at[r] \in 1..Len(batch[r])
  <2>1. at[r] \in 1..(Len(batch[r]) + 1) /\ Len(batch[r]) \in Nat
    BY <1>4, BatchIs DEF Recording
  <2> QED BY <1>1, <2>1
<1> QED BY <1>1, <1>2, <1>3, <1>4, <1>5, <1>6, <1>7, BatchIs DEF Recording

LEMMA WriteIs ==
    ASSUME TypeOK, NEW r \in Runs, Own(r), WriteFinding(r)
    PROVE  \E e, c : EntryOf(r, e, c) /\ AppendEntry(r, e, c)
<1> DEFINE alert == batch[r][at[r]]
           id == alert.about
           domain == config[r].domain
<1>1. Writing(r)
  BY DEF WriteFinding
<1>2. at[r] \in 1..Len(batch[r]) /\ alert \in Alert /\ domain \in {"blank", "acme"}
  BY <1>1, AtTheJournal
<1>3. id \in Identities /\ alert.severity \in Severities
      /\ alert = [about |-> alert.about, severity |-> alert.severity]
  BY <1>2 DEF Alert
<1>4. \A subject : subject \in TrustedID(id, domain) \/ subject \in ClaimedID(id, domain) =>
        /\ subject \in {"as is", "acme"} \X Identities
        /\ HasSubject(id, domain)
  <2> SUFFICES ASSUME NEW subject, subject \in TrustedID(id, domain) \/ subject \in ClaimedID(id, domain)
               PROVE  /\ subject \in {"as is", "acme"} \X Identities
                      /\ HasSubject(id, domain)
    OBVIOUS
  <2> HIDE DEF id, domain, alert
  <2>1. CASE domain = "blank"
    BY <2>1 DEF TrustedID, ClaimedID
  <2>2. CASE domain = "acme"
    <3>1. CASE Namespace[id] = "canonical"
      <4>1. TrustedID(id, domain) = {<<"as is", id>>} /\ ClaimedID(id, domain) = {}
        BY <2>2, <3>1 DEF TrustedID, ClaimedID
      <4>2. subject = <<"as is", id>>
        BY <4>1
      <4>3. <<"as is", id>> \in {"as is", "acme"} \X Identities
        BY <1>3
      <4> QED BY <2>2, <3>1, <4>2, <4>3 DEF HasSubject
    <3>2. CASE Namespace[id] = "inventory"
      <4>1. TrustedID(id, domain) = {<<"acme", id>>} /\ ClaimedID(id, domain) = {}
        BY <2>2, <3>2 DEF TrustedID, ClaimedID
      <4>2. subject = <<"acme", id>>
        BY <4>1
      <4>3. <<"acme", id>> \in {"as is", "acme"} \X Identities
        BY <1>3
      <4> QED BY <2>2, <3>2, <4>2, <4>3 DEF HasSubject
    <3>3. CASE Namespace[id] \notin {"canonical", "inventory"}
      <4>1. TrustedID(id, domain) = {}
        BY <3>3 DEF TrustedID
      <4>2. Namespace[id] = "claimed" /\ subject = <<"as is", id>>
        BY <4>1 DEF ClaimedID
      <4> QED BY <1>3, <2>2, <4>2 DEF HasSubject
    <3> QED BY <3>1, <3>2, <3>3
  <2> QED BY <1>2, <2>1, <2>2
<1>5. HasSubject(id, domain) => at[r] \in Subjects(r)
  BY <1>2, BatchIs DEF Subjects
<1>6. ASSUME NEW subject \in {"as is", "acme"} \X Identities, NEW schema \in {"v0.2", "v0.3"}
      PROVE  LET e == Finding(r, subject, schema) IN
             /\ e \in Entry /\ e.run = r /\ e.schema = schema
             /\ [about |-> e.about, severity |-> e.severity] = alert
  <2> HIDE DEF alert
  <2> DEFINE e == Finding(r, subject, schema)
  <2>1. e = [run |-> r, subject |-> subject, schema |-> schema,
             about |-> alert.about, severity |-> alert.severity]
    BY DEF Finding, alert
  <2> HIDE DEF e
  <2>2. e.run = r /\ e.schema = schema /\ e.about = alert.about /\ e.severity = alert.severity
    BY <2>1
  <2>3. [about |-> e.about, severity |-> e.severity] = alert
    BY <1>3, <2>2
  <2>4. e \in Entry
    <3> DEFINE a == alert.about
               v == alert.severity
    <3>1. a \in Identities /\ v \in Severities /\ e = [run |-> r, subject |-> subject,
             schema |-> schema, about |-> a, severity |-> v]
      BY <1>3, <2>1
    <3> HIDE DEF a, v
    <3> QED BY <3>1 DEF Entry
  <2> QED BY <2>2, <2>3, <2>4 DEF e
<1>7. ASSUME NEW subject \in TrustedID(id, domain), AppendEntry(r, Finding(r, subject, "v0.2"), 0)
      PROVE  EntryOf(r, Finding(r, subject, "v0.2"), 0)
  <2>1. subject \in {"as is", "acme"} \X Identities /\ HasSubject(id, domain)
    BY <1>4, <1>7
  <2>2. at[r] \in Subjects(r)
    BY <1>5, <2>1
  <2> DEFINE e == Finding(r, subject, "v0.2")
  <2>3. /\ e \in Entry /\ e.run = r /\ e.schema = "v0.2"
        /\ [about |-> e.about, severity |-> e.severity] = alert
    BY <1>6, <2>1
  <2> HIDE DEF e
  <2>4. EntryOf(r, e, 0)
    BY <2>2, <2>3 DEF EntryOf
  <2> QED BY <2>4 DEF e
<1>8. ASSUME NEW subject \in ClaimedID(id, domain), AppendEntry(r, Finding(r, subject, "v0.3"), 1)
      PROVE  EntryOf(r, Finding(r, subject, "v0.3"), 1)
  <2>1. subject \in {"as is", "acme"} \X Identities /\ HasSubject(id, domain)
    BY <1>4, <1>8
  <2>2. at[r] \in Subjects(r)
    BY <1>5, <2>1
  <2> DEFINE e == Finding(r, subject, "v0.3")
  <2>3. /\ e \in Entry /\ e.run = r /\ e.schema = "v0.3"
        /\ [about |-> e.about, severity |-> e.severity] = alert
    BY <1>6, <2>1
  <2> HIDE DEF e
  <2>4. EntryOf(r, e, 1)
    BY <2>2, <2>3 DEF EntryOf
  <2> QED BY <2>4 DEF e
<1> QED BY <1>7, <1>8 DEF WriteFinding

LEMMA DueIs == ASSUME TypeOK, NEW r \in Runs PROVE Due(r) \in Seq(Alert)
<1> DEFINE T == {i \in DOMAIN batch[r] : batch[r][i].severity >= config[r].min}
           picked == Pick(batch[r], T)
<1>1. T \in SUBSET (1..Len(batch[r])) /\ Into(batch[r], T, Alert) /\ Len(batch[r]) \in Nat
  BY BatchIs DEF Into
<1>2. Due(r) = picked
  BY DEF Due, AtLeast
<1>3. picked \in Seq(Alert)
  <2> HIDE DEF T
  <2> QED BY <1>1, PickTyped
<1> QED BY <1>2, <1>3

LEMMA Types ==
    ASSUME TypeOK, \A r \in Runs : Own(r), Next
    PROVE  TypeOK'
<1> USE DEF TypeOK
<1>1. ASSUME NEW s \in HttpSinks, StopAnswering(s) PROVE TypeOK'
  BY <1>1 DEF StopAnswering, runVars, sendVars
<1>2. ASSUME NEW r \in Runs, NEW c \in Configs, Start(r, c) PROVE TypeOK'
  BY <1>2 DEF Start, sendVars
<1>3. ASSUME NEW r \in Runs, Kill(r) PROVE TypeOK'
  BY <1>3 DEF Kill, Leave, runVars, sendVars
<1>4. ASSUME NEW r \in Runs, SetupFails(r) \/ WiringFails(r) \/ Finish(r) PROVE TypeOK'
  <2>1. PICK code \in {0, 1, 3} : Leave(r, code)
    BY <1>4 DEF SetupFails, WiringFails, Finish
  <2>2. UNCHANGED <<answering, runVars, sendVars, received, journal>>
    BY <1>4 DEF SetupFails, WiringFails, Finish
  <2>3. /\ phase' \in [Runs -> {"idle", "scanning", "wiring", "sending", "exited"}]
        /\ exit' \in [Runs -> {None, 0, 1, 3, 137}]
    BY <2>1 DEF Leave
  <2> QED BY <2>2, <2>3 DEF runVars, sendVars
<1>5. ASSUME NEW r \in Runs, NEW alerts \in Batches, Scan(r, alerts) PROVE TypeOK'
  BY <1>5 DEF Scan, sendVars
<1>6. ASSUME NEW r \in Runs, Wire(r) PROVE TypeOK'
  <2>1. config[r] \in Configs
    BY <1>6 DEF Wire, Own, Control
  <2>2. Configured(r) \in Seq(Sinks)
    BY <2>1, ConfigIs, ConfiguredAre
  <2> QED BY <1>6, <2>2 DEF Wire, runVars
<1>7. ASSUME NEW r \in Runs, todo[r] # <<>>,
             (\E failed \in BOOLEAN : Returns(r, failed)) \/ JournalDone(r)
      PROVE  /\ todo' \in [Runs -> Seq(Sinks)] /\ failedSinks' \in [Runs -> SUBSET Sinks]
  <2>1. Tail(todo[r]) \in Seq(Sinks) /\ Head(todo[r]) \in Sinks
    BY <1>7
  <2>2. CASE JournalDone(r)
    <3>1. todo' = [todo EXCEPT ![r] = Tail(todo[r])] /\ failedSinks' = failedSinks
      BY <2>2 DEF JournalDone
    <3> QED BY <2>1, <3>1
  <2>3. ASSUME NEW failed \in BOOLEAN, Returns(r, failed)
        PROVE  /\ todo' \in [Runs -> Seq(Sinks)] /\ failedSinks' \in [Runs -> SUBSET Sinks]
    <3> DEFINE more == IF failed THEN failedSinks[r] \cup {Head(todo[r])} ELSE failedSinks[r]
    <3>1. failedSinks' = [failedSinks EXCEPT ![r] = more] /\ more \in SUBSET Sinks
      <4>1. failedSinks' = [failedSinks EXCEPT ![r] = more]
        BY <2>3 DEF Returns
      <4>2. failedSinks[r] \in SUBSET Sinks
        OBVIOUS
      <4> QED BY <2>1, <4>1, <4>2
    <3> HIDE DEF more
    <3>2. todo' = [todo EXCEPT ![r] = Tail(todo[r])]
      BY <2>3 DEF Returns
    <3> QED BY <2>1, <3>1, <3>2
  <2> QED BY <1>7, <2>2, <2>3
<1>8. ASSUME NEW r \in Runs, NothingDue(r) \/ Refused(r) \/ TimesOut(r) PROVE TypeOK'
  <2>1. todo[r] # <<>> /\ received' = received /\ \E failed \in BOOLEAN : Returns(r, failed)
    BY <1>8 DEF NothingDue, Refused, TimesOut, Sending
  <2> QED BY <1>7, <2>1 DEF Returns, runVars
<1>9. ASSUME NEW r \in Runs, NEW lost \in BOOLEAN, Accepted(r, lost) PROVE TypeOK'
  <2>1. todo[r] # <<>> /\ Returns(r, lost) /\ Head(todo[r]) \in HttpSinks
    BY <1>9 DEF Accepted, Sending
  <2>2. Due(r) \in Seq(Alert)
    BY DueIs
  <2>3. received' = [received EXCEPT ![Head(todo[r])][r] = @ \o Due(r)]
    BY <1>9 DEF Accepted
  <2>4. received' \in [HttpSinks -> [Runs -> Seq(Alert)]]
    BY <2>1, <2>2, <2>3
  <2> QED BY <1>7, <2>1, <2>4 DEF Returns, runVars
<1>10. ASSUME NEW r \in Runs, SkipFinding(r) PROVE TypeOK'
  <2>1. counts' = [counts EXCEPT ![r].skipped = @ + 1]
    BY <1>10 DEF SkipFinding
  <2>2. counts' \in [Runs -> [skipped : Nat, claimed : Nat, failed : Nat]]
    <3>1. counts[r] \in [skipped : Nat, claimed : Nat, failed : Nat]
      OBVIOUS
    <3> DEFINE n == counts[r].skipped + 1
    <3>2. n \in Nat /\ counts' = [counts EXCEPT ![r] = [counts[r] EXCEPT !.skipped = n]]
      BY <2>1, <3>1
    <3> HIDE DEF n
    <3>3. [counts[r] EXCEPT !.skipped = n] \in [skipped : Nat, claimed : Nat, failed : Nat]
      BY <3>1, <3>2
    <3> QED BY <3>2, <3>3
  <2>3. at' \in [Runs -> Nat]
    BY <1>10 DEF SkipFinding, NextAlert
  <2> QED BY <1>10, <2>2, <2>3 DEF SkipFinding, NextAlert, runVars
<1>11. ASSUME NEW r \in Runs, WriteFinding(r) PROVE TypeOK'
  <2>1. PICK e, c : EntryOf(r, e, c) /\ AppendEntry(r, e, c)
    BY <1>11, WriteIs
  <2>2. e \in Entry /\ c \in {0, 1} /\ "agent-event" \in Sinks
    BY <2>1, SinksAre DEF EntryOf
  <2>3. Append(journal, e) \in Seq(Entry)
    BY <2>2
  <2>4. NextAlert(r)
    BY <1>11 DEF WriteFinding
  <2>5. journal' \in Seq(Entry)
    BY <2>1, <2>3 DEF AppendEntry
  <2>6. /\ counts' \in [Runs -> [skipped : Nat, claimed : Nat, failed : Nat]]
        /\ failedSinks' \in [Runs -> SUBSET Sinks]
    <3>1. CASE counts' = [counts EXCEPT ![r].claimed = @ + c] /\ UNCHANGED failedSinks
      <4>1. counts[r] \in [skipped : Nat, claimed : Nat, failed : Nat]
        OBVIOUS
      <4> DEFINE n == counts[r].claimed + c
      <4>2. n \in Nat /\ counts' = [counts EXCEPT ![r] = [counts[r] EXCEPT !.claimed = n]]
        BY <2>2, <3>1, <4>1
      <4> HIDE DEF n
      <4>3. [counts[r] EXCEPT !.claimed = n] \in [skipped : Nat, claimed : Nat, failed : Nat]
        BY <4>1, <4>2
      <4>4. counts' \in [Runs -> [skipped : Nat, claimed : Nat, failed : Nat]]
        BY <4>2, <4>3
      <4> QED BY <3>1, <4>4
    <3>2. CASE /\ counts' = [counts EXCEPT ![r].claimed = @ + c, ![r].failed = @ + 1]
               /\ failedSinks' = [failedSinks EXCEPT ![r] = @ \cup {"agent-event"}]
      <4>1. counts' \in [Runs -> [skipped : Nat, claimed : Nat, failed : Nat]]
        BY <2>2, <3>2
      <4>2. failedSinks' \in [Runs -> SUBSET Sinks]
        BY <2>2, <3>2
      <4> QED BY <4>1, <4>2
    <3> QED BY <2>1, <3>1, <3>2 DEF AppendEntry
  <2>7. at' \in [Runs -> Nat]
    BY <2>4 DEF NextAlert
  <2> QED BY <2>4, <2>5, <2>6, <2>7 DEF NextAlert, runVars
<1>12. ASSUME NEW r \in Runs, JournalDone(r) PROVE TypeOK'
  <2>1. todo[r] # <<>>
    BY <1>12 DEF JournalDone, Sending
  <2> QED BY <1>7, <1>12, <2>1 DEF JournalDone, runVars
<1>13. ASSUME NEW r \in Runs, Step(r) PROVE TypeOK'
  BY <1>4, <1>5, <1>6, <1>8, <1>9, <1>10, <1>11, <1>12, <1>13 DEF Step
<1>14. (\E s \in HttpSinks : StopAnswering(s))
       \/ \E r \in Runs : Step(r) \/ Kill(r) \/ \E c \in Configs : Start(r, c)
  BY DEF Next
<1> HIDE DEF TypeOK
<1> QED BY <1>1, <1>2, <1>3, <1>13, <1>14

(* What a step of r leaves alone of the other runs.                         *)
Elsewhere(r) == \A q \in Runs \ {r} : Untouched(q)

LEMMA OthersStand ==
    ASSUME TypeOK, NEW r \in Runs, Step(r) \/ Kill(r) \/ \E c \in Configs : Start(r, c),
           Own(r)
    PROVE  Elsewhere(r)
<1> SUFFICES ASSUME NEW q \in Runs, q # r PROVE Untouched(q)
  BY DEF Elsewhere
<1>1. /\ DOMAIN phase = Runs /\ DOMAIN config = Runs /\ DOMAIN batch = Runs
      /\ DOMAIN todo = Runs /\ DOMAIN at = Runs /\ DOMAIN counts = Runs
      /\ DOMAIN failedSinks = Runs /\ DOMAIN exit = Runs /\ DOMAIN received = HttpSinks
      /\ \A s \in HttpSinks : DOMAIN received[s] = Runs
  BY DEF TypeOK
<1>2. journal' = journal => JournalOf(q)' = JournalOf(q)
  BY JournalsOfOthers
<1>3. ASSUME NEW c \in Configs, Start(r, c) PROVE Untouched(q)
  BY <1>1, <1>2, <1>3 DEF Start, sendVars, Untouched
<1>4. ASSUME SetupFails(r) \/ WiringFails(r) \/ Finish(r) \/ Kill(r) PROVE Untouched(q)
  <2>1. /\ \E code : Leave(r, code)
        /\ UNCHANGED <<answering, runVars, sendVars, received, journal>>
    BY <1>4 DEF SetupFails, WiringFails, Finish, Kill
  <2>2. phase'[q] = phase[q] /\ exit'[q] = exit[q]
    BY <1>1, <2>1 DEF Leave
  <2> QED BY <1>2, <2>1, <2>2 DEF runVars, sendVars, Untouched
<1>5. ASSUME NEW alerts \in Batches, Scan(r, alerts) PROVE Untouched(q)
  BY <1>1, <1>2, <1>5 DEF Scan, sendVars, Untouched
<1>6. ASSUME Wire(r) PROVE Untouched(q)
  BY <1>1, <1>2, <1>6 DEF Wire, runVars, Untouched
<1>7. ASSUME NEW failed \in BOOLEAN, Returns(r, failed),
             received' = received \/ \E s \in HttpSinks : \E more :
                                       received' = [received EXCEPT ![s][r] = more]
      PROVE  Untouched(q)
  <2>1. todo'[q] = todo[q] /\ failedSinks'[q] = failedSinks[q]
    BY <1>1, <1>7 DEF Returns
  <2>2. \A s \in HttpSinks : received'[s][q] = received[s][q]
    <3>1. CASE received' = received
      BY <3>1
    <3>2. ASSUME NEW s \in HttpSinks, NEW more, received' = [received EXCEPT ![s][r] = more]
          PROVE  \A d \in HttpSinks : received'[d][q] = received[d][q]
      BY <1>1, <3>2
    <3> QED BY <1>7, <3>1, <3>2
  <2> QED BY <1>2, <1>7, <2>1, <2>2 DEF Returns, runVars, Untouched
<1>8. ASSUME NothingDue(r) \/ Refused(r) \/ TimesOut(r) PROVE Untouched(q)
  <2>1. received' = received /\ \E failed \in BOOLEAN : Returns(r, failed)
    BY <1>8 DEF NothingDue, Refused, TimesOut
  <2> QED BY <1>7, <2>1
<1>9. ASSUME NEW lost \in BOOLEAN, Accepted(r, lost) PROVE Untouched(q)
  <2>1. Returns(r, lost) /\ Head(todo[r]) \in HttpSinks
    BY <1>9 DEF Accepted, Sending, TypeOK
  <2>2. \E s \in HttpSinks : \E more : received' = [received EXCEPT ![s][r] = more]
    BY <1>9, <2>1 DEF Accepted
  <2> QED BY <1>7, <2>1, <2>2
<1>10. ASSUME NextAlert(r), \E more : counts' = [counts EXCEPT ![r] = more],
              failedSinks' = failedSinks
                \/ failedSinks' = [failedSinks EXCEPT ![r] = @ \cup {"agent-event"}],
              JournalOf(q)' = JournalOf(q)
       PROVE  Untouched(q)
  <2>1. at'[q] = at[q] /\ counts'[q] = counts[q] /\ failedSinks'[q] = failedSinks[q]
    BY <1>1, <1>10 DEF NextAlert
  <2> QED BY <1>10, <2>1 DEF NextAlert, runVars, Untouched
<1>11. ASSUME SkipFinding(r) PROVE Untouched(q)
  <2>1. /\ NextAlert(r) /\ failedSinks' = failedSinks /\ journal' = journal
        /\ \E more : counts' = [counts EXCEPT ![r] = more]
    BY <1>11 DEF SkipFinding
  <2> QED BY <1>2, <1>10, <2>1
<1>12. ASSUME WriteFinding(r) PROVE Untouched(q)
  <2>1. PICK e, c : EntryOf(r, e, c) /\ AppendEntry(r, e, c)
    BY <1>12, WriteIs
  <2>2. /\ \E more : counts' = [counts EXCEPT ![r] = more]
        /\ \/ failedSinks' = failedSinks
           \/ failedSinks' = [failedSinks EXCEPT ![r] = @ \cup {"agent-event"}]
    BY <2>1 DEF AppendEntry
  <2>3. JournalOf(q)' = JournalOf(q)
    <3>1. journal' = journal \/ journal' = Append(journal, e)
      BY <2>1 DEF AppendEntry
    <3>2. e \in Entry /\ e.run = r
      BY <2>1 DEF EntryOf
    <3> QED BY <3>1, <3>2, JournalsOfOthers
  <2> QED BY <1>10, <1>12, <2>2, <2>3 DEF WriteFinding
<1>13. ASSUME JournalDone(r) PROVE Untouched(q)
  BY <1>1, <1>2, <1>13 DEF JournalDone, runVars, Untouched
<1> QED
  <2>1. ASSUME Step(r) PROVE Untouched(q)
    BY <1>4, <1>5, <1>6, <1>8, <1>9, <1>11, <1>12, <1>13, <2>1 DEF Step
  <2> QED BY <1>3, <1>4, <2>1

(* A run that has told nobody anything has an empty journal to account for. *)
LEMMA NothingToAccount ==
    ASSUME NEW r \in Runs, Untold(r)'
    PROVE  /\ AlertsIn(JournalOf(r))' = Pick(batch[r], {})' /\ Claims(r)'
           /\ Cardinality({}) = 0
<1>1. counts'[r] = NoCounts /\ JournalOf(r)' = <<>>
  BY DEF Untold
<1>2. /\ DOMAIN <<>> = {} /\ Pick(batch'[r], {}) = <<>> /\ Cardinality({}) = 0
  BY PickNone
<1>3. AlertsIn(JournalOf(r))' = <<>>
  <2>1. AlertsIn(<<>>) = <<>>
    BY <1>2 DEF AlertsIn
  <2>2. AlertsIn(JournalOf(r))' = AlertsIn(JournalOf(r)')
    BY DEF AlertsIn
  <2> QED BY <1>1, <2>1, <2>2
<1>4. ClaimsIn(JournalOf(r))' = 0
  <2>1. ClaimsIn(<<>>) = 0
    <3>1. {k \in DOMAIN <<>> : <<>>[k].schema = "v0.3"} = {}
      BY <1>2
    <3> QED BY <1>2, <3>1 DEF ClaimsIn
  <2>2. ClaimsIn(JournalOf(r))' = ClaimsIn(JournalOf(r)')
    BY DEF ClaimsIn
  <2> QED BY <1>1, <2>1, <2>2
<1>5. Claims(r)'
  BY <1>1, <1>4 DEF Claims, NoCounts
<1> QED BY <1>2, <1>3, <1>5

LEMMA EarlyIsOwn ==
    ASSUME NEW r \in Runs, Untold(r)', Control(r)', ~Late(r)'
    PROVE  Own(r)'
<1>1. Written(r)'
  <2>1. {} \in SUBSET Subjects(r)'
    OBVIOUS
  <2> QED BY <2>1, NothingToAccount DEF Written
<1> QED BY <1>1, NothingToAccount DEF Own

LEMMA EarlySteps ==
    ASSUME TypeOK, NEW r \in Runs, Own(r),
           \/ \E c \in Configs : Start(r, c)
           \/ SetupFails(r) \/ WiringFails(r)
           \/ \E alerts \in Batches : Scan(r, alerts)
    PROVE  Own(r)'
<1>1. /\ phase[r] \in {"idle", "scanning", "wiring"} /\ exit[r] = None
      /\ phase[r] # "idle" => config[r] \in Configs
      /\ Untold(r)
  BY DEF Start, SetupFails, WiringFails, Scan, Own, Control, Early
<1>2. UNCHANGED <<todo, at, counts, failedSinks, received, journal>>
  BY DEF Start, SetupFails, WiringFails, Scan, runVars, sendVars
<1>3. Untold(r)'
  BY <1>1, <1>2 DEF Untold, JournalOf
<1>4. CASE SetupFails(r) \/ WiringFails(r)
  <2>1. phase'[r] = "exited" /\ exit'[r] = 1 /\ config' = config /\ phase[r] # "idle"
    BY <1>4 DEF SetupFails, WiringFails, Leave, runVars, TypeOK
  <2>2. Control(r)' /\ ~Late(r)'
    BY <1>1, <1>3, <2>1, NoneAssumption DEF Control, Late
  <2> QED BY <1>3, <2>2, EarlyIsOwn
<1>5. CASE (\E c \in Configs : Start(r, c)) \/ \E alerts \in Batches : Scan(r, alerts)
  <2>1. phase'[r] \in {"scanning", "wiring"} /\ exit'[r] = None /\ config'[r] \in Configs
    BY <1>1, <1>5 DEF Start, Scan, TypeOK
  <2>2. Control(r)' /\ ~Late(r)'
    BY <1>1, <1>3, <2>1, NoneAssumption DEF Control, Late
  <2> QED BY <1>3, <2>2, EarlyIsOwn
<1> QED BY <1>4, <1>5

LEMMA WireStep ==
    ASSUME TypeOK, NEW r \in Runs, Own(r), Wire(r)
    PROVE  Own(r)'
<1>1. phase[r] = "wiring" /\ exit[r] = None /\ config[r] \in Configs /\ Untold(r)
  BY DEF Wire, Own, Control, Early
<1>2. /\ UNCHANGED <<config, batch, counts, failedSinks, exit, received, journal>>
      /\ phase'[r] = "sending" /\ todo'[r] = Configured(r) /\ at'[r] = 1
      /\ "agent-event" \in config[r].sinks => config[r].domain \in {"blank", "acme"}
  BY DEF Wire, runVars, TypeOK
<1>3. Untold(r)'
  BY <1>1, <1>2 DEF Untold, JournalOf
<1>4. Control(r)'
  BY <1>1, <1>2, <1>3, NoneAssumption DEF Control
<1>5. Distinct(Configured(r)) /\ ToSet(Configured(r)) = config[r].sinks
  BY <1>1, ConfigIs, ConfiguredAre
<1>6. Posted(r)'
  <2>1. Distinct(todo'[r]) /\ ToSet(todo'[r]) = config[r].sinks
    BY <1>2, <1>5
  <2>2. \A s \in HttpSinks : received'[s][r] = <<>>
    BY <1>3 DEF Untold
  <2> QED BY <1>2, <2>1, <2>2 DEF Posted, Distinct, ToSet
<1>7. Recording(r)'
  <2>1. ToSet(todo'[r]) = config[r].sinks
    BY <1>2, <1>5
  <2>2. Len(batch[r]) \in Nat
    BY BatchIs
  <2> QED BY <1>2, <2>1, <2>2 DEF Recording, ToSet
<1>8. Written(r)'
  <2>1. Accounted(r, {})'
    <3>1. counts'[r].skipped = 0 /\ counts'[r].failed = 0
      BY <1>3 DEF Untold, NoCounts
    <3>2. \A i \in Subjects(r)' : ~(i < 1)
      <4>1. Subjects(r)' = Subjects(r)
        BY <1>2 DEF Subjects
      <4> QED BY <4>1, BatchIs
    <3> QED BY <1>2, <1>3, <3>1, <3>2, NothingToAccount DEF Accounted
  <2>2. {} \in SUBSET Subjects(r)'
    OBVIOUS
  <2> QED BY <1>3, <2>1, <2>2, NothingToAccount DEF Written
<1> QED BY <1>3, <1>4, <1>6, <1>7, <1>8, NothingToAccount DEF Own

LEMMA LastSteps ==
    ASSUME TypeOK, NEW r \in Runs, Own(r), Finish(r) \/ Kill(r)
    PROVE  Own(r)'
<1>1. /\ UNCHANGED <<config, batch, todo, at, counts, failedSinks, received, journal>>
      /\ phase'[r] = "exited" /\ phase[r] # "idle"
      /\ exit'[r] = 137 \/ (Late(r) /\ exit'[r] \in {0, 3} /\ todo[r] = <<>>
                              /\ (exit'[r] = 0 => failedSinks[r] = {}))
  BY DEF Finish, Kill, Leave, runVars, sendVars, TypeOK, Late
<1>2. JournalOf(r)' = JournalOf(r) /\ Subjects(r)' = Subjects(r) /\ Due(r)' = Due(r)
  BY <1>1 DEF JournalOf, Subjects, Due
<1>3. ~Early(r)' /\ (Late(r)' => Late(r))
  BY <1>1 DEF Early, Late
<1>4. Control(r)'
  BY <1>1, <1>3, NoneAssumption DEF Control, Own
<1>5. Late(r)' => Posted(r)' /\ Recording(r)'
  BY <1>1, <1>2, <1>3 DEF Own, Posted, Recording
<1>6. Written(r)'
  <2>1. PICK W \in SUBSET Subjects(r) :
          AlertsIn(JournalOf(r)) = Pick(batch[r], W) /\ (Late(r) => Accounted(r, W))
    BY DEF Own, Written
  <2>2. Accounted(r, W) => Accounted(r, W)'
    BY <1>1, <1>2 DEF Accounted
  <2>3. AlertsIn(JournalOf(r))' = Pick(batch[r], W)'
    <3>1. AlertsIn(JournalOf(r))' = AlertsIn(JournalOf(r)')
      BY DEF AlertsIn
    <3> QED BY <1>1, <1>2, <2>1, <3>1
  <2> QED BY <1>2, <1>3, <2>1, <2>2, <2>3 DEF Written
<1>7. Claims(r)'
  <2>1. ClaimsIn(JournalOf(r))' = ClaimsIn(JournalOf(r))
    BY <1>2 DEF ClaimsIn
  <2> QED BY <1>1, <2>1 DEF Own, Claims
<1> QED BY <1>4, <1>5, <1>6, <1>7 DEF Own

(* A send of an HTTP sink: nothing of the journal changes.                  *)
LEMMA SendStep ==
    ASSUME TypeOK, NEW r \in Runs, Own(r), Sending(r, HttpSinks),
           NEW failed \in BOOLEAN, Returns(r, failed),
           \A s \in HttpSinks : s # Head(todo[r]) => received'[s][r] = received[s][r],
           ~failed => received'[Head(todo[r])][r] = Due(r)
    PROVE  Own(r)'
<1> DEFINE h == Head(todo[r])
<1>1. phase[r] = "sending" /\ todo[r] # <<>> /\ h \in HttpSinks /\ exit[r] = None
      /\ Late(r) /\ config[r] \in Configs
  BY DEF Sending, Own, Control, Late
<1>2. /\ UNCHANGED <<phase, config, batch, at, counts, exit, journal>>
      /\ todo'[r] = Tail(todo[r])
      /\ failedSinks'[r] = IF failed THEN failedSinks[r] \cup {h} ELSE failedSinks[r]
  BY DEF Returns, runVars, TypeOK
<1>3. /\ Tail(todo[r]) \in Seq(Sinks) /\ Distinct(Tail(todo[r])) /\ h \in ToSet(todo[r])
      /\ ToSet(Tail(todo[r])) = ToSet(todo[r]) \ {h}
  <2>1. todo[r] \in Seq(Sinks) /\ Distinct(todo[r])
    BY <1>1 DEF TypeOK, Own, Posted
  <2> QED BY <1>1, <2>1, TailLeaves
<1>4. JournalOf(r)' = JournalOf(r) /\ Subjects(r)' = Subjects(r) /\ Due(r)' = Due(r)
  BY <1>2 DEF JournalOf, Subjects, Due
<1>5. ~Early(r)' /\ Late(r)'
  BY <1>1, <1>2, NoneAssumption DEF Early, Late
<1>6. Control(r)'
  BY <1>1, <1>2, <1>5, NoneAssumption DEF Control
<1>7. Posted(r)'
  <2> HIDE DEF h
  <2>1. Distinct(todo'[r]) /\ ToSet(todo'[r]) = ToSet(todo[r]) \ {h}
    BY <1>2, <1>3
  <2>2. ToSet(todo'[r]) \subseteq config'[r].sinks
    BY <1>1, <1>2, <2>1 DEF Own, Posted
  <2>3. \A s \in HttpSinks \cap ToSet(todo'[r]) : received'[s][r] = <<>>
    BY <1>1, <2>1 DEF Own, Posted, h
  <2>4. ASSUME NEW s \in (HttpSinks \cap config'[r].sinks) \ ToSet(todo'[r]), s \notin failedSinks'[r]
        PROVE  received'[s][r] = Due(r)'
    <3>1. CASE s = h
      BY <1>2, <1>4, <2>4, <3>1 DEF h
    <3>2. CASE s # h
      BY <1>1, <1>2, <1>4, <2>1, <2>4, <3>2 DEF h, Own, Posted
    <3> QED BY <3>1, <3>2
  <2> QED BY <2>1, <2>2, <2>3, <2>4 DEF Posted, ToSet, Distinct
<1>8. Recording(r)'
  <2>1. "agent-event" # h
    BY <1>1, SinksAre
  <2>2. "agent-event" \in ToSet(todo[r]) <=> "agent-event" \in ToSet(todo'[r])
    BY <1>2, <1>3, <2>1
  <2> QED BY <1>1, <1>2, <2>2 DEF Own, Recording, ToSet
<1>9. Written(r)'
  <2>1. PICK W \in SUBSET Subjects(r) : AlertsIn(JournalOf(r)) = Pick(batch[r], W) /\ Accounted(r, W)
    BY <1>1 DEF Own, Written
  <2>2. Accounted(r, W)'
    <3>1. "agent-event" \notin failedSinks'[r] => "agent-event" \notin failedSinks[r]
      BY <1>2
    <3> QED BY <1>2, <1>4, <2>1, <3>1 DEF Accounted
  <2>3. AlertsIn(JournalOf(r))' = Pick(batch[r], W)'
    <3>1. AlertsIn(JournalOf(r))' = AlertsIn(JournalOf(r)')
      BY DEF AlertsIn
    <3> QED BY <1>2, <1>4, <2>1, <3>1
  <2> QED BY <1>4, <2>1, <2>2, <2>3 DEF Written
<1>10. Claims(r)'
  <2>1. ClaimsIn(JournalOf(r))' = ClaimsIn(JournalOf(r))
    BY <1>4 DEF ClaimsIn
  <2> QED BY <1>2, <2>1 DEF Own, Claims
<1> QED BY <1>6, <1>7, <1>8, <1>9, <1>10 DEF Own

LEMMA SendSteps ==
    ASSUME TypeOK, NEW r \in Runs, Own(r),
           \/ NothingDue(r) \/ (\E answerLost \in BOOLEAN : Accepted(r, answerLost))
           \/ Refused(r) \/ TimesOut(r)
    PROVE  Own(r)'
<1> DEFINE h == Head(todo[r])
<1>1. CASE Refused(r) \/ TimesOut(r)
  <2>1. Sending(r, HttpSinks) /\ Returns(r, TRUE) /\ received' = received
    BY <1>1 DEF Refused, TimesOut, Sending, TypeOK
  <2> QED BY <2>1, SendStep
<1>2. Late(r) /\ todo[r] # <<>> => received[h][r] = <<>> \/ h \notin HttpSinks
  <2> SUFFICES ASSUME Late(r), todo[r] # <<>> PROVE received[h][r] = <<>> \/ h \notin HttpSinks
    OBVIOUS
  <2>1. todo[r] \in Seq(Sinks) /\ Distinct(todo[r]) /\ Posted(r)
    BY DEF TypeOK, Own, Posted
  <2>2. h \in ToSet(todo[r])
    BY <2>1, TailLeaves
  <2> QED BY <2>1, <2>2 DEF Posted
<1>3. CASE NothingDue(r)
  <2>1. /\ Sending(r, HttpSinks) /\ Returns(r, FALSE) /\ received' = received
        /\ Due(r) = <<>> /\ Late(r) /\ todo[r] # <<>> /\ h \in HttpSinks
    BY <1>3 DEF NothingDue, Sending, Late
  <2>2. received'[h][r] = Due(r)
    BY <1>2, <2>1
  <2> QED BY <2>1, <2>2, SendStep
<1>4. ASSUME NEW lost \in BOOLEAN, Accepted(r, lost) PROVE Own(r)'
  <2>1. /\ Sending(r, HttpSinks) /\ Returns(r, lost) /\ Late(r) /\ todo[r] # <<>> /\ h \in HttpSinks
        /\ received' = [received EXCEPT ![h][r] = @ \o Due(r)]
    BY <1>4 DEF Accepted, Sending, Late, TypeOK
  <2>2. Due(r) \in Seq(Alert)
    BY DueIs
  <2>3. \A s \in HttpSinks : s # h => received'[s][r] = received[s][r]
    BY <2>1 DEF TypeOK
  <2>4. received'[h][r] = received[h][r] \o Due(r)
    BY <2>1 DEF TypeOK
  <2>5. received'[h][r] = Due(r)
    <3>1. received'[h][r] = <<>> \o Due(r)
      BY <1>2, <2>1, <2>4
    <3> QED BY <2>2, <3>1
  <2> QED BY <2>1, <2>3, <2>5, SendStep
<1> QED BY <1>1, <1>3, <1>4

LEMMA JournalDoneStep ==
    ASSUME TypeOK, NEW r \in Runs, Own(r), JournalDone(r)
    PROVE  Own(r)'
<1>1. /\ phase[r] = "sending" /\ todo[r] # <<>> /\ Head(todo[r]) = "agent-event"
      /\ at[r] > Len(batch[r]) /\ exit[r] = None /\ Late(r) /\ config[r] \in Configs
  BY DEF JournalDone, Sending, Own, Control, Late
<1>2. /\ UNCHANGED <<phase, config, batch, at, counts, failedSinks, exit, received, journal>>
      /\ todo'[r] = Tail(todo[r])
  BY DEF JournalDone, runVars, TypeOK
<1>3. /\ Distinct(Tail(todo[r])) /\ ToSet(Tail(todo[r])) = ToSet(todo[r]) \ {"agent-event"}
  <2>1. todo[r] \in Seq(Sinks) /\ Distinct(todo[r])
    BY <1>1 DEF TypeOK, Own, Posted
  <2> QED BY <1>1, <2>1, TailLeaves
<1>4. JournalOf(r)' = JournalOf(r) /\ Subjects(r)' = Subjects(r) /\ Due(r)' = Due(r)
  BY <1>2 DEF JournalOf, Subjects, Due
<1>5. ~Early(r)' /\ Late(r)'
  BY <1>1, <1>2, NoneAssumption DEF Early, Late
<1>6. Control(r)'
  BY <1>1, <1>2, <1>5, NoneAssumption DEF Control
<1>7. Posted(r)'
  <2>1. Distinct(todo'[r]) /\ ToSet(todo'[r]) = ToSet(todo[r]) \ {"agent-event"}
    BY <1>2, <1>3
  <2> QED BY <1>1, <1>2, <1>4, <2>1, SinksAre DEF Own, Posted, ToSet, Distinct
<1>8. Recording(r)'
  <2>1. at[r] \in 1..(Len(batch[r]) + 1) /\ Len(batch[r]) \in Nat
    BY <1>1, BatchIs DEF Own, Recording
  <2>2. at[r] = Len(batch[r]) + 1
    BY <1>1, <2>1
  <2> QED BY <1>1, <1>2, <2>1, <2>2 DEF Own, Recording
<1>9. Written(r)'
  <2>1. PICK W \in SUBSET Subjects(r) : AlertsIn(JournalOf(r)) = Pick(batch[r], W) /\ Accounted(r, W)
    BY <1>1 DEF Own, Written
  <2>2. Accounted(r, W)'
    BY <1>2, <1>4, <2>1 DEF Accounted
  <2>3. AlertsIn(JournalOf(r))' = Pick(batch[r], W)'
    <3>1. AlertsIn(JournalOf(r))' = AlertsIn(JournalOf(r)')
      BY DEF AlertsIn
    <3> QED BY <1>2, <1>4, <2>1, <3>1
  <2> QED BY <1>4, <2>1, <2>2, <2>3 DEF Written
<1>10. Claims(r)'
  <2>1. ClaimsIn(JournalOf(r))' = ClaimsIn(JournalOf(r))
    BY <1>4 DEF ClaimsIn
  <2> QED BY <1>2, <2>1 DEF Own, Claims
<1> QED BY <1>6, <1>7, <1>8, <1>9, <1>10 DEF Own

(* A step of the journal sink over one alert: the control of the run stays  *)
(* as it was.                                                              *)
LEMMA AlertTaken ==
    ASSUME TypeOK, NEW r \in Runs, Own(r), Writing(r), NextAlert(r),
           \/ failedSinks' = failedSinks
           \/ failedSinks' = [failedSinks EXCEPT ![r] = @ \cup {"agent-event"}]
    PROVE  /\ Control(r)' /\ Posted(r)' /\ Recording(r)' /\ at'[r] = at[r] + 1 /\ at[r] \in Nat
           /\ Subjects(r)' = Subjects(r) /\ batch' = batch
           /\ "agent-event" \notin failedSinks'[r] => failedSinks'[r] = failedSinks[r]
<1>1. /\ Late(r) /\ ~Early(r) /\ exit[r] = None /\ phase[r] = "sending"
      /\ at[r] \in 1..Len(batch[r]) /\ "agent-event" \in ToSet(todo[r])
  BY AtTheJournal
<1>2. /\ UNCHANGED <<phase, config, batch, todo, exit, received>>
      /\ at'[r] = at[r] + 1
      /\ failedSinks'[r] \in {failedSinks[r], failedSinks[r] \cup {"agent-event"}}
  BY DEF NextAlert, runVars, TypeOK
<1>3. Subjects(r)' = Subjects(r) /\ Due(r)' = Due(r)
  BY <1>2 DEF Subjects, Due
<1>4. Control(r)'
  <2>1. ~Early(r)'
    BY <1>1, <1>2 DEF Early
  <2> QED BY <1>1, <1>2, <2>1, NoneAssumption DEF Control, Own
<1>5. Posted(r)'
  BY <1>1, <1>2, <1>3, SinksAre DEF Posted, Own
<1>6. Recording(r)'
  <2>1. at[r] + 1 \in 1..(Len(batch[r]) + 1)
    BY <1>1, BatchIs
  <2> QED BY <1>1, <1>2, <2>1 DEF Recording, Own
<1> QED BY <1>1, <1>2, <1>3, <1>4, <1>5, <1>6

(* The claims of a run's journal are counted by a number.                   *)
LEMMA ClaimsAreCounted ==
    ASSUME TypeOK, NEW r \in Runs
    PROVE  JournalOf(r) \in Seq(Entry) /\ ClaimsIn(JournalOf(r)) \in Nat
<1>1. JournalOf(r) \in Seq(Entry)
  <2> DEFINE own == OfRun(journal, r)
  <2>1. journal \in Seq(Entry)
    BY DEF TypeOK
  <2>2. own \in Seq(Entry)
    <3> DEFINE Typed(x) == x \in Seq(Entry)
    <3>1. Typed(own)
      BY <2>1, OfRunGrows
    <3> QED BY <3>1
  <2>3. JournalOf(r) = own
    BY DEF JournalOf, OfRun
  <2> QED BY <2>2, <2>3
<1> QED BY <1>1, ClaimsCount

LEMMA SkipStep ==
    ASSUME TypeOK, NEW r \in Runs, Own(r), SkipFinding(r)
    PROVE  Own(r)'
<1> DEFINE id == batch[r][at[r]].about
           domain == config[r].domain
<1>1. /\ Writing(r) /\ TrustedID(id, domain) = {} /\ ClaimedID(id, domain) = {}
      /\ counts' = [counts EXCEPT ![r].skipped = @ + 1]
      /\ NextAlert(r) /\ failedSinks' = failedSinks /\ journal' = journal
  BY DEF SkipFinding
<1>2. /\ Control(r)' /\ Posted(r)' /\ Recording(r)' /\ at'[r] = at[r] + 1 /\ at[r] \in Nat
      /\ Subjects(r)' = Subjects(r) /\ batch' = batch
  BY <1>1, AlertTaken
<1>3. at[r] \notin Subjects(r)
  <2>1. ~HasSubject(id, domain)
    <3> HIDE DEF id, domain
    <3> QED BY <1>1 DEF TrustedID, ClaimedID, HasSubject
  <2> QED BY <2>1 DEF Subjects
<1>4. /\ counts'[r].skipped = counts[r].skipped + 1 /\ counts'[r].failed = counts[r].failed
      /\ counts'[r].claimed = counts[r].claimed
      /\ counts[r].skipped \in Nat /\ counts[r].failed \in Nat
  BY <1>1 DEF TypeOK
<1>5. JournalOf(r)' = JournalOf(r)
  BY <1>1 DEF JournalOf
<1>6. Written(r)'
  <2>1. PICK W \in SUBSET Subjects(r) : AlertsIn(JournalOf(r)) = Pick(batch[r], W) /\ Accounted(r, W)
    BY <1>1, AtTheJournal DEF Own, Written
  <2>2. /\ Subjects(r) \in SUBSET (1..Len(batch[r])) /\ Len(batch[r]) \in Nat
        /\ W \in SUBSET (1..Len(batch[r])) /\ Into(batch[r], W, Alert)
    BY BatchIs DEF Into
  <2>3. Cardinality(W) \in Nat
    BY <2>2, PickIsASequence
  <2>4. Accounted(r, W)'
    <3>1. \A i \in W : i < at'[r]
      BY <1>2, <2>1, <2>2 DEF Accounted
    <3>2. Cardinality(W) + counts'[r].skipped + counts'[r].failed = at'[r] - 1
      <4>1. Cardinality(W) + counts[r].skipped + counts[r].failed = at[r] - 1
        BY <2>1 DEF Accounted
      <4>2. PICK k \in Nat, s \in Nat, f \in Nat, t \in Nat :
              k = Cardinality(W) /\ s = counts[r].skipped /\ f = counts[r].failed /\ t = at[r]
        BY <1>2, <1>4, <2>3
      <4>3. k + s + f = t - 1
        BY <4>1, <4>2, Zenon
      <4>4. k + (s + 1) + f = (t + 1) - 1
        BY <4>3
      <4>5. /\ Cardinality(W) = k /\ counts'[r].skipped = s + 1
            /\ counts'[r].failed = f /\ at'[r] = t + 1
        BY <1>2, <1>4, <4>2, Zenon
      <4> QED BY <4>4, <4>5, Zenon
    <3>3. ASSUME "agent-event" \notin failedSinks'[r], NEW i \in Subjects(r), i < at'[r]
          PROVE  i \in W
      <4>1. i < at[r]
        BY <1>2, <1>3, <2>2, <3>3
      <4> QED BY <1>1, <2>1, <3>3, <4>1 DEF Accounted
    <3> QED BY <1>2, <3>1, <3>2, <3>3 DEF Accounted
  <2>5. AlertsIn(JournalOf(r))' = Pick(batch[r], W)'
    <3>1. AlertsIn(JournalOf(r))' = AlertsIn(JournalOf(r)')
      BY DEF AlertsIn
    <3> QED BY <1>2, <1>5, <2>1, <3>1
  <2> QED BY <1>2, <2>1, <2>4, <2>5 DEF Written
<1>7. Claims(r)'
  <2>1. ClaimsIn(JournalOf(r))' = ClaimsIn(JournalOf(r))
    BY <1>5 DEF ClaimsIn
  <2> QED BY <1>4, <2>1 DEF Own, Claims
<1> QED BY <1>2, <1>6, <1>7 DEF Own

LEMMA FailedStep ==
    ASSUME TypeOK, NEW r \in Runs, Own(r), Writing(r), NextAlert(r), NEW c \in {0, 1},
           counts' = [counts EXCEPT ![r].claimed = @ + c, ![r].failed = @ + 1],
           failedSinks' = [failedSinks EXCEPT ![r] = @ \cup {"agent-event"}],
           journal' = journal
    PROVE  Own(r)'
<1>1. /\ Control(r)' /\ Posted(r)' /\ Recording(r)' /\ at'[r] = at[r] + 1 /\ at[r] \in Nat
      /\ Subjects(r)' = Subjects(r) /\ batch' = batch
  BY AlertTaken
<1>2. /\ counts'[r].skipped = counts[r].skipped /\ counts'[r].failed = counts[r].failed + 1
      /\ counts'[r].claimed = counts[r].claimed + c
      /\ counts[r].skipped \in Nat /\ counts[r].failed \in Nat /\ counts[r].claimed \in Nat
  BY DEF TypeOK
<1>3. JournalOf(r)' = JournalOf(r) /\ "agent-event" \in failedSinks'[r]
  BY DEF JournalOf, TypeOK
<1>4. Written(r)'
  <2>1. PICK W \in SUBSET Subjects(r) : AlertsIn(JournalOf(r)) = Pick(batch[r], W) /\ Accounted(r, W)
    BY AtTheJournal DEF Own, Written
  <2>2. W \in SUBSET (1..Len(batch[r])) /\ Into(batch[r], W, Alert) /\ Len(batch[r]) \in Nat
    BY BatchIs DEF Into
  <2>3. Cardinality(W) \in Nat
    BY <2>2, PickIsASequence
  <2>4. Accounted(r, W)'
    <3>1. Cardinality(W) + counts[r].skipped + counts[r].failed = at[r] - 1
      BY <2>1 DEF Accounted
    <3>2. PICK k \in Nat, s \in Nat, f \in Nat, t \in Nat :
            k = Cardinality(W) /\ s = counts[r].skipped /\ f = counts[r].failed /\ t = at[r]
      BY <1>1, <1>2, <2>3
    <3>3. k + s + (f + 1) = (t + 1) - 1
      <4>1. k + s + f = t - 1
        BY <3>1, <3>2, Zenon
      <4> QED BY <4>1
    <3>4. Cardinality(W) + counts'[r].skipped + counts'[r].failed = at'[r] - 1
      <4>1. /\ Cardinality(W) = k /\ counts'[r].skipped = s
            /\ counts'[r].failed = f + 1 /\ at'[r] = t + 1
        BY <1>1, <1>2, <3>2, Zenon
      <4> QED BY <3>3, <4>1, Zenon
    <3>5. \A i \in W : i < at'[r]
      BY <1>1, <2>1, <2>2 DEF Accounted
    <3> QED BY <1>3, <3>4, <3>5 DEF Accounted
  <2>5. AlertsIn(JournalOf(r))' = Pick(batch[r], W)'
    <3>1. AlertsIn(JournalOf(r))' = AlertsIn(JournalOf(r)')
      BY DEF AlertsIn
    <3> QED BY <1>1, <1>3, <2>1, <3>1
  <2> QED BY <1>1, <2>1, <2>4, <2>5 DEF Written
<1>5. Claims(r)'
  <2> DEFINE claims == ClaimsIn(JournalOf(r))
  <2>1. ClaimsIn(JournalOf(r))' = claims
    BY <1>3 DEF ClaimsIn
  <2>2. claims \in Nat /\ counts[r].claimed \in claims..(claims + counts[r].failed)
    BY ClaimsAreCounted DEF Own, Claims
  <2> HIDE DEF claims
  <2>3. counts'[r].claimed \in claims..(claims + counts'[r].failed)
    BY <1>2, <2>2
  <2> QED BY <2>1, <2>3 DEF Claims
<1> QED BY <1>1, <1>4, <1>5 DEF Own

LEMMA OneMore ==
    ASSUME NEW k \in Nat, NEW s \in Nat, NEW f \in Nat, NEW t \in Nat, k + s + f = t - 1
    PROVE  (k + 1) + s + f = (t + 1) - 1
OBVIOUS

LEMMA AppendedStep ==
    ASSUME TypeOK, NEW r \in Runs, Own(r), Writing(r), NextAlert(r), NEW e, NEW c,
           EntryOf(r, e, c), journal' = Append(journal, e),
           counts' = [counts EXCEPT ![r].claimed = @ + c],
           failedSinks' = failedSinks
    PROVE  Own(r)'
<1>1. /\ Control(r)' /\ Posted(r)' /\ Recording(r)' /\ at'[r] = at[r] + 1 /\ at[r] \in Nat
      /\ Subjects(r)' = Subjects(r) /\ batch' = batch
  BY AlertTaken
<1>2. /\ e \in Entry /\ e.run = r /\ c \in {0, 1} /\ (e.schema = "v0.3" <=> c = 1)
      /\ at[r] \in Subjects(r)
      /\ [about |-> e.about, severity |-> e.severity] = batch[r][at[r]]
  BY DEF EntryOf
<1>3. /\ counts'[r].skipped = counts[r].skipped /\ counts'[r].failed = counts[r].failed
      /\ counts'[r].claimed = counts[r].claimed + c
      /\ counts[r].skipped \in Nat /\ counts[r].failed \in Nat /\ counts[r].claimed \in Nat
  BY <1>2 DEF TypeOK
<1>4. JournalOf(r)' = Append(JournalOf(r), e) /\ JournalOf(r) \in Seq(Entry)
  <2>1. JournalOf(r)' = Append(JournalOf(r), e)
    BY <1>2, JournalsOfOthers
  <2> QED BY <2>1, ClaimsAreCounted
<1>5. Written(r)'
  <2>1. PICK W \in SUBSET Subjects(r) : AlertsIn(JournalOf(r)) = Pick(batch[r], W) /\ Accounted(r, W)
    BY AtTheJournal DEF Own, Written
  <2>0. PICK more : more = W \cup {at[r]}
    OBVIOUS
  <2>2. /\ Subjects(r) \in SUBSET (1..Len(batch[r])) /\ Len(batch[r]) \in Nat
        /\ W \in SUBSET (1..Len(batch[r])) /\ Into(batch[r], W, Alert)
        /\ batch[r][at[r]] \in Alert
    BY <1>2, BatchIs DEF Into
  <2>3. Cardinality(W) \in Nat
    BY <2>2, PickIsASequence
  <2>4. /\ Pick(batch[r], more) = Append(Pick(batch[r], W), batch[r][at[r]])
        /\ Cardinality(more) = Cardinality(W) + 1
    <3>1. \A i \in W : i < at[r]
      BY <2>1 DEF Accounted
    <3>2. /\ Pick(batch[r], W \cup {at[r]}) = Append(Pick(batch[r], W), batch[r][at[r]])
          /\ Cardinality(W \cup {at[r]}) = Cardinality(W) + 1
      <4>1. /\ W \in SUBSET (1..Len(batch[r])) /\ Len(batch[r]) \in Nat
            /\ Into(batch[r], W, Alert) /\ at[r] \in Nat /\ batch[r][at[r]] \in Alert
        BY <1>1, <2>2
      <4>2. PICK s, p, L : s = batch[r] /\ p = at[r] /\ L = Len(batch[r])
        OBVIOUS
      <4>3. /\ L \in Nat /\ W \in SUBSET (1..L) /\ Into(s, W, Alert)
            /\ p \in Nat /\ (\A t \in W : t < p) /\ s[p] \in Alert
        BY <3>1, <4>1, <4>2
      <4>4. PickGrows(s, W, p)
        BY <4>3, PickMore
      <4> QED BY <4>2, <4>4 DEF PickGrows
    <3> QED BY <2>0, <3>2
  <2>5. AlertsIn(JournalOf(r))' = Pick(batch[r], more)'
    <3>1. AlertsIn(JournalOf(r))' = AlertsIn(JournalOf(r)')
      BY DEF AlertsIn
    <3>2. AlertsIn(Append(JournalOf(r), e)) =
            Append(AlertsIn(JournalOf(r)), [about |-> e.about, severity |-> e.severity])
      BY <1>2, <1>4, AlertsGrow
    <3>3. AlertsIn(JournalOf(r))' = Pick(batch[r], more)
      BY <1>2, <1>4, <2>1, <2>4, <3>1, <3>2
    <3> QED BY <1>1, <3>3
  <2>6. Accounted(r, more)'
    <3>1. \A i \in more : i < at'[r]
      BY <1>1, <2>0, <2>1, <2>2 DEF Accounted
    <3>2. Cardinality(more) + counts'[r].skipped + counts'[r].failed = at'[r] - 1
      <4>1. Cardinality(W) + counts[r].skipped + counts[r].failed = at[r] - 1
        BY <2>1 DEF Accounted
      <4>2. PICK k \in Nat, s \in Nat, f \in Nat, t \in Nat :
              k = Cardinality(W) /\ s = counts[r].skipped /\ f = counts[r].failed /\ t = at[r]
        BY <1>1, <1>3, <2>3
      <4>3. k + s + f = t - 1
        BY <4>1, <4>2, Zenon
      <4>4. (k + 1) + s + f = (t + 1) - 1
        BY <4>2, <4>3, OneMore
      <4>5. /\ Cardinality(more) = k + 1 /\ counts'[r].skipped = s
            /\ counts'[r].failed = f /\ at'[r] = t + 1
        BY <1>1, <1>3, <2>4, <4>2, Zenon
      <4> QED BY <4>4, <4>5, Zenon
    <3>3. ASSUME "agent-event" \notin failedSinks'[r], NEW i \in Subjects(r), i < at'[r]
          PROVE  i \in more
      <4>1. i < at[r] \/ i = at[r]
        BY <1>1, <2>2, <3>3
      <4> QED BY <2>0, <2>1, <3>3, <4>1 DEF Accounted
    <3> QED BY <1>1, <3>1, <3>2, <3>3 DEF Accounted
  <2>7. more \in SUBSET Subjects(r)
    BY <1>2, <2>0
  <2> QED BY <1>1, <2>5, <2>6, <2>7 DEF Written
<1>6. Claims(r)'
  <2> DEFINE claims == ClaimsIn(JournalOf(r))
  <2>1. ClaimsIn(JournalOf(r))' = claims + c
    <3>1. ClaimsIn(JournalOf(r))' = ClaimsIn(JournalOf(r)')
      BY DEF ClaimsIn
    <3>2. ClaimsIn(Append(JournalOf(r), e)) =
            IF e.schema = "v0.3" THEN ClaimsIn(JournalOf(r)) + 1 ELSE ClaimsIn(JournalOf(r))
      BY <1>2, <1>4, ClaimsGrow
    <3> QED BY <1>2, <1>4, <3>1, <3>2, ClaimsAreCounted
  <2>2. claims \in Nat /\ counts[r].claimed \in claims..(claims + counts[r].failed)
    BY ClaimsAreCounted DEF Own, Claims
  <2> HIDE DEF claims
  <2>3. counts'[r].claimed \in (claims + c)..(claims + c + counts'[r].failed)
    BY <1>2, <1>3, <2>2
  <2> QED BY <2>1, <2>3 DEF Claims
<1> QED BY <1>1, <1>5, <1>6 DEF Own

LEMMA WriteStep ==
    ASSUME TypeOK, NEW r \in Runs, Own(r), WriteFinding(r)
    PROVE  Own(r)'
<1>1. PICK e, c : EntryOf(r, e, c) /\ AppendEntry(r, e, c)
  BY WriteIs
<1>2. Writing(r) /\ NextAlert(r)
  BY DEF WriteFinding
<1>3. CASE /\ journal' = Append(journal, e) /\ counts' = [counts EXCEPT ![r].claimed = @ + c]
           /\ UNCHANGED failedSinks
  BY <1>1, <1>2, <1>3, AppendedStep
<1>4. CASE /\ counts' = [counts EXCEPT ![r].claimed = @ + c, ![r].failed = @ + 1]
           /\ failedSinks' = [failedSinks EXCEPT ![r] = @ \cup {"agent-event"}]
           /\ UNCHANGED journal
  <2>1. c \in {0, 1}
    BY <1>1 DEF EntryOf
  <2> QED BY <1>2, <1>4, <2>1, FailedStep
<1> QED BY <1>1, <1>3, <1>4 DEF AppendEntry

-----------------------------------------------------------------------------
(* The theorems. *)

LEMMA Initially == ASSUME Init PROVE IInv
<1> USE DEF Init
<1>1. TypeOK
  <2>1. <<>> \in Seq(Entry) /\ <<>> \in Seq(Sinks) /\ <<>> \in Seq(Alert)
    OBVIOUS
  <2> QED BY <2>1 DEF TypeOK, NoCounts
<1>2. ASSUME NEW r \in Runs PROVE Own(r)
  <2>1. JournalOf(r) = <<>>
    <3>1. {i \in DOMAIN <<>> : <<>>[i].run = r} = {}
      OBVIOUS
    <3> QED BY <3>1, PickNone DEF JournalOf
  <2>2. Untold(r)
    BY <2>1 DEF Untold
  <2>3. Control(r) /\ ~Late(r)
    BY <2>2, NoneAssumption DEF Control, Late
  <2>4. AlertsIn(<<>>) = <<>> /\ Pick(batch[r], {}) = <<>> /\ ClaimsIn(<<>>) = 0
    <3>1. DOMAIN <<>> = {} /\ {k \in DOMAIN <<>> : <<>>[k].schema = "v0.3"} = {}
      OBVIOUS
    <3> QED BY <3>1, PickNone DEF AlertsIn, ClaimsIn
  <2>5. Written(r) /\ Claims(r)
    BY <2>1, <2>3, <2>4 DEF Written, Claims, NoCounts
  <2> QED BY <2>3, <2>5 DEF Own
<1> QED BY <1>1, <1>2 DEF IInv

LEMMA IInvHolds == ASSUME IInv, [Next]_vars PROVE IInv'
<1>1. TypeOK /\ \A r \in Runs : Own(r)
  BY DEF IInv
<1>2. CASE UNCHANGED vars \/ \E s \in HttpSinks : StopAnswering(s)
  <2>1. /\ UNCHANGED <<phase, config, batch, todo, at, counts, failedSinks, exit, received, journal>>
        /\ answering' \subseteq answering
    BY <1>2 DEF vars, runVars, sendVars, StopAnswering
  <2>2. ASSUME NEW q \in Runs PROVE Own(q)'
    <3>1. Untouched(q)
      BY <2>1 DEF Untouched, JournalOf
    <3> QED BY <1>1, <3>1, Stands
  <2>3. TypeOK'
    BY <1>1, <2>1 DEF TypeOK
  <2> QED BY <2>2, <2>3 DEF IInv
<1>3. ASSUME NEW r \in Runs, Step(r) \/ Kill(r) \/ \E c \in Configs : Start(r, c)
      PROVE  \A q \in Runs : Own(q)'
  <2>1. Own(r)'
    BY <1>1, <1>3, EarlySteps, WireStep, SendSteps, SkipStep, WriteStep, JournalDoneStep,
       LastSteps DEF Step
  <2>2. Elsewhere(r)
    BY <1>1, <1>3, OthersStand
  <2>3. ASSUME NEW q \in Runs, q # r PROVE Own(q)'
    BY <1>1, <2>2, <2>3, Stands DEF Elsewhere
  <2> QED BY <2>1, <2>3
<1>4. ASSUME Next, NEW r \in Runs, Step(r) \/ Kill(r) \/ \E c \in Configs : Start(r, c)
      PROVE  IInv'
  BY <1>1, <1>3, <1>4, Types DEF IInv
<1>5. Next \/ UNCHANGED vars
  OBVIOUS
<1> QED BY <1>2, <1>4, <1>5 DEF Next

LEMMA SpecIInv == Spec => []IInv
<1>1. Init => IInv
  BY Initially
<1>2. IInv /\ [Next]_vars => IInv'
  BY IInvHolds
<1> QED BY <1>1, <1>2, PTL DEF Spec

LEMMA IInvTells == ASSUME IInv PROVE ExitCodeTells
<1> SUFFICES ASSUME NEW r \in Runs
             PROVE  /\ exit[r] \in {0, 3} =>
                         /\ \A s \in config[r].sinks \cap HttpSinks :
                               s \notin failedSinks[r] => received[s][r] = Due(r)
                         /\ "agent-event" \in config[r].sinks \ failedSinks[r] =>
                               AlertsIn(JournalOf(r)) = Recorded(r)
                    /\ exit[r] = 0 => failedSinks[r] = {}
                    /\ exit[r] = 1 =>
                         JournalOf(r) = <<>> /\ \A s \in HttpSinks : received[s][r] = <<>>
  BY DEF ExitCodeTells
<1>1. TypeOK /\ Own(r)
  BY DEF IInv
<1>2. ASSUME exit[r] \in {0, 3} PROVE Late(r) /\ ToSet(todo[r]) = {}
  <2>1. todo[r] = <<>>
    BY <1>1, <1>2 DEF Own, Control
  <2> QED BY <1>2, <2>1 DEF Late, ToSet
<1>3. ASSUME exit[r] \in {0, 3}, NEW s \in config[r].sinks \cap HttpSinks, s \notin failedSinks[r]
      PROVE  received[s][r] = Due(r)
  BY <1>1, <1>2, <1>3 DEF Own, Posted
<1>4. ASSUME exit[r] \in {0, 3}, "agent-event" \in config[r].sinks \ failedSinks[r]
      PROVE  AlertsIn(JournalOf(r)) = Recorded(r)
  <2>1. PICK W \in SUBSET Subjects(r) : AlertsIn(JournalOf(r)) = Pick(batch[r], W) /\ Accounted(r, W)
    BY <1>1, <1>2, <1>4 DEF Own, Written
  <2>2. at[r] = Len(batch[r]) + 1
    BY <1>1, <1>2, <1>4 DEF Own, Recording
  <2>3. \A i \in Subjects(r) : i < at[r]
    BY <1>1, <2>2, BatchIs
  <2>4. W = Subjects(r)
    BY <1>4, <2>1, <2>3 DEF Accounted
  <2> QED BY <2>1, <2>4 DEF Recorded
<1>5. exit[r] = 1 => Untold(r)
  BY <1>1 DEF Own, Control, Early
<1> QED BY <1>1, <1>3, <1>4, <1>5 DEF Own, Control, Untold

LEMMA IInvAccounts == ASSUME IInv PROVE JournalAccounts
<1> SUFFICES ASSUME NEW r \in Runs
             PROVE  /\ exit[r] \in {0, 3} /\ "agent-event" \in config[r].sinks =>
                         Len(JournalOf(r)) + counts[r].skipped + counts[r].failed = Len(batch[r])
                    /\ counts[r].claimed \in
                         ClaimsIn(JournalOf(r))..(ClaimsIn(JournalOf(r)) + counts[r].failed)
                    /\ \E kept \in SUBSET DOMAIN Recorded(r) :
                         AlertsIn(JournalOf(r)) = Pick(Recorded(r), kept)
  BY DEF JournalAccounts, ClaimsIn
<1>1. TypeOK /\ Own(r)
  BY DEF IInv
<1>2. PICK W \in SUBSET Subjects(r) :
        AlertsIn(JournalOf(r)) = Pick(batch[r], W) /\ (Late(r) => Accounted(r, W))
  BY <1>1 DEF Own, Written
<1>3. /\ Subjects(r) \in SUBSET (1..Len(batch[r])) /\ Len(batch[r]) \in Nat
      /\ Into(batch[r], Subjects(r), Alert)
      /\ W \in SUBSET (1..Len(batch[r])) /\ Into(batch[r], W, Alert)
  BY <1>1, BatchIs DEF Into
<1>4. Len(JournalOf(r)) = Cardinality(W) /\ Cardinality(W) \in Nat
  <2>1. JournalOf(r) \in Seq(Entry)
    BY <1>1, ClaimsAreCounted
  <2>2. Len(AlertsIn(JournalOf(r))) = Len(JournalOf(r))
    BY <2>1, AlertsLen
  <2>3. Len(Pick(batch[r], W)) = Cardinality(W) /\ Cardinality(W) \in Nat
    BY <1>3, PickIsASequence
  <2> QED BY <1>2, <2>2, <2>3
<1>5. ASSUME exit[r] \in {0, 3}, "agent-event" \in config[r].sinks
      PROVE  Len(JournalOf(r)) + counts[r].skipped + counts[r].failed = Len(batch[r])
  <2>1. Late(r) /\ ToSet(todo[r]) = {}
    <3>1. todo[r] = <<>>
      BY <1>1, <1>5 DEF Own, Control
    <3> QED BY <1>5, <3>1 DEF Late, ToSet
  <2>2. at[r] = Len(batch[r]) + 1
    BY <1>1, <1>5, <2>1 DEF Own, Recording
  <2>3. Cardinality(W) + counts[r].skipped + counts[r].failed = at[r] - 1
    BY <1>2, <2>1 DEF Accounted
  <2>4. at[r] - 1 = Len(batch[r])
    BY <1>3, <2>2
  <2> QED BY <1>4, <2>3, <2>4
<1>6. \E kept \in SUBSET DOMAIN Recorded(r) : AlertsIn(JournalOf(r)) = Pick(Recorded(r), kept)
  <2> DEFINE half == Pick(batch[r], Subjects(r))
  <2>1. Recorded(r) = half
    BY DEF Recorded
  <2>2. PICK kept \in SUBSET (1..Cardinality(Subjects(r))) : Pick(batch[r], W) = Pick(half, kept)
    BY <1>3, PickOfAPick
  <2>3. DOMAIN half = 1..Cardinality(Subjects(r))
    BY DEF Pick
  <2> HIDE DEF half
  <2> QED BY <1>2, <2>1, <2>2, <2>3
<1> QED BY <1>1, <1>5, <1>6 DEF Own, Claims

(* Every variable has its type, in every run of every number of invocations. *)
THEOREM TypeCorrect == Spec => []TypeOK
<1>1. IInv => TypeOK
  BY DEF IInv
<1> QED BY <1>1, SpecIInv, PTL

(* The exit code says what became of the alerts: 0 that every destination    *)
(* has what it was due and the journal every alert with a subject, 1 that    *)
(* nobody has been told anything, 3 that the sinks which have not failed     *)
(* have it all the same.                                                    *)
THEOREM ExitCodes == Spec => []ExitCodeTells
BY SpecIInv, IInvTells, PTL

(* Written, skipped and failed are all the alerts of a run that got to its   *)
(* end, what was written is in order, and the claims counted are off by no   *)
(* more than the appends that failed, whatever other runs append between.    *)
THEOREM JournalsAccount == Spec => []JournalAccounts
BY SpecIInv, IInvAccounts, PTL

-----------------------------------------------------------------------------
(* The bus that journals like this one are files of: what a load of it      *)
(* reports.                                                                *)

(* What ChainVerdict says of one file. *)
Clean(f) ==
    \A i \in DOMAIN bus[f] :
        /\ bus[f][i].kind # "oversized"
        /\ i > 1 /\ bus[f][i].kind = "event" /\ bus[f][i - 1].kind = "event" =>
             bus[f][i].prev # "differs"

HasChain(p) == "rep" \in DOMAIN p /\ "chain" \in DOMAIN p.rep

(* The report of an open file has the verdict on all its lines, and that of *)
(* the load calls no chain intact that a file before it has broken.        *)
Verified ==
    /\ file \in DOMAIN Stem /\ next \in Nat
    /\ \A f \in DOMAIN Stem : DOMAIN bus[f] \subseteq Nat \ {0}
    /\ status \in {"running", "done", "failed"}
    /\ HasChain(parsed) /\ HasChain(loaded)
    /\ next > 0 => parsed.rep.chain = VerifyChain(bus[file], file)
    /\ status = "running" /\ Intact(loaded.rep.chain) =>
          \A f \in DOMAIN Stem : f < file => Clean(f)
    /\ ChainVerdict

LEMMA IntactIsClean ==
    ASSUME NEW f, Intact(VerifyChain(bus[f], f))
    PROVE  Clean(f)
<1> DEFINE lines == bus[f]
           Broken == {i \in DOMAIN lines :
                        /\ lines[i].kind = "event"
                        /\ (i > 1 /\ lines[i - 1].kind = "event") /\ lines[i].prev = "differs"}
           c == VerifyChain(lines, f)
<1>1. c.verified /\ c.breaks = {}
  BY DEF Intact
<1>2. CASE \E i \in DOMAIN lines : lines[i].kind = "oversized"
  <2>1. c = NoChain
    BY <1>2 DEF VerifyChain
  <2> QED BY <1>1, <2>1 DEF NoChain
<1>3. CASE ~\E i \in DOMAIN lines : lines[i].kind = "oversized"
  <2>1. c.breaks = {<<f, i>> : i \in Broken}
    BY <1>3 DEF VerifyChain
  <2>2. Broken = {}
    BY <1>1, <2>1
  <2> QED BY <1>3, <2>2 DEF Clean
<1> QED BY <1>2, <1>3

(* Only a verdict on two intact chains is intact. *)
LEMMA MergedIntact ==
    ASSUME NEW c, NEW o, Intact(MergeChain(c, o))
    PROVE  Intact(c) /\ Intact(o)
<1>1. (c.verified /\ o.verified) \in BOOLEAN
  OBVIOUS
<1>2. PICK p \in BOOLEAN : p = (c.verified /\ o.verified)
  BY <1>1, Zenon
<1>3. p => c.verified /\ o.verified
  BY <1>2, Zenon
<1>4. MergeChain(c, o) =
        [verified |-> p, chained |-> c.chained + o.chained, heads |-> c.heads + o.heads,
         unverifiable |-> c.unverifiable + o.unverifiable, breaks |-> c.breaks \cup o.breaks]
  BY <1>2, Zenon DEF MergeChain
<1>5. p /\ c.breaks \cup o.breaks = {}
  BY <1>4 DEF Intact
<1> QED BY <1>3, <1>5 DEF Intact

LEMMA VerifiedAtFirst == ASSUME BusInit PROVE Verified
<1>1. 1 \in DOMAIN Stem /\ DOMAIN Stem \subseteq Nat \ {0}
  BY StemAssumption
<1>2. HasChain(parsed) /\ HasChain(loaded)
  BY DEF BusInit, HasChain, Product, NewReport
<1>3. ASSUME NEW f \in DOMAIN Stem PROVE DOMAIN bus[f] \subseteq Nat \ {0}
  BY DEF BusInit, Files
<1> QED BY <1>1, <1>2, <1>3 DEF Verified, BusInit, ChainVerdict

LEMMA VerifiedKept ==
    ASSUME Verified, [BusNext]_busVars PROVE Verified'
<1>0. /\ DOMAIN Stem = 1..Len(Stem) /\ Len(Stem) \in Nat
      /\ file \in DOMAIN Stem /\ next \in Nat
      /\ status \in {"running", "done", "failed"} /\ HasChain(parsed) /\ HasChain(loaded)
  BY StemAssumption DEF Verified
<1>1. CASE OpenFile
  <2>1. HasChain(parsed') /\ parsed'.rep.chain = VerifyChain(bus[file], file)
    BY <1>1 DEF OpenFile, HasChain, Product, NewReport
  <2>2. next' = 1 /\ UNCHANGED <<bus, status, file, loaded>>
    BY <1>1 DEF OpenFile
  <2> QED BY <1>0, <2>1, <2>2 DEF Verified, ChainVerdict, Files, Clean
<1>2. CASE ReadFails
  <2>1. HasChain(loaded') /\ status' = "failed" /\ UNCHANGED <<bus, file, next, parsed>>
    BY <1>2 DEF ReadFails, HasChain, Product, NewReport
  <2> QED BY <1>0, <2>1 DEF Verified, ChainVerdict
<1>3. CASE SkipMalformed \/ RefuseForeign \/ IngestLine
  <2>1. next' = next + 1 /\ next \in DOMAIN bus[file] /\ UNCHANGED <<bus, status, file, loaded>>
    BY <1>3 DEF SkipMalformed, RefuseForeign, IngestLine, Scans
  <2>2. HasChain(parsed') /\ parsed'.rep.chain = parsed.rep.chain
    <3>1. CASE SkipMalformed
      BY <1>0, <3>1 DEF SkipMalformed, HasChain
    <3>2. CASE RefuseForeign
      BY <1>0, <3>2 DEF RefuseForeign, HasChain
    <3>3. CASE IngestLine
      BY <1>0, <3>3 DEF IngestLine, HasChain
    <3> QED BY <1>3, <3>1, <3>2, <3>3
  <2>3. next > 0
    BY <1>0, <2>1 DEF Verified
  <2> QED BY <1>0, <2>1, <2>2, <2>3 DEF Verified, ChainVerdict, Files, Clean
<1>4. CASE EndFile
  <2>1. /\ status = "running" /\ next > 0 /\ next' = 0 /\ bus' = bus
        /\ parsed' = Product(NoChain)
        /\ IF file = Len(Stem) THEN status' = "done" /\ file' = file
           ELSE file' = file + 1 /\ status' = status
    BY <1>4 DEF EndFile
  <2>2. HasChain(parsed')
    BY <2>1 DEF HasChain, Product, NewReport
  <2>3. HasChain(loaded') /\ loaded'.rep.chain = MergeChain(loaded.rep.chain, parsed.rep.chain)
    BY <1>0, <1>4 DEF EndFile, Merge, HasChain
  <2>4. ASSUME Intact(loaded'.rep.chain), NEW f \in DOMAIN Stem, f <= file
        PROVE  Clean(f)
    <3>1. Intact(loaded.rep.chain) /\ Intact(parsed.rep.chain)
      BY <2>3, <2>4, MergedIntact
    <3>2. CASE f < file
      BY <2>1, <3>1, <3>2 DEF Verified
    <3>3. CASE f = file
      BY <2>1, <3>1, <3>3, IntactIsClean DEF Verified
    <3> QED BY <1>0, <2>4, <3>2, <3>3
  <2>5. CASE file = Len(Stem)
    BY <1>0, <2>1, <2>2, <2>3, <2>4, <2>5 DEF Verified, ChainVerdict, Files, Clean
  <2>6. CASE file # Len(Stem)
    BY <1>0, <2>1, <2>2, <2>3, <2>4, <2>6 DEF Verified, ChainVerdict, Files, Clean
  <2> QED BY <2>5, <2>6
<1>5. CASE UNCHANGED busVars
  BY <1>5 DEF busVars, Verified, ChainVerdict, Files, Clean
<1> QED BY <1>1, <1>2, <1>3, <1>4, <1>5 DEF BusNext

(* A load calls its chain intact only if every line of every file has been  *)
(* checked, those the stream rule refuses and those behind a malformed one *)
(* included, and none differs from the line before it (VerifyChain before   *)
(* parse, and Chain.merge in LoadWith).                                    *)
THEOREM IntactChainsAreChecked == BusSpec => []ChainVerdict
<1>1. BusInit => Verified
  BY VerifiedAtFirst
<1>2. Verified /\ [BusNext]_busVars => Verified'
  BY VerifiedKept
<1>3. Verified => ChainVerdict
  BY DEF Verified
<1> QED BY <1>1, <1>2, <1>3, PTL DEF BusSpec

-----------------------------------------------------------------------------
(* The histories the event detectors read.                                 *)

(* What holds of every position before one it holds of holds of a prefix.  *)
LEMMA DownwardIsAPrefix ==
    ASSUME NEW L \in Nat, NEW T \in SUBSET (1..L), \A i \in T : \A j \in 1..i : j \in T
    PROVE  Cardinality(T) \in 0..L /\ T = 1..Cardinality(T)
<1> DEFINE Prefix(l) == \A U \in SUBSET (1..l) :
                          (\A i \in U : \A j \in 1..i : j \in U) => \E k \in 0..l : U = 1..k
           Good == {l \in Nat : Prefix(l)}
<1>1. 0 \in Good
  <2>1. 1..0 = {} /\ 0 \in 0..0
    OBVIOUS
  <2> QED BY <2>1
<1>2. ASSUME NEW l \in Nat, l \in Good PROVE l + 1 \in Good
  <2>1. SUFFICES ASSUME NEW U \in SUBSET (1..(l + 1)), \A i \in U : \A j \in 1..i : j \in U
                 PROVE  \E k \in 0..(l + 1) : U = 1..k
    OBVIOUS
  <2>2. CASE l + 1 \in U
    <3>1. l + 1 \in 0..(l + 1) /\ \A j \in 1..(l + 1) : j \in U
      BY <2>1, <2>2
    <3>2. U = 1..(l + 1)
      BY <3>1
    <3> QED BY <3>1, <3>2
  <2>3. CASE l + 1 \notin U
    <3>1. U \in SUBSET (1..l)
      BY <2>3
    <3>2. PICK k \in 0..l : U = 1..k
      BY <1>2, <2>1, <3>1
    <3> QED BY <3>2
  <2> QED BY <2>2, <2>3
<1> HIDE DEF Good
<1>3. L \in Good
  BY <1>1, <1>2, SetInduction
<1>4. PICK k \in 0..L : T = 1..k
  BY <1>3 DEF Good
<1>5. Cardinality(1..k) = k
  BY <1>4, FS_Interval
<1> QED BY <1>4, <1>5

(* t is s with e after its first k elements.                               *)
Inserted(t, s, k, e, S) ==
    /\ t \in Seq(S) /\ Len(t) = Len(s) + 1
    /\ \A i \in 1..k : t[i] = s[i]
    /\ t[k + 1] = e
    /\ \A i \in (k + 2)..(Len(s) + 1) : t[i] = s[i - 1]

LEMMA InsertedIs ==
    ASSUME NEW S, NEW s \in Seq(S), NEW e \in S, NEW k \in 0..Len(s)
    PROVE  Inserted(InsertAt(s, k + 1, e), s, k, e, S)
<1> DEFINE a == SubSeq(s, 1, k)
           b == SubSeq(s, k + 1, Len(s))
<1>1. a \in Seq(S) /\ Len(a) = k /\ \A i \in 1..k : a[i] = s[i]
  OBVIOUS
<1>2. b \in Seq(S) /\ Len(b) = Len(s) - k /\ \A i \in 1..(Len(s) - k) : b[i] = s[k + i]
  OBVIOUS
<1> HIDE DEF a, b
<1>3. InsertAt(s, k + 1, e) = (a \o <<e>>) \o b
  <2>1. (k + 1) - 1 = k
    OBVIOUS
  <2> QED BY <2>1 DEF InsertAt, a, b
<1> DEFINE m == a \o <<e>>
<1>4. m \in Seq(S) /\ Len(m) = k + 1 /\ m[k + 1] = e /\ \A i \in 1..k : m[i] = s[i]
  BY <1>1
<1> HIDE DEF m
<1>5. m \o b \in Seq(S) /\ Len(m \o b) = Len(s) + 1
  BY <1>2, <1>4
<1>6. \A i \in 1..(k + 1) : (m \o b)[i] = m[i]
  BY <1>2, <1>4
<1>7. ASSUME NEW i \in (k + 2)..(Len(s) + 1) PROVE (m \o b)[i] = s[i - 1]
  <2>1. (m \o b)[i] = b[i - (k + 1)]
    BY <1>2, <1>4
  <2>2. i - (k + 1) \in 1..(Len(s) - k) /\ k + (i - (k + 1)) = i - 1
    OBVIOUS
  <2> QED BY <1>2, <2>1, <2>2
<1>8. InsertAt(s, k + 1, e) = m \o b
  BY <1>3 DEF m
<1>9. /\ \A i \in 1..k : (m \o b)[i] = s[i]
      /\ (m \o b)[k + 1] = e
  BY <1>4, <1>6
<1>10. Inserted(m \o b, s, k, e, S)
  <2> DEFINE t == m \o b
  <2> HIDE DEF t
  <2>1. /\ t \in Seq(S) /\ Len(t) = Len(s) + 1
        /\ \A i \in 1..k : t[i] = s[i]
        /\ t[k + 1] = e
        /\ \A i \in (k + 2)..(Len(s) + 1) : t[i] = s[i - 1]
    BY <1>5, <1>7, <1>9 DEF t
  <2>2. Inserted(t, s, k, e, S)
    BY <2>1 DEF Inserted
  <2> QED BY <2>2 DEF t
<1> QED BY <1>8, <1>10, Zenon

(* The history is in order of time, whatever the order of arrival.         *)
FeedInv ==
    /\ feed \in Feeds /\ facts \subseteq feed.facts
    /\ attested \in BOOLEAN /\ now \in 0..feed.until
    /\ events \in Seq(feed.events)
    /\ \A i, j \in 1..Len(events) : i < j => events[i].time <= events[j].time

LEMMA FeedIs ==
    ASSUME FeedInv
    PROVE  /\ feed.whose \in {"human", "agent"} /\ feed.until \in Nat /\ now \in Nat
           /\ feed.events \subseteq Events /\ events \in Seq(Events) /\ Len(events) \in Nat
           /\ DOMAIN events = 1..Len(events)
           /\ \A i \in 1..Len(events) : events[i] \in feed.events /\ events[i].time \in Nat
<1>1. /\ feed.whose \in {"human", "agent"} /\ feed.until \in Nat /\ feed.events \subseteq Events
  BY FeedsAssumption DEF FeedInv
<1>2. /\ events \in Seq(feed.events) /\ Len(events) \in Nat /\ DOMAIN events = 1..Len(events)
      /\ \A i \in 1..Len(events) : events[i] \in feed.events
  BY DEF FeedInv
<1>3. events \in Seq(Events)
  BY <1>1, <1>2
<1>4. ASSUME NEW e \in Events PROVE e.time \in Nat
  BY DEF Events
<1>5. now \in Nat
  BY <1>1 DEF FeedInv
<1> QED BY <1>1, <1>2, <1>3, <1>4, <1>5

(* Where an event is put: behind those not later than it, and all of those. *)
RecordedAt(e, k) ==
    /\ k \in 0..Len(events) /\ Inserted(events', events, k, e, feed.events)
    /\ \A i \in 1..Len(events) : events[i].time <= e.time <=> i <= k

LEMMA RecordIs ==
    ASSUME FeedInv, NEW e \in feed.events, Record(e)
    PROVE  \E k \in 0..Len(events) : RecordedAt(e, k)
<1> DEFINE T == {i \in DOMAIN events : events[i].time <= e.time}
           k == Cardinality(T)
<1>1. /\ Len(events) \in Nat /\ DOMAIN events = 1..Len(events) /\ events \in Seq(feed.events)
      /\ \A i \in 1..Len(events) : events[i].time \in Nat
      /\ e.time \in Nat
  BY FeedIs DEF FeedInv, Events
<1>2. events' = InsertAt(events, k + 1, e)
  BY DEF Record
<1>3. k \in 0..Len(events) /\ T = 1..k
  <2>1. ASSUME NEW i \in T, NEW j \in 1..i PROVE j \in T
    BY <1>1 DEF FeedInv
  <2>2. T \in SUBSET (1..Len(events))
    BY <1>1
  <2> HIDE DEF T
  <2> QED BY <1>1, <2>1, <2>2, DownwardIsAPrefix
<1>4. \A i \in 1..Len(events) : events[i].time <= e.time <=> i <= k
  BY <1>1, <1>3
<1> HIDE DEF T, k
<1>5. Inserted(events', events, k, e, feed.events)
  BY <1>1, <1>2, <1>3, InsertedIs
<1> QED BY <1>3, <1>4, <1>5 DEF RecordedAt

LEMMA RecordKeepsOrder ==
    ASSUME FeedInv, NEW e \in feed.events, Record(e)
    PROVE  FeedInv'
<1>1. feed' = feed /\ facts' = facts /\ attested' = attested /\ now' = now
  BY DEF Record
<1>2. PICK k \in 0..Len(events) : RecordedAt(e, k)
  BY RecordIs
<1> DEFINE L == Len(events)
           t == events'
<1>3. /\ L \in Nat /\ k \in 0..L /\ e.time \in Nat
      /\ \A i \in 1..L : events[i].time \in Nat
      /\ \A i, j \in 1..L : i < j => events[i].time <= events[j].time
      /\ \A i \in 1..L : events[i].time <= e.time <=> i <= k
  BY <1>2, FeedIs DEF FeedInv, Events, RecordedAt
<1>4. /\ t \in Seq(feed.events) /\ Len(t) = L + 1
      /\ \A i \in 1..k : t[i] = events[i]
      /\ t[k + 1] = e
      /\ \A i \in (k + 2)..(L + 1) : t[i] = events[i - 1]
  BY <1>2 DEF RecordedAt, Inserted
<1> HIDE DEF L, t
<1>5. ASSUME NEW i \in 1..(L + 1), NEW j \in 1..(L + 1), i < j
      PROVE  t[i].time <= t[j].time
  <2>1. CASE j <= k
    BY <1>3, <1>4, <1>5, <2>1
  <2>2. CASE j = k + 1
    <3>1. i \in 1..k /\ i \in 1..L
      BY <1>3, <1>5, <2>2
    <3> QED BY <1>3, <1>4, <2>2, <3>1
  <2>3. CASE j > k + 1 /\ i <= k
    <3>1. j - 1 \in 1..L /\ i \in 1..L /\ i < j - 1 /\ j \in (k + 2)..(L + 1) /\ i \in 1..k
      BY <1>3, <1>5, <2>3
    <3> QED BY <1>3, <1>4, <3>1
  <2>4. CASE i = k + 1
    <3>1. j - 1 \in 1..L /\ ~(j - 1 <= k) /\ j \in (k + 2)..(L + 1)
      BY <1>3, <1>5, <2>4
    <3>2. ~(events[j - 1].time <= e.time) /\ events[j - 1].time \in Nat
      BY <1>3, <3>1
    <3> QED BY <1>3, <1>4, <2>4, <3>1, <3>2
  <2>5. CASE i > k + 1
    <3>1. /\ j - 1 \in 1..L /\ i - 1 \in 1..L /\ i - 1 < j - 1
          /\ i \in (k + 2)..(L + 1) /\ j \in (k + 2)..(L + 1)
      BY <1>3, <1>5, <2>5
    <3> QED BY <1>3, <1>4, <3>1
  <2> QED BY <1>3, <2>1, <2>2, <2>3, <2>4, <2>5
<1>6. Len(t) = L + 1 /\ \A i, j \in 1..Len(t) : i < j => t[i].time <= t[j].time
  BY <1>4, <1>5
<1> QED BY <1>1, <1>4, <1>6 DEF FeedInv, t

LEMMA FeedInvKept == ASSUME FeedInv, [FeedNext]_feedVars PROVE FeedInv'
<1>1. ASSUME NEW e \in feed.events, Record(e) PROVE FeedInv'
  BY <1>1, RecordKeepsOrder
<1>2. ASSUME NEW f \in feed.facts, Learn(f) PROVE FeedInv'
  BY <1>2 DEF FeedInv, Learn
<1>3. ASSUME Attest PROVE FeedInv'
  BY <1>3 DEF FeedInv, Attest
<1>4. ASSUME Tick PROVE FeedInv'
  <2>1. now' \in 0..feed.until
    BY <1>4, FeedIs DEF FeedInv, Tick
  <2> QED BY <1>4, <2>1 DEF FeedInv, Tick
<1>5. ASSUME UNCHANGED feedVars PROVE FeedInv'
  BY <1>5 DEF FeedInv, feedVars
<1> QED BY <1>1, <1>2, <1>3, <1>4, <1>5 DEF FeedNext

LEMMA FeedAtFirst == ASSUME FeedInit PROVE FeedInv
<1>1. feed.until \in Nat
  BY FeedsAssumption DEF FeedInit
<1>2. /\ feed \in Feeds /\ facts \subseteq feed.facts /\ attested \in BOOLEAN /\ now \in 0..feed.until
  <2>1. 0 \in 0..feed.until
    BY <1>1
  <2>2. feed \in Feeds /\ facts = {} /\ attested = FALSE /\ now = 0
    BY DEF FeedInit
  <2> QED BY <2>1, <2>2, Zenon
<1>3. events = <<>> /\ Len(<<>>) = 0
  BY DEF FeedInit
<1>4. events \in Seq(feed.events) /\ \A i, j \in 1..Len(events) : i < j => events[i].time <= events[j].time
  BY <1>3
<1> QED BY <1>2, <1>4 DEF FeedInv

LEMMA FeedInvHolds == FeedSpec => []FeedInv
<1>1. FeedInit => FeedInv
  BY FeedAtFirst
<1>2. FeedInv /\ [FeedNext]_feedVars => FeedInv'
  BY FeedInvKept
<1> QED BY <1>1, <1>2, PTL DEF FeedSpec

(* The history is one of the feed's and in order of time, in whatever order *)
(* its events arrived (Identities' stable sort).                           *)
THEOREM HistoriesAreOrdered == FeedSpec => []FeedTypeOK
<1>1. ASSUME FeedInv PROVE FeedTypeOK
  <2>1. Len(events) \in Nat /\ DOMAIN events = 1..Len(events)
        /\ \A i \in 1..Len(events) : events[i] \in feed.events
    BY <1>1, FeedIs
  <2>2. ToSet(events) \subseteq feed.events
    BY <2>1 DEF ToSet
  <2>3. \A i \in 2..Len(events) : events[i - 1].time <= events[i].time
    BY <1>1, <2>1 DEF FeedInv
  <2> QED BY <1>1, <2>2, <2>3 DEF FeedTypeOK, FeedInv
<1> QED BY <1>1, FeedInvHolds, PTL

-----------------------------------------------------------------------------
(* What the detectors pick from the history. *)

(* The positions T of the history listed by at_, and the events there.     *)
Chosen(c, T, S, at_) ==
    /\ c \in Seq(S) /\ Len(c) \in Nat /\ DOMAIN c = 1..Len(c) /\ Lists(at_, Len(c), T)
    /\ \A k \in 1..Len(c) : c[k] = events[at_[k]] /\ at_[k] \in T /\ at_[k] \in 1..Len(events)
    /\ \A i, j \in 1..Len(c) : i < j => c[i].time <= c[j].time

LEMMA Choose ==
    ASSUME FeedInv, NEW T \in SUBSET (1..Len(events)), NEW S, Into(events, T, S)
    PROVE  \E at_ : Chosen(Pick(events, T), T, S, at_)
<1>1. Len(events) \in Nat
  BY FeedIs
<1>2a. PICK n \in Nat : \E at_ : Lists(at_, n, T) /\ Picks(events, T, S, n, at_)
  BY <1>1, PickOf
<1>2. PICK at_ : Lists(at_, n, T) /\ Picks(events, T, S, n, at_)
  BY <1>2a
<1> DEFINE c == Pick(events, T)
<1>3. c \in [1..n -> S] /\ \A k \in 1..n : c[k] = events[at_[k]]
  BY <1>2 DEF Picks
<1> HIDE DEF c
<1>4. c \in Seq(S) /\ Len(c) = n /\ DOMAIN c = 1..n
  BY <1>3
<1>5. \A k \in 1..n : at_[k] \in T /\ at_[k] \in 1..Len(events)
  BY <1>2 DEF Lists
<1>6. \A i, j \in 1..n : i < j => at_[i] < at_[j]
  BY <1>2 DEF Lists
<1>7. ASSUME NEW i \in 1..n, NEW j \in 1..n, i < j PROVE c[i].time <= c[j].time
  BY <1>3, <1>5, <1>6, <1>7 DEF FeedInv
<1>8. Chosen(c, T, S, at_)
  BY <1>2, <1>3, <1>4, <1>5, <1>7 DEF Chosen
<1> QED BY <1>8 DEF c

(* Speeds over two legs, neither too fast, are not too fast over both.     *)
LEMMA LegsAdd ==
    ASSUME NEW a \in Nat, NEW b \in Nat, NEW d \in Nat, NEW m \in Nat,
           NEW x \in Nat, NEW y \in Nat, NEW z \in Nat,
           x <= m * (b - a), y <= m * (d - b), z <= x + y
    PROVE  z <= m * (d - a)
<1>1. m * (b - a) + m * (d - b) = m * (d - a)
  OBVIOUS
<1>2. m * (b - a) \in Int /\ m * (d - b) \in Int /\ m * (d - a) \in Int
  OBVIOUS
<1> QED BY <1>1, <1>2

LocatedEvent == {e \in Events : e.place # Unknown}

LEMMA LocatedIs ==
    ASSUME NEW a \in LocatedEvent, NEW b \in LocatedEvent
    PROVE  /\ a.time \in Nat /\ a.place \in Places /\ Km[<<a.place, b.place>>] \in Nat
<1>1. a.time \in Nat /\ a.place \in Places /\ b.place \in Places
  BY DEF LocatedEvent, Events
<1>2. <<a.place, b.place>> \in DOMAIN Km
  BY <1>1, DistanceAssumption
<1> QED BY <1>1, <1>2, DistanceAssumption

(* The later of two, at a time it can be reached.                          *)
Reached(a, b) == a.time <= b.time /\ Km[<<a.place, b.place>>] <= MaxKmPerUnit * (b.time - a.time)

LEMMA ReachedOrTooFast ==
    ASSUME NEW a \in LocatedEvent, NEW b \in LocatedEvent
    PROVE  /\ Reached(a, b) => ~TooFast(a, b)
           /\ a.time < b.time /\ ~TooFast(a, b) => Reached(a, b)
           /\ a.time = b.time /\ a.place = b.place => Reached(a, b)
<1>1. PICK t \in Nat, u \in Nat, m \in Nat, x \in Nat :
        t = a.time /\ u = b.time /\ m = MaxKmPerUnit /\ x = Km[<<a.place, b.place>>]
  BY LocatedIs, ThresholdAssumption
<1>2. PICK y : y = m * (u - t)
  OBVIOUS
<1>3. y \in Int
  BY <1>2
<1>4. (Reached(a, b) <=> t <= u /\ x <= y) /\ (TooFast(a, b) <=> u > t /\ x > y)
  BY <1>1, <1>2, Zenon DEF Reached, TooFast
<1>5. a.place = b.place => x = 0
  BY <1>1, DistanceAssumption DEF LocatedEvent, Events
<1>6. t = u => y = 0
  BY <1>1, <1>2
<1> QED BY <1>1, <1>3, <1>4, <1>5, <1>6

LEMMA ReachedOnwards ==
    ASSUME NEW a \in LocatedEvent, NEW b \in LocatedEvent, NEW d \in LocatedEvent,
           Reached(a, b), Reached(b, d)
    PROVE  Reached(a, d)
<1>1. /\ a.time \in Nat /\ b.time \in Nat /\ d.time \in Nat /\ MaxKmPerUnit \in Nat
      /\ a.place \in Places /\ b.place \in Places /\ d.place \in Places
      /\ Km[<<a.place, b.place>>] \in Nat /\ Km[<<b.place, d.place>>] \in Nat
      /\ Km[<<a.place, d.place>>] \in Nat
  BY LocatedIs, ThresholdAssumption
<1>2. Km[<<a.place, d.place>>] <= Km[<<a.place, b.place>>] + Km[<<b.place, d.place>>]
  BY <1>1, DistanceAssumption
<1>3. a.time <= d.time
  BY <1>1 DEF Reached
<1>4. PICK t, u, v, x, y, z : /\ t = a.time /\ u = b.time /\ v = d.time
                              /\ x = Km[<<a.place, b.place>>] /\ y = Km[<<b.place, d.place>>]
                              /\ z = Km[<<a.place, d.place>>]
  OBVIOUS
<1>5. /\ t \in Nat /\ u \in Nat /\ v \in Nat /\ x \in Nat /\ y \in Nat /\ z \in Nat
      /\ x <= MaxKmPerUnit * (u - t) /\ y <= MaxKmPerUnit * (v - u) /\ z <= x + y
  BY <1>1, <1>2, <1>4 DEF Reached
<1>6. z <= MaxKmPerUnit * (v - t)
  BY <1>1, <1>5, LegsAdd
<1> QED BY <1>3, <1>4, <1>6 DEF Reached

LEMMA ReachedAll ==
    ASSUME NEW l \in Seq(LocatedEvent), \A i \in 2..Len(l) : Reached(l[i - 1], l[i])
    PROVE  \A i, j \in 1..Len(l) : i < j => Reached(l[i], l[j])
<1> DEFINE Good == {n \in Nat : \A i \in 1..Len(l) : i + n + 1 <= Len(l) => Reached(l[i], l[i + n + 1])}
<1>1. Len(l) \in Nat /\ \A i \in 1..Len(l) : l[i] \in LocatedEvent
  OBVIOUS
<1>2. ASSUME NEW i \in 1..Len(l), NEW j \in 1..Len(l), j = i + 1 PROVE Reached(l[i], l[j])
  <2>1. j \in 2..Len(l) /\ j - 1 = i
    BY <1>1, <1>2
  <2> QED BY <2>1
<1>3. 0 \in Good
  <2>1. ASSUME NEW i \in 1..Len(l), i + 0 + 1 <= Len(l) PROVE Reached(l[i], l[i + 0 + 1])
    <3>1. i + 0 + 1 = i + 1 /\ i + 1 \in 1..Len(l)
      BY <1>1, <2>1
    <3> QED BY <1>2, <3>1
  <2> QED BY <2>1
<1>4. ASSUME NEW n \in Nat, n \in Good PROVE n + 1 \in Good
  <2>1. ASSUME NEW i \in 1..Len(l), i + (n + 1) + 1 <= Len(l)
        PROVE  Reached(l[i], l[i + (n + 1) + 1])
    <3>1. PICK k, j : k = i + n + 1 /\ j = i + (n + 1) + 1
      OBVIOUS
    <3>2. k \in 1..Len(l) /\ j \in 1..Len(l) /\ j = k + 1 /\ k <= Len(l)
      BY <1>1, <2>1, <3>1
    <3>3. Reached(l[i], l[k])
      BY <1>4, <3>1, <3>2
    <3>4. Reached(l[k], l[j])
      BY <1>2, <3>2
    <3>5. Reached(l[i], l[j])
      BY <1>1, <3>2, <3>3, <3>4, ReachedOnwards
    <3> QED BY <3>1, <3>5
  <2> QED BY <2>1
<1>5. ASSUME NEW i \in 1..Len(l), NEW j \in 1..Len(l), i < j PROVE Reached(l[i], l[j])
  <2>1. PICK n \in Nat : n = j - i - 1
    BY <1>1, <1>5
  <2>2. i + n + 1 = j /\ i + n + 1 <= Len(l)
    BY <1>1, <2>1
  <2>3. n \in Good
    <3> HIDE DEF Good
    <3> QED BY <1>3, <1>4, SetInduction
  <2> QED BY <2>2, <2>3
<1> QED BY <1>5

LEMMA LoginsAreLocated ==
    ASSUME FeedInv
    PROVE  /\ LocatedLogins \in Seq(LocatedEvent)
           /\ \A i, j \in 1..Len(LocatedLogins) :
                i < j => LocatedLogins[i].time <= LocatedLogins[j].time
<1> DEFINE T == {i \in DOMAIN events : Login(events[i]) /\ events[i].place # Unknown}
<1>1. T \in SUBSET (1..Len(events)) /\ Into(events, T, LocatedEvent)
  BY FeedIs DEF Into, LocatedEvent
<1>2. LocatedLogins = Pick(events, T)
  BY DEF LocatedLogins
<1> HIDE DEF T
<1>3. PICK at_ : Chosen(LocatedLogins, T, LocatedEvent, at_)
  BY <1>1, <1>2, Choose
<1> QED BY <1>3 DEF Chosen

(* For any metric and any speed, comparing each login with the one before  *)
(* finds all the travel there is to find (impossible_travel.go).           *)
THEOREM TravelIsAlwaysFound == FeedSpec => []TravelIsFound
<1>1. ASSUME FeedInv PROVE TravelIsFound
  <2>1. PICK l : l = LocatedLogins
    OBVIOUS
  <2>2. /\ l \in Seq(LocatedEvent) /\ Len(l) \in Nat /\ DOMAIN l = 1..Len(l)
        /\ \A i, j \in 1..Len(l) : i < j => l[i].time <= l[j].time
    BY <1>1, <2>1, LoginsAreLocated
  <2>3. SUFFICES ASSUME \A i \in 2..Len(l) :
                          l[i - 1].time = l[i].time => l[i - 1].place = l[i].place
                 PROVE  ImpossibleTravel # {} <=> \E i, j \in DOMAIN l : i < j /\ TooFast(l[i], l[j])
    BY <2>1 DEF TravelIsFound
  <2>4. ImpossibleTravel # {} <=> \E j \in 2..Len(l) : TooFast(l[j - 1], l[j])
    BY <2>1 DEF ImpossibleTravel, Previous
  <2>5. ASSUME NEW j \in 2..Len(l), TooFast(l[j - 1], l[j])
        PROVE  \E i, k \in DOMAIN l : i < k /\ TooFast(l[i], l[k])
    <3>1. j - 1 \in DOMAIN l /\ j \in DOMAIN l /\ j - 1 < j
      BY <2>2
    <3> QED BY <2>5, <3>1
  <2>6. ASSUME \A j \in 2..Len(l) : ~TooFast(l[j - 1], l[j]),
               NEW i \in DOMAIN l, NEW k \in DOMAIN l, i < k
        PROVE  ~TooFast(l[i], l[k])
    <3>1. ASSUME NEW j \in 2..Len(l) PROVE Reached(l[j - 1], l[j])
      <4>1. j - 1 \in 1..Len(l) /\ j \in 1..Len(l) /\ j - 1 < j
        BY <2>2
      <4>2. l[j - 1] \in LocatedEvent /\ l[j] \in LocatedEvent
        BY <2>2, <4>1
      <4>3. l[j - 1].time <= l[j].time
        BY <2>2, <4>1
      <4>4. l[j - 1].time < l[j].time \/ l[j - 1].time = l[j].time
        <5>1. l[j - 1].time \in Nat /\ l[j].time \in Nat
          BY <4>2, LocatedIs
        <5> QED BY <4>3, <5>1
      <4> QED BY <2>3, <2>6, <4>2, <4>4, ReachedOrTooFast
    <3>2. Reached(l[i], l[k])
      BY <2>2, <2>6, <3>1, ReachedAll
    <3>3. l[i] \in LocatedEvent /\ l[k] \in LocatedEvent
      BY <2>2
    <3> QED BY <3>2, <3>3, ReachedOrTooFast
  <2> QED BY <2>4, <2>5, <2>6
<1> QED BY <1>1, FeedInvHolds, PTL

-----------------------------------------------------------------------------
(* The window of mfa_fatigue, whose start only follows its end. *)

LEMMA LeastIs ==
    ASSUME NEW T \in SUBSET Nat, T # {}
    PROVE  Min(T) \in T /\ \A y \in T : Min(T) <= y
<1>1. \E x \in T : \A y \in T : x <= y
  <2> DEFINE Good == {n \in Nat : \A y \in T : n <= y}
  <2>1. SUFFICES ASSUME \A x \in T : \E y \in T : ~(x <= y) PROVE FALSE
    OBVIOUS
  <2>2. 0 \in Good
    OBVIOUS
  <2>3. ASSUME NEW n \in Nat, n \in Good PROVE n + 1 \in Good
    <3>1. n \notin T
      BY <2>1, <2>3
    <3>2. ASSUME NEW y \in T PROVE n + 1 <= y
      <4>1. n <= y /\ n # y /\ y \in Nat
        BY <2>3, <3>1
      <4> QED BY <4>1
    <3> QED BY <3>2
  <2>4. Nat \subseteq Good
    <3> HIDE DEF Good
    <3> QED BY <2>2, <2>3, SetInduction
  <2>5. PICK t \in T : t \in Nat
    OBVIOUS
  <2>6. t + 1 \in Good
    BY <2>4, <2>5
  <2> QED BY <2>5, <2>6
<1>2. Min(T) = CHOOSE x \in T : \A y \in T : x <= y
  BY DEF Min
<1> QED BY <1>1, <1>2

(* The earliest that is within the window of the one at end.               *)
WindowStart(c, end) == Min({s \in 1..end : InMFAWindow(c[s], c[end])})

InTime(c) ==
    /\ c \in Seq(Events) /\ Len(c) \in Nat
    /\ \A i \in 1..Len(c) : c[i].time \in Nat
    /\ \A i, j \in 1..Len(c) : i < j => c[i].time <= c[j].time

LEMMA WindowStartIs ==
    ASSUME NEW c, InTime(c), NEW end \in 1..Len(c)
    PROVE  /\ WindowStart(c, end) \in 1..end
           /\ \A s \in 1..end : InMFAWindow(c[s], c[end]) <=> WindowStart(c, end) <= s
<1> DEFINE T == {s \in 1..end : InMFAWindow(c[s], c[end])}
<1>1. MFAWindow \in Nat /\ Len(c) \in Nat /\ c[end].time \in Nat
  BY ThresholdAssumption DEF InTime
<1>2. end \in T
  <2>1. c[end].time - c[end].time = 0
    BY <1>1
  <2> QED BY <1>1, <2>1 DEF InMFAWindow
<1>3. T \in SUBSET Nat /\ T # {} /\ T \subseteq 1..end
  BY <1>1, <1>2
<1> DEFINE w == WindowStart(c, end)
<1>4. w = Min(T)
  BY DEF WindowStart
<1>5. w \in T /\ \A s \in T : w <= s
  <2> HIDE DEF T, w
  <2> QED BY <1>3, <1>4, LeastIs
<1>6. w \in 1..end /\ InMFAWindow(c[w], c[end]) /\ \A s \in 1..end : InMFAWindow(c[s], c[end]) => w <= s
  BY <1>5
<1> HIDE DEF w, T
<1>7. ASSUME NEW s \in 1..end, w <= s PROVE InMFAWindow(c[s], c[end])
  <2>1. c[w].time <= c[s].time /\ c[w].time \in Nat /\ c[s].time \in Nat
    BY <1>1, <1>6, <1>7 DEF InTime
  <2>2. c[end].time - c[w].time <= MFAWindow
    BY <1>6 DEF InMFAWindow
  <2>3. c[end].time - c[s].time <= MFAWindow
    BY <1>1, <2>1, <2>2
  <2> QED BY <2>3 DEF InMFAWindow
<1>8. \A s \in 1..end : InMFAWindow(c[s], c[end]) <=> w <= s
  BY <1>6, <1>7
<1> QED BY <1>6, <1>8 DEF w

(* A start taken for the challenge before loses none for this one.         *)
LEMMA NoneIsPassed ==
    ASSUME NEW c, InTime(c), NEW end \in 2..Len(c)
    PROVE  {s \in WindowStart(c, end - 1)..end : InMFAWindow(c[s], c[end])}
             = {s \in 1..end : InMFAWindow(c[s], c[end])}
<1> DEFINE w == WindowStart(c, end - 1)
<1>1. Len(c) \in Nat /\ end - 1 \in 1..Len(c) /\ end \in 1..Len(c) /\ end - 1 < end
  BY DEF InTime
<1>2. /\ w \in 1..(end - 1)
      /\ \A s \in 1..(end - 1) : InMFAWindow(c[s], c[end - 1]) <=> w <= s
  BY <1>1, WindowStartIs
<1> HIDE DEF w
<1>3. ASSUME NEW s \in 1..end, InMFAWindow(c[s], c[end]) PROVE w <= s
  <2>1. CASE s = end
    BY <1>1, <1>2, <2>1
  <2>2. CASE s # end
    <3>1. s \in 1..(end - 1) /\ s \in 1..Len(c)
      BY <1>1, <2>2
    <3>2. /\ c[end].time \in Nat /\ c[end - 1].time \in Nat /\ c[s].time \in Nat
          /\ c[end - 1].time <= c[end].time /\ MFAWindow \in Nat
      BY <1>1, <3>1, ThresholdAssumption DEF InTime
    <3>3. InMFAWindow(c[s], c[end - 1])
      <4>1. c[end].time - c[s].time <= MFAWindow
        BY <1>3 DEF InMFAWindow
      <4>2. c[end - 1].time - c[s].time <= MFAWindow
        BY <3>2, <4>1
      <4> QED BY <4>2 DEF InMFAWindow
    <3> QED BY <1>2, <3>1, <3>3
  <2> QED BY <2>1, <2>2
<1>4. \A s : s \in w..end /\ InMFAWindow(c[s], c[end]) <=> s \in 1..end /\ InMFAWindow(c[s], c[end])
  BY <1>1, <1>2, <1>3
<1>5. {s \in w..end : InMFAWindow(c[s], c[end])} = {s \in 1..end : InMFAWindow(c[s], c[end])}
  BY <1>4, Zenon
<1> QED BY <1>5 DEF w

(* What the recursive definition says of a function of the ends.           *)
Follows(g, c) ==
    g = [end \in 0..Len(c) |->
           IF end = 0 THEN 1
           ELSE Min({s \in g[end - 1]..end : InMFAWindow(c[s], c[end])})]

LEMMA StartsFollow ==
    ASSUME NEW c, InTime(c)
    PROVE  Follows([end \in 0..Len(c) |-> IF end = 0 THEN 1 ELSE WindowStart(c, end)], c)
<1> DEFINE E == [end \in 0..Len(c) |-> IF end = 0 THEN 1 ELSE WindowStart(c, end)]
           G(end) == IF end = 0 THEN 1 ELSE Min({s \in E[end - 1]..end : InMFAWindow(c[s], c[end])})
<1>1. ASSUME NEW end \in 0..Len(c) PROVE E[end] = G(end)
  <2>1. Len(c) \in Nat
    BY DEF InTime
  <2>2. CASE end = 0
    BY <2>2
  <2>3. CASE end = 1
    <3>1. E[0] = 1 /\ E[1] = WindowStart(c, 1) /\ end - 1 = 0 /\ end # 0
      BY <2>1, <2>3
    <3> HIDE DEF E
    <3>2. {s \in E[end - 1]..end : InMFAWindow(c[s], c[end])} = {s \in 1..end : InMFAWindow(c[s], c[end])}
      BY <3>1
    <3> QED BY <2>3, <3>1, <3>2 DEF WindowStart
  <2>4. CASE end \in 2..Len(c)
    <3>1. /\ end # 0 /\ end - 1 # 0 /\ end - 1 \in 0..Len(c)
      BY <2>1, <2>4
    <3>2. E[end - 1] = WindowStart(c, end - 1) /\ E[end] = WindowStart(c, end)
      BY <3>1
    <3> HIDE DEF E
    <3>3. {s \in E[end - 1]..end : InMFAWindow(c[s], c[end])} = {s \in 1..end : InMFAWindow(c[s], c[end])}
      BY <2>4, <3>2, NoneIsPassed
    <3> QED BY <3>1, <3>2, <3>3 DEF WindowStart
  <2> QED BY <2>1, <2>2, <2>3, <2>4
<1>2. E = [end \in 0..Len(c) |-> E[end]]
  OBVIOUS
<1> HIDE DEF E
<1>3. [end \in 0..Len(c) |-> E[end]] = [end \in 0..Len(c) |-> G(end)]
  BY <1>1, Zenon
<1>4. Follows(E, c)
  BY <1>2, <1>3, Zenon DEF Follows
<1> QED BY <1>4 DEF E

LEMMA OneFollows ==
    ASSUME NEW c, Len(c) \in Nat, NEW g, NEW h, Follows(g, c), Follows(h, c)
    PROVE  \A end \in 0..Len(c) : g[end] = h[end]
<1> DEFINE Good == {n \in Nat : n <= Len(c) => g[n] = h[n]}
<1>1. g[0] = 1 /\ h[0] = 1
  <2>1. 0 \in 0..Len(c)
    OBVIOUS
  <2> QED BY <2>1 DEF Follows
<1>2. ASSUME NEW n \in Nat, n \in Good PROVE n + 1 \in Good
  <2>1. SUFFICES ASSUME n + 1 <= Len(c) PROVE g[n + 1] = h[n + 1]
    OBVIOUS
  <2>2. n + 1 \in 0..Len(c) /\ n + 1 # 0 /\ (n + 1) - 1 = n /\ g[n] = h[n]
    BY <1>2, <2>1
  <2>3. g[n + 1] = Min({s \in g[n]..(n + 1) : InMFAWindow(c[s], c[n + 1])})
    BY <2>2 DEF Follows
  <2>4. h[n + 1] = Min({s \in h[n]..(n + 1) : InMFAWindow(c[s], c[n + 1])})
    BY <2>2 DEF Follows
  <2> QED BY <2>2, <2>3, <2>4
<1>3. Nat \subseteq Good
  <2>1. 0 \in Good
    BY <1>1
  <2> HIDE DEF Good
  <2> QED BY <1>2, <2>1, SetInduction
<1> QED BY <1>3

LEMMA WindowStartsAre ==
    ASSUME NEW c, InTime(c), NEW end \in 1..Len(c)
    PROVE  WindowStarts(c)[end] = WindowStart(c, end)
<1> DEFINE E == [n \in 0..Len(c) |-> IF n = 0 THEN 1 ELSE WindowStart(c, n)]
<1>1. Follows(E, c)
  BY StartsFollow
<1>2. WindowStarts(c) = CHOOSE g : Follows(g, c)
  BY DEF WindowStarts, Follows
<1>3. Follows(WindowStarts(c), c)
  <2> HIDE DEF E
  <2> QED BY <1>1, <1>2, Zenon
<1>4. Len(c) \in Nat /\ end \in 0..Len(c) /\ end # 0
  BY DEF InTime
<1>5. E[end] = WindowStart(c, end)
  BY <1>4
<1> HIDE DEF E
<1>6. WindowStarts(c)[end] = E[end]
  BY <1>1, <1>3, <1>4, OneFollows
<1> QED BY <1>5, <1>6

Between(at_, a, b) == {at_[k] : k \in a..b}

LEMMA CountChosen ==
    ASSUME NEW c, NEW T \in SUBSET Nat, NEW S, NEW at_, Chosen(c, T, S, at_),
           NEW a \in 1..Len(c), NEW b \in 1..Len(c), a <= b
    PROVE  Cardinality(Between(at_, a, b)) = b - a + 1
<1> DEFINE U == Between(at_, a, b)
           f == [k \in a..b |-> at_[k]]
<1>1. Len(c) \in Nat /\ a..b \subseteq 1..Len(c)
  BY DEF Chosen
<1>2. IsFiniteSet(a..b) /\ Cardinality(a..b) = b - a + 1
  <2>1. a \in Int /\ b \in Int /\ ~(a > b)
    BY <1>1
  <2> QED BY <2>1, FS_Interval
<1>3. ASSUME NEW i \in a..b, NEW j \in a..b, at_[i] = at_[j] PROVE i = j
  <2>1. i \in 1..Len(c) /\ j \in 1..Len(c)
    BY <1>1
  <2>2. at_[i] \in Nat /\ (i < j => at_[i] < at_[j]) /\ (j < i => at_[j] < at_[i])
    BY <2>1 DEF Chosen, Lists
  <2> QED BY <1>3, <2>1, <2>2
<1>4. f \in [a..b -> U] /\ (\A u \in U : \E k \in a..b : f[k] = u) /\ \A k \in a..b : f[k] = at_[k]
  BY DEF Between
<1> HIDE DEF f, U
<1>5. f \in Surjection(a..b, U) /\ f \in Injection(a..b, U)
  BY <1>3, <1>4 DEF Surjection, Injection, IsInjective
<1>6. Cardinality(U) = Cardinality(a..b)
  BY <1>2, <1>5, FS_Surjection
<1> QED BY <1>2, <1>6 DEF U

(* The last challenge at the time of the one at k, and how many challenges *)
(* the window that ends there holds.                                       *)
Latest(c, k, m) ==
    /\ m \in k..Len(c) /\ c[m].time = c[k].time
    /\ \A j \in 1..Len(c) : c[j].time <= c[k].time <=> j <= m

LEMMA LatestExists ==
    ASSUME NEW c, InTime(c), NEW k \in 1..Len(c)
    PROVE  \E m \in 1..Len(c) : Latest(c, k, m)
<1> DEFINE U == {j \in 1..Len(c) : c[j].time <= c[k].time}
           m == Cardinality(U)
<1>1. Len(c) \in Nat /\ k \in Nat /\ \A j \in 1..Len(c) : c[j].time \in Nat
  BY DEF InTime
<1>2. ASSUME NEW i \in U, NEW j \in 1..i PROVE j \in U
  BY <1>1 DEF InTime
<1>3. U \in SUBSET (1..Len(c))
  OBVIOUS
<1>4. k \in U
  BY <1>1
<1>5. m \in 0..Len(c) /\ U = 1..m
  <2> HIDE DEF U
  <2> QED BY <1>1, <1>2, <1>3, DownwardIsAPrefix
<1> HIDE DEF m
<1>6. m \in k..Len(c) /\ m \in U
  BY <1>1, <1>4, <1>5
<1>7. c[m].time = c[k].time
  <2>1. c[m].time <= c[k].time /\ m \in 1..Len(c)
    BY <1>6
  <2>2. k < m => c[k].time <= c[m].time
    BY <2>1 DEF InTime
  <2>3. k < m \/ k = m
    BY <1>1, <1>6
  <2> QED BY <1>1, <2>1, <2>2, <2>3
<1>8. \A j \in 1..Len(c) : c[j].time <= c[k].time <=> j <= m
  BY <1>1, <1>5
<1> QED BY <1>1, <1>6, <1>7, <1>8 DEF Latest

Within(T, t) == {i \in T : events[i].time \in (t - MFAWindow)..t}

LEMMA WithinIs ==
    ASSUME FeedInv, NEW T \in SUBSET (1..Len(events)), NEW c, NEW at_,
           Chosen(c, T, Events, at_), InTime(c),
           NEW k \in 1..Len(c), NEW m \in 1..Len(c), Latest(c, k, m)
    PROVE  /\ Cardinality(Within(T, c[k].time)) = m - WindowStart(c, m) + 1
           /\ WindowStart(c, m) <= WindowStart(c, k)
<1>1. PICK t, w, v : t = c[k].time /\ w = WindowStart(c, m) /\ v = WindowStart(c, k)
  OBVIOUS
<1>2. /\ Len(c) \in Nat /\ t \in Nat /\ MFAWindow \in Nat /\ k <= m /\ c[m].time = t
      /\ \A j \in 1..Len(c) : c[j].time \in Nat /\ (c[j].time <= t <=> j <= m)
  BY <1>1, ThresholdAssumption DEF InTime, Latest
<1>3. /\ w \in 1..m /\ v \in 1..k
      /\ \A s \in 1..m : InMFAWindow(c[s], c[m]) <=> w <= s
      /\ \A s \in 1..k : InMFAWindow(c[s], c[k]) <=> v <= s
  BY <1>1, WindowStartIs
<1>4. w <= v
  <2>1. v \in 1..k /\ v \in 1..m /\ v <= v
    BY <1>2, <1>3
  <2>2. InMFAWindow(c[v], c[k])
    BY <1>3, <2>1
  <2>3. InMFAWindow(c[v], c[m])
    BY <1>1, <1>2, <2>2 DEF InMFAWindow
  <2> QED BY <1>3, <2>1, <2>3
<1>5. ASSUME NEW j \in 1..Len(c) PROVE c[j].time \in (t - MFAWindow)..t <=> j \in w..m
  <2>1. c[j].time \in Nat /\ (c[j].time <= t <=> j <= m)
    BY <1>2
  <2>2. j <= m => (InMFAWindow(c[j], c[m]) <=> w <= j)
    <3>1. j <= m => j \in 1..m
      BY <1>2
    <3> QED BY <1>3, <3>1
  <2>3. InMFAWindow(c[j], c[m]) <=> t - c[j].time <= MFAWindow
    BY <1>2 DEF InMFAWindow
  <2> QED BY <1>2, <1>3, <2>1, <2>2, <2>3
<1>6. /\ \A j \in 1..Len(c) : c[j] = events[at_[j]] /\ at_[j] \in T
      /\ \A i \in T : \E j \in 1..Len(c) : at_[j] = i
  BY DEF Chosen, Lists
<1>7. Within(T, t) = Between(at_, w, m)
  <2>1. w..m \subseteq 1..Len(c)
    BY <1>2, <1>3
  <2>2. ASSUME NEW i \in Within(T, t) PROVE i \in Between(at_, w, m)
    <3>1. i \in T /\ events[i].time \in (t - MFAWindow)..t
      BY DEF Within
    <3>2. PICK j \in 1..Len(c) : at_[j] = i
      BY <1>6, <3>1
    <3>3. c[j].time \in (t - MFAWindow)..t
      BY <1>6, <3>1, <3>2
    <3>4. j \in w..m
      BY <1>5, <3>3
    <3> QED BY <3>2, <3>4 DEF Between
  <2>3. ASSUME NEW j \in w..m PROVE at_[j] \in Within(T, t)
    <3>1. j \in 1..Len(c)
      BY <2>1
    <3>2. c[j].time \in (t - MFAWindow)..t
      BY <1>5, <3>1
    <3> QED BY <1>6, <3>1, <3>2 DEF Within
  <2> QED BY <2>2, <2>3 DEF Between
<1>8. Cardinality(Between(at_, w, m)) = m - w + 1
  <2>1. w \in 1..Len(c) /\ w <= m /\ T \in SUBSET Nat
    BY <1>2, <1>3, FeedIs
  <2> QED BY <2>1, CountChosen
<1> QED BY <1>1, <1>4, <1>7, <1>8

Challenged == {i \in DOMAIN events : events[i].type = "mfa_challenge"}

(* The ends of the windows that are full. *)
Full(c) == {end \in 1..Len(c) : end - WindowStart(c, end) + 1 >= MFAThreshold}

FatigueOf(c, severity) ==
    IF Full(c) = {} THEN {} ELSE {AlertOf("mfa_fatigue", severity, c[Min(Full(c))].time)}

LEMMA ChallengesAre ==
    ASSUME FeedInv
    PROVE  /\ Challenged \in SUBSET (1..Len(events)) /\ InTime(Pick(events, Challenged))
           /\ \E at_ : Chosen(Pick(events, Challenged), Challenged, Events, at_)
<1>1. Challenged \in SUBSET (1..Len(events)) /\ Into(events, Challenged, Events)
  BY FeedIs DEF Challenged, Into
<1>2. PICK at_ : Chosen(Pick(events, Challenged), Challenged, Events, at_)
  BY <1>1, Choose
<1>3. PICK c : c = Pick(events, Challenged)
  OBVIOUS
<1>4. c \in Seq(Events) /\ Len(c) \in Nat /\ \A i \in 1..Len(c) : c[i] \in Events
  BY <1>2, <1>3 DEF Chosen
<1>5. \A i \in 1..Len(c) : c[i].time \in Nat
  BY <1>4 DEF Events
<1>6. InTime(c)
  BY <1>2, <1>3, <1>4, <1>5 DEF InTime, Chosen
<1> QED BY <1>1, <1>2, <1>3, <1>6

(* By the starts the two pointers take. *)
FatigueByStarts(c, severity) ==
    LET full == {end \in DOMAIN c : end - WindowStarts(c)[end] + 1 >= MFAThreshold}
    IN  IF full = {} THEN {} ELSE {AlertOf("mfa_fatigue", severity, c[Min(full)].time)}

LEMMA ByStarts ==
    ASSUME NEW c, InTime(c), DOMAIN c = 1..Len(c), NEW s
    PROVE  FatigueByStarts(c, s) = FatigueOf(c, s)
<1>1. {end \in DOMAIN c : end - WindowStarts(c)[end] + 1 >= MFAThreshold} = Full(c)
  <2>1. \A end \in 1..Len(c) : WindowStarts(c)[end] = WindowStart(c, end)
    BY WindowStartsAre
  <2> QED BY <2>1 DEF Full
<1> QED BY <1>1 DEF FatigueOf, FatigueByStarts

LEMMA FatigueIs ==
    ASSUME FeedInv
    PROVE  MFAFatigue = FatigueOf(Pick(events, Challenged), RaisedIf(Privileged, High))
<1>1. PICK c, s : c = Pick(events, Challenged) /\ s = RaisedIf(Privileged, High)
  OBVIOUS
<1>2. InTime(c) /\ DOMAIN c = 1..Len(c)
  BY <1>1, ChallengesAre DEF InTime
<1>3. MFAFatigue = FatigueByStarts(c, s)
  BY <1>1 DEF MFAFatigue, Challenged, FatigueByStarts
<1> QED BY <1>1, <1>2, <1>3, ByStarts

(* A full window at a challenge, and one that ends at the time of it.      *)
FullAt(t) == Cardinality(Within(Challenged, t)) >= MFAThreshold

LEMMA FullTimes ==
    ASSUME FeedInv, NEW c, c = Pick(events, Challenged)
    PROVE  {t \in {events[i].time : i \in Challenged} : FullAt(t)} = {c[end].time : end \in Full(c)}
<1>1. PICK at_ : Chosen(c, Challenged, Events, at_)
  BY ChallengesAre
<1>2. InTime(c) /\ Challenged \in SUBSET (1..Len(events)) /\ Len(c) \in Nat
  BY ChallengesAre DEF InTime
<1>3. /\ \A k \in 1..Len(c) : c[k] = events[at_[k]] /\ at_[k] \in Challenged
      /\ \A i \in Challenged : \E k \in 1..Len(c) : at_[k] = i
  BY <1>1 DEF Chosen, Lists
<1>4. ASSUME NEW k \in 1..Len(c)
      PROVE  \E m \in 1..Len(c) :
               /\ Latest(c, k, m) /\ WindowStart(c, m) <= WindowStart(c, k)
               /\ Cardinality(Within(Challenged, c[k].time)) = m - WindowStart(c, m) + 1
  <2>1. PICK m \in 1..Len(c) : Latest(c, k, m)
    BY <1>2, LatestExists
  <2> QED BY <1>1, <1>2, <2>1, WithinIs
<1>5. ASSUME NEW k \in 1..Len(c) PROVE WindowStart(c, k) \in Nat
  <2>1. WindowStart(c, k) \in 1..k
    BY <1>2, WindowStartIs
  <2> QED BY <1>2, <2>1
<1>6. MFAThreshold \in Nat
  BY ThresholdAssumption
<1>7. ASSUME NEW k \in Full(c)
      PROVE  c[k].time \in {t \in {events[i].time : i \in Challenged} : FullAt(t)}
  <2>1. k \in 1..Len(c) /\ k \in Nat /\ k - WindowStart(c, k) + 1 >= MFAThreshold
    BY <1>2 DEF Full
  <2>2. PICK m \in 1..Len(c) :
               /\ Latest(c, k, m) /\ WindowStart(c, m) <= WindowStart(c, k)
               /\ Cardinality(Within(Challenged, c[k].time)) = m - WindowStart(c, m) + 1
    BY <1>4, <2>1
  <2>3. m \in Nat /\ k <= m
    BY <1>2, <2>1, <2>2 DEF Latest
  <2>4. PICK w, v : w = WindowStart(c, m) /\ v = WindowStart(c, k)
    OBVIOUS
  <2>5. w \in Nat /\ v \in Nat /\ w <= v /\ k - v + 1 >= MFAThreshold
    BY <1>5, <2>1, <2>2, <2>4
  <2>6. m - w + 1 >= MFAThreshold
    BY <1>6, <2>1, <2>3, <2>5
  <2>7. FullAt(c[k].time)
    BY <2>2, <2>4, <2>6 DEF FullAt
  <2>8. c[k].time \in {events[i].time : i \in Challenged}
    BY <1>3, <2>1
  <2> QED BY <2>7, <2>8
<1>8. ASSUME NEW t \in {events[i].time : i \in Challenged}, FullAt(t)
      PROVE  t \in {c[end].time : end \in Full(c)}
  <2>1. PICK i \in Challenged : t = events[i].time
    OBVIOUS
  <2>2. PICK k \in 1..Len(c) : at_[k] = i
    BY <1>3
  <2>3. c[k].time = t
    BY <1>3, <2>1, <2>2
  <2>4. PICK m \in 1..Len(c) :
               /\ Latest(c, k, m) /\ WindowStart(c, m) <= WindowStart(c, k)
               /\ Cardinality(Within(Challenged, c[k].time)) = m - WindowStart(c, m) + 1
    BY <1>4
  <2>5. m \in Full(c)
    BY <1>8, <2>3, <2>4 DEF FullAt, Full
  <2>6. c[m].time = t
    BY <2>3, <2>4 DEF Latest
  <2> QED BY <2>5, <2>6
<1> QED BY <1>7, <1>8

(* The two pointers find a burst if and only if there is one, and the      *)
(* first, whatever the window, the threshold and the order of arrival      *)
(* (mfa_fatigue.go).                                                       *)
THEOREM BurstsAreFound == FeedSpec => []BurstIsFound
<1>1. ASSUME FeedInv PROVE BurstIsFound
  <2>1. PICK c : c = Pick(events, Challenged)
    OBVIOUS
  <2>2. PICK F : F = {t \in {events[i].time : i \in Challenged} : FullAt(t)}
    OBVIOUS
  <2>3. F = {c[end].time : end \in Full(c)}
    BY <1>1, <2>1, <2>2, FullTimes
  <2>4. /\ Len(c) \in Nat /\ Full(c) \in SUBSET Nat /\ Full(c) \subseteq 1..Len(c)
        /\ \A i \in 1..Len(c) : c[i].time \in Nat
        /\ \A i, j \in 1..Len(c) : i < j => c[i].time <= c[j].time
    BY <1>1, <2>1, ChallengesAre DEF InTime, Full
  <2>5. {a.time : a \in MFAFatigue} = {t \in F : \A u \in F : t <= u}
    <3>1. PICK severity : MFAFatigue = FatigueOf(c, severity)
      BY <1>1, <2>1, FatigueIs
    <3>2. CASE Full(c) = {}
      <4>1. F = {} /\ MFAFatigue = {}
        BY <2>3, <3>1, <3>2 DEF FatigueOf
      <4> QED BY <4>1
    <3>3. CASE Full(c) # {}
      <4>1. PICK first : first = Min(Full(c))
        OBVIOUS
      <4>2. first \in Full(c) /\ \A end \in Full(c) : first <= end
        BY <2>4, <3>3, <4>1, LeastIs
      <4>3. c[first].time \in F /\ c[first].time \in Nat
        BY <2>3, <2>4, <4>2
      <4>4. ASSUME NEW end \in Full(c) PROVE c[first].time <= c[end].time
        <5>1. first \in 1..Len(c) /\ end \in 1..Len(c) /\ (first < end \/ first = end)
          BY <2>4, <4>2
        <5> QED BY <2>4, <5>1
      <4>5. \A u \in F : u \in Nat /\ c[first].time <= u
        BY <2>3, <2>4, <4>4
      <4>6. {t \in F : \A u \in F : t <= u} = {c[first].time}
        BY <4>3, <4>5
      <4>7. MFAFatigue = {AlertOf("mfa_fatigue", severity, c[first].time)}
        BY <3>1, <3>3, <4>1 DEF FatigueOf
      <4>8. AlertOf("mfa_fatigue", severity, c[first].time).time = c[first].time
        BY DEF AlertOf
      <4>9. {a.time : a \in MFAFatigue} = {c[first].time}
        BY <4>7, <4>8
      <4> QED BY <4>6, <4>9
    <3> QED BY <3>2, <3>3
  <2>6. F = {t \in {events[i].time : i \in Challenged} :
               Cardinality({i \in Challenged : events[i].time \in (t - MFAWindow)..t}) >= MFAThreshold}
    BY <2>2 DEF FullAt, Within
  <2> QED BY <2>5, <2>6 DEF BurstIsFound, Challenged
<1> QED BY <1>1, FeedInvHolds, PTL

-----------------------------------------------------------------------------
(* A later event withdraws nothing. *)

(* l2 says what l says, and perhaps more.                                  *)
Prolongs(l2, l) ==
    /\ Len(l) \in Nat /\ Len(l2) \in Nat /\ Len(l) <= Len(l2)
    /\ DOMAIN l = 1..Len(l) /\ DOMAIN l2 = 1..Len(l2)
    /\ \A i \in 1..Len(l) : l2[i] = l[i]

(* e is recorded after all there is.                                       *)
Later(e) ==
    /\ events \in Seq(Events) /\ Len(events) \in Nat /\ e \in Events
    /\ events' \in Seq(Events) /\ Len(events') = Len(events) + 1
    /\ DOMAIN events = 1..Len(events) /\ DOMAIN events' = 1..(Len(events) + 1)
    /\ \A i \in 1..Len(events) : events'[i] = events[i] /\ events[i] \in Events
    /\ events'[Len(events) + 1] = e
    /\ Privileged' = Privileged

LEMMA RecordedLater ==
    ASSUME FeedInv, NEW e \in feed.events, Record(e), \A x \in ToSet(events) : x.time < e.time
    PROVE  Later(e)
<1>1. PICK k \in 0..Len(events) : RecordedAt(e, k)
  BY RecordIs
<1>2. /\ Len(events) \in Nat /\ DOMAIN events = 1..Len(events) /\ events \in Seq(Events)
      /\ feed.events \subseteq Events /\ e \in Events /\ e.time \in Nat
      /\ \A i \in 1..Len(events) : events[i].time \in Nat /\ events[i] \in Events
  BY FeedIs DEF Events
<1>3. /\ events' \in Seq(feed.events) /\ Len(events') = Len(events) + 1
      /\ \A i \in 1..k : events'[i] = events[i]
      /\ events'[k + 1] = e
      /\ \A i \in 1..Len(events) : events[i].time <= e.time <=> i <= k
  BY <1>1 DEF RecordedAt, Inserted
<1>4. k = Len(events)
  <2>1. SUFFICES ASSUME k < Len(events) PROVE FALSE
    BY <1>2
  <2>2. Len(events) \in 1..Len(events) /\ ~(Len(events) <= k)
    BY <1>2, <2>1
  <2>3. events[Len(events)] \in ToSet(events)
    BY <1>2, <2>2 DEF ToSet
  <2>4. events[Len(events)].time < e.time
    BY <2>3
  <2> QED BY <1>2, <1>3, <2>2, <2>4
<1>5. events' \in Seq(Events) /\ DOMAIN events' = 1..(Len(events) + 1)
  <2>1. DOMAIN events' = 1..Len(events') /\ \A i \in 1..Len(events') : events'[i] \in Events
    BY <1>2, <1>3
  <2> QED BY <1>3, <2>1
<1>6. Privileged' = Privileged
  BY DEF Privileged, Record
<1> QED BY <1>2, <1>3, <1>4, <1>5, <1>6 DEF Later

(* The positions T of the history, and perhaps the last of the next.       *)
LEMMA PickLater ==
    ASSUME NEW e, Later(e), NEW T \in SUBSET (1..Len(events)),
           NEW U, U = T \/ U = T \cup {Len(events) + 1}
    PROVE  /\ Prolongs(Pick(events', U), Pick(events, T))
           /\ \A n \in 1..Len(Pick(events', U)) :
                \/ n \in 1..Len(Pick(events, T))
                \/ U # T /\ n = Len(Pick(events, T)) + 1 /\ Pick(events', U)[n] = e
<1> DEFINE l == Pick(events, T)
           L == Len(events)
<1>1. L \in Nat /\ Into(events, T, Events) /\ T \in SUBSET (1..L)
  BY DEF Later, Into
<1>2. l \in Seq(Events) /\ Len(l) \in Nat
  <2> HIDE DEF L
  <2>1. l \in Seq(Events)
    BY <1>1, PickTyped
  <2> QED BY <2>1
<1>3. /\ e \in Events /\ events'[L + 1] = e /\ \A i \in T : events[i] = events'[i]
  BY DEF Later
<1>4. Pick(events, T) = Pick(events', T)
  <2>1. PICK s, t : s = events /\ t = events'
    OBVIOUS
  <2>2. Into(s, T, Events) /\ \A i \in T : s[i] = t[i]
    BY <1>1, <1>3, <2>1
  <2> HIDE DEF L
  <2>3. Pick(s, T) = Pick(t, T)
    BY <1>1, <2>2, PickSame
  <2> QED BY <2>1, <2>3
<1>5. CASE U = T
  <2>1. PICK q : q = Pick(events', U)
    OBVIOUS
  <2>2. q = l
    BY <1>4, <1>5, <2>1
  <2> HIDE DEF l
  <2>3. Prolongs(q, l) /\ \A n \in 1..Len(q) : n \in 1..Len(l)
    BY <1>2, <2>2 DEF Prolongs
  <2> QED BY <2>1, <2>3 DEF l
<1>6. CASE U # T
  <2>1. U = T \cup {L + 1}
    BY <1>6
  <2>2. PICK t, p : t = events' /\ p = L + 1
    OBVIOUS
  <2>3. Into(t, T, Events) /\ p \in Nat /\ (\A i \in T : i < p) /\ t[p] \in Events /\ t[p] = e
    BY <1>1, <1>3, <2>2 DEF Into
  <2>4. PickGrows(t, T, p)
    <3> HIDE DEF L, l
    <3> QED BY <1>1, <2>3, PickMore
  <2>5. PICK q : q = Pick(events', U)
    OBVIOUS
  <2>6. q = Append(l, e)
    BY <1>4, <2>1, <2>2, <2>3, <2>4, <2>5 DEF PickGrows
  <2> HIDE DEF l
  <2>7. /\ q \in Seq(Events) /\ Len(q) = Len(l) + 1 /\ q[Len(l) + 1] = e
        /\ \A i \in 1..Len(l) : q[i] = l[i]
    BY <1>2, <1>3, <2>6
  <2>8. Prolongs(q, l)
    BY <1>2, <2>7 DEF Prolongs
  <2>9. \A n \in 1..Len(q) : n \in 1..Len(l) \/ (n = Len(l) + 1 /\ q[n] = e)
    BY <1>2, <2>7
  <2> QED BY <1>6, <2>5, <2>8, <2>9 DEF l
<1> QED BY <1>5, <1>6

(* The positions of the events of P, before and after one more event.      *)
LEMMA Selected ==
    ASSUME NEW e, Later(e), NEW P,
           NEW T, T = {i \in DOMAIN events : events[i] \in P},
           NEW U, U = {i \in DOMAIN events' : events'[i] \in P}
    PROVE  /\ Prolongs(Pick(events', U), Pick(events, T))
           /\ \A n \in 1..Len(Pick(events', U)) :
                \/ n \in 1..Len(Pick(events, T))
                \/ U # T /\ n = Len(Pick(events, T)) + 1 /\ Pick(events', U)[n] = e
<1>1. PICK L : L = Len(events)
  OBVIOUS
<1>2. /\ L \in Nat /\ DOMAIN events = 1..L /\ DOMAIN events' = 1..(L + 1)
      /\ \A i \in 1..L : events'[i] = events[i]
  BY <1>1 DEF Later
<1>3. \A i \in 1..(L + 1) : i \in 1..L \/ i = L + 1
  BY <1>2
<1>4. T \in SUBSET (1..L) /\ 1..L \subseteq 1..(L + 1) /\ L + 1 \in 1..(L + 1) /\ L + 1 \notin 1..L
  BY <1>2
<1>5. U = T \/ U = T \cup {L + 1}
  BY <1>2, <1>3, <1>4
<1> QED BY <1>1, <1>4, <1>5, PickLater

TravelIn(l, severity) ==
    {AlertOf("impossible_travel", severity, l[i].time) : i \in {j \in 2..Len(l) : TooFast(l[j - 1], l[j])}}

NewDeviceIn(l, privileged) ==
    {AlertOf("new_device", High, l[i].time) :
       i \in {j \in 2..Len(l) : privileged /\ \A k \in 1..(j - 1) : l[k].device # l[j].device}}

AnomalyIn(l, privileged) ==
    {AlertOf("behavior_anomaly",
           IF privileged THEN (IF Score(l[i], Profile(l, i)) >= 8 THEN High ELSE Medium) + 1
                         ELSE IF Score(l[i], Profile(l, i)) >= 8 THEN High ELSE Medium,
           l[i].time) :
       i \in {j \in DOMAIN l : Score(l[j], Profile(l, j)) >= 6}}

LEMMA ProlongedStands ==
    ASSUME NEW l2, NEW l, Prolongs(l2, l), NEW s
    PROVE  /\ TravelIn(l, s) \subseteq TravelIn(l2, s)
           /\ NewDeviceIn(l, s) \subseteq NewDeviceIn(l2, s)
           /\ AnomalyIn(l, s) \subseteq AnomalyIn(l2, s)
<1>1. /\ Len(l) \in Nat /\ Len(l2) \in Nat /\ Len(l) <= Len(l2)
      /\ DOMAIN l = 1..Len(l) /\ DOMAIN l2 = 1..Len(l2)
      /\ \A i \in 1..Len(l) : l2[i] = l[i]
  BY DEF Prolongs
<1>2. ASSUME NEW j \in 2..Len(l)
      PROVE  /\ j \in 2..Len(l2) /\ j \in 1..Len(l) /\ j - 1 \in 1..Len(l)
             /\ l2[j] = l[j] /\ l2[j - 1] = l[j - 1]
             /\ \A k \in 1..(j - 1) : l2[k] = l[k]
  BY <1>1
<1>3. TravelIn(l, s) \subseteq TravelIn(l2, s)
  <2>1. ASSUME NEW j \in 2..Len(l), TooFast(l[j - 1], l[j])
        PROVE  j \in 2..Len(l2) /\ TooFast(l2[j - 1], l2[j]) /\ l2[j].time = l[j].time
    BY <1>2, <2>1
  <2> QED BY <2>1 DEF TravelIn
<1>4. NewDeviceIn(l, s) \subseteq NewDeviceIn(l2, s)
  <2>1. ASSUME NEW j \in 2..Len(l), s, \A k \in 1..(j - 1) : l[k].device # l[j].device
        PROVE  /\ j \in 2..Len(l2) /\ l2[j].time = l[j].time
               /\ \A k \in 1..(j - 1) : l2[k].device # l2[j].device
    BY <1>2, <2>1
  <2> QED BY <2>1 DEF NewDeviceIn
<1>5. AnomalyIn(l, s) \subseteq AnomalyIn(l2, s)
  <2>1. ASSUME NEW j \in DOMAIN l
        PROVE  j \in DOMAIN l2 /\ l2[j] = l[j] /\ Profile(l2, j) = Profile(l, j)
    <3>1. j \in DOMAIN l2 /\ l2[j] = l[j] /\ \A k \in 1..(j - 1) : l2[k] = l[k]
      BY <1>1
    <3> QED BY <3>1 DEF Profile
  <2> QED BY <2>1 DEF AnomalyIn
<1> QED BY <1>3, <1>4, <1>5

LEMMA TravelStands ==
    ASSUME NEW e, Later(e) PROVE ImpossibleTravel \subseteq ImpossibleTravel'
<1>1. PICK P : P = {x \in Events : Login(x) /\ x.place # Unknown}
  OBVIOUS
<1>2. PICK T, U : T = {i \in DOMAIN events : events[i] \in P} /\ U = {i \in DOMAIN events' : events'[i] \in P}
  OBVIOUS
<1>3. /\ \A i \in DOMAIN events : events[i] \in Events
      /\ \A i \in DOMAIN events' : events'[i] \in Events
  BY DEF Later
<1>4. PICK l, l2, s : l = Pick(events, T) /\ l2 = Pick(events', U) /\ s = RaisedIf(Privileged, High)
  OBVIOUS
<1>5. LocatedLogins = l
  <2>1. T = {i \in DOMAIN events : Login(events[i]) /\ events[i].place # Unknown}
    BY <1>1, <1>2, <1>3
  <2> QED BY <1>4, <2>1 DEF LocatedLogins
<1>6. LocatedLogins' = l2
  <2>1. U = {i \in DOMAIN events' : Login(events'[i]) /\ events'[i].place # Unknown}
    BY <1>1, <1>2, <1>3
  <2> QED BY <1>4, <2>1 DEF LocatedLogins
<1>7. Prolongs(l2, l)
  BY <1>2, <1>4, Selected
<1>8. ImpossibleTravel = TravelIn(l, s)
  BY <1>4, <1>5 DEF ImpossibleTravel, TravelIn, Previous
<1>9. ImpossibleTravel' = TravelIn(l2, s)
  <2>1. RaisedIf(Privileged', High) = s
    BY <1>4 DEF Later
  <2> QED BY <1>6, <2>1 DEF ImpossibleTravel, TravelIn, Previous
<1> QED BY <1>7, <1>8, <1>9, ProlongedStands

LEMMA NewDeviceStands ==
    ASSUME NEW e, Later(e) PROVE NewDevice \subseteq NewDevice'
<1>1. PICK P : P = {x \in Events : Login(x) /\ x.device # 0}
  OBVIOUS
<1>2. PICK T, U : T = {i \in DOMAIN events : events[i] \in P} /\ U = {i \in DOMAIN events' : events'[i] \in P}
  OBVIOUS
<1>3. /\ \A i \in DOMAIN events : events[i] \in Events
      /\ \A i \in DOMAIN events' : events'[i] \in Events
  BY DEF Later
<1>4. PICK l, l2 : l = Pick(events, T) /\ l2 = Pick(events', U)
  OBVIOUS
<1>5. NewDevice = NewDeviceIn(l, Privileged)
  <2>1. T = {i \in DOMAIN events : Login(events[i]) /\ events[i].device # 0}
    BY <1>1, <1>2, <1>3
  <2> QED BY <1>4, <2>1 DEF NewDevice, NewDeviceIn
<1>6. NewDevice' = NewDeviceIn(l2, Privileged)
  <2>1. U = {i \in DOMAIN events' : Login(events'[i]) /\ events'[i].device # 0}
    BY <1>1, <1>2, <1>3
  <2>2. Privileged' = Privileged
    BY DEF Later
  <2>3. NewDevice' = NewDeviceIn(l2, Privileged')
    BY <1>4, <2>1 DEF NewDevice, NewDeviceIn
  <2> QED BY <2>2, <2>3
<1>7. Prolongs(l2, l)
  BY <1>2, <1>4, Selected
<1> QED BY <1>5, <1>6, <1>7, ProlongedStands

LEMMA AnomalyStands ==
    ASSUME NEW e, Later(e) PROVE BehaviorAnomaly \subseteq BehaviorAnomaly'
<1>1. PICK P : P = {x \in Events : Login(x)}
  OBVIOUS
<1>2. PICK T, U : T = {i \in DOMAIN events : events[i] \in P} /\ U = {i \in DOMAIN events' : events'[i] \in P}
  OBVIOUS
<1>3. /\ \A i \in DOMAIN events : events[i] \in Events
      /\ \A i \in DOMAIN events' : events'[i] \in Events
  BY DEF Later
<1>4. PICK l, l2 : l = Pick(events, T) /\ l2 = Pick(events', U)
  OBVIOUS
<1>5. BehaviorAnomaly = AnomalyIn(l, Privileged)
  <2>1. T = {i \in DOMAIN events : Login(events[i])}
    BY <1>1, <1>2, <1>3
  <2> QED BY <1>4, <2>1 DEF BehaviorAnomaly, AnomalyIn, RaisedIf
<1>6. BehaviorAnomaly' = AnomalyIn(l2, Privileged)
  <2>1. U = {i \in DOMAIN events' : Login(events'[i])}
    BY <1>1, <1>2, <1>3
  <2>2. Privileged' = Privileged
    BY DEF Later
  <2>3. BehaviorAnomaly' = AnomalyIn(l2, Privileged')
    BY <1>4, <2>1 DEF BehaviorAnomaly, AnomalyIn, RaisedIf
  <2> QED BY <2>2, <2>3
<1>7. Prolongs(l2, l)
  BY <1>2, <1>4, Selected
<1> QED BY <1>5, <1>6, <1>7, ProlongedStands

LEMMA WindowStartStands ==
    ASSUME NEW c, NEW d, Prolongs(d, c), NEW end \in 1..Len(c)
    PROVE  WindowStart(d, end) = WindowStart(c, end)
<1>1. Len(c) \in Nat /\ d[end] = c[end] /\ \A s \in 1..end : d[s] = c[s]
  BY DEF Prolongs
<1>2. {s \in 1..end : InMFAWindow(d[s], d[end])} = {s \in 1..end : InMFAWindow(c[s], c[end])}
  BY <1>1
<1> QED BY <1>2 DEF WindowStart

LEMMA FatigueProlonged ==
    ASSUME NEW c, NEW d, Prolongs(d, c), NEW s
    PROVE  FatigueOf(c, s) \subseteq FatigueOf(d, s)
<1>1. Len(c) \in Nat /\ Len(d) \in Nat /\ Len(c) <= Len(d) /\ \A i \in 1..Len(c) : d[i] = c[i]
  BY DEF Prolongs
<1>2. \A end \in 1..Len(c) : end \in 1..Len(d) /\ (end \in Full(d) <=> end \in Full(c))
  BY <1>1, WindowStartStands DEF Full
<1>3. Full(c) \subseteq 1..Len(c) /\ Full(d) \subseteq 1..Len(d)
  BY DEF Full
<1>4. SUFFICES ASSUME Full(c) # {} PROVE FatigueOf(c, s) \subseteq FatigueOf(d, s)
  BY DEF FatigueOf
<1>5. PICK m, n : m = Min(Full(c)) /\ n = Min(Full(d))
  OBVIOUS
<1>6. m \in Full(c) /\ \A y \in Full(c) : m <= y
  <2>1. Full(c) \in SUBSET Nat
    BY <1>3
  <2> QED BY <1>4, <1>5, <2>1, LeastIs
<1>7. n \in Full(d) /\ (\A y \in Full(d) : n <= y) /\ Full(d) # {}
  <2>1. Full(d) \in SUBSET Nat /\ m \in Full(d)
    BY <1>2, <1>3, <1>6
  <2> QED BY <1>5, <2>1, LeastIs
<1>8. m = n
  <2>1. m \in 1..Len(c) /\ m \in Full(d) /\ n <= m /\ n \in 1..Len(d)
    BY <1>2, <1>3, <1>6, <1>7
  <2>2. n \in 1..Len(c)
    BY <1>1, <2>1
  <2>3. n \in Full(c) /\ m <= n
    BY <1>2, <1>6, <1>7, <2>2
  <2> QED BY <1>1, <2>1, <2>2, <2>3
<1>9. d[n].time = c[m].time
  BY <1>1, <1>3, <1>6, <1>8
<1> QED BY <1>4, <1>5, <1>7, <1>9 DEF FatigueOf

LEMMA ChallengesInTime ==
    FeedInv => InTime(Pick(events, Challenged))
               /\ DOMAIN Pick(events, Challenged) = 1..Len(Pick(events, Challenged))
  BY ChallengesAre DEF InTime

LEMMA FatigueStands ==
    ASSUME FeedInv, FeedInv', NEW e, Later(e) PROVE MFAFatigue \subseteq MFAFatigue'
<1>1. PICK P : P = {x \in Events : x.type = "mfa_challenge"}
  OBVIOUS
<1>2. PICK T, U : T = {i \in DOMAIN events : events[i] \in P} /\ U = {i \in DOMAIN events' : events'[i] \in P}
  OBVIOUS
<1>3. /\ \A i \in DOMAIN events : events[i] \in Events
      /\ \A i \in DOMAIN events' : events'[i] \in Events
  BY DEF Later
<1>4. T = Challenged
  BY <1>1, <1>2, <1>3 DEF Challenged
<1>5. U = Challenged'
  BY <1>1, <1>2, <1>3 DEF Challenged
<1>6. PICK c, d, s : c = Pick(events, T) /\ d = Pick(events', U) /\ s = RaisedIf(Privileged, High)
  OBVIOUS
<1>7. Prolongs(d, c)
  BY <1>2, <1>6, Selected
<1>8. MFAFatigue = FatigueOf(c, s)
  BY <1>4, <1>6, FatigueIs
<1>9. MFAFatigue' = FatigueOf(d, s)
  <2>1. FeedInv' => InTime(Pick(events, Challenged))'
               /\ (DOMAIN Pick(events, Challenged) = 1..Len(Pick(events, Challenged)))'
    BY ChallengesInTime, PTL
  <2>2. Pick(events, Challenged)' = d
    BY <1>5, <1>6
  <2>3. InTime(d) /\ DOMAIN d = 1..Len(d)
    BY <2>1, <2>2 DEF InTime
  <2>4. RaisedIf(Privileged', High) = s
    BY <1>6 DEF Later
  <2>5. MFAFatigue' = FatigueByStarts(d, s)
    BY <1>5, <1>6, <2>4 DEF MFAFatigue, FatigueByStarts, Challenged
  <2> QED BY <2>3, <2>5, ByStarts
<1> QED BY <1>7, <1>8, <1>9, FatigueProlonged

-----------------------------------------------------------------------------
(* More evidence lowers nothing, and time alone raises nothing. *)

LEMMA RecentIs ==
    ASSUME FeedInv, NEW types, NEW window
    PROVE  Recent(types, window) \in Nat /\ IsFiniteSet(DOMAIN events)
<1>1. IsFiniteSet(DOMAIN events)
  <2>1. 1 \in Int /\ Len(events) \in Int /\ DOMAIN events = 1..Len(events)
    BY FeedIs
  <2>2. IsFiniteSet(1..Len(events))
    BY <2>1, FS_Interval
  <2> QED BY <2>1, <2>2
<1> DEFINE T == {i \in DOMAIN events : events[i].type \in types /\ now - events[i].time <= window}
<1>2. IsFiniteSet(T)
  <2>1. T \in SUBSET DOMAIN events
    OBVIOUS
  <2> HIDE DEF T
  <2> QED BY <1>1, <2>1, FS_Subset
<1>3. Cardinality(T) \in Nat
  <2> HIDE DEF T
  <2> QED BY <1>2, FS_CardinalityType
<1> QED BY <1>1, <1>3 DEF Recent

LEMMA RecentGrows ==
    ASSUME FeedInv, FeedInv', NEW e \in feed.events, Record(e), NEW types, NEW window
    PROVE  Recent(types, window)' >= Recent(types, window)
<1>1. PICK k \in 0..Len(events) : RecordedAt(e, k)
  BY RecordIs
<1>2. now' = now
  BY DEF Record
<1>3. PICK L, t : L = Len(events) /\ t = events'
  OBVIOUS
<1>4. /\ L \in Nat /\ DOMAIN events = 1..L /\ DOMAIN t = 1..(L + 1) /\ k \in 0..L
      /\ \A i \in 1..k : t[i] = events[i]
      /\ \A i \in (k + 2)..(L + 1) : t[i] = events[i - 1]
  BY <1>1, <1>3, FeedIs DEF RecordedAt, Inserted
<1>5. PICK T, U : /\ T = {i \in DOMAIN events : events[i].type \in types /\ now - events[i].time <= window}
                  /\ U = {i \in DOMAIN t : t[i].type \in types /\ now - t[i].time <= window}
  OBVIOUS
<1>6. Recent(types, window) = Cardinality(T)
  BY <1>5 DEF Recent
<1>7. Recent(types, window)' = Cardinality(U)
  BY <1>2, <1>3, <1>5 DEF Recent
<1>8. IsFiniteSet(U)
  <2>1. 1 \in Int /\ L + 1 \in Int /\ U \in SUBSET (1..(L + 1))
    BY <1>4, <1>5
  <2>2. IsFiniteSet(1..(L + 1))
    BY <2>1, FS_Interval
  <2> QED BY <2>1, <2>2, FS_Subset
<1> DEFINE up(i) == IF i <= k THEN i ELSE i + 1
           f == [i \in T |-> up(i)]
<1>9. ASSUME NEW i \in T PROVE up(i) \in U /\ i \in 1..L
  <2>1. i \in 1..L /\ events[i].type \in types /\ now - events[i].time <= window
    BY <1>4, <1>5
  <2>2. up(i) \in 1..(L + 1) /\ t[up(i)] = events[i]
    <3>1. CASE i <= k
      BY <1>4, <2>1, <3>1
    <3>2. CASE ~(i <= k)
      <4>1. i + 1 \in (k + 2)..(L + 1) /\ (i + 1) - 1 = i
        BY <1>4, <2>1, <3>2
      <4>2. t[i + 1] = events[(i + 1) - 1]
        BY <1>4, <4>1
      <4> QED BY <1>4, <2>1, <3>2, <4>1, <4>2
    <3> QED BY <3>1, <3>2
  <2> QED BY <1>4, <1>5, <2>1, <2>2
<1>10. ASSUME NEW i \in T, NEW j \in T, up(i) = up(j) PROVE i = j
  BY <1>4, <1>9, <1>10
<1>11. f \in Injection(T, U)
  <2>1. f \in [T -> U] /\ \A i, j \in T : f[i] = f[j] => i = j
    BY <1>9, <1>10
  <2> HIDE DEF f
  <2> QED BY <2>1 DEF Injection, IsInjective
<1>12. Cardinality(T) <= Cardinality(U)
  <2> HIDE DEF f
  <2> QED BY <1>8, <1>11, FS_Injection
<1>13. Cardinality(T) \in Nat /\ Cardinality(U) \in Nat
  <2>1. IsFiniteSet(T)
    <3> HIDE DEF f
    <3> QED BY <1>8, <1>11, FS_Injection
  <2> QED BY <1>8, <2>1, FS_CardinalityType
<1> QED BY <1>6, <1>7, <1>12, <1>13

LEMMA RecentFades ==
    ASSUME FeedInv, Tick, NEW types, NEW window \in Nat
    PROVE  Recent(types, window)' <= Recent(types, window)
<1>1. now' = now + 1 /\ events' = events /\ now \in Nat
  BY FeedIs DEF Tick
<1>2. PICK T, U : /\ T = {i \in DOMAIN events : events[i].type \in types /\ now - events[i].time <= window}
                  /\ U = {i \in DOMAIN events : events[i].type \in types /\ (now + 1) - events[i].time <= window}
  OBVIOUS
<1>3. Recent(types, window) = Cardinality(T)
  BY <1>2 DEF Recent
<1>4. Recent(types, window)' = Cardinality(U)
  BY <1>1, <1>2 DEF Recent
<1>5. U \subseteq T
  <2>1. ASSUME NEW i \in U PROVE i \in T
    <3>1. /\ i \in DOMAIN events /\ events[i].type \in types
          /\ (now + 1) - events[i].time <= window /\ events[i].time \in Nat
      BY <1>2, FeedIs
    <3>2. now - events[i].time <= window
      BY <1>1, <3>1
    <3> QED BY <1>2, <3>1, <3>2
  <2> QED BY <2>1
<1>6. IsFiniteSet(T)
  <2>1. IsFiniteSet(DOMAIN events) /\ T \in SUBSET DOMAIN events
    BY <1>2, RecentIs
  <2> QED BY <2>1, FS_Subset
<1>7. Cardinality(U) <= Cardinality(T) /\ IsFiniteSet(U)
  BY <1>5, <1>6, FS_Subset
<1> QED BY <1>3, <1>4, <1>6, <1>7, FS_CardinalityType

PowerOver == facts \cap {"privileged", "admin"} # {}

ExfiltrationSeverity ==
    IF feed.whose # "agent" \/ Recent({"dlp_block"}, DLPWindow) < DLPThreshold THEN 0
    ELSE IF Recent({"dlp_block"}, DLPWindow) >= 2 * DLPThreshold \/ PowerOver THEN High + 1 ELSE High

FirstSeverity(type) ==
    IF feed.whose # "agent" \/ Recent({type}, RecentWindow) = 0 THEN 0
    ELSE IF Recent({type}, RecentWindow) >= RepeatThreshold \/ PowerOver THEN High + 1 ELSE High

InContext(n) == IF n >= 3 THEN Critical ELSE IF n = 2 THEN High ELSE Medium

SpendSeverity ==
    IF feed.whose # "agent" \/ Recent(Spend, RecentWindow) = 0 THEN 0
    ELSE RunawaySeverity(Recent(Spend, RecentWindow), InContext(Corroborating))

Used == {i \in DOMAIN events : events[i].outcome \in {"SUCCESS", ""}}
Origins ==
    {{events[i].ip : i \in Used} \ {0}, {events[i].place : i \in Used} \ {Unknown},
     {events[i].device : i \in Used} \ {0}}

SharedSeverity ==
    IF feed.whose = "agent" /\ \E o \in Origins : Cardinality(o) > MaxOrigins THEN High ELSE 0

(* At most one alert, of the severity, and none of none.                   *)
Says(detector, severity) == IF severity = 0 THEN {} ELSE {AlertOf(detector, severity, now)}

LEMMA WordsAreFinite == IsFiniteSet({"privilege", "delegated", "unattested", "reach"})
<1>1. IsFiniteSet({"privilege"})
  BY FS_Singleton
<1>2. IsFiniteSet({"privilege"} \cup {"delegated"})
  BY <1>1, FS_AddElement
<1>3. IsFiniteSet(({"privilege"} \cup {"delegated"}) \cup {"unattested"})
  BY <1>2, FS_AddElement
<1>4. IsFiniteSet((({"privilege"} \cup {"delegated"}) \cup {"unattested"}) \cup {"reach"})
  BY <1>3, FS_AddElement
<1>5. {"privilege", "delegated", "unattested", "reach"}
        = (({"privilege"} \cup {"delegated"}) \cup {"unattested"}) \cup {"reach"}
  OBVIOUS
<1> QED BY <1>4, <1>5

LEMMA CorroboratingIs == Corroborating \in Nat
<1>1. PICK W : W = {w \in {"privilege", "delegated", "unattested", "reach"} :
                      CASE w = "privilege"  -> facts \cap {"privileged", "admin"} # {}
                        [] w = "unattested" -> ~attested
                        [] OTHER            -> w \in facts}
  OBVIOUS
<1>2. W \in SUBSET {"privilege", "delegated", "unattested", "reach"}
  BY <1>1
<1>3. Cardinality(W) \in Nat
  BY <1>2, WordsAreFinite, FS_Subset, FS_CardinalityType
<1> QED BY <1>1, <1>3 DEF Corroborating

LEMMA SpentSeverities ==
    ASSUME NEW t \in Nat, NEW c \in {2, 3, 4}
    PROVE  RunawaySeverity(t, c) \in {2, 3, 4}
  BY DEF RunawaySeverity, Critical, High

LEMMA OriginsExceed ==
    ASSUME NEW a \in Nat, NEW b \in Nat, NEW d \in Nat, NEW m \in Nat
    PROVE  Max({a, b, d}) > m <=> a > m \/ b > m \/ d > m
<1>1. PICK x : x = Max({a, b, d})
  OBVIOUS
<1>2. \E y \in {a, b, d} : \A z \in {a, b, d} : y >= z
  <2>1. (a >= b /\ a >= d) \/ (b >= a /\ b >= d) \/ (d >= a /\ d >= b)
    OBVIOUS
  <2> QED BY <2>1
<1>3. x \in {a, b, d} /\ \A z \in {a, b, d} : x >= z
  BY <1>1, <1>2 DEF Max
<1> QED BY <1>1, <1>3

LEMMA OriginsFinite ==
    ASSUME FeedInv, NEW o \in Origins PROVE IsFiniteSet(o) /\ Cardinality(o) \in Nat
<1>1. IsFiniteSet(Used)
  <2>1. Used \in SUBSET DOMAIN events /\ IsFiniteSet(DOMAIN events)
    BY RecentIs DEF Used
  <2> QED BY <2>1, FS_Subset
<1> DEFINE Left(g, x) == {g[i] : i \in Used} \ {x}
<1>2. ASSUME NEW g, NEW x PROVE IsFiniteSet(Left(g, x))
  <2>1. PICK h : h = [i \in Used |-> g[i]]
    OBVIOUS
  <2>2. PICK R : R = {g[i] : i \in Used}
    OBVIOUS
  <2>3. h \in Surjection(Used, R)
    BY <2>1, <2>2 DEF Surjection
  <2>4. IsFiniteSet(R)
    BY <1>1, <2>3, FS_Surjection
  <2>5. IsFiniteSet(R \ {x})
    BY <2>4, FS_Subset
  <2> QED BY <2>2, <2>5
<1>3. PICK gi, gp, gd : /\ gi = [i \in Used |-> events[i].ip]
                        /\ gp = [i \in Used |-> events[i].place]
                        /\ gd = [i \in Used |-> events[i].device]
  OBVIOUS
<1>4. /\ {events[i].ip : i \in Used} = {gi[i] : i \in Used}
      /\ {events[i].place : i \in Used} = {gp[i] : i \in Used}
      /\ {events[i].device : i \in Used} = {gd[i] : i \in Used}
  BY <1>3
<1>5. o = Left(gi, 0) \/ o = Left(gp, Unknown) \/ o = Left(gd, 0)
  BY <1>4 DEF Origins
<1> HIDE DEF Left
<1>6. IsFiniteSet(o)
  BY <1>2, <1>5
<1> QED BY <1>6, FS_CardinalityType

LEMMA SharedCredentialIs ==
    ASSUME FeedInv PROVE SharedCredential = Says("shared_credential", SharedSeverity)
<1>1. PICK a, b, d : /\ a = Cardinality({events[i].ip : i \in Used} \ {0})
                     /\ b = Cardinality({events[i].place : i \in Used} \ {Unknown})
                     /\ d = Cardinality({events[i].device : i \in Used} \ {0})
  OBVIOUS
<1>2. /\ a \in Nat /\ b \in Nat /\ d \in Nat /\ MaxOrigins \in Nat
  BY <1>1, OriginsFinite, ThresholdAssumption DEF Origins
<1>3. PICK p \in BOOLEAN : p = (Max({a, b, d}) > MaxOrigins)
  <2>1. (Max({a, b, d}) > MaxOrigins) \in BOOLEAN
    OBVIOUS
  <2> QED BY <2>1, Zenon
<1>4. p <=> \E o \in Origins : Cardinality(o) > MaxOrigins
  <2>1. p <=> a > MaxOrigins \/ b > MaxOrigins \/ d > MaxOrigins
    BY <1>2, <1>3, OriginsExceed
  <2>2. (\E o \in Origins : Cardinality(o) > MaxOrigins) <=> a > MaxOrigins \/ b > MaxOrigins \/ d > MaxOrigins
    BY <1>1, Zenon DEF Origins
  <2> QED BY <2>1, <2>2
<1>5. SharedCredential = IF feed.whose = "agent" /\ p THEN {AlertOf("shared_credential", High, now)} ELSE {}
  BY <1>1, <1>3, Zenon DEF SharedCredential, Used
<1> QED BY <1>4, <1>5 DEF Says, SharedSeverity, High

LEMMA DetectorsSay ==
    ASSUME FeedInv
    PROVE  /\ DataExfiltration = Says("data_exfiltration", ExfiltrationSeverity)
           /\ TaintedAgent = Says("tainted_agent", FirstSeverity("taint_block"))
           /\ MCPDrift = Says("mcp_drift", FirstSeverity("mcp_drift"))
           /\ RunawayAgent = Says("runaway_agent", SpendSeverity)
<1>1. DataExfiltration = Says("data_exfiltration", ExfiltrationSeverity)
  <2>1. PICK n : n = Recent({"dlp_block"}, DLPWindow)
    OBVIOUS
  <2> QED BY <2>1 DEF DataExfiltration, ExfiltrationSeverity, Says, RaisedIf, PowerOver, High
<1>2. ASSUME NEW name, NEW type PROVE AlertOnFirst(name, type) = Says(name, FirstSeverity(type))
  <2>1. PICK n : n = Recent({type}, RecentWindow)
    OBVIOUS
  <2> QED BY <2>1 DEF AlertOnFirst, FirstSeverity, Says, RaisedIf, PowerOver, High
<1>3. RunawayAgent = Says("runaway_agent", SpendSeverity)
  <2>1. PICK n \in Nat, k \in Nat : n = Recent(Spend, RecentWindow) /\ k = Corroborating
    BY RecentIs, CorroboratingIs
  <2>2. PICK c : c = InContext(k)
    OBVIOUS
  <2>3. c \in {2, 3, 4}
    BY <2>2 DEF InContext, Critical, High, Medium
  <2>4. (CASE k >= 3 -> Critical [] k = 2 -> High [] OTHER -> Medium) = c
    BY <2>1, <2>2 DEF InContext
  <2>5. RunawayAgent = IF feed.whose # "agent" \/ n = 0 THEN {}
                       ELSE {AlertOf("runaway_agent", RunawaySeverity(n, c), now)}
    BY <2>1, <2>4, Zenon DEF RunawayAgent
  <2>6. SpendSeverity = IF feed.whose # "agent" \/ n = 0 THEN 0 ELSE RunawaySeverity(n, c)
    BY <2>1, <2>2, Zenon DEF SpendSeverity
  <2>7. RunawaySeverity(n, c) # 0
    BY <2>1, <2>3, SpentSeverities
  <2> QED BY <2>5, <2>6, <2>7 DEF Says
<1> QED BY <1>1, <1>2, <1>3 DEF TaintedAgent, MCPDrift

SeverityTold ==
    [data_exfiltration |-> ExfiltrationSeverity, tainted_agent |-> FirstSeverity("taint_block"),
     mcp_drift |-> FirstSeverity("mcp_drift"), runaway_agent |-> SpendSeverity,
     shared_credential |-> SharedSeverity]

CountingDetectors ==
    {"data_exfiltration", "tainted_agent", "mcp_drift", "runaway_agent", "shared_credential"}

LEMMA SeverityTypes ==
    ASSUME FeedInv PROVE \A d \in CountingDetectors : SeverityTold[d] \in {0, 2, 3, 4}
<1>1. ExfiltrationSeverity \in {0, 3, 4}
  BY DEF ExfiltrationSeverity, High
<1>2. ASSUME NEW type PROVE FirstSeverity(type) \in {0, 3, 4}
  BY DEF FirstSeverity, High
<1>3. SharedSeverity \in {0, 3}
  BY DEF SharedSeverity, High
<1>4. SpendSeverity \in {0, 2, 3, 4}
  <2>1. PICK n, c : n = Recent(Spend, RecentWindow) /\ c = InContext(Corroborating)
    OBVIOUS
  <2>2. n \in Nat /\ c \in {2, 3, 4}
    BY <2>1, RecentIs DEF InContext, Critical, High, Medium
  <2>3. RunawaySeverity(n, c) \in {2, 3, 4}
    BY <2>2, SpentSeverities
  <2> QED BY <2>1, <2>3 DEF SpendSeverity
<1> QED BY <1>1, <1>2, <1>3, <1>4 DEF SeverityTold, CountingDetectors

LEMMA SeverityOfIs ==
    ASSUME FeedInv, NEW d \in CountingDetectors PROVE SeverityOf(d) = SeverityTold[d]
<1>1. /\ DataExfiltration = Says("data_exfiltration", SeverityTold["data_exfiltration"])
      /\ TaintedAgent = Says("tainted_agent", SeverityTold["tainted_agent"])
      /\ MCPDrift = Says("mcp_drift", SeverityTold["mcp_drift"])
      /\ RunawayAgent = Says("runaway_agent", SeverityTold["runaway_agent"])
      /\ SharedCredential = Says("shared_credential", SeverityTold["shared_credential"])
  BY DetectorsSay, SharedCredentialIs DEF SeverityTold
<1>2. PICK S : S = SeverityTold
  OBVIOUS
<1>3. \A n, s : \A a \in Says(n, s) : a.detector = n /\ a.severity = s
  BY DEF Says, AlertOf
<1>4. Counting = UNION {Says(n, S[n]) : n \in CountingDetectors}
  BY <1>1, <1>2 DEF Counting, CountingDetectors
<1>5. {a \in Counting : a.detector = d} = Says(d, S[d])
  BY <1>3, <1>4
<1>6. S[d] \in {0, 2, 3, 4}
  BY <1>2, SeverityTypes
<1>7. {0} \cup {a.severity : a \in Says(d, S[d])} = {0, S[d]}
  <2>1. CASE S[d] = 0
    <3>1. Says(d, S[d]) = {}
      BY <2>1 DEF Says
    <3> QED BY <2>1, <3>1
  <2>2. CASE S[d] # 0
    <3>1. Says(d, S[d]) = {AlertOf(d, S[d], now)}
      BY <2>2 DEF Says
    <3>2. AlertOf(d, S[d], now).severity = S[d]
      BY DEF AlertOf
    <3> QED BY <3>1, <3>2
  <2> QED BY <2>1, <2>2
<1>8. SeverityOf(d) = Max({0, S[d]})
  BY <1>5, <1>7, Zenon DEF SeverityOf
<1>9. Max({0, S[d]}) = S[d]
  <2>1. PICK v \in Nat : v = S[d]
    BY <1>6
  <2>2. PICK x : x = Max({0, v})
    OBVIOUS
  <2>3. v \in {0, v} /\ \A y \in {0, v} : v >= y
    BY <2>1
  <2>4. x \in {0, v} /\ \A y \in {0, v} : x >= y
    BY <2>2, <2>3 DEF Max
  <2> QED BY <2>1, <2>2, <2>4
<1> QED BY <1>2, <1>8, <1>9

Graded(agent, n, least, repeat, power) ==
    IF ~agent \/ n < least THEN 0 ELSE IF n >= repeat \/ power THEN High + 1 ELSE High

Spent(agent, n, k) == IF ~agent \/ n = 0 THEN 0 ELSE RunawaySeverity(n, InContext(k))

LEMMA GradedGrows ==
    ASSUME NEW agent \in BOOLEAN, NEW n \in Nat, NEW m \in Nat, n <= m,
           NEW least \in Nat, NEW repeat \in Nat, NEW p \in BOOLEAN, NEW q \in BOOLEAN, p => q
    PROVE  Graded(agent, n, least, repeat, p) <= Graded(agent, m, least, repeat, q)
  BY DEF Graded, High

LEMMA SpentGrows ==
    ASSUME NEW agent \in BOOLEAN, NEW n \in Nat, NEW m \in Nat, n <= m,
           NEW k \in Nat, NEW j \in Nat, k <= j
    PROVE  Spent(agent, n, k) <= Spent(agent, m, j)
<1>1. PICK c, d : c = InContext(k) /\ d = InContext(j)
  OBVIOUS
<1>2. c \in {2, 3, 4} /\ d \in {2, 3, 4} /\ c <= d
  BY <1>1 DEF InContext, Critical, High, Medium
<1>3. RunawaySeverity(n, c) <= RunawaySeverity(m, d) /\ RunawaySeverity(m, d) \in {2, 3, 4}
  BY <1>2, ThresholdAssumption DEF RunawaySeverity, Critical, High
<1> QED BY <1>1, <1>3 DEF Spent

(* What the severities depend on. *)
LEMMA SeveritiesAre ==
    ASSUME FeedInv
    PROVE  /\ ExfiltrationSeverity = Graded(feed.whose = "agent", Recent({"dlp_block"}, DLPWindow),
                                            DLPThreshold, 2 * DLPThreshold, PowerOver)
           /\ \A type : FirstSeverity(type) = Graded(feed.whose = "agent", Recent({type}, RecentWindow),
                                                     1, RepeatThreshold, PowerOver)
           /\ SpendSeverity = Spent(feed.whose = "agent", Recent(Spend, RecentWindow), Corroborating)
<1>1. PICK a \in BOOLEAN, p \in BOOLEAN : a = (feed.whose = "agent") /\ p = PowerOver
  <2>1. (feed.whose = "agent") \in BOOLEAN /\ PowerOver \in BOOLEAN
    BY DEF PowerOver
  <2> QED BY <2>1, Zenon
<1>2. ASSUME NEW type PROVE Recent({type}, RecentWindow) = 0 <=> Recent({type}, RecentWindow) < 1
  <2>1. PICK n \in Nat : n = Recent({type}, RecentWindow)
    BY RecentIs
  <2> QED BY <2>1
<1> QED BY <1>1, <1>2 DEF ExfiltrationSeverity, FirstSeverity, SpendSeverity, Graded, Spent

LEMMA CorroboratingGrows ==
    ASSUME facts \subseteq facts', attested' = attested
    PROVE  Corroborating <= Corroborating'
<1> DEFINE Words == {"privilege", "delegated", "unattested", "reach"}
           Told(w, f) == CASE w = "privilege"  -> f \cap {"privileged", "admin"} # {}
                           [] w = "unattested" -> ~attested
                           [] OTHER            -> w \in f
<1>1. PICK W, V : W = {w \in Words : Told(w, facts)} /\ V = {w \in Words : Told(w, facts')}
  OBVIOUS
<1>2. \A w \in Words : Told(w, facts) => Told(w, facts')
  OBVIOUS
<1>3. Corroborating = Cardinality(W)
  BY <1>1 DEF Corroborating
<1>4. Corroborating' = Cardinality(V)
  BY <1>1 DEF Corroborating
<1>5. W \in SUBSET V /\ V \in SUBSET Words
  BY <1>1, <1>2
<1>6. IsFiniteSet(V)
  BY <1>5, WordsAreFinite, FS_Subset
<1>7. Cardinality(W) <= Cardinality(V)
  BY <1>5, <1>6, FS_Subset
<1> QED BY <1>3, <1>4, <1>7

LEMMA OriginsCount == FeedInv => \A o \in Origins : IsFiniteSet(o) /\ Cardinality(o) \in Nat
  BY OriginsFinite

LEMMA SharedGrows ==
    ASSUME FeedInv, FeedInv', NEW e \in feed.events, Record(e)
    PROVE  SharedSeverity <= SharedSeverity'
<1>1. PICK k \in 0..Len(events) : RecordedAt(e, k)
  BY RecordIs
<1>2. PICK L, t : L = Len(events) /\ t = events'
  OBVIOUS
<1>3. /\ L \in Nat /\ DOMAIN events = 1..L /\ DOMAIN t = 1..(L + 1) /\ k \in 0..L
      /\ \A i \in 1..k : t[i] = events[i]
      /\ \A i \in (k + 2)..(L + 1) : t[i] = events[i - 1]
  BY <1>1, <1>2, FeedIs DEF RecordedAt, Inserted
<1>4. ASSUME NEW i \in 1..L PROVE \E j \in 1..(L + 1) : t[j] = events[i]
  <2>1. CASE i <= k
    <3>1. i \in 1..(L + 1) /\ t[i] = events[i]
      BY <1>3, <2>1
    <3> QED BY <3>1
  <2>2. CASE ~(i <= k)
    <3>1. i + 1 \in (k + 2)..(L + 1) /\ (i + 1) - 1 = i /\ i + 1 \in 1..(L + 1)
      BY <1>3, <2>2
    <3>2. t[i + 1] = events[(i + 1) - 1]
      BY <1>3, <3>1
    <3> QED BY <3>1, <3>2
  <2> QED BY <2>1, <2>2
<1>5. PICK U : U = {i \in DOMAIN t : t[i].outcome \in {"SUCCESS", ""}}
  OBVIOUS
<1>6. ASSUME NEW i \in Used PROVE \E j \in U : t[j] = events[i]
  <2>1. i \in 1..L /\ events[i].outcome \in {"SUCCESS", ""}
    BY <1>3 DEF Used
  <2>2. PICK j \in 1..(L + 1) : t[j] = events[i]
    BY <1>4, <2>1
  <2> QED BY <1>3, <1>5, <2>1, <2>2
<1>7. U = Used'
  BY <1>2, <1>5 DEF Used
<1>8. PICK now_ : now_ = Origins'
  OBVIOUS
<1>9. now_ = {{t[i].ip : i \in U} \ {0}, {t[i].place : i \in U} \ {Unknown}, {t[i].device : i \in U} \ {0}}
  BY <1>2, <1>7, <1>8 DEF Origins
<1>10. ASSUME NEW o \in Origins PROVE \E p \in now_ : o \subseteq p
  <2>1. /\ {events[i].ip : i \in Used} \ {0} \subseteq {t[i].ip : i \in U} \ {0}
        /\ {events[i].place : i \in Used} \ {Unknown} \subseteq {t[i].place : i \in U} \ {Unknown}
        /\ {events[i].device : i \in Used} \ {0} \subseteq {t[i].device : i \in U} \ {0}
    BY <1>6
  <2>2. \/ o = {events[i].ip : i \in Used} \ {0}
        \/ o = {events[i].place : i \in Used} \ {Unknown}
        \/ o = {events[i].device : i \in Used} \ {0}
    BY DEF Origins
  <2> QED BY <1>9, <2>1, <2>2
<1>11. \A p \in now_ : IsFiniteSet(p) /\ Cardinality(p) \in Nat
  <2>1. FeedInv' => (\A o \in Origins : IsFiniteSet(o) /\ Cardinality(o) \in Nat)'
    BY OriginsCount, PTL
  <2> QED BY <1>8, <2>1
<1>12. ASSUME \E o \in Origins : Cardinality(o) > MaxOrigins
       PROVE  \E p \in now_ : Cardinality(p) > MaxOrigins
  <2>1. PICK o \in Origins : Cardinality(o) > MaxOrigins
    BY <1>12
  <2>2. PICK p \in now_ : o \subseteq p
    BY <1>10
  <2>3. Cardinality(o) <= Cardinality(p)
    BY <1>11, <2>2, FS_Subset
  <2>4. Cardinality(o) \in Nat /\ Cardinality(p) \in Nat /\ MaxOrigins \in Nat
    BY <1>11, OriginsFinite, ThresholdAssumption
  <2> QED BY <2>1, <2>3, <2>4
<1>13. feed' = feed
  BY DEF Record
<1>14. SharedSeverity' = IF feed.whose = "agent" /\ \E p \in now_ : Cardinality(p) > MaxOrigins
                         THEN High ELSE 0
  BY <1>8, <1>13 DEF SharedSeverity
<1> QED BY <1>12, <1>14 DEF SharedSeverity, High

(* The severities before and after a step, by what decides them.           *)
Decided(a, p, exfiltration, taint, drift, spend, n1, n2, n3, n4, k) ==
    /\ exfiltration = Graded(a, n1, DLPThreshold, 2 * DLPThreshold, p)
    /\ taint = Graded(a, n2, 1, RepeatThreshold, p)
    /\ drift = Graded(a, n3, 1, RepeatThreshold, p)
    /\ spend = Spent(a, n4, k)
    /\ n1 \in Nat /\ n2 \in Nat /\ n3 \in Nat /\ n4 \in Nat /\ k \in Nat

DecidedNow(a, p) ==
    Decided(a, p, ExfiltrationSeverity, FirstSeverity("taint_block"), FirstSeverity("mcp_drift"),
            SpendSeverity, Recent({"dlp_block"}, DLPWindow), Recent({"taint_block"}, RecentWindow),
            Recent({"mcp_drift"}, RecentWindow), Recent(Spend, RecentWindow), Corroborating)

DecidedBy == \A a, p : a = (feed.whose = "agent") /\ p = PowerOver => DecidedNow(a, p)

LEMMA DecidedIs == FeedInv => DecidedBy
<1>1. SUFFICES ASSUME FeedInv, NEW a, NEW p, a = (feed.whose = "agent"), p = PowerOver
               PROVE  DecidedNow(a, p)
  BY DEF DecidedBy
<1>2. /\ ExfiltrationSeverity = Graded(a, Recent({"dlp_block"}, DLPWindow), DLPThreshold, 2 * DLPThreshold, p)
      /\ FirstSeverity("taint_block") = Graded(a, Recent({"taint_block"}, RecentWindow), 1, RepeatThreshold, p)
      /\ FirstSeverity("mcp_drift") = Graded(a, Recent({"mcp_drift"}, RecentWindow), 1, RepeatThreshold, p)
      /\ SpendSeverity = Spent(a, Recent(Spend, RecentWindow), Corroborating)
  BY <1>1, SeveritiesAre
<1>3. \A types, window : Recent(types, window) \in Nat
  BY <1>1, RecentIs
<1> QED BY <1>2, <1>3, CorroboratingIs DEF DecidedNow, Decided

(* From one state to a worse one. *)
Worse ==
    /\ feed' = feed
    /\ \A types : \A window \in Nat : Recent(types, window)' >= Recent(types, window)
    /\ PowerOver => PowerOver'
    /\ Corroborating <= Corroborating'
    /\ SharedSeverity <= SharedSeverity'

(* From one to a later one that is the same but for the time. *)
Fades ==
    /\ feed' = feed
    /\ \A types : \A window \in Nat : Recent(types, window)' <= Recent(types, window)
    /\ PowerOver' = PowerOver /\ Corroborating' = Corroborating /\ SharedSeverity' = SharedSeverity

LEMMA DecidedTwice ==
    ASSUME FeedInv, FeedInv', feed' = feed
    PROVE  \E a \in BOOLEAN, p \in BOOLEAN, q \in BOOLEAN :
             p = PowerOver /\ q = PowerOver' /\ DecidedNow(a, p) /\ (DecidedNow(a, q))'
<1>1. PICK a \in BOOLEAN, p \in BOOLEAN, q \in BOOLEAN :
        a = (feed.whose = "agent") /\ p = PowerOver /\ q = PowerOver'
  <2>1. (feed.whose = "agent") \in BOOLEAN /\ PowerOver \in BOOLEAN /\ PowerOver' \in BOOLEAN
    BY DEF PowerOver
  <2> QED BY <2>1, Zenon
<1>2. DecidedNow(a, p)
  BY <1>1, DecidedIs DEF DecidedBy
<1>3. (DecidedNow(a, q))'
  <2>1. FeedInv' => DecidedBy'
    BY DecidedIs, PTL
  <2>2. (feed.whose = "agent")' = a
    BY <1>1
  <2> QED BY <1>1, <2>1, <2>2 DEF DecidedBy
<1> QED BY <1>1, <1>2, <1>3

Recents(w, x, y, z) ==
    /\ w = Recent({"dlp_block"}, DLPWindow) /\ x = Recent({"taint_block"}, RecentWindow)
    /\ y = Recent({"mcp_drift"}, RecentWindow) /\ z = Recent(Spend, RecentWindow)

(* The severities, and what they come from, as constants. *)
LEMMA Spelled ==
    ASSUME FeedInv, FeedInv', feed' = feed
    PROVE  \E a \in BOOLEAN, p \in BOOLEAN, q \in BOOLEAN :
             /\ p = PowerOver /\ q = PowerOver'
             /\ \E n1, n2, n3, n4, k, s1, s2, s3, s4 :
                  /\ Recents(n1, n2, n3, n4) /\ k = Corroborating
                  /\ s1 = ExfiltrationSeverity /\ s2 = FirstSeverity("taint_block")
                  /\ s3 = FirstSeverity("mcp_drift") /\ s4 = SpendSeverity
                  /\ Decided(a, p, s1, s2, s3, s4, n1, n2, n3, n4, k)
             /\ \E m1, m2, m3, m4, j, t1, t2, t3, t4 :
                  /\ (Recents(m1, m2, m3, m4))' /\ j = Corroborating'
                  /\ t1 = ExfiltrationSeverity' /\ t2 = FirstSeverity("taint_block")'
                  /\ t3 = FirstSeverity("mcp_drift")' /\ t4 = SpendSeverity'
                  /\ Decided(a, q, t1, t2, t3, t4, m1, m2, m3, m4, j)
<1>1. PICK a \in BOOLEAN, p \in BOOLEAN, q \in BOOLEAN :
        p = PowerOver /\ q = PowerOver' /\ DecidedNow(a, p) /\ (DecidedNow(a, q))'
  BY DecidedTwice
<1>2. \E n1, n2, n3, n4, k, s1, s2, s3, s4 :
                  /\ Recents(n1, n2, n3, n4) /\ k = Corroborating
                  /\ s1 = ExfiltrationSeverity /\ s2 = FirstSeverity("taint_block")
                  /\ s3 = FirstSeverity("mcp_drift") /\ s4 = SpendSeverity
                  /\ Decided(a, p, s1, s2, s3, s4, n1, n2, n3, n4, k)
  BY <1>1, Zenon DEF DecidedNow, Recents
<1>3. \E m1, m2, m3, m4, j, t1, t2, t3, t4 :
                  /\ (Recents(m1, m2, m3, m4))' /\ j = Corroborating'
                  /\ t1 = ExfiltrationSeverity' /\ t2 = FirstSeverity("taint_block")'
                  /\ t3 = FirstSeverity("mcp_drift")' /\ t4 = SpendSeverity'
                  /\ Decided(a, q, t1, t2, t3, t4, m1, m2, m3, m4, j)
  BY <1>1, Zenon DEF DecidedNow, Recents
<1> QED BY <1>1, <1>2, <1>3

LEMMA DecidedGrows ==
    ASSUME NEW a \in BOOLEAN, NEW p \in BOOLEAN, NEW q \in BOOLEAN, p => q,
           NEW n1, NEW n2, NEW n3, NEW n4, NEW k, NEW s1, NEW s2, NEW s3, NEW s4,
           Decided(a, p, s1, s2, s3, s4, n1, n2, n3, n4, k),
           NEW m1, NEW m2, NEW m3, NEW m4, NEW j, NEW t1, NEW t2, NEW t3, NEW t4,
           Decided(a, q, t1, t2, t3, t4, m1, m2, m3, m4, j),
           n1 <= m1, n2 <= m2, n3 <= m3, n4 <= m4, k <= j
    PROVE  s1 <= t1 /\ s2 <= t2 /\ s3 <= t3 /\ s4 <= t4
<1>1. /\ DLPThreshold \in Nat /\ 2 * DLPThreshold \in Nat /\ RepeatThreshold \in Nat /\ 1 \in Nat
      /\ n1 \in Nat /\ n2 \in Nat /\ n3 \in Nat /\ n4 \in Nat /\ k \in Nat
      /\ m1 \in Nat /\ m2 \in Nat /\ m3 \in Nat /\ m4 \in Nat /\ j \in Nat
  BY ThresholdAssumption DEF Decided
<1>2. s1 <= t1
  <2>1. s1 = Graded(a, n1, DLPThreshold, 2 * DLPThreshold, p) /\ t1 = Graded(a, m1, DLPThreshold, 2 * DLPThreshold, q)
    BY DEF Decided
  <2> QED BY <1>1, <2>1, GradedGrows
<1>3. s2 <= t2
  <2>1. s2 = Graded(a, n2, 1, RepeatThreshold, p) /\ t2 = Graded(a, m2, 1, RepeatThreshold, q)
    BY DEF Decided
  <2> QED BY <1>1, <2>1, GradedGrows
<1>4. s3 <= t3
  <2>1. s3 = Graded(a, n3, 1, RepeatThreshold, p) /\ t3 = Graded(a, m3, 1, RepeatThreshold, q)
    BY DEF Decided
  <2> QED BY <1>1, <2>1, GradedGrows
<1>5. s4 <= t4
  <2>1. s4 = Spent(a, n4, k) /\ t4 = Spent(a, m4, j)
    BY DEF Decided
  <2> QED BY <1>1, <2>1, SpentGrows
<1> QED BY <1>2, <1>3, <1>4, <1>5

(* Of two, the severities of the counting detectors.                       *)
Lower(s, t) == \A d \in CountingDetectors : s[d] <= t[d]

LEMMA SeveritiesCompare ==
    ASSUME FeedInv, FeedInv', feed' = feed
    PROVE  /\ Worse => Lower(SeverityTold, SeverityTold')
           /\ Fades => Lower(SeverityTold', SeverityTold)
<1>1. PICK a \in BOOLEAN, p \in BOOLEAN, q \in BOOLEAN :
             /\ p = PowerOver /\ q = PowerOver'
             /\ \E n1, n2, n3, n4, k, s1, s2, s3, s4 :
                  /\ Recents(n1, n2, n3, n4) /\ k = Corroborating
                  /\ s1 = ExfiltrationSeverity /\ s2 = FirstSeverity("taint_block")
                  /\ s3 = FirstSeverity("mcp_drift") /\ s4 = SpendSeverity
                  /\ Decided(a, p, s1, s2, s3, s4, n1, n2, n3, n4, k)
             /\ \E m1, m2, m3, m4, j, t1, t2, t3, t4 :
                  /\ (Recents(m1, m2, m3, m4))' /\ j = Corroborating'
                  /\ t1 = ExfiltrationSeverity' /\ t2 = FirstSeverity("taint_block")'
                  /\ t3 = FirstSeverity("mcp_drift")' /\ t4 = SpendSeverity'
                  /\ Decided(a, q, t1, t2, t3, t4, m1, m2, m3, m4, j)
  BY Spelled
<1>2. PICK n1, n2, n3, n4, k, s1, s2, s3, s4 :
                  /\ Recents(n1, n2, n3, n4) /\ k = Corroborating
                  /\ s1 = ExfiltrationSeverity /\ s2 = FirstSeverity("taint_block")
                  /\ s3 = FirstSeverity("mcp_drift") /\ s4 = SpendSeverity
                  /\ Decided(a, p, s1, s2, s3, s4, n1, n2, n3, n4, k)
  BY <1>1
<1>3. PICK m1, m2, m3, m4, j, t1, t2, t3, t4 :
                  /\ (Recents(m1, m2, m3, m4))' /\ j = Corroborating'
                  /\ t1 = ExfiltrationSeverity' /\ t2 = FirstSeverity("taint_block")'
                  /\ t3 = FirstSeverity("mcp_drift")' /\ t4 = SpendSeverity'
                  /\ Decided(a, q, t1, t2, t3, t4, m1, m2, m3, m4, j)
  BY <1>1
<1>4. /\ n1 \in Nat /\ n2 \in Nat /\ n3 \in Nat /\ n4 \in Nat
      /\ m1 \in Nat /\ m2 \in Nat /\ m3 \in Nat /\ m4 \in Nat
      /\ DLPWindow \in Nat /\ RecentWindow \in Nat
  BY <1>2, <1>3, ThresholdAssumption DEF Decided
<1>5. ASSUME Worse PROVE Lower(SeverityTold, SeverityTold')
  <2>1. m1 >= n1 /\ m2 >= n2 /\ m3 >= n3 /\ m4 >= n4 /\ k <= j /\ (p => q)
    BY <1>1, <1>2, <1>3, <1>4, <1>5, Zenon DEF Worse, Recents
  <2>2. s1 <= t1 /\ s2 <= t2 /\ s3 <= t3 /\ s4 <= t4
    <3>1. n1 <= m1 /\ n2 <= m2 /\ n3 <= m3 /\ n4 <= m4
      BY <1>4, <2>1
    <3> QED BY <1>2, <1>3, <2>1, <3>1, DecidedGrows
  <2>3. SharedSeverity <= SharedSeverity'
    BY <1>5 DEF Worse
  <2> QED BY <1>2, <1>3, <2>2, <2>3 DEF Lower, SeverityTold, CountingDetectors
<1>6. ASSUME Fades PROVE Lower(SeverityTold', SeverityTold)
  <2>1. m1 <= n1 /\ m2 <= n2 /\ m3 <= n3 /\ m4 <= n4 /\ j = k /\ p = q
    BY <1>1, <1>2, <1>3, <1>4, <1>6, Zenon DEF Fades, Recents
  <2>2. j <= k
    <3>1. j \in Nat
      BY <1>3 DEF Decided
    <3> QED BY <2>1, <3>1
  <2>3. t1 <= s1 /\ t2 <= s2 /\ t3 <= s3 /\ t4 <= s4
    BY <1>2, <1>3, <2>1, <2>2, DecidedGrows
  <2>4. SharedSeverity' <= SharedSeverity
    <3>1. SharedSeverity' = SharedSeverity /\ SharedSeverity \in {0, 3}
      BY <1>6 DEF Fades, SharedSeverity, High
    <3> QED BY <3>1
  <2> QED BY <1>2, <1>3, <2>3, <2>4 DEF Lower, SeverityTold, CountingDetectors
<1> QED BY <1>5, <1>6

LEMMA RecordIsWorse ==
    ASSUME FeedInv, FeedInv', NEW e \in feed.events, Record(e) PROVE Worse
<1>1. feed' = feed /\ facts' = facts /\ attested' = attested
  BY DEF Record
<1>2. \A types : \A window \in Nat : Recent(types, window)' >= Recent(types, window)
  BY RecentGrows
<1>3. PowerOver => PowerOver'
  BY <1>1 DEF PowerOver
<1>4. Corroborating <= Corroborating'
  BY <1>1, CorroboratingGrows
<1> QED BY <1>1, <1>2, <1>3, <1>4, SharedGrows DEF Worse

LEMMA LearnIsWorse ==
    ASSUME FeedInv, NEW f \in feed.facts, Learn(f) PROVE Worse
<1>1. feed' = feed /\ facts' = facts \cup {f} /\ attested' = attested /\ events' = events /\ now' = now
  BY DEF Learn
<1>2. ASSUME NEW types, NEW window PROVE Recent(types, window)' >= Recent(types, window)
  <2>1. Recent(types, window)' = Recent(types, window)
    BY <1>1 DEF Recent
  <2>2. Recent(types, window) \in Nat
    BY RecentIs
  <2> QED BY <2>1, <2>2
<1>3. PowerOver => PowerOver'
  BY <1>1 DEF PowerOver
<1>4. Corroborating <= Corroborating'
  BY <1>1, CorroboratingGrows
<1>5. SharedSeverity <= SharedSeverity'
  <2>1. SharedSeverity' = SharedSeverity
    BY <1>1 DEF SharedSeverity, Origins, Used
  <2>2. SharedSeverity \in {0, 3}
    BY DEF SharedSeverity, High
  <2> QED BY <2>1, <2>2
<1> QED BY <1>1, <1>2, <1>3, <1>4, <1>5 DEF Worse

LEMMA TickFades ==
    ASSUME FeedInv, Tick PROVE Fades
<1>1. feed' = feed /\ facts' = facts /\ attested' = attested /\ events' = events
  BY DEF Tick
<1>2. \A types : \A window \in Nat : Recent(types, window)' <= Recent(types, window)
  BY RecentFades
<1>3. PowerOver' = PowerOver /\ Corroborating' = Corroborating
  BY <1>1 DEF PowerOver, Corroborating
<1>4. SharedSeverity' = SharedSeverity
  BY <1>1 DEF SharedSeverity, Origins, Used
<1> QED BY <1>1, <1>2, <1>3, <1>4 DEF Fades

SeveritiesTold == \A d \in CountingDetectors : SeverityOf(d) = SeverityTold[d]

LEMMA Told == FeedInv => SeveritiesTold
  BY SeverityOfIs DEF SeveritiesTold

(* A later event withdraws no alert on logins or challenges, more evidence *)
(* lowers no severity, and time alone raises none.                         *)
THEOREM NothingIsTakenBack == FeedSpec => NoHindsight
<1>1. ASSUME FeedInv, FeedInv', NEW e \in feed.events, Record(e),
             \A x \in ToSet(events) : x.time < e.time,
             NEW d \in {1, 2, 3, 4}
      PROVE  LET said == <<MFAFatigue, ImpossibleTravel, NewDevice, BehaviorAnomaly>>
             IN  said[d] \subseteq said'[d]
  <2>1. Later(e)
    BY <1>1, RecordedLater
  <2>2. /\ MFAFatigue \subseteq MFAFatigue' /\ ImpossibleTravel \subseteq ImpossibleTravel'
        /\ NewDevice \subseteq NewDevice' /\ BehaviorAnomaly \subseteq BehaviorAnomaly'
    BY <1>1, <2>1, FatigueStands, TravelStands, NewDeviceStands, AnomalyStands
  <2> QED BY <2>2
<1>2. ASSUME FeedInv, FeedInv',
             NEW d \in {"data_exfiltration", "tainted_agent", "mcp_drift", "runaway_agent",
                        "shared_credential"}
      PROVE  /\ (\E e \in feed.events : Record(e)) \/ (\E f \in feed.facts : Learn(f))
                  => SeverityOf(d)' >= SeverityOf(d)
             /\ Tick => SeverityOf(d)' <= SeverityOf(d)
  <2>1. d \in CountingDetectors
    BY DEF CountingDetectors
  <2>2. SeverityOf(d) = SeverityTold[d]
    BY <1>2, <2>1, Told DEF SeveritiesTold
  <2>3. SeverityOf(d)' = SeverityTold'[d]
    <3>1. FeedInv' => SeveritiesTold'
      BY Told, PTL
    <3> QED BY <1>2, <2>1, <3>1 DEF SeveritiesTold
  <2>4. Worse => SeverityTold[d] <= SeverityTold'[d]
    BY <1>2, <2>1, SeveritiesCompare DEF Worse, Lower
  <2>5. Fades => SeverityTold'[d] <= SeverityTold[d]
    BY <1>2, <2>1, SeveritiesCompare DEF Fades, Lower
  <2>6. (\E e \in feed.events : Record(e)) \/ (\E f \in feed.facts : Learn(f)) => Worse
    BY <1>2, RecordIsWorse, LearnIsWorse
  <2>7. Tick => Fades
    BY <1>2, TickFades
  <2>8. SeverityTold[d] <= SeverityTold'[d] => SeverityTold'[d] >= SeverityTold[d]
    OBVIOUS
  <2> QED BY <2>2, <2>3, <2>4, <2>5, <2>6, <2>7, <2>8
<1>3. FeedInv /\ FeedInv'
        => [/\ (\E e \in feed.events : Record(e) /\ \A x \in ToSet(events) : x.time < e.time)
               => \A d \in {1, 2, 3, 4} :
                    LET said == <<MFAFatigue, ImpossibleTravel, NewDevice, BehaviorAnomaly>>
                    IN  said[d] \subseteq said'[d]
            /\ \A d \in {"data_exfiltration", "tainted_agent", "mcp_drift", "runaway_agent",
                       "shared_credential"} :
                 /\ (\E e \in feed.events : Record(e)) \/ (\E f \in feed.facts : Learn(f))
                        => SeverityOf(d)' >= SeverityOf(d)
                 /\ Tick => SeverityOf(d)' <= SeverityOf(d)]_feedVars
  BY <1>1, <1>2
<1> QED BY <1>3, FeedInvHolds, PTL DEF NoHindsight

-----------------------------------------------------------------------------
(* What a load of the bus has counted and kept of the lines so far. *)

(* A bus and what the policy says of its lines: they do not change.        *)
IsScript(t) ==
    /\ t.scanned \subseteq Files \X (1..MaxLines) /\ IsFiniteSet(t.scanned)
    /\ t.refused \subseteq t.scanned /\ t.carried \subseteq t.scanned
    /\ t.undeclared \subseteq t.carried /\ t.refused \cap t.carried = {}
    /\ \A p \in t.scanned : t.line[p] \in Line

Script ==
    [line |-> [p \in ScannedLines |-> LineAt(p)], scanned |-> ScannedLines,
     refused |-> RefusedLines, carried |-> CarriedLines, undeclared |-> UndeclaredLines]

LEMMA CountMore ==
    ASSUME NEW S, IsFiniteSet(S), NEW p, p \notin S
    PROVE  /\ IsFiniteSet(S \cup {p}) /\ Cardinality(S) \in Nat
           /\ Cardinality(S \cup {p}) = Cardinality(S) + 1
  BY FS_AddElement, FS_CardinalityType

LEMMA CountBoth ==
    ASSUME NEW S, NEW T, IsFiniteSet(S), IsFiniteSet(T), S \cap T = {}
    PROVE  /\ IsFiniteSet(S \cup T) /\ Cardinality(S) \in Nat /\ Cardinality(T) \in Nat
           /\ Cardinality(S \cup T) = Cardinality(S) + Cardinality(T)
<1>1. Cardinality(S \cap T) = 0
  BY FS_EmptySet
<1>2. /\ IsFiniteSet(S \cup T)
      /\ Cardinality(S \cup T) = Cardinality(S) + Cardinality(T) - Cardinality(S \cap T)
  BY FS_Union
<1>3. Cardinality(S) \in Nat /\ Cardinality(T) \in Nat
  BY FS_CardinalityType
<1> QED BY <1>1, <1>2, <1>3

(* The lines that a name stands for. *)
OwnLines(t, L, f, c) == {p \in L : p[1] = f /\ t.line[p].source = c}

NamesIn(t, names, L) ==
    /\ Len(names) <= MaxNamed
    /\ \A i, j \in DOMAIN names :
          names[i].file = names[j].file /\ names[i].claimed = names[j].claimed => i = j
    /\ \A i \in DOMAIN names :
          /\ OwnLines(t, L, names[i].file, names[i].claimed) # {}
          /\ names[i].count = Cardinality(OwnLines(t, L, names[i].file, names[i].claimed))
    /\ Len(names) < MaxNamed =>
          \A p \in L : \E i \in DOMAIN names :
              names[i].file = p[1] /\ names[i].claimed = t.line[p].source

Pairs == [file : Files, claimed : Sources, count : Nat]

(* One more line of the file whose names these are.                        *)
LEMMA NamedTells ==
    ASSUME NEW t, IsScript(t), NEW L \in SUBSET t.scanned, NEW p \in t.scanned \ L,
           NEW f, \A q \in L : q[1] = f, p[1] = f, NEW c, c = t.line[p].source,
           NEW names \in Seq(Pairs), NamesIn(t, names, L)
    PROVE  /\ Named(names, f, c) \in Seq(Pairs)
           /\ NamesIn(t, Named(names, f, c), L \cup {p})
<1> DEFINE K == L \cup {p}
           n == Len(names)
<1>1. /\ IsFiniteSet(L) /\ f \in Files /\ c \in Sources /\ MaxNamed \in Nat \ {0}
      /\ n \in Nat /\ DOMAIN names = 1..n /\ \A i \in 1..n : names[i] \in Pairs
  BY LinesAssumption, FS_Subset DEF IsScript, Line
<1>2. ASSUME NEW i \in 1..n PROVE names[i].file = f
  <2>1. OwnLines(t, L, names[i].file, names[i].claimed) # {}
    BY <1>1 DEF NamesIn
  <2>2. PICK q : q \in OwnLines(t, L, names[i].file, names[i].claimed)
    BY <2>1
  <2>3. q \in L /\ q[1] = names[i].file
    BY <2>2 DEF OwnLines
  <2> QED BY <2>3
<1>3. /\ OwnLines(t, K, f, c) = OwnLines(t, L, f, c) \cup {p}
      /\ OwnLines(t, L, f, c) \in SUBSET L
      /\ \A d : d # c => OwnLines(t, K, f, d) = OwnLines(t, L, f, d)
  BY DEF OwnLines
<1>4. /\ Cardinality(OwnLines(t, K, f, c)) = Cardinality(OwnLines(t, L, f, c)) + 1
      /\ Cardinality(OwnLines(t, L, f, c)) \in Nat
  <2>1. IsFiniteSet(OwnLines(t, L, f, c)) /\ p \notin OwnLines(t, L, f, c)
    BY <1>1, <1>3, FS_Subset
  <2>2. /\ Cardinality(OwnLines(t, L, f, c) \cup {p}) = Cardinality(OwnLines(t, L, f, c)) + 1
        /\ Cardinality(OwnLines(t, L, f, c)) \in Nat
    BY <2>1, CountMore
  <2> QED BY <1>3, <2>2
<1>5. CASE \E i \in DOMAIN names : names[i].claimed = c
  <2>1. PICK k \in 1..n : names[k].claimed = c
    BY <1>1, <1>5
  <2>2. PICK m : m = [names[k] EXCEPT !.count = @ + 1]
    OBVIOUS
  <2>3. /\ m \in Pairs /\ m.file = f /\ m.claimed = c
        /\ m.count = names[k].count + 1
    <3>1. names[k] \in Pairs /\ names[k].file = f /\ names[k].claimed = c
      BY <1>1, <1>2, <2>1
    <3> QED BY <2>2, <3>1 DEF Pairs
  <2>4. \A i \in 1..n : names[i].claimed = c <=> i = k
    BY <1>1, <1>2, <2>1 DEF NamesIn
  <2>5. PICK q : q = Named(names, f, c)
    OBVIOUS
  <2>6. q = [i \in 1..n |-> IF i = k THEN m ELSE names[i]]
    <3>1. q = [i \in DOMAIN names |-> IF names[i].claimed = c
                                      THEN [names[i] EXCEPT !.count = @ + 1] ELSE names[i]]
      BY <1>5, <2>5 DEF Named
    <3> QED BY <1>1, <2>2, <2>4, <3>1
  <2>7. /\ q \in Seq(Pairs) /\ Len(q) = n /\ DOMAIN q = 1..n /\ q[k] = m
        /\ \A i \in 1..n : i # k => q[i] = names[i]
    BY <1>1, <2>3, <2>6
  <2>8. \A i \in 1..n : q[i].file = names[i].file /\ q[i].claimed = names[i].claimed
    BY <1>2, <2>1, <2>3, <2>7
  <2>9. ASSUME NEW i \in 1..n
        PROVE  /\ OwnLines(t, K, q[i].file, q[i].claimed) # {}
               /\ q[i].count = Cardinality(OwnLines(t, K, q[i].file, q[i].claimed))
    <3>1. /\ OwnLines(t, L, f, names[i].claimed) # {}
          /\ names[i].count = Cardinality(OwnLines(t, L, f, names[i].claimed))
      BY <1>1, <1>2 DEF NamesIn
    <3>2. CASE i = k
      BY <1>2, <1>3, <1>4, <2>1, <2>3, <2>7, <3>1, <3>2
    <3>3. CASE i # k
      BY <1>2, <1>3, <2>4, <2>7, <3>1, <3>3
    <3> QED BY <3>2, <3>3
  <2>10. ASSUME n < MaxNamed, NEW r \in K
         PROVE  \E i \in 1..n : q[i].file = r[1] /\ q[i].claimed = t.line[r].source
    <3>1. CASE r = p
      BY <1>2, <2>1, <2>8, <3>1
    <3>2. CASE r \in L
      BY <1>1, <2>8, <2>10, <3>2 DEF NamesIn
    <3> QED BY <3>1, <3>2
  <2>11. n <= MaxNamed
    BY DEF NamesIn
  <2>12. \A i, j \in 1..n : q[i].file = q[j].file /\ q[i].claimed = q[j].claimed => i = j
    BY <1>1, <2>8 DEF NamesIn
  <2>13. NamesIn(t, q, K)
    BY <2>7, <2>9, <2>10, <2>11, <2>12 DEF NamesIn
  <2> QED BY <2>5, <2>7, <2>13
<1>6. CASE ~(\E i \in DOMAIN names : names[i].claimed = c) /\ n < MaxNamed
  <2>1. PICK m : m = [file |-> f, claimed |-> c, count |-> 1]
    OBVIOUS
  <2>2. PICK q : q = Named(names, f, c)
    OBVIOUS
  <2>3. q = Append(names, m)
    BY <1>6, <2>1, <2>2 DEF Named
  <2>4. m \in Pairs /\ m.file = f /\ m.claimed = c /\ m.count = 1
    BY <1>1, <2>1 DEF Pairs
  <2>5. /\ q \in Seq(Pairs) /\ Len(q) = n + 1 /\ DOMAIN q = 1..(n + 1) /\ q[n + 1] = m
        /\ \A i \in 1..n : q[i] = names[i]
    BY <1>1, <2>3, <2>4
  <2>6. OwnLines(t, L, f, c) = {}
    <3>1. ASSUME NEW r \in L, r[1] = f, t.line[r].source = c PROVE FALSE
      BY <1>1, <1>6, <3>1 DEF NamesIn
    <3> QED BY <3>1 DEF OwnLines
  <2>7. Cardinality(OwnLines(t, K, f, c)) = 1 /\ OwnLines(t, K, f, c) # {}
    <3>1. Cardinality(OwnLines(t, L, f, c)) = 0
      BY <2>6, FS_EmptySet
    <3>2. p \in OwnLines(t, K, f, c)
      BY DEF OwnLines
    <3>3. Cardinality(OwnLines(t, K, f, c)) = 1
      BY <1>4, <3>1
    <3>4. OwnLines(t, K, f, c) # {}
      BY <3>2
    <3> QED BY <3>3, <3>4
  <2>8. \A i \in 1..(n + 1) : i \in 1..n \/ i = n + 1
    BY <1>1
  <2>9. ASSUME NEW i \in 1..(n + 1)
        PROVE  /\ OwnLines(t, K, q[i].file, q[i].claimed) # {}
               /\ q[i].count = Cardinality(OwnLines(t, K, q[i].file, q[i].claimed))
    <3>1. CASE i = n + 1
      BY <2>4, <2>5, <2>7, <3>1
    <3>2. CASE i \in 1..n
      <4>1. /\ OwnLines(t, L, f, names[i].claimed) # {}
            /\ names[i].count = Cardinality(OwnLines(t, L, f, names[i].claimed))
        BY <1>1, <1>2, <3>2 DEF NamesIn
      <4> QED BY <1>1, <1>2, <1>3, <1>6, <2>5, <3>2, <4>1
    <3> QED BY <2>8, <3>1, <3>2
  <2>10. ASSUME NEW r \in K
         PROVE  \E i \in 1..(n + 1) : q[i].file = r[1] /\ q[i].claimed = t.line[r].source
    <3>1. CASE r = p
      <4>1. n + 1 \in 1..(n + 1)
        BY <1>1
      <4> QED BY <2>4, <2>5, <3>1, <4>1
    <3>2. CASE r \in L
      <4>1. PICK i \in 1..n : names[i].file = r[1] /\ names[i].claimed = t.line[r].source
        BY <1>1, <1>6, <3>2 DEF NamesIn
      <4>2. i \in 1..(n + 1)
        BY <1>1
      <4> QED BY <2>5, <4>1, <4>2
    <3> QED BY <3>1, <3>2
  <2>11. ASSUME NEW i \in 1..(n + 1), NEW j \in 1..(n + 1),
                q[i].file = q[j].file, q[i].claimed = q[j].claimed
         PROVE  i = j
    <3>1. \A k \in 1..n : q[k].claimed # c
      BY <1>1, <1>6, <2>5
    <3>2. CASE i = n + 1 \/ j = n + 1
      BY <2>4, <2>5, <2>8, <2>11, <3>1, <3>2
    <3>3. CASE i \in 1..n /\ j \in 1..n
      BY <1>1, <2>5, <2>11, <3>3 DEF NamesIn
    <3> QED BY <2>8, <3>2, <3>3
  <2>12. n + 1 <= MaxNamed
    BY <1>1, <1>6
  <2> QED BY <2>2, <2>5, <2>9, <2>10, <2>11, <2>12, ZenonT(60) DEF NamesIn
<1>7. CASE ~(\E i \in DOMAIN names : names[i].claimed = c) /\ ~(n < MaxNamed)
  <2>1. Named(names, f, c) = names
    BY <1>7 DEF Named
  <2>2. ASSUME NEW i \in 1..n
        PROVE  OwnLines(t, K, names[i].file, names[i].claimed) =
                 OwnLines(t, L, names[i].file, names[i].claimed)
    <3>1. names[i].claimed # c /\ names[i].file = f
      BY <1>1, <1>2, <1>7
    <3> QED BY <1>3, <3>1
  <2>3. /\ n <= MaxNamed /\ ~(n < MaxNamed)
        /\ \A i, j \in 1..n :
              names[i].file = names[j].file /\ names[i].claimed = names[j].claimed => i = j
    BY <1>1, <1>7 DEF NamesIn
  <2>4. \A i \in 1..n :
          /\ OwnLines(t, L, names[i].file, names[i].claimed) # {}
          /\ names[i].count = Cardinality(OwnLines(t, L, names[i].file, names[i].claimed))
    BY <1>1 DEF NamesIn
  <2>5. NamesIn(t, names, K)
    BY <1>1, <2>2, <2>3, <2>4 DEF NamesIn
  <2> QED BY <2>1, <2>5
<1> QED BY <1>5, <1>6, <1>7

(* How many of n different values are not above the i-th: each number once. *)
Low(v, n, i) == {j \in 1..n : v[j] <= v[i]}

LEMMA RanksReach ==
    ASSUME NEW n \in Nat, NEW v, \A i \in 1..n : v[i] \in Nat,
           \A i, j \in 1..n : v[i] = v[j] => i = j
    PROVE  /\ \A i, j \in 1..n : Cardinality(Low(v, n, i)) = Cardinality(Low(v, n, j)) => i = j
           /\ \A k \in 1..n : \E i \in 1..n : Cardinality(Low(v, n, i)) = k
           /\ \A i \in 1..n : Cardinality(Low(v, n, i)) \in 1..n
<1> DEFINE rank == [i \in 1..n |-> Cardinality(Low(v, n, i))]
<1>1. IsFiniteSet(1..n) /\ Cardinality(1..n) = n
  BY FS_Interval
<1>2. ASSUME NEW i \in 1..n
      PROVE  /\ Low(v, n, i) \in SUBSET (1..n) /\ i \in Low(v, n, i)
             /\ IsFiniteSet(Low(v, n, i)) /\ Cardinality(Low(v, n, i)) \in 1..n
  <2>1. Low(v, n, i) \in SUBSET (1..n) /\ i \in Low(v, n, i)
    BY DEF Low
  <2>2. IsFiniteSet(Low(v, n, i)) /\ Cardinality(Low(v, n, i)) <= n
    BY <1>1, <2>1, FS_Subset
  <2>3. Cardinality(Low(v, n, i)) \in Nat /\ Cardinality(Low(v, n, i)) # 0
    BY <2>1, <2>2, FS_CardinalityType, FS_EmptySet
  <2> QED BY <2>1, <2>2, <2>3
<1>3. ASSUME NEW i \in 1..n, NEW j \in 1..n, v[i] < v[j]
      PROVE  Cardinality(Low(v, n, i)) < Cardinality(Low(v, n, j))
  <2>1. Low(v, n, i) \in SUBSET Low(v, n, j)
    BY <1>3 DEF Low
  <2>2. j \in Low(v, n, j) /\ j \notin Low(v, n, i)
    BY <1>3 DEF Low
  <2>3. /\ Cardinality(Low(v, n, i)) <= Cardinality(Low(v, n, j))
        /\ Cardinality(Low(v, n, i)) # Cardinality(Low(v, n, j))
    BY <1>2, <2>1, <2>2, FS_Subset
  <2> QED BY <1>2, <2>3
<1>4. ASSUME NEW i \in 1..n, NEW j \in 1..n, i # j
      PROVE  Cardinality(Low(v, n, i)) # Cardinality(Low(v, n, j))
  <2>1. v[i] < v[j] \/ v[j] < v[i]
    BY <1>4
  <2> QED BY <1>2, <1>3, <2>1
<1>5. rank \in [1..n -> 1..n]
  BY <1>2
<1>6. rank \in Injection(1..n, 1..n)
  <2>1. ASSUME NEW i \in 1..n, NEW j \in 1..n, i # j PROVE rank[i] # rank[j]
    BY <1>4, <2>1
  <2> HIDE DEF rank
  <2>2. IsInjective(rank)
    <3>1. DOMAIN rank = 1..n
      BY <1>5
    <3> QED BY <2>1, <3>1 DEF IsInjective
  <2> QED BY <1>5, <2>2 DEF Injection
<1>7. \A k \in 1..n : \E i \in 1..n : rank[i] = k
  <2> HIDE DEF rank
  <2>1. rank \in Surjection(1..n, 1..n)
    BY <1>1, <1>6, FS_Injection
  <2> QED BY <2>1 DEF Surjection
<1>8. \A k \in 1..n : \E i \in 1..n : Cardinality(Low(v, n, i)) = k
  <2>1. \A i \in 1..n : rank[i] = Cardinality(Low(v, n, i))
    OBVIOUS
  <2> HIDE DEF rank
  <2> QED BY <1>7, <2>1
<1> QED BY <1>2, <1>4, <1>8

(* Sorting loses no name and doubles none.                                 *)
LEMMA SortedTells ==
    ASSUME NEW t, NEW L, NEW names \in Seq(Pairs), NamesIn(t, names, L), NEW f,
           \A i \in DOMAIN names : names[i].file = f
    PROVE  /\ Sorted(names) \in Seq(Pairs) /\ NamesIn(t, Sorted(names), L)
<1> DEFINE n == Len(names)
           v == [i \in 1..n |-> Order[names[i].claimed]]
           Rank(i) == Cardinality({j \in DOMAIN names :
                                     Order[names[j].claimed] <= Order[names[i].claimed]})
           g == [k \in 1..n |-> CHOOSE i \in DOMAIN names : Rank(i) = k]
<1>1. /\ n \in Nat /\ DOMAIN names = 1..n /\ \A i \in 1..n : names[i] \in Pairs
  OBVIOUS
<1>2. /\ \A i \in 1..n : names[i].claimed \in Sources /\ names[i].file = f
      /\ \A i, j \in 1..n : names[i].claimed = names[j].claimed => i = j
  <2>1. \A i \in 1..n : names[i].claimed \in Sources
    BY <1>1 DEF Pairs
  <2>2. \A i, j \in DOMAIN names :
           names[i].file = names[j].file /\ names[i].claimed = names[j].claimed => i = j
    BY DEF NamesIn
  <2> QED BY <1>1, <2>1, <2>2, Zenon
<1>3. /\ \A i \in 1..n : v[i] \in Nat
      /\ \A i, j \in 1..n : v[i] = v[j] => i = j
  BY <1>1, <1>2, OrderAssumption
<1>4. \A i \in 1..n : Rank(i) = Cardinality(Low(v, n, i))
  <2>1. ASSUME NEW i \in 1..n
        PROVE  {j \in DOMAIN names : Order[names[j].claimed] <= Order[names[i].claimed]} = Low(v, n, i)
    BY <1>1 DEF Low
  <2> QED BY <2>1
<1>5. /\ \A i, j \in 1..n : Rank(i) = Rank(j) => i = j
      /\ \A k \in 1..n : \E i \in 1..n : Rank(i) = k
      /\ \A i \in 1..n : Rank(i) \in 1..n
  <2> HIDE DEF Rank, v
  <2>1. /\ \A i, j \in 1..n : Cardinality(Low(v, n, i)) = Cardinality(Low(v, n, j)) => i = j
        /\ \A k \in 1..n : \E i \in 1..n : Cardinality(Low(v, n, i)) = k
        /\ \A i \in 1..n : Cardinality(Low(v, n, i)) \in 1..n
    BY <1>1, <1>3, RanksReach
  <2> QED BY <1>4, <2>1
<1>6. PICK q : q = Sorted(names)
  OBVIOUS
<1>7. q = [k \in 1..n |-> names[g[k]]]
  BY <1>1, <1>6 DEF Sorted
<1> HIDE DEF v
<1>8. \A k \in 1..n : g[k] \in 1..n /\ Rank(g[k]) = k
  <2> HIDE DEF Rank
  <2> QED BY <1>1, <1>5
<1> HIDE DEF g, Rank
<1>9. /\ \A i, j \in 1..n : g[i] = g[j] => i = j
      /\ \A i \in 1..n : \E k \in 1..n : g[k] = i
  <2>1. \A i, j \in 1..n : g[i] = g[j] => i = j
    BY <1>8
  <2>2. ASSUME NEW i \in 1..n PROVE \E k \in 1..n : g[k] = i
    <3>1. Rank(i) \in 1..n /\ Rank(g[Rank(i)]) = Rank(i) /\ g[Rank(i)] \in 1..n
      BY <1>5, <1>8
    <3>2. g[Rank(i)] = i
      BY <1>5, <3>1
    <3> QED BY <3>1, <3>2
  <2> QED BY <2>1, <2>2
<1>10. /\ q \in Seq(Pairs) /\ Len(q) = n /\ DOMAIN q = 1..n
       /\ \A k \in 1..n : q[k] = names[g[k]] /\ g[k] \in 1..n
  BY <1>1, <1>7, <1>8
<1> HIDE DEF n
<1>11. \A k \in 1..n : /\ OwnLines(t, L, q[k].file, q[k].claimed) # {}
                       /\ q[k].count = Cardinality(OwnLines(t, L, q[k].file, q[k].claimed))
  BY <1>1, <1>10 DEF NamesIn
<1>12. ASSUME NEW i \in 1..n, NEW j \in 1..n, q[i].claimed = q[j].claimed PROVE i = j
  <2>1. names[g[i]].claimed = names[g[j]].claimed /\ g[i] \in 1..n /\ g[j] \in 1..n
    BY <1>10, <1>12
  <2>2. g[i] = g[j]
    BY <1>2, <2>1
  <2> QED BY <1>9, <2>2
<1>13. ASSUME n < MaxNamed, NEW p \in L
       PROVE  \E k \in 1..n : q[k].file = p[1] /\ q[k].claimed = t.line[p].source
  <2>1. PICK i \in 1..n : names[i].file = p[1] /\ names[i].claimed = t.line[p].source
    BY <1>1, <1>13 DEF NamesIn, n
  <2>2. PICK k \in 1..n : g[k] = i
    BY <1>9
  <2> QED BY <1>10, <2>1, <2>2
<1>14. n <= MaxNamed
  BY DEF NamesIn, n
<1>15. NamesIn(t, q, L)
  BY <1>10, <1>11, <1>12, <1>13, <1>14 DEF NamesIn
<1> QED BY <1>6, <1>10, <1>15

(* No file has lines of both.                                              *)
Apart(K, L) == \A p \in K, q \in L : p[1] # q[1]

(* The names of some lines and then, as far as they fit, of others.        *)
LEMMA BoundedTells ==
    ASSUME NEW t, NEW K, NEW L, NEW a \in Seq(Pairs), NEW b \in Seq(Pairs),
           Apart(K, L), NamesIn(t, a, K), NamesIn(t, b, L)
    PROVE  /\ Bounded(a, b) \in Seq(Pairs) /\ NamesIn(t, Bounded(a, b), K \cup L)
<1>0. PICK m, fits : m = Len(a) /\ fits = Min({Len(b), MaxNamed - Len(a)})
  OBVIOUS
<1>0a. PICK l : l = Len(b)
  OBVIOUS
<1>1. m \in Nat /\ l \in Nat /\ MaxNamed \in Nat /\ m <= MaxNamed
  BY <1>0, <1>0a, LinesAssumption DEF NamesIn
<1>1a. DOMAIN a = 1..m /\ DOMAIN b = 1..l
  BY <1>0, <1>0a
<1>2. fits \in 0..l /\ m + fits <= MaxNamed /\ (fits = l \/ m + fits = MaxNamed)
  <2>1. PICK free \in Nat : free = MaxNamed - m
    BY <1>1
  <2>2. {l, free} \in SUBSET Nat /\ {l, free} # {}
    BY <1>1, <2>1
  <2>3. fits \in {l, free} /\ \A y \in {l, free} : fits <= y
    BY <1>0, <1>0a, <2>1, <2>2, LeastIs
  <2>4. fits \in Nat /\ fits <= l /\ fits <= free /\ (fits = l \/ fits = free)
    BY <1>1, <2>1, <2>3
  <2> QED BY <1>1, <2>1, <2>4
<1>3a. PICK c : c = SubSeq(b, 1, fits)
  OBVIOUS
<1>3. c \in Seq(Pairs) /\ Len(c) = fits /\ \A i \in 1..fits : c[i] = b[i] /\ i \in 1..l
  BY <1>0a, <1>1, <1>2, <1>3a
<1>4. PICK q : q = a \o c
  OBVIOUS
<1>5. /\ q \in Seq(Pairs) /\ Len(q) = m + fits /\ DOMAIN q = 1..(m + fits)
      /\ \A i \in 1..m : q[i] = a[i]
      /\ \A i \in 1..(m + fits) : i \notin 1..m => i - m \in 1..fits /\ q[i] = c[i - m]
      /\ \A i \in 1..fits : q[m + i] = c[i] /\ m + i \in 1..(m + fits)
  <2>1. Len(a) = m /\ Len(c) = fits /\ m \in Nat /\ fits \in Nat
    BY <1>0, <1>1, <1>2, <1>3
  <2>2. q \in Seq(Pairs)
    BY <1>3, <1>4
  <2>3. /\ Len(a \o c) = Len(a) + Len(c)
        /\ \A i \in 1..(Len(a) + Len(c)) : (a \o c)[i] = IF i <= Len(a) THEN a[i] ELSE c[i - Len(a)]
    BY <1>3
  <2>4. /\ \A i \in 1..m : i \in 1..(m + fits) /\ i <= m
        /\ \A i \in 1..(m + fits) : i \notin 1..m => i - m \in 1..fits /\ ~(i <= m)
        /\ \A i \in 1..fits : m + i \in 1..(m + fits) /\ ~(m + i <= m) /\ (m + i) - m = i
    BY <2>1
  <2>5. /\ Len(q) = m + fits
        /\ \A i \in 1..(m + fits) : q[i] = IF i <= m THEN a[i] ELSE c[i - m]
    BY <1>4, <2>1, <2>3, Zenon
  <2> QED BY <2>1, <2>2, <2>4, <2>5
<1>6. \A i \in 1..(m + fits) : i \in 1..m \/ (i \notin 1..m /\ i - m \in 1..fits /\ i - m \in 1..l /\ q[i] = b[i - m])
  BY <1>3, <1>5
<1>7. \A i \in 1..m : /\ OwnLines(t, K, a[i].file, a[i].claimed) # {}
                      /\ a[i].count = Cardinality(OwnLines(t, K, a[i].file, a[i].claimed))
  BY <1>1a DEF NamesIn
<1>8. \A i \in 1..l : /\ OwnLines(t, L, b[i].file, b[i].claimed) # {}
                           /\ b[i].count = Cardinality(OwnLines(t, L, b[i].file, b[i].claimed))
  BY <1>1a DEF NamesIn
<1>9. ASSUME NEW f, NEW d
      PROVE  /\ OwnLines(t, K, f, d) # {} => OwnLines(t, K \cup L, f, d) = OwnLines(t, K, f, d)
             /\ OwnLines(t, L, f, d) # {} => OwnLines(t, K \cup L, f, d) = OwnLines(t, L, f, d)
  BY DEF OwnLines, Apart
<1>10. ASSUME NEW i \in 1..m, NEW j \in 1..l PROVE a[i].file # b[j].file
  <2>1. PICK p : p \in OwnLines(t, K, a[i].file, a[i].claimed)
    BY <1>7
  <2>2. PICK r : r \in OwnLines(t, L, b[j].file, b[j].claimed)
    BY <1>8
  <2> QED BY <2>1, <2>2 DEF OwnLines, Apart
<1>11. ASSUME NEW i \in 1..(m + fits)
       PROVE  /\ OwnLines(t, K \cup L, q[i].file, q[i].claimed) # {}
              /\ q[i].count = Cardinality(OwnLines(t, K \cup L, q[i].file, q[i].claimed))
  <2>1. CASE i \in 1..m
    <3>1. q[i] = a[i]
      BY <1>5, <2>1
    <3>2. OwnLines(t, K, a[i].file, a[i].claimed) # {}
      BY <1>7, <2>1
    <3>3. OwnLines(t, K \cup L, a[i].file, a[i].claimed) = OwnLines(t, K, a[i].file, a[i].claimed)
      BY <1>9, <3>2
    <3> QED BY <1>7, <2>1, <3>1, <3>2, <3>3
  <2>2. CASE i \notin 1..m
    <3>1. i - m \in 1..l /\ q[i] = b[i - m]
      BY <1>6, <2>2
    <3>2. PICK e : e = b[i - m]
      OBVIOUS
    <3>3. /\ OwnLines(t, L, e.file, e.claimed) # {}
          /\ e.count = Cardinality(OwnLines(t, L, e.file, e.claimed))
      BY <1>8, <3>1, <3>2
    <3>4. OwnLines(t, K \cup L, e.file, e.claimed) = OwnLines(t, L, e.file, e.claimed)
      BY <1>9, <3>3
    <3> QED BY <3>1, <3>2, <3>3, <3>4
  <2> QED BY <2>1, <2>2
<1>12. ASSUME NEW i \in 1..(m + fits), NEW j \in 1..(m + fits),
              q[i].file = q[j].file, q[i].claimed = q[j].claimed
       PROVE  i = j
  <2>1. CASE i \in 1..m /\ j \in 1..m
    <3>1. q[i] = a[i] /\ q[j] = a[j]
      BY <1>5, <2>1
    <3> QED BY <1>1a, <1>12, <2>1, <3>1 DEF NamesIn
  <2>2. CASE i \notin 1..m /\ j \notin 1..m
    <3>1. i - m \in 1..l /\ j - m \in 1..l /\ q[i] = b[i - m] /\ q[j] = b[j - m]
      BY <1>6, <2>2
    <3>2. i - m = j - m
      BY <1>1a, <1>12, <3>1 DEF NamesIn
    <3> QED BY <1>1, <1>2, <3>2
  <2>3. CASE i \in 1..m /\ j \notin 1..m
    BY <1>5, <1>6, <1>10, <1>12, <2>3
  <2>4. CASE i \notin 1..m /\ j \in 1..m
    BY <1>5, <1>6, <1>10, <1>12, <2>4
  <2> QED BY <2>1, <2>2, <2>3, <2>4
<1>13. ASSUME m + fits < MaxNamed, NEW p \in K \cup L
       PROVE  \E i \in 1..(m + fits) : q[i].file = p[1] /\ q[i].claimed = t.line[p].source
  <2>1. CASE p \in K
    <3>1. m < MaxNamed
      BY <1>1, <1>2, <1>13
    <3>2. PICK i \in 1..m : a[i].file = p[1] /\ a[i].claimed = t.line[p].source
      BY <1>0, <1>1a, <2>1, <3>1 DEF NamesIn
    <3>3. i \in 1..(m + fits) /\ q[i] = a[i]
      BY <1>1, <1>2, <1>5
    <3> QED BY <3>2, <3>3
  <2>2. CASE p \in L
    <3>1. fits = l /\ l < MaxNamed
      BY <1>1, <1>2, <1>13
    <3>2. PICK i \in 1..l : b[i].file = p[1] /\ b[i].claimed = t.line[p].source
      BY <1>0a, <1>1a, <2>2, <3>1 DEF NamesIn
    <3>3. m + i \in 1..(m + fits) /\ q[m + i] = b[i]
      BY <1>3, <1>5, <3>1
    <3> QED BY <3>2, <3>3
  <2> QED BY <2>1, <2>2
<1>14. m + fits <= MaxNamed
  BY <1>1, <1>2
<1>15. NamesIn(t, q, K \cup L)
  BY <1>5, <1>11, <1>12, <1>13, <1>14 DEF NamesIn
<1>16. Bounded(a, b) = q
  BY <1>0, <1>3a, <1>4 DEF Bounded
<1> QED BY <1>5, <1>15, <1>16

(* Products of parse, field by field. *)
LEMMA ProductIs ==
    ASSUME NEW p, p \in ProductType
    PROVE  /\ p.identities \in Seq(Identity) /\ p.events \in Seq(Event) /\ p.rep \in ReportType
           /\ p.rep.lines \in Nat /\ p.rep.malformed \in Nat /\ p.rep.foreignSource \in Nat
           /\ p.rep.unknownStream \in Nat /\ p.rep.foreign \in Seq(Pairs) /\ p.rep.unknown \in Seq(Pairs)
           /\ p.rep.tally \in [Sources -> [events : Nat, read : Nat]]
  BY DEF ProductType, ReportType, Pairs

(* A report's fields, in any sets.                                         *)
ReportOf(C, T, P) ==
    [lines : Nat, malformed : Nat, chain : C, tally : T, foreignSource : Nat, foreign : P,
     unknownStream : Nat, unknown : P]

Chains == [verified : BOOLEAN, chained : Nat, heads : Nat, unverifiable : Nat,
           breaks : SUBSET (Files \X (1..MaxLines))]
Tallies == [Sources -> [events : Nat, read : Nat]]

LEMMA Skipped ==
    ASSUME parsed \in ProductType, SkipMalformed
    PROVE  /\ parsed' \in ProductType
           /\ parsed'.identities = parsed.identities /\ parsed'.events = parsed.events
           /\ parsed'.rep = [parsed.rep EXCEPT !.lines = @ + 1, !.malformed = @ + 1]
<1>1. parsed' = [parsed EXCEPT !.rep.lines = @ + 1, !.rep.malformed = @ + 1]
  BY DEF SkipMalformed
<1>2. parsed \in [identities : Seq(Identity), events : Seq(Event), rep : ReportType]
  BY DEF ProductType
<1>3. parsed.rep \in ReportType /\ parsed.rep.lines \in Nat /\ parsed.rep.malformed \in Nat
  BY ProductIs
<1>4. parsed' = [parsed EXCEPT !.rep = [parsed.rep EXCEPT !.lines = @ + 1, !.malformed = @ + 1]]
  BY <1>1, <1>2, <1>3 DEF ReportType
<1>5. [parsed.rep EXCEPT !.lines = @ + 1, !.malformed = @ + 1] \in ReportType
  <2>1. PICK C, T, P : C = Chains /\ T = Tallies /\ P = Seq(Pairs)
    OBVIOUS
  <2>2. ReportType = ReportOf(C, T, P)
    BY <2>1 DEF ReportType, ReportOf, Chains, Tallies, Pairs
  <2>0. parsed.rep.lines + 1 \in Nat /\ parsed.rep.malformed + 1 \in Nat
    BY <1>3
  <2>3. PICK x, y : x = parsed.rep.lines + 1 /\ y = parsed.rep.malformed + 1
    OBVIOUS
  <2>4. [parsed.rep EXCEPT !.lines = x, !.malformed = y] \in ReportOf(C, T, P)
    BY <1>3, <2>0, <2>2, <2>3 DEF ReportOf
  <2> QED BY <2>2, <2>3, <2>4
<1> QED BY <1>2, <1>4, <1>5 DEF ProductType

LEMMA RefusedFields ==
    ASSUME parsed \in ProductType, RefuseForeign,
           NEW names \in Seq(Pairs), names = Named(parsed.rep.foreign, file, bus[file][next].source)
    PROVE  /\ parsed' \in ProductType
           /\ parsed'.identities = parsed.identities /\ parsed'.events = parsed.events
           /\ parsed'.rep = [parsed.rep EXCEPT !.lines = @ + 1, !.foreignSource = @ + 1,
                                               !.foreign = names]
<1>1. parsed' = [parsed EXCEPT !.rep.lines = @ + 1, !.rep.foreignSource = @ + 1,
                               !.rep.foreign = Named(@, file, bus[file][next].source)]
  BY DEF RefuseForeign
<1>2. parsed \in [identities : Seq(Identity), events : Seq(Event), rep : ReportType]
  BY DEF ProductType
<1>3. /\ parsed.rep \in ReportType /\ parsed.rep.lines \in Nat /\ parsed.rep.foreignSource \in Nat
  BY ProductIs
<1>4. parsed' = [parsed EXCEPT !.rep = [parsed.rep EXCEPT !.lines = @ + 1, !.foreignSource = @ + 1,
                                                          !.foreign = names]]
  BY <1>1, <1>2, <1>3 DEF ReportType
<1>5. [parsed.rep EXCEPT !.lines = @ + 1, !.foreignSource = @ + 1, !.foreign = names] \in ReportType
  <2>1. PICK C, T, P : C = Chains /\ T = Tallies /\ P = Seq(Pairs)
    OBVIOUS
  <2>2. ReportType = ReportOf(C, T, P)
    BY <2>1 DEF ReportType, ReportOf, Chains, Tallies, Pairs
  <2>0. parsed.rep.lines + 1 \in Nat /\ parsed.rep.foreignSource + 1 \in Nat
    BY <1>3
  <2>3. PICK x, y : x = parsed.rep.lines + 1 /\ y = parsed.rep.foreignSource + 1
    OBVIOUS
  <2>4. names \in P
    BY <2>1
  <2>6. PICK r : r = parsed.rep
    OBVIOUS
  <2>7. r \in ReportOf(C, T, P) /\ x \in Nat /\ y \in Nat
    BY <1>3, <2>0, <2>2, <2>3, <2>6
  <2>5. [r EXCEPT !.lines = x, !.foreignSource = y, !.foreign = names] \in ReportOf(C, T, P)
    BY <2>4, <2>7 DEF ReportOf
  <2> QED BY <2>2, <2>3, <2>5, <2>6
<1> QED BY <1>2, <1>4, <1>5 DEF ProductType

(* One event of s more, registered or not.                                 *)
TallyMore(tally, s, read) ==
    [tally EXCEPT ![s] = [events |-> tally[s].events + 1,
                          read   |-> IF read THEN tally[s].read + 1 ELSE tally[s].read]]

LEMMA TallyMoreTyped ==
    ASSUME NEW tally \in Tallies, NEW s \in Sources, NEW read \in BOOLEAN
    PROVE  /\ TallyMore(tally, s, read) \in Tallies
           /\ \A r \in Sources : r # s => TallyMore(tally, s, read)[r] = tally[r]
           /\ TallyMore(tally, s, read)[s].events = tally[s].events + 1
           /\ TallyMore(tally, s, read)[s].read = IF read THEN tally[s].read + 1 ELSE tally[s].read
<1>1. tally[s].events \in Nat /\ tally[s].read \in Nat
  BY DEF Tallies
<1>2. PICK y : y = [events |-> tally[s].events + 1,
                    read   |-> IF read THEN tally[s].read + 1 ELSE tally[s].read]
  OBVIOUS
<1>3. y \in [events : Nat, read : Nat]
  BY <1>1, <1>2
<1>4. TallyMore(tally, s, read) = [tally EXCEPT ![s] = y]
  BY <1>2 DEF TallyMore
<1>5. PICK q : q = TallyMore(tally, s, read)
  OBVIOUS
<1>6. q \in Tallies /\ q[s] = y /\ \A r \in Sources : r # s => q[r] = tally[r]
  BY <1>3, <1>4, <1>5 DEF Tallies
<1>7. y.events = tally[s].events + 1 /\ y.read = IF read THEN tally[s].read + 1 ELSE tally[s].read
  BY <1>2
<1> QED BY <1>5, <1>6, <1>7

(* What IngestLine assigns to a product, and the same field by field.       *)
Assigned(p, a, b, e, f, s, v, read) ==
    [p EXCEPT !.identities = @ \o a \o b, !.events = Append(@, e), !.rep.lines = @ + 1,
              !.rep.tally[s] = [events |-> @.events + 1,
                                read   |-> IF read THEN @.read + 1 ELSE @.read],
              !.rep.unknownStream = IF v = "undeclared" THEN @ + 1 ELSE @,
              !.rep.unknown = IF v = "undeclared" THEN Named(@, f, s) ELSE @]

Made(p, ids, evs, x, tally, u, names) ==
    [p EXCEPT !.identities = ids, !.events = evs,
              !.rep = [p.rep EXCEPT !.lines = x, !.tally = tally, !.unknownStream = u,
                                    !.unknown = names]]

ProductOf(A, B, C, T, P) == [identities : A, events : B, rep : ReportOf(C, T, P)]

TheFields(p, a, b, e, f, s, v, read, ids, evs, x, tally, u, names) ==
    /\ ids = p.identities \o a \o b /\ evs = Append(p.events, e) /\ x = p.rep.lines + 1
    /\ u = IF v = "undeclared" THEN p.rep.unknownStream + 1 ELSE p.rep.unknownStream
    /\ tally = TallyMore(p.rep.tally, s, read)
    /\ names = IF v = "undeclared" THEN Named(p.rep.unknown, f, s) ELSE p.rep.unknown

LEMMA IngestedFields ==
    ASSUME NEW A, NEW B, NEW C, NEW T, NEW P, NEW p \in ProductOf(A, B, C, T, P),
           NEW a, NEW b, NEW e, NEW f, NEW s, NEW v, NEW read,
           NEW ids, NEW evs, NEW x, NEW tally, NEW u, NEW names,
           TheFields(p, a, b, e, f, s, v, read, ids, evs, x, tally, u, names)
    PROVE  Assigned(p, a, b, e, f, s, v, read) = Made(p, ids, evs, x, tally, u, names)
  BY ZenonT(60) DEF ReportOf, ProductOf, Assigned, Made, TallyMore, TheFields

LEMMA IngestedTyped ==
    ASSUME NEW A, NEW B, NEW C, NEW T, NEW P, NEW p \in ProductOf(A, B, C, T, P),
           NEW ids \in A, NEW evs \in B, NEW x \in Nat, NEW tally \in T, NEW u \in Nat,
           NEW names \in P, NEW q, q = Made(p, ids, evs, x, tally, u, names)
    PROVE  /\ q \in ProductOf(A, B, C, T, P)
           /\ q.identities = ids /\ q.events = evs
           /\ q.rep.lines = x /\ q.rep.tally = tally /\ q.rep.unknownStream = u
           /\ q.rep.unknown = names /\ q.rep.malformed = p.rep.malformed
           /\ q.rep.foreignSource = p.rep.foreignSource /\ q.rep.foreign = p.rep.foreign
  BY DEF ReportOf, ProductOf, Made

LEMMA Ingested ==
    ASSUME parsed \in ProductType, IngestLine, NEW l \in Line, l = bus[file][next],
           NEW v, v = Check(policy, Stem[file], l.source),
           NEW names \in Seq(Pairs),
           names = IF v = "undeclared" THEN Named(parsed.rep.unknown, file, l.source)
                   ELSE parsed.rep.unknown,
           SubjectOf(l) \in Seq(Identity), HumansOf(l) \in Seq(Identity)
    PROVE  /\ parsed' \in ProductType
           /\ parsed'.identities = parsed.identities \o SubjectOf(l) \o HumansOf(l)
           /\ parsed'.events = Append(parsed.events, [agent |-> l.agent, source |-> l.source,
                                                      read |-> l.read])
           /\ parsed'.rep.lines = parsed.rep.lines + 1
           /\ parsed'.rep.tally = TallyMore(parsed.rep.tally, l.source, l.read)
           /\ parsed'.rep.unknownStream = IF v = "undeclared" THEN parsed.rep.unknownStream + 1
                                          ELSE parsed.rep.unknownStream
           /\ parsed'.rep.unknown = names /\ parsed'.rep.malformed = parsed.rep.malformed
           /\ parsed'.rep.foreignSource = parsed.rep.foreignSource
           /\ parsed'.rep.foreign = parsed.rep.foreign
<1>1. parsed' = [parsed EXCEPT
             !.identities = @ \o SubjectOf(l) \o HumansOf(l),
             !.events = Append(@, [agent |-> l.agent, source |-> l.source, read |-> l.read]),
             !.rep.lines = @ + 1,
             !.rep.tally[l.source] = [events |-> @.events + 1,
                                      read   |-> IF l.read THEN @.read + 1 ELSE @.read],
             !.rep.unknownStream = IF v = "undeclared" THEN @ + 1 ELSE @,
             !.rep.unknown = IF v = "undeclared" THEN Named(@, file, l.source) ELSE @]
  BY DEF IngestLine
<1>2. PICK p, q, a, b, e, f, s, read :
        /\ p = parsed /\ q = parsed' /\ a = SubjectOf(l) /\ b = HumansOf(l)
        /\ e = [agent |-> l.agent, source |-> l.source, read |-> l.read]
        /\ f = file /\ s = l.source /\ read = l.read
  OBVIOUS
<1>3. PICK A, B, C, T, P : /\ A = Seq(Identity) /\ B = Seq(Event) /\ C = Chains
                           /\ T = Tallies /\ P = Seq(Pairs)
  OBVIOUS
<1>4. ProductType = ProductOf(A, B, C, T, P)
  BY <1>3 DEF ProductType, ProductOf, ReportType, ReportOf, Chains, Tallies, Pairs
<1>5. PICK ids, evs, x, u, tally :
        /\ ids = p.identities \o a \o b /\ evs = Append(p.events, e) /\ x = p.rep.lines + 1
        /\ u = IF v = "undeclared" THEN p.rep.unknownStream + 1 ELSE p.rep.unknownStream
        /\ tally = TallyMore(p.rep.tally, s, read)
  OBVIOUS
<1>6. q = Made(p, ids, evs, x, tally, u, names)
  <2>1. q = Assigned(p, a, b, e, f, s, v, read)
    <3>1. parsed' = Assigned(parsed, SubjectOf(l), HumansOf(l),
                             [agent |-> l.agent, source |-> l.source, read |-> l.read], file,
                             l.source, v, l.read)
      BY <1>1, Zenon DEF Assigned
    <3> QED BY <1>2, <3>1
  <2>2. p \in ProductOf(A, B, C, T, P)
    BY <1>2, <1>4
  <2>3. names = IF v = "undeclared" THEN Named(p.rep.unknown, f, s) ELSE p.rep.unknown
    BY <1>2
  <2>4. TheFields(p, a, b, e, f, s, v, read, ids, evs, x, tally, u, names)
    BY <1>5, <2>3, Zenon DEF TheFields
  <2>5. Assigned(p, a, b, e, f, s, v, read) = Made(p, ids, evs, x, tally, u, names)
    BY <2>2, <2>4, IngestedFields
  <2> QED BY <2>1, <2>5
<1>7. /\ p.rep.lines \in Nat /\ p.rep.unknownStream \in Nat /\ p.rep.tally \in T
      /\ p.identities \in A /\ p.events \in B /\ s \in Sources /\ read \in BOOLEAN
  BY <1>2, <1>3, ProductIs DEF Line, Tallies
<1>8. x \in Nat /\ u \in Nat /\ tally \in T
  <2>1. x \in Nat /\ u \in Nat
    BY <1>5, <1>7
  <2>2. tally \in T
    <3>1. p.rep.tally \in Tallies
      BY <1>3, <1>7
    <3>2. TallyMore(p.rep.tally, s, read) \in Tallies
      BY <1>7, <3>1, TallyMoreTyped
    <3> QED BY <1>3, <1>5, <3>2
  <2> QED BY <2>1, <2>2
<1>9. ids \in A /\ evs \in B /\ names \in P
  <2>1. e \in Event
    BY <1>2 DEF Event, Line
  <2>2. a \in A /\ b \in A
    BY <1>2, <1>3
  <2>3. p.identities \o a \in A
    BY <1>3, <1>7, <2>2
  <2>4. (p.identities \o a) \o b \in A
    BY <1>3, <2>2, <2>3
  <2>5. Append(p.events, e) \in B
    BY <1>3, <1>7, <2>1
  <2> QED BY <1>3, <1>5, <2>4, <2>5
<1>10. /\ q \in ProductOf(A, B, C, T, P)
       /\ q.identities = ids /\ q.events = evs
       /\ q.rep.lines = x /\ q.rep.tally = tally /\ q.rep.unknownStream = u
       /\ q.rep.unknown = names /\ q.rep.malformed = p.rep.malformed
       /\ q.rep.foreignSource = p.rep.foreignSource /\ q.rep.foreign = p.rep.foreign
  BY <1>2, <1>4, <1>6, <1>8, <1>9, IngestedTyped
<1>11. parsed' \in ProductType
  BY <1>2, <1>4, <1>10
<1>12. /\ q.events = Append(p.events, e) /\ q.rep.tally = TallyMore(p.rep.tally, s, read)
       /\ q.identities = p.identities \o a \o b
       /\ q.rep.lines = p.rep.lines + 1
       /\ q.rep.unknownStream = IF v = "undeclared" THEN p.rep.unknownStream + 1
                                ELSE p.rep.unknownStream
  BY <1>5, <1>10, Zenon
<1>13. /\ parsed'.identities = parsed.identities \o SubjectOf(l) \o HumansOf(l)
       /\ parsed'.events = Append(parsed.events, [agent |-> l.agent, source |-> l.source,
                                                  read |-> l.read])
       /\ parsed'.rep.lines = parsed.rep.lines + 1
       /\ parsed'.rep.tally = TallyMore(parsed.rep.tally, l.source, l.read)
       /\ parsed'.rep.unknownStream = IF v = "undeclared" THEN parsed.rep.unknownStream + 1
                                      ELSE parsed.rep.unknownStream
  BY <1>2, <1>12
<1>14. /\ parsed'.rep.unknown = names /\ parsed'.rep.malformed = parsed.rep.malformed
       /\ parsed'.rep.foreignSource = parsed.rep.foreignSource
       /\ parsed'.rep.foreign = parsed.rep.foreign
  BY <1>2, <1>10
<1> QED BY <1>11, <1>13, <1>14, Zenon

-----------------------------------------------------------------------------
(* The lines that a source claims, of those that are carried.              *)
Of(t, L, s) == {q \in L \cap t.carried : t.line[q].source = s}

Reads(t, own) == {q \in own : t.line[q].read}

TallyIn(t, e, own) ==
    e.events = Cardinality(own) /\ e.read = Cardinality(Reads(t, own))

CountsIn(t, r, n, L) ==
    /\ r.lines = Cardinality(L)
    /\ r.lines = r.malformed + r.foreignSource + n
    /\ r.foreignSource = Cardinality(L \cap t.refused)
    /\ r.unknownStream = Cardinality(L \cap t.undeclared)

TalliesIn(t, tally, L) == \A s \in Sources : TallyIn(t, tally[s], Of(t, L, s))

(* What Accounts says of a report and n events. *)
AccountsIn(t, r, n, L) ==
    /\ CountsIn(t, r, n, L) /\ TalliesIn(t, r.tally, L)
    /\ NamesIn(t, r.foreign, L \cap t.refused)
    /\ NamesIn(t, r.unknown, L \cap t.undeclared)

LEMMA CountIn ==
    ASSUME NEW L, IsFiniteSet(L), NEW q, q \notin L, NEW X
    PROVE  /\ q \in X => Cardinality((L \cup {q}) \cap X) = Cardinality(L \cap X) + 1
           /\ q \in X => (L \cup {q}) \cap X = (L \cap X) \cup {q}
           /\ q \notin X => (L \cup {q}) \cap X = L \cap X
           /\ IsFiniteSet(L \cap X) /\ Cardinality(L \cap X) \in Nat
<1>1. IsFiniteSet(L \cap X) /\ Cardinality(L \cap X) \in Nat
  <2>1. IsFiniteSet(L \cap X)
    BY FS_Subset
  <2> QED BY <2>1, FS_CardinalityType
<1>2. CASE q \in X
  <2>1. (L \cup {q}) \cap X = (L \cap X) \cup {q} /\ q \notin L \cap X
    BY <1>2
  <2>2. Cardinality((L \cap X) \cup {q}) = Cardinality(L \cap X) + 1
    BY <1>1, <2>1, CountMore
  <2> QED BY <1>1, <1>2, <2>1, <2>2
<1>3. CASE q \notin X
  <2>1. (L \cup {q}) \cap X = L \cap X
    BY <1>3
  <2> QED BY <1>1, <1>3, <2>1
<1> QED BY <1>2, <1>3

LEMMA OfIsFinite ==
    ASSUME NEW t, NEW L, IsFiniteSet(L), NEW s
    PROVE  /\ IsFiniteSet(Of(t, L, s)) /\ Cardinality(Of(t, L, s)) \in Nat
           /\ IsFiniteSet(Reads(t, Of(t, L, s))) /\ Cardinality(Reads(t, Of(t, L, s))) \in Nat
<1>1. Of(t, L, s) \in SUBSET L /\ Reads(t, Of(t, L, s)) \in SUBSET L
  BY DEF Of, Reads
<1>2. IsFiniteSet(Of(t, L, s)) /\ IsFiniteSet(Reads(t, Of(t, L, s)))
  BY <1>1, FS_Subset
<1> QED BY <1>2, FS_CardinalityType

(* A line that is not carried leaves the tallies as they are.               *)
LEMMA TalliesStand ==
    ASSUME NEW t, NEW L, NEW q, q \notin t.carried, NEW tally, TalliesIn(t, tally, L)
    PROVE  TalliesIn(t, tally, L \cup {q})
<1>1. \A s : Of(t, L \cup {q}, s) = Of(t, L, s)
  BY DEF Of
<1> QED BY <1>1 DEF TalliesIn

LEMMA TalliesGrow ==
    ASSUME NEW t, IsScript(t), NEW L \in SUBSET t.scanned, NEW q \in t.carried, q \notin L,
           NEW tally \in Tallies, TalliesIn(t, tally, L)
    PROVE  TalliesIn(t, TallyMore(tally, t.line[q].source, t.line[q].read), L \cup {q})
<1> DEFINE c == t.line[q].source
           read == t.line[q].read
           own == Of(t, L, c)
           reads == Reads(t, own)
<1>1. IsFiniteSet(L) /\ c \in Sources /\ read \in BOOLEAN
  BY FS_Subset DEF IsScript, Line
<1>2. \A s \in Sources : s # c => TallyMore(tally, c, read)[s] = tally[s]
  BY <1>1, TallyMoreTyped
<1>3. /\ TallyMore(tally, c, read)[c].events = tally[c].events + 1
      /\ TallyMore(tally, c, read)[c].read = IF read THEN tally[c].read + 1 ELSE tally[c].read
  BY <1>1, TallyMoreTyped
<1>4. ASSUME NEW s \in Sources, s # c PROVE Of(t, L \cup {q}, s) = Of(t, L, s)
  BY <1>4 DEF Of
<1>5. /\ Of(t, L \cup {q}, c) = own \cup {q} /\ q \notin own /\ q \notin reads
      /\ IsFiniteSet(own) /\ IsFiniteSet(reads)
  <2>1. Of(t, L \cup {q}, c) = own \cup {q} /\ q \notin own /\ q \notin reads
    BY DEF Of, Reads
  <2>2. IsFiniteSet(own) /\ IsFiniteSet(reads)
    BY <1>1, OfIsFinite
  <2> QED BY <2>1, <2>2
<1>6. /\ Cardinality(own \cup {q}) = Cardinality(own) + 1
      /\ Cardinality(reads \cup {q}) = Cardinality(reads) + 1
  BY <1>5, CountMore
<1>7. /\ read => Reads(t, own \cup {q}) = reads \cup {q}
      /\ ~read => Reads(t, own \cup {q}) = reads
  BY DEF Reads
<1>8. tally[c].events = Cardinality(own) /\ tally[c].read = Cardinality(reads)
  BY <1>1 DEF TalliesIn, TallyIn
<1>9. TallyIn(t, TallyMore(tally, c, read)[c], Of(t, L \cup {q}, c))
  <2> HIDE DEF own, reads, c
  <2>1. CASE read
    BY <1>3, <1>5, <1>6, <1>7, <1>8, <2>1 DEF TallyIn
  <2>2. CASE ~read
    BY <1>3, <1>5, <1>6, <1>7, <1>8, <2>2 DEF TallyIn
  <2> QED BY <2>1, <2>2
<1>10. ASSUME NEW s \in Sources
       PROVE  TallyIn(t, TallyMore(tally, c, read)[s], Of(t, L \cup {q}, s))
  <2>1. CASE s = c
    BY <1>9, <2>1
  <2>2. CASE s # c
    BY <1>2, <1>4, <2>2 DEF TalliesIn
  <2> QED BY <2>1, <2>2
<1> QED BY <1>10 DEF TalliesIn

(* What the reports of two states share. *)
SameLists(s, r) == s.tally = r.tally /\ s.foreign = r.foreign /\ s.unknown = r.unknown

LEMMA SkipAccounts ==
    ASSUME NEW t, IsScript(t), NEW L \in SUBSET t.scanned, NEW q \in t.scanned, q \notin L,
           q \notin t.refused, q \notin t.carried, NEW r \in ReportType, NEW n \in Nat,
           AccountsIn(t, r, n, L), NEW s, SameLists(s, r),
           s.lines = r.lines + 1, s.malformed = r.malformed + 1,
           s.foreignSource = r.foreignSource, s.unknownStream = r.unknownStream
    PROVE  AccountsIn(t, s, n, L \cup {q})
<1>1. /\ IsFiniteSet(L) /\ q \notin t.undeclared
      /\ r.lines \in Nat /\ r.malformed \in Nat /\ r.foreignSource \in Nat
  BY FS_Subset DEF IsScript, ReportType
<1>2. /\ Cardinality(L \cup {q}) = Cardinality(L) + 1
      /\ (L \cup {q}) \cap t.refused = L \cap t.refused
      /\ (L \cup {q}) \cap t.undeclared = L \cap t.undeclared
  BY <1>1, CountMore
<1>3. CountsIn(t, s, n, L \cup {q})
  <2>1. /\ r.lines = Cardinality(L) /\ r.lines = r.malformed + r.foreignSource + n
        /\ r.foreignSource = Cardinality(L \cap t.refused)
        /\ r.unknownStream = Cardinality(L \cap t.undeclared)
    BY DEF AccountsIn, CountsIn
  <2>2. /\ s.lines = Cardinality(L \cup {q})
        /\ s.foreignSource = Cardinality((L \cup {q}) \cap t.refused)
        /\ s.unknownStream = Cardinality((L \cup {q}) \cap t.undeclared)
    BY <1>2, <2>1
  <2>3. s.lines = s.malformed + s.foreignSource + n
    BY <1>1, <2>1
  <2> QED BY <2>2, <2>3 DEF CountsIn
<1>4. TalliesIn(t, s.tally, L \cup {q})
  <2>1. TalliesIn(t, r.tally, L) /\ s.tally = r.tally
    BY DEF AccountsIn, SameLists
  <2>2. TalliesIn(t, r.tally, L \cup {q})
    BY <2>1, TalliesStand
  <2> QED BY <2>1, <2>2
<1> QED BY <1>2, <1>3, <1>4 DEF AccountsIn, SameLists

LEMMA RefuseAccounts ==
    ASSUME NEW t, IsScript(t), NEW L \in SUBSET t.scanned, NEW q \in t.refused, q \notin L,
           NEW f, \A p \in L : p[1] = f, q[1] = f, NEW c, c = t.line[q].source,
           NEW r \in ReportType, NEW n \in Nat, AccountsIn(t, r, n, L), NEW s,
           s.tally = r.tally, s.unknown = r.unknown, s.foreign = Named(r.foreign, f, c),
           s.lines = r.lines + 1, s.malformed = r.malformed,
           s.foreignSource = r.foreignSource + 1, s.unknownStream = r.unknownStream
    PROVE  AccountsIn(t, s, n, L \cup {q}) /\ s.foreign \in Seq(Pairs)
<1>1. /\ IsFiniteSet(L) /\ q \in t.scanned /\ q \notin t.carried /\ q \notin t.undeclared
      /\ r.lines \in Nat /\ r.malformed \in Nat /\ r.foreignSource \in Nat
      /\ r.foreign \in Seq(Pairs)
  BY FS_Subset DEF IsScript, ReportType, Pairs
<1>2. /\ Cardinality(L \cup {q}) = Cardinality(L) + 1
      /\ Cardinality((L \cup {q}) \cap t.refused) = Cardinality(L \cap t.refused) + 1
      /\ (L \cup {q}) \cap t.refused = (L \cap t.refused) \cup {q}
      /\ (L \cup {q}) \cap t.undeclared = L \cap t.undeclared
  <2>1. Cardinality(L \cup {q}) = Cardinality(L) + 1
    BY <1>1, CountMore
  <2>2. (L \cup {q}) \cap t.undeclared = L \cap t.undeclared
    BY <1>1
  <2>3. /\ Cardinality((L \cup {q}) \cap t.refused) = Cardinality(L \cap t.refused) + 1
        /\ (L \cup {q}) \cap t.refused = (L \cap t.refused) \cup {q}
    <3>1. (L \cup {q}) \cap t.refused = (L \cap t.refused) \cup {q} /\ q \notin L \cap t.refused
      OBVIOUS
    <3>2. L \cap t.refused \in SUBSET L
      OBVIOUS
    <3>3. IsFiniteSet(L \cap t.refused)
      BY <1>1, <3>2, FS_Subset
    <3> QED BY <3>1, <3>3, CountMore
  <2> QED BY <2>1, <2>2, <2>3
<1>3. CountsIn(t, s, n, L \cup {q})
  <2>1. /\ r.lines = Cardinality(L) /\ r.lines = r.malformed + r.foreignSource + n
        /\ r.foreignSource = Cardinality(L \cap t.refused)
        /\ r.unknownStream = Cardinality(L \cap t.undeclared)
    BY DEF AccountsIn, CountsIn
  <2>2. /\ s.lines = Cardinality(L \cup {q})
        /\ s.foreignSource = Cardinality((L \cup {q}) \cap t.refused)
        /\ s.unknownStream = Cardinality((L \cup {q}) \cap t.undeclared)
    BY <1>2, <2>1
  <2>3. s.lines = s.malformed + s.foreignSource + n
    BY <1>1, <2>1
  <2> QED BY <2>2, <2>3 DEF CountsIn
<1>4. TalliesIn(t, s.tally, L \cup {q})
  <2>1. TalliesIn(t, r.tally, L)
    BY DEF AccountsIn
  <2>2. TalliesIn(t, r.tally, L \cup {q})
    BY <1>1, <2>1, TalliesStand
  <2> QED BY <2>2
<1>5. NamesIn(t, s.foreign, (L \cap t.refused) \cup {q}) /\ s.foreign \in Seq(Pairs)
  <2>1. /\ L \cap t.refused \in SUBSET t.scanned /\ q \in t.scanned \ (L \cap t.refused)
        /\ \A p \in L \cap t.refused : p[1] = f
    BY <1>1
  <2>2. NamesIn(t, r.foreign, L \cap t.refused)
    BY DEF AccountsIn
  <2>3. /\ Named(r.foreign, f, c) \in Seq(Pairs)
        /\ NamesIn(t, Named(r.foreign, f, c), (L \cap t.refused) \cup {q})
    BY <1>1, <2>1, <2>2, NamedTells
  <2> QED BY <2>3
<1> QED BY <1>2, <1>3, <1>4, <1>5 DEF AccountsIn

LEMMA IngestAccounts ==
    ASSUME NEW t, IsScript(t), NEW L \in SUBSET t.scanned, NEW q \in t.carried, q \notin L,
           NEW f, \A p \in L : p[1] = f, q[1] = f, NEW c, c = t.line[q].source,
           NEW r \in ReportType, NEW n \in Nat, AccountsIn(t, r, n, L), NEW s,
           s.tally = TallyMore(r.tally, c, t.line[q].read), s.foreign = r.foreign,
           q \in t.undeclared => /\ s.unknown = Named(r.unknown, f, c)
                                 /\ s.unknownStream = r.unknownStream + 1,
           q \notin t.undeclared => s.unknown = r.unknown /\ s.unknownStream = r.unknownStream,
           s.lines = r.lines + 1, s.malformed = r.malformed, s.foreignSource = r.foreignSource
    PROVE  AccountsIn(t, s, n + 1, L \cup {q}) /\ s.unknown \in Seq(Pairs)
<1>1. /\ IsFiniteSet(L) /\ q \in t.scanned /\ q \notin t.refused
      /\ r.lines \in Nat /\ r.malformed \in Nat /\ r.foreignSource \in Nat
      /\ r.unknown \in Seq(Pairs) /\ r.tally \in Tallies
  BY FS_Subset DEF IsScript, ReportType, Pairs, Tallies
<1>2. /\ Cardinality(L \cup {q}) = Cardinality(L) + 1
      /\ (L \cup {q}) \cap t.refused = L \cap t.refused
  BY <1>1, CountMore
<1>3. /\ q \in t.undeclared =>
           /\ Cardinality((L \cup {q}) \cap t.undeclared) = Cardinality(L \cap t.undeclared) + 1
           /\ (L \cup {q}) \cap t.undeclared = (L \cap t.undeclared) \cup {q}
      /\ q \notin t.undeclared => (L \cup {q}) \cap t.undeclared = L \cap t.undeclared
  BY <1>1, CountIn
<1>4. CountsIn(t, s, n + 1, L \cup {q})
  <2>1. /\ r.lines = Cardinality(L) /\ r.lines = r.malformed + r.foreignSource + n
        /\ r.foreignSource = Cardinality(L \cap t.refused)
        /\ r.unknownStream = Cardinality(L \cap t.undeclared)
    BY DEF AccountsIn, CountsIn
  <2>2. /\ s.lines = Cardinality(L \cup {q})
        /\ s.foreignSource = Cardinality((L \cup {q}) \cap t.refused)
        /\ s.unknownStream = Cardinality((L \cup {q}) \cap t.undeclared)
    BY <1>2, <1>3, <2>1
  <2>3. s.lines = s.malformed + s.foreignSource + (n + 1)
    BY <1>1, <2>1
  <2> QED BY <2>2, <2>3 DEF CountsIn
<1>5. TalliesIn(t, s.tally, L \cup {q})
  <2>1. TalliesIn(t, r.tally, L)
    BY DEF AccountsIn
  <2>2. TalliesIn(t, TallyMore(r.tally, c, t.line[q].read), L \cup {q})
    BY <1>1, <2>1, TalliesGrow
  <2> QED BY <2>2
<1>6. NamesIn(t, s.unknown, (L \cup {q}) \cap t.undeclared) /\ s.unknown \in Seq(Pairs)
  <2>1. NamesIn(t, r.unknown, L \cap t.undeclared)
    BY DEF AccountsIn
  <2>2. CASE q \in t.undeclared
    <3>1. /\ L \cap t.undeclared \in SUBSET t.scanned /\ q \in t.scanned \ (L \cap t.undeclared)
          /\ \A p \in L \cap t.undeclared : p[1] = f
      BY <1>1
    <3>2. /\ Named(r.unknown, f, c) \in Seq(Pairs)
          /\ NamesIn(t, Named(r.unknown, f, c), (L \cap t.undeclared) \cup {q})
      BY <1>1, <2>1, <3>1, NamedTells
    <3> QED BY <1>3, <2>2, <3>2
  <2>3. CASE q \notin t.undeclared
    BY <1>1, <1>3, <2>1, <2>3
  <2> QED BY <2>2, <2>3
<1> QED BY <1>2, <1>4, <1>5, <1>6 DEF AccountsIn

LEMMA CountInBoth ==
    ASSUME NEW K, NEW L, IsFiniteSet(K), IsFiniteSet(L), Apart(K, L), NEW X
    PROVE  /\ (K \cup L) \cap X = (K \cap X) \cup (L \cap X)
           /\ Cardinality((K \cup L) \cap X) = Cardinality(K \cap X) + Cardinality(L \cap X)
           /\ Apart(K \cap X, L \cap X)
<1> DEFINE A == K \cap X
           B == L \cap X
<1>1. (K \cup L) \cap X = A \cup B /\ A \cap B = {} /\ A \in SUBSET K /\ B \in SUBSET L
  BY DEF Apart
<1>2. IsFiniteSet(A) /\ IsFiniteSet(B)
  BY <1>1, FS_Subset
<1>3. Apart(A, B)
  BY DEF Apart
<1> HIDE DEF A, B
<1>4. Cardinality(A \cup B) = Cardinality(A) + Cardinality(B)
  BY <1>1, <1>2, CountBoth
<1>5. Cardinality((K \cup L) \cap X) = Cardinality(A) + Cardinality(B)
  BY <1>1, <1>4
<1> QED BY <1>1, <1>3, <1>5 DEF A, B

TallyBoth(a, b) ==
    [s \in Sources |-> [events |-> a[s].events + b[s].events, read |-> a[s].read + b[s].read]]

LEMMA TalliesAdd ==
    ASSUME NEW t, NEW K, NEW L, IsFiniteSet(K), IsFiniteSet(L), Apart(K, L),
           NEW a \in Tallies, NEW b \in Tallies, TalliesIn(t, a, K), TalliesIn(t, b, L)
    PROVE  TallyBoth(a, b) \in Tallies /\ TalliesIn(t, TallyBoth(a, b), K \cup L)
<1>1. ASSUME NEW s \in Sources
      PROVE  /\ TallyBoth(a, b)[s].events = a[s].events + b[s].events
             /\ TallyBoth(a, b)[s].read = a[s].read + b[s].read
             /\ TallyBoth(a, b)[s] \in [events : Nat, read : Nat]
  <2>1. /\ a[s].events \in Nat /\ a[s].read \in Nat
        /\ b[s].events \in Nat /\ b[s].read \in Nat
    BY DEF Tallies
  <2>2. TallyBoth(a, b)[s] = [events |-> a[s].events + b[s].events,
                              read   |-> a[s].read + b[s].read]
    BY DEF TallyBoth
  <2> QED BY <2>1, <2>2
<1>2. TallyBoth(a, b) \in Tallies
  BY <1>1 DEF TallyBoth, Tallies
<1>3. ASSUME NEW s \in Sources PROVE TallyIn(t, TallyBoth(a, b)[s], Of(t, K \cup L, s))
  <2> DEFINE A == Of(t, K, s)
             B == Of(t, L, s)
  <2>1. Of(t, K \cup L, s) = A \cup B /\ Reads(t, A \cup B) = Reads(t, A) \cup Reads(t, B)
    BY DEF Of, Reads
  <2>2. A \cap B = {} /\ Reads(t, A) \cap Reads(t, B) = {}
    BY DEF Of, Reads, Apart
  <2>3. /\ IsFiniteSet(A) /\ IsFiniteSet(B)
        /\ IsFiniteSet(Reads(t, A)) /\ IsFiniteSet(Reads(t, B))
    BY OfIsFinite
  <2> HIDE DEF A, B
  <2>4. /\ Cardinality(A \cup B) = Cardinality(A) + Cardinality(B)
        /\ Cardinality(Reads(t, A) \cup Reads(t, B)) =
             Cardinality(Reads(t, A)) + Cardinality(Reads(t, B))
    BY <2>2, <2>3, CountBoth
  <2>5. TallyIn(t, a[s], A) /\ TallyIn(t, b[s], B)
    BY DEF TalliesIn, A, B
  <2>6. /\ TallyBoth(a, b)[s].events = Cardinality(A \cup B)
        /\ TallyBoth(a, b)[s].read = Cardinality(Reads(t, A \cup B))
    BY <1>1, <2>1, <2>4, <2>5 DEF TallyIn
  <2> QED BY <2>1, <2>6 DEF TallyIn
<1> QED BY <1>2, <1>3 DEF TalliesIn

(* The lines of one file. *)
AllOf(L, f) == \A p \in L : p[1] = f

(* What Report.merge makes of two reports, the names of the second sorted. *)
MergedFrom(s, r, o) ==
    /\ s.lines = r.lines + o.lines /\ s.malformed = r.malformed + o.malformed
    /\ s.foreignSource = r.foreignSource + o.foreignSource
    /\ s.unknownStream = r.unknownStream + o.unknownStream
    /\ s.tally = TallyBoth(r.tally, o.tally)
    /\ s.foreign = Bounded(r.foreign, Sorted(o.foreign))
    /\ s.unknown = Bounded(r.unknown, o.unknown)

(* Report.merge of what came before and of one more file.                   *)
LEMMA MergeAccounts ==
    ASSUME NEW t, IsScript(t), NEW K \in SUBSET t.scanned, NEW L \in SUBSET t.scanned,
           Apart(K, L), NEW f, AllOf(L, f), NEW r \in ReportType, NEW o \in ReportType,
           NEW n \in Nat, NEW m \in Nat, AccountsIn(t, r, n, K), AccountsIn(t, o, m, L), NEW s,
           MergedFrom(s, r, o)
    PROVE  /\ AccountsIn(t, s, n + m, K \cup L)
           /\ s.foreign \in Seq(Pairs) /\ s.unknown \in Seq(Pairs) /\ s.tally \in Tallies
<1>0. /\ \A p \in L : p[1] = f
      /\ s.lines = r.lines + o.lines /\ s.malformed = r.malformed + o.malformed
      /\ s.foreignSource = r.foreignSource + o.foreignSource
      /\ s.unknownStream = r.unknownStream + o.unknownStream
      /\ s.tally = TallyBoth(r.tally, o.tally)
      /\ s.foreign = Bounded(r.foreign, Sorted(o.foreign))
      /\ s.unknown = Bounded(r.unknown, o.unknown)
  BY DEF AllOf, MergedFrom
<1>1. /\ IsFiniteSet(K) /\ IsFiniteSet(L)
      /\ r.lines \in Nat /\ r.malformed \in Nat /\ r.foreignSource \in Nat
      /\ o.lines \in Nat /\ o.malformed \in Nat /\ o.foreignSource \in Nat
  BY FS_Subset DEF IsScript, ReportType
<1>1a. /\ r.foreign \in Seq(Pairs) /\ r.unknown \in Seq(Pairs) /\ r.tally \in Tallies
       /\ o.foreign \in Seq(Pairs) /\ o.unknown \in Seq(Pairs) /\ o.tally \in Tallies
  BY DEF ReportType, Pairs, Tallies
<1>1b. /\ CountsIn(t, r, n, K) /\ CountsIn(t, o, m, L)
       /\ TalliesIn(t, r.tally, K) /\ TalliesIn(t, o.tally, L)
       /\ NamesIn(t, r.foreign, K \cap t.refused) /\ NamesIn(t, o.foreign, L \cap t.refused)
       /\ NamesIn(t, r.unknown, K \cap t.undeclared) /\ NamesIn(t, o.unknown, L \cap t.undeclared)
  BY DEF AccountsIn
<1>2. Cardinality(K \cup L) = Cardinality(K) + Cardinality(L)
  <2>1. K \cap L = {}
    BY DEF Apart
  <2> QED BY <1>1, <2>1, CountBoth
<1>3. /\ (K \cup L) \cap t.refused = (K \cap t.refused) \cup (L \cap t.refused)
      /\ Cardinality((K \cup L) \cap t.refused) =
           Cardinality(K \cap t.refused) + Cardinality(L \cap t.refused)
      /\ Apart(K \cap t.refused, L \cap t.refused)
  BY <1>1, CountInBoth
<1>4. /\ (K \cup L) \cap t.undeclared = (K \cap t.undeclared) \cup (L \cap t.undeclared)
      /\ Cardinality((K \cup L) \cap t.undeclared) =
           Cardinality(K \cap t.undeclared) + Cardinality(L \cap t.undeclared)
      /\ Apart(K \cap t.undeclared, L \cap t.undeclared)
  BY <1>1, CountInBoth
<1>5. CountsIn(t, s, n + m, K \cup L)
  <2>1. /\ r.lines = Cardinality(K) /\ r.lines = r.malformed + r.foreignSource + n
        /\ r.foreignSource = Cardinality(K \cap t.refused)
        /\ r.unknownStream = Cardinality(K \cap t.undeclared)
    BY <1>1b DEF CountsIn
  <2>2. /\ o.lines = Cardinality(L) /\ o.lines = o.malformed + o.foreignSource + m
        /\ o.foreignSource = Cardinality(L \cap t.refused)
        /\ o.unknownStream = Cardinality(L \cap t.undeclared)
    BY <1>1b DEF CountsIn
  <2>3. /\ s.lines = Cardinality(K \cup L)
        /\ s.foreignSource = Cardinality((K \cup L) \cap t.refused)
        /\ s.unknownStream = Cardinality((K \cup L) \cap t.undeclared)
    BY <1>0, <1>2, <1>3, <1>4, <2>1, <2>2
  <2>4. s.lines = s.malformed + s.foreignSource + (n + m)
    BY <1>0, <1>1, <2>1, <2>2
  <2> QED BY <2>3, <2>4 DEF CountsIn
<1>6. s.tally \in Tallies /\ TalliesIn(t, s.tally, K \cup L)
  <2>1. /\ TallyBoth(r.tally, o.tally) \in Tallies
        /\ TalliesIn(t, TallyBoth(r.tally, o.tally), K \cup L)
    BY <1>1, <1>1a, <1>1b, TalliesAdd
  <2> QED BY <1>0, <2>1
<1>7. s.foreign \in Seq(Pairs) /\ NamesIn(t, s.foreign, (K \cup L) \cap t.refused)
  <2>1. \A i \in DOMAIN o.foreign : o.foreign[i].file = f
    <3>1. PICK X, names : X = L \cap t.refused /\ names = o.foreign
      OBVIOUS
    <3>2. NamesIn(t, names, X) /\ \A p \in X : p[1] = f
      BY <1>0, <1>1b, <3>1
    <3>3. \A i \in DOMAIN names : names[i].file = f
      <4>1. ASSUME NEW i \in DOMAIN names PROVE names[i].file = f
        <5>1. PICK p : p \in OwnLines(t, X, names[i].file, names[i].claimed)
          BY <3>2 DEF NamesIn
        <5> QED BY <3>2, <5>1 DEF OwnLines
      <4> QED BY <4>1
    <3> QED BY <3>1, <3>3
  <2>2. Sorted(o.foreign) \in Seq(Pairs) /\ NamesIn(t, Sorted(o.foreign), L \cap t.refused)
    BY <1>1a, <1>1b, <2>1, SortedTells
  <2>3. /\ Bounded(r.foreign, Sorted(o.foreign)) \in Seq(Pairs)
        /\ NamesIn(t, Bounded(r.foreign, Sorted(o.foreign)),
                   (K \cap t.refused) \cup (L \cap t.refused))
    BY <1>1a, <1>1b, <1>3, <2>2, BoundedTells
  <2> QED BY <1>0, <1>3, <2>3
<1>8. s.unknown \in Seq(Pairs) /\ NamesIn(t, s.unknown, (K \cup L) \cap t.undeclared)
  <2>1. /\ Bounded(r.unknown, o.unknown) \in Seq(Pairs)
        /\ NamesIn(t, Bounded(r.unknown, o.unknown),
                   (K \cap t.undeclared) \cup (L \cap t.undeclared))
    BY <1>1a, <1>1b, <1>4, BoundedTells
  <2> QED BY <1>0, <1>4, <2>1
<1> QED BY <1>5, <1>6, <1>7, <1>8 DEF AccountsIn

-----------------------------------------------------------------------------
(* The events of a load. *)
EventOf(t, p) ==
    [agent |-> t.line[p].agent, source |-> t.line[p].source, read |-> t.line[p].read]

Upto(L, p) == {q \in L : NotAfter(q, p)}

EventsIn(t, evs, L) ==
    /\ Len(evs) = Cardinality(L)
    /\ \A p \in L : evs[Cardinality(Upto(L, p))] = EventOf(t, p)

(* The event of a line behind all the others goes behind all the others.    *)
LEMMA EventsGrow ==
    ASSUME NEW t, NEW L, IsFiniteSet(L), NEW q, q \notin L, NotAfter(q, q),
           \A p \in L : NotAfter(p, p) /\ NotAfter(p, q) /\ ~NotAfter(q, p),
           NEW evs \in Seq(Event), NEW e \in Event, e = EventOf(t, q), EventsIn(t, evs, L)
    PROVE  EventsIn(t, Append(evs, e), L \cup {q})
<1>0. PICK n : n = Len(evs)
  OBVIOUS
<1>1. n \in Nat /\ n = Cardinality(L) /\ Cardinality(L \cup {q}) = n + 1
  BY <1>0, CountMore DEF EventsIn
<1>2. PICK new : new = Append(evs, e)
  OBVIOUS
<1>3. new[n + 1] = e /\ Len(new) = n + 1 /\ \A k \in 1..n : new[k] = evs[k]
  BY <1>0, <1>2
<1>4. Upto(L \cup {q}, q) = L \cup {q}
  BY DEF Upto
<1>5. ASSUME NEW p \in L PROVE new[Cardinality(Upto(L \cup {q}, p))] = EventOf(t, p)
  <2>1. Upto(L \cup {q}, p) = Upto(L, p)
    BY DEF Upto
  <2>2. Cardinality(Upto(L, p)) \in 1..n
    <3>1. Upto(L, p) \in SUBSET L
      BY DEF Upto
    <3>2. p \in Upto(L, p)
      BY DEF Upto
    <3>3. IsFiniteSet(Upto(L, p)) /\ Cardinality(Upto(L, p)) <= Cardinality(L)
      BY <3>1, FS_Subset
    <3>4. Cardinality(Upto(L, p)) \in Nat /\ Cardinality(Upto(L, p)) # 0
      BY <3>2, <3>3, FS_CardinalityType, FS_EmptySet
    <3> QED BY <1>1, <3>3, <3>4
  <2>3. evs[Cardinality(Upto(L, p))] = EventOf(t, p)
    BY DEF EventsIn
  <2> QED BY <1>3, <2>1, <2>2, <2>3
<1>6. new[Cardinality(Upto(L \cup {q}, q))] = EventOf(t, q)
  BY <1>1, <1>3, <1>4
<1>7. EventsIn(t, new, L \cup {q})
  BY <1>1, <1>3, <1>5, <1>6 DEF EventsIn
<1> QED BY <1>2, <1>7

-----------------------------------------------------------------------------
(* The identities of a load.  A line mentions its agent and its humans.     *)
Mentioned(t, p) == {t.line[p].agent} \cup (ToSet(t.line[p].principals) \cap Humans)

TracesIn(t, ids, C) ==
    /\ \A i \in ids : \E p \in C : i.source = t.line[p].source /\ i.id \in Mentioned(t, p)
    /\ \A p \in C : \A x \in Mentioned(t, p) : \E i \in ids : i.id = x

LEMMA TracesGrow ==
    ASSUME NEW t, NEW ids, NEW C, NEW q, NEW more, TracesIn(t, ids, C),
           \A i \in more : i.source = t.line[q].source /\ i.id \in Mentioned(t, q),
           \A x \in Mentioned(t, q) : \E i \in ids \cup more : i.id = x
    PROVE  TracesIn(t, ids \cup more, C \cup {q})
  BY DEF TracesIn

LEMMA AppendLast ==
    ASSUME NEW S, NEW a \in Seq(S), NEW b \in Seq(S), NEW e \in S
    PROVE  a \o Append(b, e) = Append(a \o b, e)
<1>0. PICK n, m : n = Len(a) /\ m = Len(b)
  OBVIOUS
<1>1. PICK c, d, f : c = Append(b, e) /\ d = a \o c /\ f = a \o b
  OBVIOUS
<1>2. n \in Nat /\ m \in Nat
  BY <1>0
<1>3. c \in Seq(S) /\ Len(c) = m + 1 /\ c[m + 1] = e /\ \A k \in 1..m : c[k] = b[k]
  BY <1>0, <1>1
<1>4. /\ f \in Seq(S) /\ Len(f) = n + m
      /\ \A k \in 1..(n + m) : f[k] = IF k <= n THEN a[k] ELSE b[k - n]
  BY <1>0, <1>1
<1>5. /\ d \in Seq(S) /\ Len(d) = n + (m + 1)
      /\ \A k \in 1..(n + (m + 1)) : d[k] = IF k <= n THEN a[k] ELSE c[k - n]
  BY <1>0, <1>1, <1>3
<1>6. PICK g : g = Append(f, e)
  OBVIOUS
<1>7. /\ g \in Seq(S) /\ Len(g) = (n + m) + 1 /\ g[(n + m) + 1] = e
      /\ \A k \in 1..(n + m) : g[k] = f[k]
  BY <1>4, <1>6
<1>8. /\ n + (m + 1) = (n + m) + 1 /\ (n + m) + 1 - n = m + 1 /\ ~((n + m) + 1 <= n)
      /\ \A k \in 1..((n + m) + 1) : k \in 1..(n + m) \/ k = (n + m) + 1
      /\ \A k \in 1..(n + m) : k \in 1..((n + m) + 1) /\ (~(k <= n) => k - n \in 1..m)
      /\ (n + m) + 1 \in 1..((n + m) + 1)
  BY <1>2
<1>9. ASSUME NEW k \in 1..((n + m) + 1) PROVE d[k] = g[k]
  <2>1. d[k] = IF k <= n THEN a[k] ELSE c[k - n]
    BY <1>5, <1>8
  <2>2. CASE k = (n + m) + 1
    <3>1. k - n = m + 1 /\ ~(k <= n)
      BY <1>2, <2>2
    <3>2. d[k] = c[m + 1]
      BY <2>1, <3>1
    <3> QED BY <1>3, <1>7, <2>2, <3>2
  <2>3. CASE k \in 1..(n + m)
    <3>1. g[k] = IF k <= n THEN a[k] ELSE b[k - n]
      BY <1>4, <1>7, <2>3
    <3>2. ~(k <= n) => c[k - n] = b[k - n]
      BY <1>3, <1>8, <2>3
    <3> QED BY <2>1, <3>1, <3>2
  <2> QED BY <1>8, <2>2, <2>3
<1>10. DOMAIN d = 1..((n + m) + 1) /\ DOMAIN g = 1..((n + m) + 1)
  BY <1>5, <1>7, <1>8
<1>11. d = g
  BY <1>5, <1>7, <1>9, <1>10
<1> QED BY <1>1, <1>6, <1>11

LEMMA ToSetOfBoth ==
    ASSUME NEW S, NEW a \in Seq(S), NEW b \in Seq(S)
    PROVE  a \o b \in Seq(S) /\ ToSet(a \o b) = ToSet(a) \cup ToSet(b)
<1>0. PICK n, m : n = Len(a) /\ m = Len(b)
  OBVIOUS
<1>1. n \in Nat /\ m \in Nat /\ DOMAIN a = 1..n /\ DOMAIN b = 1..m
  BY <1>0
<1>2. PICK c : c = a \o b
  OBVIOUS
<1>3. c \in Seq(S) /\ DOMAIN c = 1..(n + m) /\ \A k \in 1..(n + m) : c[k] = IF k <= n THEN a[k] ELSE b[k - n]
  BY <1>0, <1>2
<1>4. /\ \A k \in 1..(n + m) : (k <= n /\ k \in 1..n) \/ (~(k <= n) /\ k - n \in 1..m)
      /\ \A k \in 1..n : k \in 1..(n + m) /\ k <= n
      /\ \A k \in 1..m : n + k \in 1..(n + m) /\ ~(n + k <= n) /\ (n + k) - n = k
  BY <1>1
<1>5. /\ \A k \in 1..(n + m) : c[k] \in ToSet(a) \cup ToSet(b)
      /\ \A k \in 1..n : a[k] \in ToSet(c)
      /\ \A k \in 1..m : b[k] \in ToSet(c)
  BY <1>1, <1>3, <1>4 DEF ToSet
<1>6. ToSet(c) = ToSet(a) \cup ToSet(b)
  BY <1>1, <1>3, <1>5 DEF ToSet
<1> QED BY <1>2, <1>3, <1>6

(* The identities of one line, as parse makes them.                         *)
LEMMA SubjectIs ==
    ASSUME NEW l \in Line
    PROVE  /\ SubjectOf(l) \in Seq(Identity)
           /\ \A i \in ToSet(SubjectOf(l)) : i.source = l.source /\ i.id = l.agent
           /\ l.agent \in seen.agents \/ \E i \in ToSet(SubjectOf(l)) : i.id = l.agent
<1>1. CASE l.agent \in seen.agents
  <2>1. SubjectOf(l) = <<>>
    BY <1>1 DEF SubjectOf
  <2> QED BY <1>1, <2>1 DEF ToSet
<1>2. CASE l.agent \notin seen.agents
  <2>1. PICK type : type = IF l.agent \in Claimed THEN "" ELSE "agent"
    OBVIOUS
  <2>2. PICK i : i = [id |-> l.agent, type |-> type, source |-> l.source,
                      onBehalfOf |-> l.principals]
    OBVIOUS
  <2>3. SubjectOf(l) = <<i>>
    BY <1>2, <2>1, <2>2 DEF SubjectOf
  <2>4. i \in Identity /\ i.source = l.source /\ i.id = l.agent
    BY <2>1, <2>2 DEF Identity, Line
  <2>5. <<i>> \in Seq(Identity) /\ ToSet(<<i>>) = {i}
    BY <2>4 DEF ToSet
  <2> QED BY <2>3, <2>4, <2>5
<1> QED BY <1>1, <1>2

LEMMA HumansAre ==
    ASSUME NEW l \in Line
    PROVE  /\ HumansOf(l) \in Seq(Identity)
           /\ \A i \in ToSet(HumansOf(l)) :
                i.source = l.source /\ i.id \in ToSet(l.principals) \cap Humans
           /\ \A x \in ToSet(l.principals) \cap Humans :
                x \in seen.humans \/ \E i \in ToSet(HumansOf(l)) : i.id = x
           /\ \A x \in ToSet(NewHumans(l)) :
                x \in Humans /\ \E i \in ToSet(HumansOf(l)) : i.id = x
<1> DEFINE T == {i \in DOMAIN l.principals :
                   /\ l.principals[i] \in Humans \ seen.humans
                   /\ \A j \in 1..(i - 1) : l.principals[j] # l.principals[i]}
<1>1. PICK named : named = l.principals
  OBVIOUS
<1>2. PICK n \in Nat : n = Len(named) /\ DOMAIN named = 1..n
  <2>1. named \in Seq(Humans \cup AgentIDs)
    BY <1>1 DEF Line
  <2>2. Len(named) \in Nat /\ DOMAIN named = 1..Len(named)
    BY <2>1
  <2> QED BY <2>2
<1>3. T \in SUBSET (1..n) /\ Into(named, T, Humans)
  BY <1>1, <1>2 DEF Into
<1>4. ASSUME NEW x \in Humans, x \notin seen.humans, NEW k \in 1..n, named[k] = x
      PROVE  \E i \in T : named[i] = x
  <2> DEFINE same == {i \in 1..n : named[i] = x}
  <2>1. same \in SUBSET Nat /\ same # {}
    BY <1>2, <1>4
  <2>2. PICK i : i = Min(same)
    OBVIOUS
  <2>3. i \in same /\ \A j \in same : i <= j
    BY <2>1, <2>2, LeastIs
  <2>4. i \in 1..n /\ named[i] = x
    BY <2>3
  <2>5. \A j \in 1..(i - 1) : named[j] # x
    <3>1. ASSUME NEW j \in 1..(i - 1) PROVE named[j] # x
      <4>1. j \in 1..n /\ ~(i <= j)
        BY <1>2, <2>4
      <4> QED BY <2>3, <4>1
    <3> QED BY <3>1
  <2> QED BY <1>1, <1>2, <1>4, <2>4, <2>5
<1>5. NewHumans(l) = Pick(named, T)
  BY <1>1 DEF NewHumans
<1> HIDE DEF T
<1>6. PICK new, m : new = Pick(named, T) /\ m = Cardinality(T)
  OBVIOUS
<1>7. /\ new \in Seq(Humans) /\ Len(new) = m /\ m \in Nat
      /\ \A k \in 1..m : \E i \in T : new[k] = named[i]
      /\ \A i \in T : \E k \in 1..m : new[k] = named[i]
  <2>1. /\ Pick(named, T) \in Seq(Humans) /\ Len(Pick(named, T)) = Cardinality(T)
        /\ Cardinality(T) \in Nat
        /\ \A k \in 1..Cardinality(T) : \E i \in T : Pick(named, T)[k] = named[i]
        /\ \A i \in T : \E k \in 1..Cardinality(T) : Pick(named, T)[k] = named[i]
    BY <1>2, <1>3, PickIsASequence
  <2> QED BY <1>6, <2>1
<1>8. DOMAIN new = 1..m /\ \A k \in 1..m : new[k] \in Humans
  <2>1. new \in Seq(Humans) /\ Len(new) = m
    BY <1>7
  <2> QED BY <2>1
<1>9. PICK f : f = [i \in 1..m |-> [id |-> new[i], type |-> "human", source |-> l.source,
                                    onBehalfOf |-> <<>>]]
  OBVIOUS
<1>10. HumansOf(l) = f
  BY <1>5, <1>6, <1>8, <1>9 DEF HumansOf
<1>11. DOMAIN f = 1..m /\ \A k \in 1..m : f[k].id = new[k] /\ f[k].source = l.source
  BY <1>9
<1>12. f \in Seq(Identity)
  <2>1. \A k \in 1..m : f[k] \in Identity
    <3>1. ASSUME NEW k \in 1..m PROVE f[k] \in Identity
      <4>1. <<>> \in Seq(Humans \cup AgentIDs) /\ l.source \in Sources
        BY DEF Line
      <4>2. f[k] = [id |-> new[k], type |-> "human", source |-> l.source, onBehalfOf |-> <<>>]
        BY <1>9
      <4> QED BY <1>8, <4>1, <4>2 DEF Identity
    <3> QED BY <3>1
  <2> QED BY <1>7, <1>9, <2>1
<1>13. \A k \in 1..m : new[k] \in ToSet(named) \cap Humans
  <2>1. \A i \in T : named[i] \in ToSet(named)
    BY <1>2, <1>3 DEF ToSet
  <2> QED BY <1>7, <1>8, <2>1
<1>14. \A i \in ToSet(f) : i.source = l.source /\ i.id \in ToSet(l.principals) \cap Humans
  <2>1. \A i \in ToSet(f) : \E k \in 1..m : i = f[k]
    BY <1>11 DEF ToSet
  <2> QED BY <1>1, <1>11, <1>13, <2>1
<1>15. \A k \in 1..m : \E i \in ToSet(f) : i.id = new[k]
  <2>1. \A k \in 1..m : f[k] \in ToSet(f)
    BY <1>11 DEF ToSet
  <2> QED BY <1>11, <2>1
<1>16. ASSUME NEW x \in ToSet(l.principals) \cap Humans, x \notin seen.humans
       PROVE  \E i \in ToSet(f) : i.id = x
  <2>1. PICK k \in 1..n : named[k] = x
    BY <1>1, <1>2, <1>16 DEF ToSet
  <2>2. PICK i \in T : named[i] = x
    BY <1>4, <1>16, <2>1
  <2> QED BY <1>7, <1>15, <2>2
<1>17. \A x \in ToSet(new) : x \in Humans /\ \E i \in ToSet(f) : i.id = x
  <2>1. \A x \in ToSet(new) : \E k \in 1..m : x = new[k]
    BY <1>8 DEF ToSet
  <2> QED BY <1>8, <1>15, <2>1
<1> QED BY <1>5, <1>6, <1>10, <1>12, <1>14, <1>16, <1>17

(* LoadWith drops only who it has had. *)
LEMMA FreshIs ==
    ASSUME NEW ids \in Seq(Identity)
    PROVE  /\ Fresh(ids) \in Seq(Identity) /\ ToSet(Fresh(ids)) \subseteq ToSet(ids)
           /\ \A i \in ToSet(ids) :
                i \in ToSet(Fresh(ids)) \/ i.id \in seenInLoad.agents \cup seenInLoad.humans
<1> DEFINE T == {k \in DOMAIN ids :
                   /\ ids[k].type = "agent" => ids[k].id \notin seenInLoad.agents
                   /\ ids[k].type = "human" => ids[k].id \notin seenInLoad.humans}
<1>1. PICK n \in Nat : n = Len(ids) /\ DOMAIN ids = 1..n
  OBVIOUS
<1>2. T \in SUBSET (1..n) /\ Into(ids, T, Identity)
  BY <1>1 DEF Into
<1>3. \A k \in 1..n : k \in T \/ ids[k].id \in seenInLoad.agents \cup seenInLoad.humans
  BY <1>1
<1>4. Fresh(ids) = Pick(ids, T)
  BY DEF Fresh
<1> HIDE DEF T
<1>5. /\ Pick(ids, T) \in Seq(Identity) /\ Len(Pick(ids, T)) = Cardinality(T)
      /\ Cardinality(T) \in Nat
      /\ \A k \in 1..Cardinality(T) : \E i \in T : Pick(ids, T)[k] = ids[i]
      /\ \A i \in T : \E k \in 1..Cardinality(T) : Pick(ids, T)[k] = ids[i]
  <2>1. PICK s : s = ids
    OBVIOUS
  <2>2. Into(s, T, Identity)
    BY <1>2, <2>1
  <2>3. /\ Pick(s, T) \in Seq(Identity) /\ Len(Pick(s, T)) = Cardinality(T)
        /\ Cardinality(T) \in Nat
        /\ \A k \in 1..Cardinality(T) : \E i \in T : Pick(s, T)[k] = s[i]
        /\ \A i \in T : \E k \in 1..Cardinality(T) : Pick(s, T)[k] = s[i]
    BY <1>2, <2>2, PickIsASequence
  <2> QED BY <2>1, <2>3
<1>6. PICK new, m : new = Pick(ids, T) /\ m = Cardinality(T)
  OBVIOUS
<1>7. /\ new \in Seq(Identity) /\ Len(new) = m
      /\ \A k \in 1..m : \E i \in T : new[k] = ids[i]
      /\ \A i \in T : \E k \in 1..m : new[k] = ids[i]
  BY <1>5, <1>6
<1>8. DOMAIN new = 1..m
  <2>1. new \in Seq(Identity) /\ Len(new) = m
    BY <1>7
  <2> QED BY <2>1
<1>9. \A i \in ToSet(new) : i \in ToSet(ids)
  <2>1. \A i \in ToSet(new) : \E k \in 1..m : i = new[k]
    BY <1>8 DEF ToSet
  <2>2. \A k \in T : ids[k] \in ToSet(ids)
    BY <1>1, <1>2 DEF ToSet
  <2> QED BY <1>7, <2>1, <2>2
<1>10. \A i \in ToSet(ids) : i \in ToSet(new) \/ i.id \in seenInLoad.agents \cup seenInLoad.humans
  <2>1. \A i \in ToSet(ids) : \E k \in 1..n : i = ids[k]
    BY <1>1 DEF ToSet
  <2>2. \A k \in 1..m : new[k] \in ToSet(new)
    BY <1>8 DEF ToSet
  <2> QED BY <1>3, <1>7, <2>1, <2>2
<1> QED BY <1>4, <1>6, <1>7, <1>9, <1>10

-----------------------------------------------------------------------------
(* The inductive invariant of a load. *)
Buses == [Files -> UNION {[1..n -> Lines] : n \in 0..MaxLines}]

(* Where LoadWith is.                                                      *)
Reading ==
    /\ BusTypeOK /\ bus \in Buses
    /\ status # "running" => next = 0
    /\ status = "done" => file = Len(Stem)
    /\ next > 0 => /\ next <= Len(bus[file]) + 1
                   /\ \A j \in 1..(next - 1) : bus[file][j].kind # "oversized"
    /\ next = 0 => parsed.identities = <<>> /\ parsed.events = <<>>

CarriedSoFar == CarriedLines \cap (LinesBefore \cup LinesOfFile)

IdsOf(p) == ToSet(p.identities)

Known(xs, ids) == \A x \in xs : \E i \in ids : i.id = x

(* What it has kept, with the file it is in.                                *)
Kept ==
    /\ next > 0 => Known(seen.agents \cup seen.humans, IdsOf(parsed))
    /\ status # "failed" =>
         /\ EventsIn(Script, loaded.events \o parsed.events, CarriedSoFar)
         /\ TracesIn(Script, IdsOf(loaded) \cup IdsOf(parsed), CarriedSoFar)
         /\ Known(seenInLoad.agents \cup seenInLoad.humans, IdsOf(loaded))

(* What it has counted.                                                    *)
Counted ==
    /\ AccountsIn(Script, parsed.rep, Len(parsed.events), LinesOfFile)
    /\ AccountsIn(Script, loaded.rep, Len(loaded.events), LinesBefore)

BusInv == Reading /\ Kept /\ Counted

LEMMA BusIs ==
    ASSUME bus \in Buses, NEW f \in Files
    PROVE  /\ bus[f] \in Seq(Line) /\ DOMAIN bus[f] = 1..Len(bus[f])
           /\ Len(bus[f]) \in 0..MaxLines
<1>1. bus[f] \in UNION {[1..n -> Lines] : n \in 0..MaxLines}
  BY DEF Buses
<1>2. PICK n \in 0..MaxLines : bus[f] \in [1..n -> Lines]
  BY <1>1
<1>3. n \in Nat /\ Lines \subseteq Line
  BY LinesAssumption
<1>4. bus[f] \in [1..n -> Line]
  BY <1>2, <1>3
<1> QED BY <1>3, <1>4

LEMMA FilesAre == Files = 1..Len(Stem) /\ Len(Stem) \in Nat \ {0} /\ IsFiniteSet(Files)
<1>1. Stem \in Seq(STRING) /\ Stem # <<>>
  BY StemAssumption
<1>2. Files = 1..Len(Stem) /\ Len(Stem) \in Nat \ {0}
  BY <1>1 DEF Files
<1>3. IsFiniteSet(1..Len(Stem))
  BY <1>2, FS_Interval
<1> QED BY <1>2, <1>3

LEMMA ScriptIs ==
    ASSUME bus \in Buses
    PROVE  /\ IsScript(Script) /\ Script.scanned = ScannedLines /\ Script.refused = RefusedLines
           /\ Script.carried = CarriedLines /\ Script.undeclared = UndeclaredLines
           /\ \A p \in ScannedLines : Script.line[p] = LineAt(p)
<1>1. PICK t : t = Script
  OBVIOUS
<1>2. /\ t.scanned = ScannedLines /\ t.refused = RefusedLines /\ t.carried = CarriedLines
      /\ t.undeclared = UndeclaredLines /\ \A p \in ScannedLines : t.line[p] = LineAt(p)
  BY <1>1 DEF Script
<1>3. ScannedLines \in SUBSET (Files \X (1..MaxLines)) /\ IsFiniteSet(ScannedLines)
  <2>1. ScannedLines \in SUBSET (Files \X (1..MaxLines))
    BY DEF ScannedLines
  <2>2. IsFiniteSet(1..MaxLines) /\ IsFiniteSet(Files)
    BY FilesAre, FS_Interval, LinesAssumption
  <2>3. IsFiniteSet(Files \X (1..MaxLines))
    BY <2>2, FS_Product
  <2> QED BY <2>1, <2>3, FS_Subset
<1>4. ASSUME NEW p \in ScannedLines PROVE LineAt(p) \in Line
  <2>1. p[1] \in Files /\ p[2] \in DOMAIN bus[p[1]]
    BY DEF ScannedLines
  <2>2. bus[p[1]] \in Seq(Line)
    BY <2>1, BusIs
  <2> QED BY <2>1, <2>2 DEF LineAt
<1>5. /\ RefusedLines \in SUBSET ScannedLines /\ CarriedLines \in SUBSET ScannedLines
      /\ UndeclaredLines \in SUBSET CarriedLines /\ RefusedLines \cap CarriedLines = {}
  BY DEF RefusedLines, CarriedLines, UndeclaredLines
<1>6. IsScript(t)
  BY <1>2, <1>3, <1>4, <1>5 DEF IsScript
<1> QED BY <1>1, <1>2, <1>6

LEMMA ScriptStands ==
    ASSUME UNCHANGED <<bus, policy>>
    PROVE  /\ Script' = Script /\ ScannedLines' = ScannedLines /\ CarriedLines' = CarriedLines
           /\ (bus \in Buses => (bus \in Buses)')
<1>1. bus' = bus /\ policy' = policy
  OBVIOUS
<1>2. ScannedLines' = ScannedLines
  BY <1>1 DEF ScannedLines
<1>3. /\ RefusedLines' = RefusedLines /\ CarriedLines' = CarriedLines
      /\ UndeclaredLines' = UndeclaredLines
  BY <1>1, <1>2 DEF RefusedLines, CarriedLines, UndeclaredLines, VerdictOn, LineAt
<1>4. Script' = Script
  BY <1>1, <1>2, <1>3 DEF Script, LineAt
<1> QED BY <1>1, <1>2, <1>3, <1>4

(* An empty product. *)
LEMMA NewReportIs ==
    ASSUME NEW chain \in Chains
    PROVE  /\ NewReport(chain) \in ReportType
           /\ \A t : AccountsIn(t, NewReport(chain), 0, {})
<1> DEFINE none == [events |-> 0, read |-> 0]
           tally == [s \in Sources |-> none]
<1>1. NewReport(chain) =
        [lines |-> 0, malformed |-> 0, chain |-> chain, tally |-> tally, foreignSource |-> 0,
         foreign |-> <<>>, unknownStream |-> 0, unknown |-> <<>>]
  BY DEF NewReport
<1>2. tally \in Tallies /\ \A s \in Sources : tally[s] = none
  BY DEF Tallies
<1> HIDE DEF tally
<1>3. PICK r : r = NewReport(chain)
  OBVIOUS
<1>4. /\ r.lines = 0 /\ r.malformed = 0 /\ r.foreignSource = 0 /\ r.unknownStream = 0
      /\ r.tally = tally /\ r.foreign = <<>> /\ r.unknown = <<>>
  BY <1>1, <1>3
<1>5. r \in ReportType
  <2>1. PICK names : names = <<>>
    OBVIOUS
  <2>2. names \in Seq([file : Files, claimed : Sources, count : Nat])
    BY <2>1
  <2>3. tally \in [Sources -> [events : Nat, read : Nat]]
    BY <1>2 DEF Tallies
  <2>4. chain \in [verified : BOOLEAN, chained : Nat, heads : Nat, unverifiable : Nat,
                   breaks : SUBSET (Files \X (1..MaxLines))]
    BY DEF Chains
  <2>5. r = [lines |-> 0, malformed |-> 0, chain |-> chain, tally |-> tally, foreignSource |-> 0,
             foreign |-> names, unknownStream |-> 0, unknown |-> names]
    BY <1>1, <1>3, <2>1
  <2> QED BY <2>2, <2>3, <2>4, <2>5 DEF ReportType
<1>6. ASSUME NEW t PROVE AccountsIn(t, r, 0, {})
  <2>1. Cardinality({}) = 0 /\ {} \cap t.refused = {} /\ {} \cap t.undeclared = {}
    BY FS_EmptySet
  <2>2. CountsIn(t, r, 0, {})
    BY <1>4, <2>1 DEF CountsIn
  <2>3. TalliesIn(t, r.tally, {})
    <3>1. \A s : Of(t, {}, s) = {} /\ Reads(t, {}) = {}
      BY DEF Of, Reads
    <3>2. none.events = 0 /\ none.read = 0
      OBVIOUS
    <3> HIDE DEF none
    <3> QED BY <1>2, <1>4, <2>1, <3>1, <3>2 DEF TalliesIn, TallyIn
  <2>4. NamesIn(t, <<>>, {})
    <3>1. Len(<<>>) = 0 /\ DOMAIN <<>> = {} /\ MaxNamed \in Nat
      BY LinesAssumption
    <3> QED BY <3>1 DEF NamesIn
  <2> QED BY <1>4, <2>1, <2>2, <2>3, <2>4 DEF AccountsIn
<1> QED BY <1>3, <1>5, <1>6

LEMMA NewProductIs ==
    ASSUME NEW chain \in Chains
    PROVE  /\ Product(chain) \in ProductType /\ Product(chain).identities = <<>>
           /\ Product(chain).events = <<>> /\ Product(chain).rep = NewReport(chain)
           /\ IdsOf(Product(chain)) = {}
<1>1. PICK p, r, ids, evs : p = Product(chain) /\ r = NewReport(chain) /\ ids = <<>> /\ evs = <<>>
  OBVIOUS
<1>2. p = [identities |-> ids, events |-> evs, rep |-> r]
  BY <1>1 DEF Product
<1>3. ids \in Seq(Identity) /\ evs \in Seq(Event) /\ r \in ReportType /\ ToSet(ids) = {}
  BY <1>1, NewReportIs DEF ToSet
<1>4. p \in ProductType /\ p.identities = ids /\ p.events = evs /\ p.rep = r
  BY <1>2, <1>3 DEF ProductType
<1>5. IdsOf(p) = {}
  BY <1>3, <1>4 DEF IdsOf
<1> QED BY <1>1, <1>4, <1>5

LEMMA ChainIs ==
    ASSUME NEW f \in Files, bus \in Buses
    PROVE  VerifyChain(bus[f], f) \in Chains /\ NoChain \in Chains
           /\ [NoChain EXCEPT !.verified = TRUE] \in Chains
<1>1. NoChain \in Chains /\ [NoChain EXCEPT !.verified = TRUE] \in Chains
  BY DEF NoChain, Chains
<1>2. PICK lines : lines = bus[f]
  OBVIOUS
<1>3. DOMAIN lines \in SUBSET (1..MaxLines) /\ IsFiniteSet(DOMAIN lines)
  <2>1. DOMAIN lines = 1..Len(lines) /\ Len(lines) \in 0..MaxLines
    BY <1>2, BusIs
  <2>2. MaxLines \in Nat
    BY LinesAssumption
  <2> QED BY <2>1, <2>2, FS_Interval
<1> DEFINE Behind(i) == i > 1 /\ lines[i - 1].kind = "event"
           A == {i \in DOMAIN lines : lines[i].kind = "event" /\ (Behind(i) /\ lines[i].prev = "match")}
           B == {i \in DOMAIN lines : lines[i].kind = "event" /\ lines[i].prev = "none"}
           C == {i \in DOMAIN lines : lines[i].kind = "event" /\ (~Behind(i) /\ lines[i].prev # "none")}
           D == {i \in DOMAIN lines : lines[i].kind = "event" /\ (Behind(i) /\ lines[i].prev = "differs")}
           E == {<<f, i>> : i \in D}
<1>4. CASE \E i \in DOMAIN lines : lines[i].kind = "oversized"
  <2>1. VerifyChain(lines, f) = NoChain
    BY <1>4 DEF VerifyChain
  <2> QED BY <1>1, <1>2, <2>1
<1>5. CASE ~\E i \in DOMAIN lines : lines[i].kind = "oversized"
  <2>1. VerifyChain(lines, f) =
          [verified |-> TRUE, chained |-> Cardinality(A), heads |-> Cardinality(B),
           unverifiable |-> Cardinality(C), breaks |-> E]
    BY <1>5 DEF VerifyChain
  <2>2. A \in SUBSET DOMAIN lines /\ B \in SUBSET DOMAIN lines /\ C \in SUBSET DOMAIN lines
    OBVIOUS
  <2>3. E \in SUBSET (Files \X (1..MaxLines))
    BY <1>3
  <2> HIDE DEF A, B, C, E
  <2>4. Cardinality(A) \in Nat /\ Cardinality(B) \in Nat /\ Cardinality(C) \in Nat
    BY <1>3, <2>2, FS_Subset, FS_CardinalityType
  <2>5. VerifyChain(lines, f) \in Chains
    BY <2>1, <2>3, <2>4 DEF Chains
  <2> QED BY <1>1, <1>2, <2>5
<1> QED BY <1>4, <1>5

LEMMA BusAtFirst == ASSUME BusInit PROVE BusInv
<1>1. /\ bus \in Buses /\ status = "running" /\ file = 1 /\ next = 0
      /\ seen = NobodySeen /\ seenInLoad = NobodySeen /\ parsed = Product(NoChain)
      /\ loaded = Product([NoChain EXCEPT !.verified = TRUE])
  BY DEF BusInit, Buses
<1>2. 1 \in Files /\ Files = 1..Len(Stem) /\ Len(Stem) \in Nat /\ MaxLines \in Nat
  BY FilesAre, LinesAssumption
<1>3. NoChain \in Chains /\ [NoChain EXCEPT !.verified = TRUE] \in Chains
  BY <1>1, <1>2, ChainIs
<1>4. /\ parsed \in ProductType /\ parsed.identities = <<>> /\ parsed.events = <<>>
      /\ parsed.rep = NewReport(NoChain) /\ IdsOf(parsed) = {}
      /\ loaded \in ProductType /\ loaded.events = <<>> /\ IdsOf(loaded) = {}
      /\ loaded.rep = NewReport([NoChain EXCEPT !.verified = TRUE])
  BY <1>1, <1>3, NewProductIs
<1>5. NobodySeen \in SeenType /\ NobodySeen.agents = {} /\ NobodySeen.humans = {}
  BY DEF NobodySeen, SeenType
<1>6. Reading
  BY <1>1, <1>2, <1>4, <1>5 DEF Reading, BusTypeOK
<1>7. LinesOfFile = {} /\ LinesBefore = {}
  BY <1>1, <1>2 DEF LinesOfFile, LinesBefore, ScannedLines
<1>8. Counted
  <2>1. Len(<<>>) = 0
    OBVIOUS
  <2> QED BY <1>3, <1>4, <1>7, <2>1, NewReportIs DEF Counted
<1>9. Kept
  <2>1. CarriedSoFar = {} /\ IdsOf(loaded) \cup IdsOf(parsed) = {}
    BY <1>4, <1>7 DEF CarriedSoFar
  <2>2. EventsIn(Script, loaded.events \o parsed.events, {})
    <3>1. loaded.events \o parsed.events = <<>>
      BY <1>4
    <3>2. Len(<<>>) = 0 /\ Cardinality({}) = 0
      BY FS_EmptySet
    <3> QED BY <3>1, <3>2 DEF EventsIn
  <2>3. TracesIn(Script, {}, {})
    BY DEF TracesIn
  <2>4. Known(seenInLoad.agents \cup seenInLoad.humans, IdsOf(loaded))
    BY <1>1, <1>5 DEF Known
  <2>5. ~(next > 0)
    BY <1>1
  <2>6. /\ EventsIn(Script, loaded.events \o parsed.events, CarriedSoFar)
        /\ TracesIn(Script, IdsOf(loaded) \cup IdsOf(parsed), CarriedSoFar)
    <3>1. TracesIn(Script, IdsOf(loaded) \cup IdsOf(parsed), CarriedSoFar)
      BY <2>1, <2>3, Zenon
    <3>2. EventsIn(Script, loaded.events \o parsed.events, CarriedSoFar)
      BY <2>1, <2>2, Zenon
    <3> QED BY <3>1, <3>2
  <2> QED BY <2>4, <2>5, <2>6, Zenon DEF Kept
<1> QED BY <1>6, <1>8, <1>9 DEF BusInv

(* The scanner takes one more line of the file it is in.                    *)
TakesLine ==
    /\ status = "running" /\ next \in DOMAIN bus[file] /\ bus[file][next].kind # "oversized"
    /\ next' = next + 1
    /\ UNCHANGED <<bus, policy, status, file, loaded, seenInLoad>>

LEMMA NextLine ==
    ASSUME Reading, TakesLine, NEW q, q = <<file, next>>
    PROVE  /\ q \in ScannedLines /\ q \notin LinesOfFile /\ q \notin LinesBefore /\ q[1] = file
           /\ LineAt(q) = bus[file][next] /\ bus[file][next] \in Line /\ next \in Nat \ {0}
           /\ LinesOfFile' = LinesOfFile \cup {q} /\ LinesBefore' = LinesBefore
           /\ LinesOfFile \in SUBSET ScannedLines /\ LinesBefore \in SUBSET ScannedLines
           /\ \A p \in LinesOfFile : p[1] = file
           /\ NotAfter(q, q)
           /\ \A p \in LinesBefore \cup LinesOfFile :
                NotAfter(p, p) /\ NotAfter(p, q) /\ ~NotAfter(q, p)
<1>1. /\ file \in Files /\ next \in Nat /\ bus \in Buses /\ Files \subseteq Nat /\ MaxLines \in Nat
      /\ status = "running" /\ next' = next + 1 /\ file' = file /\ status' = status
      /\ bus' = bus /\ policy' = policy
  BY FilesAre, LinesAssumption DEF Reading, BusTypeOK, TakesLine
<1>2. PICK len \in 0..MaxLines :
        len = Len(bus[file]) /\ DOMAIN bus[file] = 1..len /\ bus[file] \in Seq(Line)
  BY <1>1, BusIs
<1>3. next \in 1..len /\ next \in 1..MaxLines /\ bus[file][next] \in Line
  <2>1. next \in 1..len
    BY <1>2 DEF TakesLine
  <2>2. bus[file][next] \in Line
    BY <1>2, <2>1
  <2> QED BY <1>1, <2>1, <2>2
<1>4. \A j \in 1..next : bus[file][j].kind # "oversized"
  <2>1. \A j \in 1..(next - 1) : bus[file][j].kind # "oversized"
    BY <1>3 DEF Reading
  <2>2. \A j \in 1..next : j \in 1..(next - 1) \/ j = next
    BY <1>3
  <2> QED BY <2>1, <2>2 DEF TakesLine
<1>5. q \in Files \X (1..MaxLines) /\ q[1] = file /\ q[2] = next
  BY <1>1, <1>3
<1>6. q \in ScannedLines
  BY <1>2, <1>3, <1>4, <1>5 DEF ScannedLines
<1>7. \A p \in ScannedLines : p = <<p[1], p[2]>> /\ p[1] \in Nat /\ p[2] \in Nat
  BY <1>1 DEF ScannedLines
<1>8. ScannedLines' = ScannedLines
  BY <1>1 DEF ScannedLines
<1>9. LinesOfFile = {p \in ScannedLines : p[1] = file /\ p[2] < next}
  BY DEF LinesOfFile
<1>10. LinesOfFile' = {p \in ScannedLines : p[1] = file /\ p[2] < next + 1}
  BY <1>1, <1>8 DEF LinesOfFile
<1>11. LinesBefore = {p \in ScannedLines : p[1] < file}
  BY <1>1 DEF LinesBefore
<1>12. LinesBefore' = LinesBefore
  BY <1>1, <1>8 DEF LinesBefore
<1>13. \A p \in ScannedLines : p[1] = file /\ p[2] < next + 1 <=> (p[1] = file /\ p[2] < next) \/ p = q
  BY <1>1, <1>5, <1>7
<1>14. LinesOfFile' = LinesOfFile \cup {q}
  BY <1>6, <1>9, <1>10, <1>13
<1>15. q \notin LinesOfFile /\ q \notin LinesBefore
  BY <1>1, <1>5, <1>9, <1>11
<1>16. NotAfter(q, q)
  BY <1>1, <1>5 DEF NotAfter
<1>17. ASSUME NEW p \in LinesBefore \cup LinesOfFile
       PROVE  NotAfter(p, p) /\ NotAfter(p, q) /\ ~NotAfter(q, p)
  <2>1. p[1] \in Nat /\ p[2] \in Nat /\ (p[1] < file \/ (p[1] = file /\ p[2] < next))
    BY <1>7, <1>9, <1>11
  <2> QED BY <1>1, <1>5, <2>1 DEF NotAfter
<1>18. LineAt(q) = bus[file][next]
  BY <1>5 DEF LineAt
<1> QED BY <1>3, <1>5, <1>6, <1>9, <1>11, <1>12, <1>14, <1>15, <1>16, <1>17, <1>18

LEMMA StillReading ==
    ASSUME Reading, TakesLine, parsed' \in ProductType, seen' \in SeenType
    PROVE  Reading'
<1>1. /\ file \in Files /\ next \in Nat /\ bus \in Buses /\ MaxLines \in Nat
      /\ status = "running" /\ next' = next + 1 /\ file' = file /\ status' = status
      /\ bus' = bus /\ loaded' = loaded /\ seenInLoad' = seenInLoad
  BY LinesAssumption DEF Reading, BusTypeOK, TakesLine
<1>2. PICK len \in 0..MaxLines : len = Len(bus[file]) /\ DOMAIN bus[file] = 1..len
  BY <1>1, BusIs
<1>3. next \in 1..len
  BY <1>2 DEF TakesLine
<1>4. \A j \in 1..((next + 1) - 1) : bus[file][j].kind # "oversized"
  <2>1. \A j \in 1..(next - 1) : bus[file][j].kind # "oversized"
    BY <1>3 DEF Reading
  <2>2. \A j \in 1..((next + 1) - 1) : j \in 1..(next - 1) \/ j = next
    BY <1>3
  <2> QED BY <2>1, <2>2 DEF TakesLine
<1>5. next + 1 \in 0..(MaxLines + 1) /\ next + 1 <= len + 1 /\ next + 1 # 0
  BY <1>1, <1>3
<1>6. BusTypeOK'
  BY <1>1, <1>5 DEF Reading, BusTypeOK
<1> QED BY <1>1, <1>2, <1>4, <1>5, <1>6 DEF Reading

(* A line that is not carried leaves no trace.                             *)
LEMMA NotCarried ==
    ASSUME Reading, Kept, TakesLine, <<file, next>> \notin CarriedLines, seen' = seen,
           parsed'.identities = parsed.identities, parsed'.events = parsed.events
    PROVE  Kept'
<1>1. PICK q : q = <<file, next>>
  OBVIOUS
<1>2. /\ q \notin CarriedLines /\ LinesOfFile' = LinesOfFile \cup {q} /\ LinesBefore' = LinesBefore
      /\ next \in Nat \ {0}
  BY <1>1, NextLine
<1>3. /\ Script' = Script /\ CarriedLines' = CarriedLines /\ loaded' = loaded
      /\ seenInLoad' = seenInLoad /\ status' = status
  BY ScriptStands DEF TakesLine
<1>4. CarriedSoFar' = CarriedSoFar
  BY <1>2, <1>3 DEF CarriedSoFar
<1>5. IdsOf(parsed)' = IdsOf(parsed) /\ IdsOf(loaded)' = IdsOf(loaded)
  BY <1>3 DEF IdsOf
<1> QED BY <1>2, <1>3, <1>4, <1>5 DEF Kept

LEMMA SkipKeeps == ASSUME BusInv, SkipMalformed PROVE BusInv'
<1>1. Reading /\ Kept /\ Counted /\ TakesLine /\ seen' = seen /\ bus[file][next].kind = "malformed"
  BY DEF BusInv, SkipMalformed, Scans, TakesLine
<1>2. parsed \in ProductType /\ seen \in SeenType /\ bus \in Buses
  BY <1>1 DEF Reading, BusTypeOK
<1>3. /\ parsed' \in ProductType
      /\ parsed'.identities = parsed.identities /\ parsed'.events = parsed.events
      /\ parsed'.rep = [parsed.rep EXCEPT !.lines = @ + 1, !.malformed = @ + 1]
  BY <1>2, Skipped
<1>4. PICK q : q = <<file, next>>
  OBVIOUS
<1>5. /\ q \in ScannedLines /\ q \notin LinesOfFile /\ LineAt(q) = bus[file][next]
      /\ LinesOfFile' = LinesOfFile \cup {q} /\ LinesBefore' = LinesBefore
      /\ LinesOfFile \in SUBSET ScannedLines
  BY <1>1, <1>4, NextLine
<1>6. q \notin CarriedLines /\ q \notin RefusedLines
  BY <1>1, <1>5 DEF CarriedLines, RefusedLines
<1>7. Reading' /\ Kept'
  BY <1>1, <1>2, <1>3, <1>4, <1>6, StillReading, NotCarried
<1>8. Counted'
  <2>1. PICK t, r, s, n, L : /\ t = Script /\ r = parsed.rep /\ s = parsed'.rep
                             /\ n = Len(parsed.events) /\ L = LinesOfFile
    OBVIOUS
  <2>2. /\ IsScript(t) /\ L \in SUBSET t.scanned /\ q \in t.scanned /\ q \notin L
        /\ q \notin t.refused /\ q \notin t.carried
    BY <1>2, <1>5, <1>6, <2>1, ScriptIs
  <2>3. r \in ReportType /\ n \in Nat
    BY <1>2, <2>1, ProductIs
  <2>4. AccountsIn(t, r, n, L)
    BY <1>1, <2>1 DEF Counted
  <2>5. /\ SameLists(s, r) /\ s.lines = r.lines + 1 /\ s.malformed = r.malformed + 1
        /\ s.foreignSource = r.foreignSource /\ s.unknownStream = r.unknownStream
    <3>1. s = [r EXCEPT !.lines = @ + 1, !.malformed = @ + 1]
      BY <1>3, <2>1
    <3> QED BY <2>3, <3>1 DEF SameLists, ReportType
  <2>6. AccountsIn(t, s, n, L \cup {q})
    BY <2>2, <2>3, <2>4, <2>5, SkipAccounts
  <2>7. Script' = Script /\ loaded' = loaded
    BY <1>1, ScriptStands DEF TakesLine
  <2>8. /\ AccountsIn(Script', parsed'.rep, Len(parsed'.events), LinesOfFile')
        /\ AccountsIn(Script', loaded'.rep, Len(loaded'.events), LinesBefore')
    BY <1>1, <1>3, <1>5, <2>1, <2>6, <2>7 DEF Counted
  <2> QED BY <2>8 DEF Counted
<1> QED BY <1>7, <1>8 DEF BusInv

LEMMA RefuseKeeps == ASSUME BusInv, RefuseForeign PROVE BusInv'
<1>1. /\ Reading /\ Kept /\ Counted /\ TakesLine /\ seen' = seen
      /\ bus[file][next].kind = "event"
      /\ Check(policy, Stem[file], bus[file][next].source) = "foreign"
  BY DEF BusInv, RefuseForeign, Scans, TakesLine
<1>2. parsed \in ProductType /\ seen \in SeenType /\ bus \in Buses
  BY <1>1 DEF Reading, BusTypeOK
<1>3. PICK q, c : q = <<file, next>> /\ c = bus[file][next].source
  OBVIOUS
<1>4. /\ q \in ScannedLines /\ q \notin LinesOfFile /\ LineAt(q) = bus[file][next]
      /\ LinesOfFile' = LinesOfFile \cup {q} /\ LinesBefore' = LinesBefore
      /\ LinesOfFile \in SUBSET ScannedLines /\ q[1] = file
      /\ \A p \in LinesOfFile : p[1] = file
  BY <1>1, <1>3, NextLine
<1>5. q \in RefusedLines /\ q \notin CarriedLines
  BY <1>1, <1>4 DEF CarriedLines, RefusedLines, VerdictOn
<1>6. PICK t, r, n, L, names :
        /\ t = Script /\ r = parsed.rep /\ n = Len(parsed.events) /\ L = LinesOfFile
        /\ names = Named(parsed.rep.foreign, file, c)
  OBVIOUS
<1>7. /\ IsScript(t) /\ L \in SUBSET t.scanned /\ q \in t.refused /\ q \notin L
      /\ t.line[q].source = c /\ t.scanned = ScannedLines
  BY <1>2, <1>3, <1>4, <1>5, <1>6, ScriptIs
<1>8. r \in ReportType /\ n \in Nat /\ r.foreign \in Seq(Pairs)
  BY <1>2, <1>6, ProductIs
<1>9. AccountsIn(t, r, n, L)
  BY <1>1, <1>6 DEF Counted
<1>10. names \in Seq(Pairs)
  <2>1. /\ L \cap t.refused \in SUBSET t.scanned /\ q \in t.scanned \ (L \cap t.refused)
        /\ \A p \in L \cap t.refused : p[1] = file
    BY <1>4, <1>6, <1>7
  <2>2. NamesIn(t, r.foreign, L \cap t.refused)
    BY <1>9 DEF AccountsIn
  <2>3. Named(r.foreign, file, c) \in Seq(Pairs)
    BY <1>4, <1>7, <1>8, <2>1, <2>2, NamedTells
  <2> QED BY <1>6, <2>3
<1>11. /\ parsed' \in ProductType
       /\ parsed'.identities = parsed.identities /\ parsed'.events = parsed.events
       /\ parsed'.rep = [parsed.rep EXCEPT !.lines = @ + 1, !.foreignSource = @ + 1,
                                           !.foreign = names]
  BY <1>2, <1>3, <1>6, <1>10, RefusedFields
<1>12. Reading' /\ Kept'
  BY <1>1, <1>2, <1>3, <1>5, <1>11, StillReading, NotCarried
<1>13. PICK s : s = parsed'.rep
  OBVIOUS
<1>14. /\ s.tally = r.tally /\ s.unknown = r.unknown /\ s.foreign = Named(r.foreign, file, c)
       /\ s.lines = r.lines + 1 /\ s.malformed = r.malformed
       /\ s.foreignSource = r.foreignSource + 1 /\ s.unknownStream = r.unknownStream
  <2>1. s = [r EXCEPT !.lines = @ + 1, !.foreignSource = @ + 1, !.foreign = names]
    BY <1>6, <1>11, <1>13
  <2>2. names = Named(r.foreign, file, c)
    BY <1>6
  <2> QED BY <1>8, <2>1, <2>2 DEF ReportType
<1>15. AccountsIn(t, s, n, L \cup {q})
  <2>1. \A p \in L : p[1] = file
    BY <1>4, <1>6
  <2> QED BY <1>4, <1>7, <1>8, <1>9, <1>14, <2>1, RefuseAccounts
<1>16. Counted'
  <2>1. Script' = Script /\ loaded' = loaded
    BY <1>1, ScriptStands DEF TakesLine
  <2>2. /\ AccountsIn(Script', parsed'.rep, Len(parsed'.events), LinesOfFile')
        /\ AccountsIn(Script', loaded'.rep, Len(loaded'.events), LinesBefore')
    BY <1>1, <1>4, <1>6, <1>11, <1>13, <1>15, <2>1 DEF Counted
  <2> QED BY <2>2 DEF Counted
<1> QED BY <1>12, <1>16 DEF BusInv

LEMMA IngestKeeps == ASSUME BusInv, IngestLine PROVE BusInv'
<1>1. /\ Reading /\ Kept /\ Counted /\ TakesLine
      /\ bus[file][next].kind = "event"
      /\ Check(policy, Stem[file], bus[file][next].source) # "foreign"
  BY DEF BusInv, IngestLine, Scans, TakesLine
<1>2. /\ parsed \in ProductType /\ loaded \in ProductType /\ seen \in SeenType /\ bus \in Buses
      /\ status = "running" /\ next \in Nat
  BY <1>1 DEF Reading, BusTypeOK, TakesLine
<1>3. PICK q, l, c, v : /\ q = <<file, next>> /\ l = bus[file][next] /\ c = l.source
                        /\ v = Check(policy, Stem[file], l.source)
  OBVIOUS
<1>4. /\ q \in ScannedLines /\ q \notin LinesOfFile /\ q \notin LinesBefore /\ LineAt(q) = l
      /\ l \in Line /\ LinesOfFile' = LinesOfFile \cup {q} /\ LinesBefore' = LinesBefore
      /\ LinesOfFile \in SUBSET ScannedLines /\ LinesBefore \in SUBSET ScannedLines
      /\ q[1] = file /\ \A p \in LinesOfFile : p[1] = file
  BY <1>1, <1>3, NextLine
<1>5. q \in CarriedLines /\ (q \in UndeclaredLines <=> v = "undeclared")
  BY <1>1, <1>3, <1>4 DEF CarriedLines, UndeclaredLines, VerdictOn
<1>6. PICK t, r, n, L, names :
        /\ t = Script /\ r = parsed.rep /\ n = Len(parsed.events) /\ L = LinesOfFile
        /\ names = IF v = "undeclared" THEN Named(parsed.rep.unknown, file, l.source)
                   ELSE parsed.rep.unknown
  OBVIOUS
<1>7. /\ IsScript(t) /\ L \in SUBSET t.scanned /\ q \in t.carried /\ q \notin L
      /\ t.line[q] = l /\ t.scanned = ScannedLines
      /\ (q \in t.undeclared <=> v = "undeclared")
  BY <1>2, <1>4, <1>5, <1>6, ScriptIs
<1>8. r \in ReportType /\ n \in Nat /\ r.unknown \in Seq(Pairs)
  BY <1>2, <1>6, ProductIs
<1>9. AccountsIn(t, r, n, L)
  BY <1>1, <1>6 DEF Counted
<1>10. names \in Seq(Pairs)
  <2>1. /\ L \cap t.undeclared \in SUBSET t.scanned /\ q \in t.scanned \ (L \cap t.undeclared)
        /\ \A p \in L \cap t.undeclared : p[1] = file
    BY <1>4, <1>6, <1>7
  <2>2. NamesIn(t, r.unknown, L \cap t.undeclared)
    BY <1>9 DEF AccountsIn
  <2>3. Named(r.unknown, file, c) \in Seq(Pairs)
    BY <1>3, <1>4, <1>7, <1>8, <2>1, <2>2, NamedTells
  <2>4. CASE v = "undeclared"
    BY <1>3, <1>6, <2>3, <2>4
  <2>5. CASE v # "undeclared"
    BY <1>6, <1>8, <2>5
  <2> QED BY <2>4, <2>5
<1>11. /\ SubjectOf(l) \in Seq(Identity) /\ HumansOf(l) \in Seq(Identity)
       /\ \A i \in ToSet(SubjectOf(l)) : i.source = l.source /\ i.id = l.agent
       /\ l.agent \in seen.agents \/ \E i \in ToSet(SubjectOf(l)) : i.id = l.agent
       /\ \A i \in ToSet(HumansOf(l)) :
            i.source = l.source /\ i.id \in ToSet(l.principals) \cap Humans
       /\ \A x \in ToSet(l.principals) \cap Humans :
            x \in seen.humans \/ \E i \in ToSet(HumansOf(l)) : i.id = x
       /\ \A x \in ToSet(NewHumans(l)) :
            x \in Humans /\ \E i \in ToSet(HumansOf(l)) : i.id = x
  BY <1>4, SubjectIs, HumansAre
<1>12. PICK e : e = [agent |-> l.agent, source |-> l.source, read |-> l.read]
  OBVIOUS
<1>13. /\ parsed' \in ProductType
       /\ parsed'.identities = parsed.identities \o SubjectOf(l) \o HumansOf(l)
       /\ parsed'.events = Append(parsed.events, e)
       /\ parsed'.rep.lines = parsed.rep.lines + 1
       /\ parsed'.rep.tally = TallyMore(parsed.rep.tally, l.source, l.read)
       /\ parsed'.rep.unknownStream = IF v = "undeclared" THEN parsed.rep.unknownStream + 1
                                      ELSE parsed.rep.unknownStream
       /\ parsed'.rep.unknown = names /\ parsed'.rep.malformed = parsed.rep.malformed
       /\ parsed'.rep.foreignSource = parsed.rep.foreignSource
       /\ parsed'.rep.foreign = parsed.rep.foreign
  <2>1. /\ l = bus[file][next] /\ v = Check(policy, Stem[file], l.source) /\ l \in Line
        /\ names = IF v = "undeclared" THEN Named(parsed.rep.unknown, file, l.source)
                   ELSE parsed.rep.unknown
        /\ SubjectOf(l) \in Seq(Identity) /\ HumansOf(l) \in Seq(Identity)
    BY <1>3, <1>4, <1>6, <1>11
  <2>2. /\ parsed' \in ProductType
        /\ parsed'.identities = parsed.identities \o SubjectOf(l) \o HumansOf(l)
        /\ parsed'.events = Append(parsed.events, [agent |-> l.agent, source |-> l.source,
                                                   read |-> l.read])
        /\ parsed'.rep.lines = parsed.rep.lines + 1
        /\ parsed'.rep.tally = TallyMore(parsed.rep.tally, l.source, l.read)
        /\ parsed'.rep.unknownStream = IF v = "undeclared" THEN parsed.rep.unknownStream + 1
                                       ELSE parsed.rep.unknownStream
        /\ parsed'.rep.unknown = names /\ parsed'.rep.malformed = parsed.rep.malformed
        /\ parsed'.rep.foreignSource = parsed.rep.foreignSource
        /\ parsed'.rep.foreign = parsed.rep.foreign
    BY <1>2, <1>10, <2>1, Ingested
  <2> QED BY <1>12, <2>2
<1>14. /\ seen' = [agents |-> seen.agents \cup {l.agent},
                   humans |-> seen.humans \cup ToSet(NewHumans(l))]
       /\ seen' \in SeenType
  <2>1. seen' = [agents |-> seen.agents \cup {l.agent},
                 humans |-> seen.humans \cup ToSet(NewHumans(l))]
    BY <1>3 DEF IngestLine
  <2>2. l.agent \in AgentIDs /\ ToSet(NewHumans(l)) \subseteq Humans
    BY <1>4, <1>11 DEF Line
  <2> QED BY <1>2, <2>1, <2>2 DEF SeenType
<1>15. Reading'
  BY <1>1, <1>13, <1>14, StillReading
<1>16. Counted'
  <2>1. PICK s : s = parsed'.rep
    OBVIOUS
  <2>2. /\ s.tally = TallyMore(r.tally, c, t.line[q].read) /\ s.foreign = r.foreign
        /\ s.lines = r.lines + 1 /\ s.malformed = r.malformed /\ s.foreignSource = r.foreignSource
        /\ c = t.line[q].source
    BY <1>3, <1>6, <1>7, <1>13, <2>1
  <2>3. /\ q \in t.undeclared => /\ s.unknown = Named(r.unknown, file, c)
                                 /\ s.unknownStream = r.unknownStream + 1
        /\ q \notin t.undeclared => s.unknown = r.unknown /\ s.unknownStream = r.unknownStream
    BY <1>3, <1>6, <1>7, <1>13, <2>1
  <2>4. \A p \in L : p[1] = file
    BY <1>4, <1>6
  <2>5. AccountsIn(t, s, n + 1, L \cup {q})
    BY <1>4, <1>7, <1>8, <1>9, <2>2, <2>3, <2>4, IngestAccounts
  <2>6. Script' = Script /\ loaded' = loaded
    BY <1>1, ScriptStands DEF TakesLine
  <2>7. Len(parsed'.events) = n + 1
    <3>1. parsed.events \in Seq(Event) /\ e \in Event
      BY <1>2, <1>4, <1>12, ProductIs DEF Event, Line
    <3> QED BY <1>6, <1>13, <3>1
  <2>8. /\ AccountsIn(Script', parsed'.rep, Len(parsed'.events), LinesOfFile')
        /\ AccountsIn(Script', loaded'.rep, Len(loaded'.events), LinesBefore')
    BY <1>1, <1>4, <1>6, <2>1, <2>5, <2>6, <2>7 DEF Counted
  <2> QED BY <2>8 DEF Counted
<1>17. Kept'
  <2>1. /\ Script' = Script /\ CarriedLines' = CarriedLines /\ loaded' = loaded
        /\ seenInLoad' = seenInLoad /\ status' = status
    BY <1>1, ScriptStands DEF TakesLine
  <2>2. CarriedSoFar' = CarriedSoFar \cup {q} /\ q \notin CarriedSoFar
    BY <1>4, <1>5, <2>1 DEF CarriedSoFar
  <2>3. /\ EventsIn(Script, loaded.events \o parsed.events, CarriedSoFar)
        /\ TracesIn(Script, IdsOf(loaded) \cup IdsOf(parsed), CarriedSoFar)
        /\ Known(seenInLoad.agents \cup seenInLoad.humans, IdsOf(loaded))
        /\ Known(seen.agents \cup seen.humans, IdsOf(parsed))
    <3>1. next > 0
      BY <1>1, <1>3, NextLine
    <3> QED BY <1>1, <1>2, <3>1 DEF Kept
  <2>4. PICK more, ids : more = ToSet(SubjectOf(l)) \cup ToSet(HumansOf(l)) /\ ids = IdsOf(parsed)
    OBVIOUS
  <2>5. IdsOf(parsed)' = ids \cup more /\ IdsOf(loaded)' = IdsOf(loaded)
    <3>1. parsed.identities \in Seq(Identity)
      BY <1>2, ProductIs
    <3>2. /\ parsed.identities \o SubjectOf(l) \in Seq(Identity)
          /\ ToSet(parsed.identities \o SubjectOf(l)) =
               ToSet(parsed.identities) \cup ToSet(SubjectOf(l))
      BY <1>11, <3>1, ToSetOfBoth
    <3>3. ToSet((parsed.identities \o SubjectOf(l)) \o HumansOf(l)) =
            ToSet(parsed.identities \o SubjectOf(l)) \cup ToSet(HumansOf(l))
      <4>1. PICK a, b : a = parsed.identities \o SubjectOf(l) /\ b = HumansOf(l)
        OBVIOUS
      <4>2. a \in Seq(Identity) /\ b \in Seq(Identity)
        BY <1>11, <3>2, <4>1
      <4>3. ToSet(a \o b) = ToSet(a) \cup ToSet(b)
        BY <4>2, ToSetOfBoth
      <4> QED BY <4>1, <4>3
    <3> QED BY <1>13, <2>1, <2>4, <3>2, <3>3 DEF IdsOf
  <2>6. EventsIn(Script, loaded'.events \o parsed'.events, CarriedSoFar')
    <3>1. e \in Event /\ e = EventOf(t, q)
      BY <1>4, <1>7, <1>12 DEF Event, Line, EventOf
    <3>2. loaded.events \in Seq(Event) /\ parsed.events \in Seq(Event)
      BY <1>2, ProductIs
    <3>3. PICK evs : evs = loaded.events \o parsed.events
      OBVIOUS
    <3>4. evs \in Seq(Event) /\ loaded'.events \o parsed'.events = Append(evs, e)
      <4>1. evs \in Seq(Event)
        BY <3>2, <3>3
      <4>2. loaded.events \o Append(parsed.events, e) = Append(loaded.events \o parsed.events, e)
        <5>1. PICK a, b : a = loaded.events /\ b = parsed.events
          OBVIOUS
        <5>2. a \in Seq(Event) /\ b \in Seq(Event)
          BY <3>2, <5>1
        <5>3. a \o Append(b, e) = Append(a \o b, e)
          BY <3>1, <5>2, AppendLast
        <5> QED BY <5>1, <5>3
      <4> QED BY <1>13, <2>1, <3>3, <4>1, <4>2
    <3>5. CarriedSoFar \in SUBSET ScannedLines /\ IsFiniteSet(CarriedSoFar)
      <4>1. CarriedSoFar \in SUBSET ScannedLines
        BY <1>4 DEF CarriedSoFar
      <4> QED BY <1>6, <1>7, <4>1, FS_Subset DEF IsScript
    <3>6. /\ NotAfter(q, q)
          /\ \A p \in CarriedSoFar : NotAfter(p, p) /\ NotAfter(p, q) /\ ~NotAfter(q, p)
      <4>1. /\ NotAfter(q, q)
            /\ \A p \in LinesBefore \cup LinesOfFile :
                 NotAfter(p, p) /\ NotAfter(p, q) /\ ~NotAfter(q, p)
        BY <1>1, <1>3, NextLine
      <4> QED BY <4>1 DEF CarriedSoFar
    <3>7. PICK C : C = CarriedSoFar
      OBVIOUS
    <3>8. EventsIn(t, evs, C)
      BY <1>6, <2>3, <3>3, <3>7
    <3>9. EventsIn(t, Append(evs, e), C \cup {q})
      BY <2>2, <3>1, <3>4, <3>5, <3>6, <3>7, <3>8, EventsGrow
    <3> QED BY <1>6, <2>2, <3>4, <3>7, <3>9
  <2>7. TracesIn(Script, (IdsOf(loaded) \cup ids) \cup more, CarriedSoFar \cup {q})
    <3>1. Mentioned(t, q) = {l.agent} \cup (ToSet(l.principals) \cap Humans)
      BY <1>7 DEF Mentioned
    <3>2. \A i \in more : i.source = t.line[q].source /\ i.id \in Mentioned(t, q)
      BY <1>7, <1>11, <2>4, <3>1
    <3>3. \A x \in Mentioned(t, q) : \E i \in (IdsOf(loaded) \cup ids) \cup more : i.id = x
      <4>1. \A x \in Mentioned(t, q) :
              x \in seen.agents \cup seen.humans \/ \E i \in more : i.id = x
        BY <1>11, <2>4, <3>1
      <4>2. \A x \in seen.agents \cup seen.humans : \E i \in ids : i.id = x
        BY <2>3, <2>4 DEF Known
      <4> QED BY <4>1, <4>2
    <3>4. TracesIn(t, IdsOf(loaded) \cup ids, CarriedSoFar)
      BY <1>6, <2>3, <2>4
    <3>5. TracesIn(t, (IdsOf(loaded) \cup ids) \cup more, CarriedSoFar \cup {q})
      BY <3>2, <3>3, <3>4, TracesGrow
    <3> QED BY <1>6, <3>5
  <2>8. TracesIn(Script, IdsOf(loaded)' \cup IdsOf(parsed)', CarriedSoFar')
    <3>1. IdsOf(loaded)' \cup IdsOf(parsed)' = (IdsOf(loaded) \cup ids) \cup more
      BY <2>5
    <3> QED BY <2>2, <2>7, <3>1
  <2>9. Known(seen'.agents \cup seen'.humans, IdsOf(parsed)')
    <3>1. seen'.agents \cup seen'.humans =
            (seen.agents \cup seen.humans) \cup ({l.agent} \cup ToSet(NewHumans(l)))
      BY <1>14
    <3>2. \A x \in seen.agents \cup seen.humans : \E i \in ids : i.id = x
      BY <2>3, <2>4 DEF Known
    <3>3. \A x \in {l.agent} \cup ToSet(NewHumans(l)) :
            x \in seen.agents \/ \E i \in more : i.id = x
      BY <1>11, <2>4
    <3> QED BY <2>5, <3>1, <3>2, <3>3 DEF Known
  <2> QED BY <2>1, <2>3, <2>5, <2>6, <2>8, <2>9 DEF Kept
<1> QED BY <1>15, <1>16, <1>17 DEF BusInv

(* Between two files: nothing of the one that is read next is counted.      *)
LEMMA NothingOfIt ==
    ASSUME Reading, next \in {0, 1} PROVE LinesOfFile = {}
<1>1. \A p \in ScannedLines : ~(p[2] < next)
  <2>1. MaxLines \in Nat
    BY LinesAssumption
  <2> QED BY <2>1 DEF ScannedLines
<1> QED BY <1>1 DEF LinesOfFile

LEMMA OpenKeeps == ASSUME BusInv, OpenFile PROVE BusInv'
<1>1. /\ Reading /\ Kept /\ Counted /\ status = "running" /\ next = 0 /\ next' = 1
      /\ seen' = NobodySeen /\ parsed' = Product(VerifyChain(bus[file], file))
      /\ UNCHANGED <<bus, policy, status, file, loaded, seenInLoad>>
  BY DEF BusInv, OpenFile
<1>2. /\ file \in Files /\ bus \in Buses /\ parsed \in ProductType /\ loaded \in ProductType
      /\ seenInLoad \in SeenType /\ parsed.identities = <<>> /\ parsed.events = <<>>
      /\ MaxLines \in Nat
  BY <1>1, LinesAssumption DEF Reading, BusTypeOK
<1>3. PICK chain : chain = VerifyChain(bus[file], file)
  OBVIOUS
<1>4. /\ parsed' \in ProductType /\ parsed'.identities = <<>> /\ parsed'.events = <<>>
      /\ parsed'.rep = NewReport(chain) /\ chain \in Chains
  <2>1. chain \in Chains
    BY <1>2, <1>3, ChainIs
  <2> QED BY <1>1, <1>3, <2>1, NewProductIs
<1>5. NobodySeen \in SeenType /\ NobodySeen.agents = {} /\ NobodySeen.humans = {}
  BY DEF NobodySeen, SeenType
<1>6. PICK len \in 0..MaxLines : len = Len(bus[file])
  BY <1>2, BusIs
<1>7. Reading'
  <2>1. BusTypeOK'
    BY <1>1, <1>2, <1>4, <1>5 DEF Reading, BusTypeOK
  <2>2. 1 <= len + 1 /\ 1..(1 - 1) = {} /\ 1 # 0
    BY <1>2, <1>6
  <2> QED BY <1>1, <1>2, <1>6, <2>1, <2>2 DEF Reading
<1>8. LinesOfFile = {} /\ LinesOfFile' = {} /\ LinesBefore' = LinesBefore /\ Script' = Script
      /\ CarriedLines' = CarriedLines
  <2>1. /\ Script' = Script /\ ScannedLines' = ScannedLines /\ CarriedLines' = CarriedLines
    BY <1>1, ScriptStands
  <2>2. LinesOfFile = {}
    BY <1>1, NothingOfIt
  <2>3. LinesOfFile' = {}
    <3>1. \A p \in ScannedLines : ~(p[2] < 1)
      BY <1>2 DEF ScannedLines
    <3> QED BY <1>1, <2>1, <3>1 DEF LinesOfFile
  <2>4. LinesBefore' = LinesBefore
    BY <1>1, <2>1 DEF LinesBefore
  <2> QED BY <2>1, <2>2, <2>3, <2>4
<1>9. Counted'
  <2>1. AccountsIn(Script', NewReport(chain), 0, {})
    BY <1>4, NewReportIs
  <2>2. Len(<<>>) = 0
    OBVIOUS
  <2>3. AccountsIn(Script', parsed'.rep, Len(parsed'.events), LinesOfFile')
    BY <1>4, <1>8, <2>1, <2>2
  <2>4. AccountsIn(Script', loaded'.rep, Len(loaded'.events), LinesBefore')
    BY <1>1, <1>8 DEF Counted
  <2> QED BY <2>3, <2>4 DEF Counted
<1>10. Kept'
  <2>1. CarriedSoFar' = CarriedSoFar
    BY <1>8 DEF CarriedSoFar
  <2>2. IdsOf(parsed)' = IdsOf(parsed) /\ IdsOf(loaded)' = IdsOf(loaded)
    BY <1>1, <1>2, <1>4 DEF IdsOf
  <2>3. Known(seen'.agents \cup seen'.humans, IdsOf(parsed)')
    BY <1>1, <1>5 DEF Known
  <2>4. /\ EventsIn(Script, loaded.events \o parsed.events, CarriedSoFar)
        /\ TracesIn(Script, IdsOf(loaded) \cup IdsOf(parsed), CarriedSoFar)
        /\ Known(seenInLoad.agents \cup seenInLoad.humans, IdsOf(loaded))
    BY <1>1 DEF Kept
  <2>5. /\ EventsIn(Script', loaded'.events \o parsed'.events, CarriedSoFar')
        /\ TracesIn(Script', IdsOf(loaded)' \cup IdsOf(parsed)', CarriedSoFar')
        /\ Known(seenInLoad'.agents \cup seenInLoad'.humans, IdsOf(loaded)')
    BY <1>1, <1>2, <1>4, <1>8, <2>1, <2>2, <2>4
  <2> QED BY <2>3, <2>5 DEF Kept
<1> QED BY <1>7, <1>9, <1>10 DEF BusInv

LEMMA FailureKeeps == ASSUME BusInv, ReadFails PROVE BusInv'
<1>1. /\ Reading /\ Kept /\ Counted /\ status = "running" /\ next = 0
      /\ status' = "failed" /\ loaded' = Product(NoChain)
      /\ UNCHANGED <<bus, policy, file, next, seen, parsed, seenInLoad>>
  BY DEF BusInv, ReadFails
<1>2. bus \in Buses /\ file \in Files
  BY <1>1 DEF Reading, BusTypeOK
<1>3. /\ loaded' \in ProductType /\ loaded'.events = <<>> /\ loaded'.rep = NewReport(NoChain)
      /\ NoChain \in Chains
  BY <1>1, <1>2, ChainIs, NewProductIs
<1>4. Reading'
  BY <1>1, <1>3 DEF Reading, BusTypeOK
<1>5. /\ Script' = Script /\ ScannedLines' = ScannedLines
  BY <1>1, ScriptStands
<1>6. LinesOfFile' = LinesOfFile /\ LinesBefore' = {}
  BY <1>1, <1>5 DEF LinesOfFile, LinesBefore
<1>7. Counted'
  <2>1. AccountsIn(Script', NewReport(NoChain), 0, {}) /\ Len(<<>>) = 0
    BY <1>3, NewReportIs
  <2>2. AccountsIn(Script', loaded'.rep, Len(loaded'.events), LinesBefore')
    BY <1>3, <1>6, <2>1
  <2>3. AccountsIn(Script', parsed'.rep, Len(parsed'.events), LinesOfFile')
    BY <1>1, <1>5, <1>6 DEF Counted
  <2> QED BY <2>2, <2>3 DEF Counted
<1>8. Kept'
  BY <1>1 DEF Kept
<1> QED BY <1>4, <1>7, <1>8 DEF BusInv

(* Report.merge, field by field. *)
LEMMA MergeChainIs ==
    ASSUME NEW c \in Chains, NEW o \in Chains PROVE MergeChain(c, o) \in Chains
<1>1. /\ c.verified \in BOOLEAN /\ o.verified \in BOOLEAN
      /\ c.chained \in Nat /\ o.chained \in Nat /\ c.heads \in Nat /\ o.heads \in Nat
      /\ c.unverifiable \in Nat /\ o.unverifiable \in Nat
      /\ c.breaks \in SUBSET (Files \X (1..MaxLines))
      /\ o.breaks \in SUBSET (Files \X (1..MaxLines))
  BY DEF Chains
<1>2. PICK p \in BOOLEAN : p = (c.verified /\ o.verified)
  BY Zenon
<1>3. PICK x, y, z, w : /\ x = c.chained + o.chained /\ y = c.heads + o.heads
                        /\ z = c.unverifiable + o.unverifiable /\ w = c.breaks \cup o.breaks
  OBVIOUS
<1>4. x \in Nat /\ y \in Nat /\ z \in Nat /\ w \in SUBSET (Files \X (1..MaxLines))
  BY <1>1, <1>3
<1>5. MergeChain(c, o) =
        [verified |-> p, chained |-> x, heads |-> y, unverifiable |-> z, breaks |-> w]
  BY <1>2, <1>3, Zenon DEF MergeChain
<1> QED BY <1>4, <1>5 DEF Chains

LEMMA MergeIs ==
    ASSUME NEW r \in ReportType, NEW o \in ReportType, NEW names \in Seq(Pairs), NEW s,
           s = Merge(r, [o EXCEPT !.foreign = names])
    PROVE  /\ s.lines = r.lines + o.lines /\ s.malformed = r.malformed + o.malformed
           /\ s.foreignSource = r.foreignSource + o.foreignSource
           /\ s.unknownStream = r.unknownStream + o.unknownStream
           /\ s.tally = TallyBoth(r.tally, o.tally)
           /\ s.foreign = Bounded(r.foreign, names) /\ s.unknown = Bounded(r.unknown, o.unknown)
           /\ s.foreign \in Seq(Pairs) /\ s.unknown \in Seq(Pairs) /\ s.tally \in Tallies =>
                s \in ReportType
<1>1. PICK m : m = [o EXCEPT !.foreign = names]
  OBVIOUS
<1>2. /\ m.lines = o.lines /\ m.malformed = o.malformed /\ m.foreignSource = o.foreignSource
      /\ m.unknownStream = o.unknownStream /\ m.tally = o.tally /\ m.foreign = names
      /\ m.unknown = o.unknown /\ m.chain = o.chain
  BY <1>1 DEF ReportType
<1>3. PICK chain : chain = MergeChain(r.chain, m.chain)
  OBVIOUS
<1>4. s = [lines |-> r.lines + m.lines, malformed |-> r.malformed + m.malformed,
           chain |-> chain, tally |-> TallyBoth(r.tally, m.tally),
           foreignSource |-> r.foreignSource + m.foreignSource,
           foreign |-> Bounded(r.foreign, m.foreign),
           unknownStream |-> r.unknownStream + m.unknownStream,
           unknown |-> Bounded(r.unknown, m.unknown)]
  BY <1>1, <1>3, Zenon DEF Merge, TallyBoth
<1>5. /\ s.lines = r.lines + o.lines /\ s.malformed = r.malformed + o.malformed
      /\ s.foreignSource = r.foreignSource + o.foreignSource
      /\ s.unknownStream = r.unknownStream + o.unknownStream
      /\ s.tally = TallyBoth(r.tally, o.tally) /\ s.chain = chain
      /\ s.foreign = Bounded(r.foreign, names) /\ s.unknown = Bounded(r.unknown, o.unknown)
  BY <1>2, <1>4
<1>6. /\ r.lines \in Nat /\ r.malformed \in Nat /\ r.foreignSource \in Nat /\ r.unknownStream \in Nat
      /\ o.lines \in Nat /\ o.malformed \in Nat /\ o.foreignSource \in Nat /\ o.unknownStream \in Nat
      /\ r.chain \in Chains /\ o.chain \in Chains
  BY DEF ReportType, Chains
<1>7. chain \in Chains
  BY <1>2, <1>3, <1>6, MergeChainIs
<1>8. PICK C, T, P : C = Chains /\ T = Tallies /\ P = Seq(Pairs)
  OBVIOUS
<1>9. ReportType = ReportOf(C, T, P)
  BY <1>8 DEF ReportType, ReportOf, Chains, Tallies, Pairs
<1>10. ASSUME s.foreign \in Seq(Pairs), s.unknown \in Seq(Pairs), s.tally \in Tallies
       PROVE  s \in ReportType
  <2>1. PICK a, b, c, d : /\ a = r.lines + o.lines /\ b = r.malformed + o.malformed
                          /\ c = r.foreignSource + o.foreignSource
                          /\ d = r.unknownStream + o.unknownStream
    OBVIOUS
  <2>2. a \in Nat /\ b \in Nat /\ c \in Nat /\ d \in Nat
    <3>1. \A x, y \in Nat : x + y \in Nat
      OBVIOUS
    <3> QED BY <1>6, <2>1, <3>1, Zenon
  <2>3. PICK tally, foreign, unknown : tally = s.tally /\ foreign = s.foreign /\ unknown = s.unknown
    OBVIOUS
  <2>4. s = [lines |-> a, malformed |-> b, chain |-> chain, tally |-> tally, foreignSource |-> c,
             foreign |-> foreign, unknownStream |-> d, unknown |-> unknown]
    <3>1. /\ r.lines + m.lines = a /\ r.malformed + m.malformed = b
          /\ r.foreignSource + m.foreignSource = c /\ r.unknownStream + m.unknownStream = d
      BY <1>2, <2>1
    <3>2. /\ TallyBoth(r.tally, m.tally) = tally /\ Bounded(r.foreign, m.foreign) = foreign
          /\ Bounded(r.unknown, m.unknown) = unknown
      BY <1>2, <1>5, <2>3
    <3> QED BY <1>4, <3>1, <3>2, Zenon
  <2>5. tally \in T /\ foreign \in P /\ unknown \in P /\ chain \in C
    BY <1>7, <1>8, <1>10, <2>3
  <2>6. s \in ReportOf(C, T, P)
    BY <2>2, <2>4, <2>5 DEF ReportOf
  <2> QED BY <1>9, <2>6
<1> QED BY <1>5, <1>10

(* A file ends behind all of its lines that the scanner gets to.            *)
LEMMA FileEnds ==
    ASSUME Reading, EndFile
    PROVE  /\ LinesOfFile' = {} /\ LinesBefore' = LinesBefore \cup LinesOfFile
           /\ Apart(LinesBefore, LinesOfFile) /\ \A p \in LinesOfFile : p[1] = file
           /\ LinesOfFile \in SUBSET ScannedLines /\ LinesBefore \in SUBSET ScannedLines
           /\ file' \in Files /\ status' \in {"running", "done"}
           /\ status' = "done" => file' = Len(Stem)
<1>1. /\ status = "running" /\ next > 0 /\ (next > Len(bus[file]) \/ Scans("oversized"))
      /\ next' = 0 /\ bus' = bus /\ policy' = policy
      /\ \/ file = Len(Stem) /\ status' = "done" /\ file' = file
         \/ file # Len(Stem) /\ file' = file + 1 /\ status' = status
  BY DEF EndFile
<1>2. /\ file \in Files /\ next \in Nat /\ bus \in Buses /\ MaxLines \in Nat
  BY LinesAssumption DEF Reading, BusTypeOK
<1>3. PICK last : last = Len(Stem)
  OBVIOUS
<1>4. last \in Nat /\ Files = 1..last
  BY <1>3, FilesAre
<1>5. PICK len \in 0..MaxLines : len = Len(bus[file]) /\ DOMAIN bus[file] = 1..len
  BY <1>2, BusIs
<1>6. ScannedLines' = ScannedLines
  BY <1>1 DEF ScannedLines
<1>7. \A p \in ScannedLines : p[1] \in 1..last /\ p[2] \in 1..MaxLines
  BY <1>4 DEF ScannedLines
<1>8. ASSUME NEW p \in ScannedLines, p[1] = file PROVE p[2] < next
  <2>1. p[2] \in 1..len /\ \A j \in 1..p[2] : bus[file][j].kind # "oversized"
    BY <1>5, <1>8 DEF ScannedLines
  <2>2. CASE next > Len(bus[file])
    BY <1>2, <1>5, <2>1, <2>2
  <2>3. CASE Scans("oversized")
    <3>1. bus[file][next].kind = "oversized"
      BY <2>3 DEF Scans
    <3>2. next \notin 1..p[2]
      BY <2>1, <3>1
    <3> QED BY <1>1, <1>2, <2>1, <3>2
  <2> QED BY <1>1, <2>2, <2>3
<1>9. LinesOfFile = {p \in ScannedLines : p[1] = file}
  BY <1>8 DEF LinesOfFile
<1>10. LinesBefore = {p \in ScannedLines : p[1] < file}
  BY <1>1 DEF LinesBefore
<1>11. LinesOfFile' = {}
  <2>1. LinesOfFile' = {p \in ScannedLines : p[1] = file' /\ p[2] < 0}
    BY <1>1, <1>6 DEF LinesOfFile
  <2> QED BY <1>2, <1>7, <2>1
<1>12. Apart(LinesBefore, LinesOfFile)
  BY <1>2, <1>4, <1>9, <1>10 DEF Apart
<1>13. CASE file = Len(Stem) /\ status' = "done" /\ file' = file
  <2>1. LinesBefore' = ScannedLines
    BY <1>6, <1>13 DEF LinesBefore
  <2>2. \A p \in ScannedLines : p[1] < file \/ p[1] = file
    BY <1>3, <1>4, <1>7, <1>13
  <2> QED BY <1>2, <1>9, <1>10, <1>11, <1>12, <1>13, <2>1, <2>2
<1>14. CASE file # Len(Stem) /\ file' = file + 1 /\ status' = status
  <2>1. LinesBefore' = {p \in ScannedLines : p[1] < file + 1}
    BY <1>1, <1>6, <1>14 DEF LinesBefore
  <2>2. \A p \in ScannedLines : p[1] < file + 1 <=> p[1] < file \/ p[1] = file
    BY <1>2, <1>4, <1>7
  <2>3. file + 1 \in Files
    BY <1>2, <1>3, <1>4, <1>14
  <2> QED BY <1>1, <1>9, <1>10, <1>11, <1>12, <1>14, <2>1, <2>2, <2>3
<1> QED BY <1>1, <1>13, <1>14

(* The ids of a file's identities, by type. *)
IdsOfType(ids, type) == {i.id : i \in {j \in ToSet(ids) : j.type = type}}

(* LoadWith takes what a file has yielded.                                 *)
LEMMA LoadIs ==
    ASSUME BusTypeOK, EndFile
    PROVE  /\ loaded'.identities = loaded.identities \o Fresh(parsed.identities)
           /\ loaded'.events = loaded.events \o parsed.events
           /\ loaded'.rep = Merge(loaded.rep,
                                  [parsed.rep EXCEPT !.foreign = Sorted(parsed.rep.foreign)])
           /\ loaded' = [identities |-> loaded'.identities, events |-> loaded'.events,
                         rep |-> loaded'.rep]
           /\ seenInLoad'.agents =
                seenInLoad.agents \cup IdsOfType(Fresh(parsed.identities), "agent")
           /\ seenInLoad'.humans =
                seenInLoad.humans \cup IdsOfType(Fresh(parsed.identities), "human")
           /\ seenInLoad' = [agents |-> seenInLoad'.agents, humans |-> seenInLoad'.humans]
           /\ parsed' = Product(NoChain) /\ next' = 0 /\ seen' = seen
<1>1. /\ loaded' = [identities |-> loaded.identities \o Fresh(parsed.identities),
                    events     |-> loaded.events \o parsed.events,
                    rep        |-> Merge(loaded.rep, [parsed.rep EXCEPT !.foreign = Sorted(@)])]
      /\ seenInLoad' =
           [agents |-> seenInLoad.agents \cup IdsOfType(Fresh(parsed.identities), "agent"),
            humans |-> seenInLoad.humans \cup IdsOfType(Fresh(parsed.identities), "human")]
      /\ parsed' = Product(NoChain) /\ next' = 0 /\ seen' = seen
  BY DEF EndFile, IdsOfType
<1>2. PICK m : m = [parsed.rep EXCEPT !.foreign = Sorted(@)]
  OBVIOUS
<1>3. parsed.rep \in ReportType
  BY ProductIs DEF BusTypeOK
<1>4. m = [parsed.rep EXCEPT !.foreign = Sorted(parsed.rep.foreign)]
  BY <1>2, <1>3 DEF ReportType
<1>5. PICK ids, evs, rep : /\ ids = loaded.identities \o Fresh(parsed.identities)
                           /\ evs = loaded.events \o parsed.events /\ rep = Merge(loaded.rep, m)
  OBVIOUS
<1>6. loaded' = [identities |-> ids, events |-> evs, rep |-> rep]
  BY <1>1, <1>2, <1>5, Zenon
<1>7. /\ loaded'.identities = ids /\ loaded'.events = evs /\ loaded'.rep = rep
  BY <1>6
<1>8. PICK a, h : /\ a = seenInLoad.agents \cup IdsOfType(Fresh(parsed.identities), "agent")
                  /\ h = seenInLoad.humans \cup IdsOfType(Fresh(parsed.identities), "human")
  OBVIOUS
<1>9. seenInLoad' = [agents |-> a, humans |-> h]
  BY <1>1, <1>8, Zenon
<1>10. seenInLoad'.agents = a /\ seenInLoad'.humans = h
  BY <1>9
<1> QED BY <1>1, <1>4, <1>5, <1>6, <1>7, <1>8, <1>9, <1>10, Zenon

LEMMA TypesTell ==
    ASSUME NEW ids \in Seq(Identity)
    PROVE  /\ IdsOfType(ids, "agent") \in SUBSET AgentIDs
           /\ IdsOfType(ids, "human") \in SUBSET Humans
           /\ \A x \in IdsOfType(ids, "agent") \cup IdsOfType(ids, "human") :
                \E i \in ToSet(ids) : i.id = x
<1>1. \A i \in ToSet(ids) : i \in Identity
  BY DEF ToSet
<1>2. ASSUME NEW i \in Identity
      PROVE  /\ i.type = "agent" => i.id \in AgentIDs
             /\ i.type = "human" => i.id \in Humans
  <2>1. CASE i \in [id : AgentIDs, type : {"agent", ""}, source : Sources,
                    onBehalfOf : Seq(Humans \cup AgentIDs)]
    BY <2>1
  <2>2. CASE i \in [id : Humans, type : {"human"}, source : Sources, onBehalfOf : {<<>>}]
    BY <2>2
  <2> QED BY <2>1, <2>2 DEF Identity
<1> QED BY <1>1, <1>2 DEF IdsOfType

LEMMA EndKeeps == ASSUME BusInv, EndFile PROVE BusInv'
<1>1. /\ Reading /\ Kept /\ Counted /\ BusTypeOK /\ status = "running" /\ next > 0
      /\ bus' = bus /\ policy' = policy /\ bus \in Buses /\ next \in Nat
  BY DEF BusInv, EndFile, Reading, BusTypeOK
<1>2. PICK fresh : fresh = Fresh(parsed.identities)
  OBVIOUS
<1>3. PICK r, o, n, m : /\ r = loaded.rep /\ o = parsed.rep
                        /\ n = Len(loaded.events) /\ m = Len(parsed.events)
  OBVIOUS
<1>4. /\ loaded'.identities = loaded.identities \o fresh
      /\ loaded'.events = loaded.events \o parsed.events
      /\ loaded'.rep = Merge(r, [o EXCEPT !.foreign = Sorted(o.foreign)])
      /\ loaded' = [identities |-> loaded'.identities, events |-> loaded'.events,
                    rep |-> loaded'.rep]
      /\ seenInLoad'.agents = seenInLoad.agents \cup IdsOfType(fresh, "agent")
      /\ seenInLoad'.humans = seenInLoad.humans \cup IdsOfType(fresh, "human")
      /\ seenInLoad' = [agents |-> seenInLoad'.agents, humans |-> seenInLoad'.humans]
      /\ parsed' = Product(NoChain) /\ next' = 0 /\ seen' = seen
  BY <1>1, <1>2, <1>3, LoadIs
<1>5. /\ loaded.identities \in Seq(Identity) /\ parsed.identities \in Seq(Identity)
      /\ loaded.events \in Seq(Event) /\ parsed.events \in Seq(Event)
      /\ r \in ReportType /\ o \in ReportType /\ n \in Nat /\ m \in Nat
      /\ o.foreign \in Seq(Pairs) /\ seenInLoad \in SeenType /\ seen \in SeenType
      /\ file \in Files
  <2>1. parsed \in ProductType /\ loaded \in ProductType /\ seenInLoad \in SeenType
        /\ seen \in SeenType /\ file \in Files
    BY <1>1 DEF BusTypeOK
  <2>2. /\ loaded.identities \in Seq(Identity) /\ parsed.identities \in Seq(Identity)
        /\ loaded.events \in Seq(Event) /\ parsed.events \in Seq(Event)
        /\ r \in ReportType /\ o \in ReportType /\ o.foreign \in Seq(Pairs)
    BY <1>3, <2>1, ProductIs
  <2> QED BY <1>3, <2>1, <2>2
<1>6. /\ LinesOfFile' = {} /\ LinesBefore' = LinesBefore \cup LinesOfFile
      /\ Apart(LinesBefore, LinesOfFile) /\ \A p \in LinesOfFile : p[1] = file
      /\ LinesOfFile \in SUBSET ScannedLines /\ LinesBefore \in SUBSET ScannedLines
      /\ file' \in Files /\ status' \in {"running", "done"}
      /\ (status' = "done" => file' = Len(Stem))
  BY <1>1, FileEnds
<1>7. Script' = Script /\ CarriedLines' = CarriedLines /\ bus' \in Buses
  <2>1. UNCHANGED <<bus, policy>>
    BY <1>1
  <2>2. Script' = Script /\ CarriedLines' = CarriedLines
    BY <2>1, ScriptStands
  <2>3. Buses' = Buses
    BY DEF Buses
  <2> QED BY <1>1, <2>2
<1>8. NoChain \in Chains
  BY <1>1, <1>5, ChainIs
<1>9. /\ parsed' \in ProductType /\ parsed'.identities = <<>> /\ parsed'.events = <<>>
      /\ parsed'.rep = NewReport(NoChain) /\ IdsOf(Product(NoChain)) = {}
  BY <1>4, <1>8, NewProductIs
<1>10. /\ fresh \in Seq(Identity) /\ ToSet(fresh) \subseteq ToSet(parsed.identities)
       /\ \A i \in ToSet(parsed.identities) :
            i \in ToSet(fresh) \/ i.id \in seenInLoad.agents \cup seenInLoad.humans
  BY <1>2, <1>5, FreshIs
<1>11. /\ IdsOfType(fresh, "agent") \in SUBSET AgentIDs
       /\ IdsOfType(fresh, "human") \in SUBSET Humans
       /\ \A x \in IdsOfType(fresh, "agent") \cup IdsOfType(fresh, "human") :
            \E i \in ToSet(fresh) : i.id = x
  BY <1>10, TypesTell
<1>12. seenInLoad' \in SeenType
  <2>1. /\ seenInLoad'.agents \in SUBSET AgentIDs /\ seenInLoad'.humans \in SUBSET Humans
    BY <1>4, <1>5, <1>11 DEF SeenType
  <2>2. PICK a, h : a = seenInLoad'.agents /\ h = seenInLoad'.humans
    OBVIOUS
  <2>3. seenInLoad' = [agents |-> a, humans |-> h]
    BY <1>4, <2>2, Zenon
  <2> QED BY <2>1, <2>2, <2>3 DEF SeenType
<1>13. PICK t, K, L : t = Script /\ K = LinesBefore /\ L = LinesOfFile
  OBVIOUS
<1>14. /\ AccountsIn(t, loaded'.rep, n + m, K \cup L) /\ loaded'.rep \in ReportType
  <2>1. /\ IsScript(t) /\ K \in SUBSET t.scanned /\ L \in SUBSET t.scanned
        /\ Apart(K, L) /\ \A p \in L : p[1] = file
    BY <1>1, <1>6, <1>13, ScriptIs
  <2>2. AccountsIn(t, r, n, K) /\ AccountsIn(t, o, m, L)
    BY <1>1, <1>3, <1>13 DEF Counted
  <2>3. PICK names, s : names = Sorted(o.foreign) /\ s = loaded'.rep
    OBVIOUS
  <2>4. names \in Seq(Pairs)
    <3>1. PICK X, f : X = L \cap t.refused /\ f = o.foreign
      OBVIOUS
    <3>2. NamesIn(t, f, X) /\ \A p \in X : p[1] = file
      BY <2>1, <2>2, <3>1 DEF AccountsIn
    <3>3. \A i \in DOMAIN f : f[i].file = file
      <4>1. ASSUME NEW i \in DOMAIN f PROVE f[i].file = file
        <5>1. PICK p : p \in OwnLines(t, X, f[i].file, f[i].claimed)
          BY <3>2 DEF NamesIn
        <5> QED BY <3>2, <5>1 DEF OwnLines
      <4> QED BY <4>1
    <3>4. f \in Seq(Pairs)
      BY <1>5, <3>1
    <3>5. Sorted(f) \in Seq(Pairs)
      BY <3>2, <3>3, <3>4, SortedTells
    <3> QED BY <2>3, <3>1, <3>5
  <2>5. /\ s.lines = r.lines + o.lines /\ s.malformed = r.malformed + o.malformed
        /\ s.foreignSource = r.foreignSource + o.foreignSource
        /\ s.unknownStream = r.unknownStream + o.unknownStream
        /\ s.tally = TallyBoth(r.tally, o.tally)
        /\ s.foreign = Bounded(r.foreign, names) /\ s.unknown = Bounded(r.unknown, o.unknown)
        /\ s.foreign \in Seq(Pairs) /\ s.unknown \in Seq(Pairs) /\ s.tally \in Tallies =>
             s \in ReportType
    <3>1. s = Merge(r, [o EXCEPT !.foreign = names])
      BY <1>4, <2>3
    <3> QED BY <1>5, <2>4, <3>1, MergeIs
  <2>6. /\ AccountsIn(t, s, n + m, K \cup L)
        /\ s.foreign \in Seq(Pairs) /\ s.unknown \in Seq(Pairs) /\ s.tally \in Tallies
    <3>1. MergedFrom(s, r, o) /\ AllOf(L, file)
      BY <2>1, <2>3, <2>5 DEF MergedFrom, AllOf
    <3>2. r \in ReportType /\ o \in ReportType /\ n \in Nat /\ m \in Nat
      BY <1>5
    <3> QED BY <2>1, <2>2, <3>1, <3>2, MergeAccounts
  <2> QED BY <2>3, <2>5, <2>6
<1>15. /\ loaded'.identities \in Seq(Identity) /\ loaded'.events \in Seq(Event)
       /\ Len(loaded'.events) = n + m
       /\ IdsOf(loaded)' = IdsOf(loaded) \cup ToSet(fresh)
  <2>1. /\ loaded.identities \o fresh \in Seq(Identity)
        /\ ToSet(loaded.identities \o fresh) = ToSet(loaded.identities) \cup ToSet(fresh)
    BY <1>5, <1>10, ToSetOfBoth
  <2>2. PICK a, b : a = loaded.events /\ b = parsed.events
    OBVIOUS
  <2>3. a \o b \in Seq(Event) /\ Len(a \o b) = Len(a) + Len(b)
    BY <1>5, <2>2
  <2>4. IdsOf(loaded)' = ToSet(loaded'.identities)
    BY DEF IdsOf
  <2> QED BY <1>3, <1>4, <2>1, <2>2, <2>3, <2>4 DEF IdsOf
<1>16. loaded' \in ProductType
  <2>1. PICK ids, evs, rep : /\ ids = loaded'.identities /\ evs = loaded'.events
                             /\ rep = loaded'.rep
    OBVIOUS
  <2>2. loaded' = [identities |-> ids, events |-> evs, rep |-> rep]
    BY <1>4, <2>1, Zenon
  <2>3. ids \in Seq(Identity) /\ evs \in Seq(Event) /\ rep \in ReportType
    BY <1>14, <1>15, <2>1
  <2> QED BY <2>2, <2>3 DEF ProductType
<1>17. Reading'
  <2>1. BusTypeOK'
    <3>1. MaxLines \in Nat /\ next' \in 0..(MaxLines + 1)
      BY <1>4, LinesAssumption
    <3> QED BY <1>4, <1>5, <1>6, <1>9, <1>12, <1>16, <3>1 DEF BusTypeOK
  <2>2. ~(0 > 0)
    OBVIOUS
  <2>3. (bus \in Buses)'
    BY <1>7 DEF Buses
  <2> QED BY <1>4, <1>6, <1>9, <2>1, <2>2, <2>3 DEF Reading
<1>18. Counted'
  <2>1. AccountsIn(Script', NewReport(NoChain), 0, {})
    BY <1>8, NewReportIs
  <2>2. Len(<<>>) = 0
    OBVIOUS
  <2>3. AccountsIn(Script', parsed'.rep, Len(parsed'.events), LinesOfFile')
    BY <1>6, <1>9, <2>1, <2>2
  <2>4. AccountsIn(Script', loaded'.rep, Len(loaded'.events), LinesBefore')
    BY <1>6, <1>7, <1>13, <1>14, <1>15
  <2> QED BY <2>3, <2>4 DEF Counted
<1>19. Kept'
  <2>1. CarriedSoFar' = CarriedSoFar
    BY <1>6, <1>7 DEF CarriedSoFar
  <2>2. /\ EventsIn(Script, loaded.events \o parsed.events, CarriedSoFar)
        /\ TracesIn(Script, IdsOf(loaded) \cup IdsOf(parsed), CarriedSoFar)
        /\ Known(seenInLoad.agents \cup seenInLoad.humans, IdsOf(loaded))
    BY <1>1 DEF Kept
  <2>3. EventsIn(Script', loaded'.events \o parsed'.events, CarriedSoFar')
    <3>1. PICK evs : evs = loaded'.events
      OBVIOUS
    <3>2. evs \o <<>> = evs
      BY <1>15, <3>1
    <3>3. loaded'.events \o parsed'.events = loaded.events \o parsed.events
      BY <1>4, <1>9, <3>1, <3>2
    <3> QED BY <1>7, <2>1, <2>2, <3>3
  <2>4. IdsOf(parsed)' = {}
    BY <1>4, <1>9 DEF IdsOf
  <2>5. TracesIn(Script, IdsOf(loaded) \cup ToSet(fresh), CarriedSoFar)
    <3>1. ToSet(fresh) \subseteq IdsOf(parsed)
      BY <1>10 DEF IdsOf
    <3>2. \A i \in IdsOf(parsed) :
            i \in ToSet(fresh) \/ \E j \in IdsOf(loaded) : j.id = i.id
      BY <1>10, <2>2 DEF IdsOf, Known
    <3> QED BY <2>2, <3>1, <3>2 DEF TracesIn
  <2>6. TracesIn(Script', IdsOf(loaded)' \cup IdsOf(parsed)', CarriedSoFar')
    <3>1. IdsOf(loaded)' \cup IdsOf(parsed)' = IdsOf(loaded) \cup ToSet(fresh)
      BY <1>15, <2>4
    <3> QED BY <1>7, <2>1, <2>5, <3>1
  <2>7. Known(seenInLoad'.agents \cup seenInLoad'.humans, IdsOf(loaded)')
    BY <1>4, <1>11, <1>15, <2>2 DEF Known
  <2>8. ~(next' > 0)
    BY <1>4
  <2> QED BY <2>3, <2>6, <2>7, <2>8 DEF Kept
<1> QED BY <1>17, <1>18, <1>19 DEF BusInv

LEMMA BusStands == ASSUME BusInv, UNCHANGED busVars PROVE BusInv'
<1>1. /\ bus' = bus /\ policy' = policy /\ status' = status /\ file' = file /\ next' = next
      /\ seen' = seen /\ parsed' = parsed /\ loaded' = loaded /\ seenInLoad' = seenInLoad
  BY DEF busVars
<1>2. Script' = Script /\ ScannedLines' = ScannedLines /\ CarriedLines' = CarriedLines
  BY <1>1, ScriptStands
<1>3. LinesOfFile' = LinesOfFile /\ LinesBefore' = LinesBefore
  BY <1>1, <1>2 DEF LinesOfFile, LinesBefore
<1>4. CarriedSoFar' = CarriedSoFar
  BY <1>2, <1>3 DEF CarriedSoFar
<1>5. Reading'
  BY <1>1 DEF BusInv, Reading, BusTypeOK
<1>6. Kept'
  BY <1>1, <1>2, <1>4 DEF BusInv, Kept, IdsOf
<1>7. Counted'
  BY <1>1, <1>2, <1>3 DEF BusInv, Counted
<1> QED BY <1>5, <1>6, <1>7 DEF BusInv

LEMMA BusInvHolds == BusSpec => []BusInv
<1>1. BusInit => BusInv
  BY BusAtFirst
<1>2. BusInv /\ [BusNext]_busVars => BusInv'
  <2> SUFFICES ASSUME BusInv, [BusNext]_busVars PROVE BusInv'
    OBVIOUS
  <2>1. CASE OpenFile
    BY <2>1, OpenKeeps
  <2>2. CASE ReadFails
    BY <2>2, FailureKeeps
  <2>3. CASE SkipMalformed
    BY <2>3, SkipKeeps
  <2>4. CASE RefuseForeign
    BY <2>4, RefuseKeeps
  <2>5. CASE IngestLine
    BY <2>5, IngestKeeps
  <2>6. CASE EndFile
    BY <2>6, EndKeeps
  <2>7. CASE UNCHANGED busVars
    BY <2>7, BusStands
  <2> QED BY <2>1, <2>2, <2>3, <2>4, <2>5, <2>6, <2>7 DEF BusNext
<1> QED BY <1>1, <1>2, PTL DEF BusSpec

(* Where LoadWith is and what it has then have their types: the file and    *)
(* the line, what parse and LoadWith have seen, every identity, event,      *)
(* tally and name of the two products (tokenfuse.go, LoadWith and parse).   *)
THEOREM BusTypeCorrect == BusSpec => []BusTypeOK
<1>1. BusInv => BusTypeOK
  BY DEF BusInv, Reading
<1> QED BY <1>1, BusInvHolds, PTL

LEMMA NamesTell ==
    ASSUME bus \in Buses, NEW names, NEW X \in SUBSET ScannedLines, NamesIn(Script, names, X)
    PROVE  NamesAre(names, X)
<1>1. PICK t : t = Script
  OBVIOUS
<1>2. \A p \in X : t.line[p] = LineAt(p)
  BY <1>1, ScriptIs
<1>3. NamesIn(t, names, X)
  BY <1>1
<1>4. \A f, c : OwnLines(t, X, f, c) = {p \in X : p[1] = f /\ LineAt(p).source = c}
  BY <1>2 DEF OwnLines
<1>5. ASSUME NEW i \in DOMAIN names
      PROVE  LET own == {p \in X : p[1] = names[i].file /\ LineAt(p).source = names[i].claimed}
             IN  own # {} /\ names[i].count = Cardinality(own)
  <2>1. PICK own : own = {p \in X : p[1] = names[i].file /\ LineAt(p).source = names[i].claimed}
    OBVIOUS
  <2>2. OwnLines(t, X, names[i].file, names[i].claimed) = own
    BY <1>4, <2>1
  <2>3. own # {} /\ names[i].count = Cardinality(own)
    BY <1>3, <2>2 DEF NamesIn
  <2> QED BY <2>1, <2>3
<1>6. Len(names) < MaxNamed =>
        \A p \in X : \E i \in DOMAIN names :
            names[i].file = p[1] /\ names[i].claimed = LineAt(p).source
  BY <1>2, <1>3 DEF NamesIn
<1>7. /\ Len(names) <= MaxNamed
      /\ \A i, j \in DOMAIN names :
            names[i].file = names[j].file /\ names[i].claimed = names[j].claimed => i = j
  BY <1>3 DEF NamesIn
<1> QED BY <1>5, <1>6, <1>7 DEF NamesAre

LEMMA ReportTells ==
    ASSUME bus \in Buses, NEW p, NEW L \in SUBSET ScannedLines,
           AccountsIn(Script, p.rep, Len(p.events), L)
    PROVE  Accounts(p, L)
<1>1. PICK t, n : t = Script /\ n = Len(p.events)
  OBVIOUS
<1>2. /\ t.refused = RefusedLines /\ t.carried = CarriedLines /\ t.undeclared = UndeclaredLines
      /\ \A q \in L : t.line[q] = LineAt(q)
  BY <1>1, ScriptIs
<1>3. /\ CountsIn(t, p.rep, n, L) /\ TalliesIn(t, p.rep.tally, L)
      /\ NamesIn(t, p.rep.foreign, L \cap RefusedLines)
      /\ NamesIn(t, p.rep.unknown, L \cap UndeclaredLines)
  BY <1>1, <1>2 DEF AccountsIn
<1>4. /\ p.rep.lines = Cardinality(L)
      /\ p.rep.lines = p.rep.malformed + p.rep.foreignSource + Len(p.events)
      /\ p.rep.foreignSource = Cardinality(L \cap RefusedLines)
      /\ p.rep.unknownStream = Cardinality(L \cap UndeclaredLines)
  BY <1>1, <1>2, <1>3 DEF CountsIn
<1>5. ASSUME NEW s \in Sources
      PROVE  LET own == {q \in L \cap CarriedLines : LineAt(q).source = s}
             IN  /\ p.rep.tally[s].events = Cardinality(own)
                 /\ p.rep.tally[s].read = Cardinality({q \in own : LineAt(q).read})
  <2>1. PICK own : own = {q \in L \cap CarriedLines : LineAt(q).source = s}
    OBVIOUS
  <2>2. Of(t, L, s) = own /\ Reads(t, own) = {q \in own : LineAt(q).read}
    BY <1>2, <2>1 DEF Of, Reads
  <2>3. TallyIn(t, p.rep.tally[s], Of(t, L, s))
    BY <1>3 DEF TalliesIn
  <2>4. /\ p.rep.tally[s].events = Cardinality(own)
        /\ p.rep.tally[s].read = Cardinality({q \in own : LineAt(q).read})
    BY <2>2, <2>3 DEF TallyIn
  <2> QED BY <2>1, <2>4
<1>6. NamesAre(p.rep.foreign, L \cap RefusedLines)
  <2>1. L \cap RefusedLines \in SUBSET ScannedLines
    OBVIOUS
  <2> QED BY <1>1, <1>3, <2>1, NamesTell
<1>7. NamesAre(p.rep.unknown, L \cap UndeclaredLines)
  <2>1. L \cap UndeclaredLines \in SUBSET ScannedLines
    OBVIOUS
  <2> QED BY <1>1, <1>3, <2>1, NamesTell
<1> QED BY <1>4, <1>5, <1>6, <1>7 DEF Accounts

(* Report: no record is dropped without a count of what was dropped         *)
(* (tokenfuse.go:88-94), of a file while it is parsed and of the load so    *)
(* far.  Every line read is malformed, refused or an event, each count and  *)
(* tally is of exactly the lines it speaks of, and the names of the refused *)
(* and the undeclared tell of those lines without a pair twice, none left   *)
(* out unless the list is full: for any bus, policy and number of files.    *)
THEOREM NothingIsDropped == BusSpec => []NothingDroppedUncounted
<1>1. BusInv => NothingDroppedUncounted
  <2> SUFFICES ASSUME BusInv PROVE NothingDroppedUncounted
    OBVIOUS
  <2>1. bus \in Buses /\ Counted
    BY DEF BusInv, Reading
  <2>2. LinesOfFile \in SUBSET ScannedLines /\ LinesBefore \in SUBSET ScannedLines
    BY DEF LinesOfFile, LinesBefore
  <2>3. /\ AccountsIn(Script, parsed.rep, Len(parsed.events), LinesOfFile)
        /\ AccountsIn(Script, loaded.rep, Len(loaded.events), LinesBefore)
    BY <2>1 DEF Counted
  <2>4. Accounts(parsed, LinesOfFile) /\ Accounts(loaded, LinesBefore)
    BY <2>1, <2>2, <2>3, ReportTells
  <2> QED BY <2>4 DEF NothingDroppedUncounted
<1> QED BY <1>1, BusInvHolds, PTL

(* The stream rule (stream.go:14-35): when a load is done its events are    *)
(* those of the lines whose file may carry the source they claim, file by   *)
(* file and in order; every identity is the subject, or a human principal,  *)
(* of such a line, under the source that line claims; and each of those     *)
(* has an identity.  A refused line leaves no trace in either.              *)
THEOREM StreamRuleHolds == BusSpec => []StreamRule
<1>1. BusInv => StreamRule
  <2> SUFFICES ASSUME BusInv, status = "done"
               PROVE  /\ EventsOf(loaded.events, CarriedLines)
                      /\ {<<i.id, i.source>> : i \in ToSet(loaded.identities)}
                           \subseteq UNION {{<<x, LineAt(p).source>> :
                                 x \in {LineAt(p).agent} \cup ToSet(LineAt(p).principals)} :
                               p \in CarriedLines}
                      /\ {i.id : i \in ToSet(loaded.identities)} =
                           UNION {{LineAt(p).agent} \cup
                                    (ToSet(LineAt(p).principals) \cap Humans) :
                                  p \in CarriedLines}
    BY DEF StreamRule
  <2>1. /\ bus \in Buses /\ parsed.identities = <<>> /\ parsed.events = <<>>
        /\ loaded \in ProductType
    BY DEF BusInv, Reading, BusTypeOK
  <2>2. /\ EventsIn(Script, loaded.events \o parsed.events, CarriedSoFar)
        /\ TracesIn(Script, IdsOf(loaded) \cup IdsOf(parsed), CarriedSoFar)
    BY DEF BusInv, Kept
  <2>3. CarriedSoFar = CarriedLines
    <3>1. LinesBefore = ScannedLines
      BY DEF LinesBefore
    <3>2. CarriedLines \in SUBSET ScannedLines
      BY DEF CarriedLines
    <3> QED BY <3>1, <3>2 DEF CarriedSoFar
  <2>4. PICK t, C, evs, ids : /\ t = Script /\ C = CarriedLines /\ evs = loaded.events
                              /\ ids = ToSet(loaded.identities)
    OBVIOUS
  <2>5. EventsIn(t, evs, C)
    <3>1. evs \in Seq(Event)
      BY <2>1, <2>4, ProductIs
    <3>2. evs \o <<>> = evs
      BY <3>1
    <3> QED BY <2>1, <2>2, <2>3, <2>4, <3>2
  <2>6. TracesIn(t, ids, C)
    <3>1. IdsOf(parsed) = {}
      BY <2>1 DEF IdsOf, ToSet
    <3>2. IdsOf(loaded) \cup IdsOf(parsed) = ids
      BY <2>4, <3>1 DEF IdsOf
    <3> QED BY <2>2, <2>3, <2>4, <3>2
  <2>7. \A p \in C : t.line[p] = LineAt(p)
    BY <2>1, <2>4, ScriptIs DEF CarriedLines
  <2>8. EventsOf(evs, C)
    BY <2>5, <2>7 DEF EventsIn, EventsOf, Upto, EventOf
  <2>9. \A p \in C : Mentioned(t, p) =
          {LineAt(p).agent} \cup (ToSet(LineAt(p).principals) \cap Humans)
    BY <2>7 DEF Mentioned
  <2>10. ASSUME NEW i \in ids
         PROVE  \E p \in C : /\ i.source = LineAt(p).source
                             /\ i.id \in {LineAt(p).agent} \cup
                                           (ToSet(LineAt(p).principals) \cap Humans)
    <3>1. PICK p \in C : i.source = t.line[p].source /\ i.id \in Mentioned(t, p)
      BY <2>6 DEF TracesIn
    <3> QED BY <2>7, <2>9, <3>1
  <2>11. \A p \in C : \A x \in {LineAt(p).agent} \cup (ToSet(LineAt(p).principals) \cap Humans) :
           \E i \in ids : i.id = x
    BY <2>6, <2>9 DEF TracesIn
  <2>12. {<<i.id, i.source>> : i \in ids}
           \subseteq UNION {{<<x, LineAt(p).source>> :
                 x \in {LineAt(p).agent} \cup ToSet(LineAt(p).principals)} : p \in C}
    BY <2>10
  <2>13. {i.id : i \in ids} =
           UNION {{LineAt(p).agent} \cup (ToSet(LineAt(p).principals) \cap Humans) : p \in C}
    BY <2>10, <2>11
  <2> QED BY <2>4, <2>8, <2>12, <2>13
<1> QED BY <1>1, BusInvHolds, PTL

=============================================================================
