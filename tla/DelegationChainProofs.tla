------------------------ MODULE DelegationChainProofs ------------------------
(***************************************************************************)
(* Proofs about DelegationChain, for every graph: that its walks are       *)
(* well typed, that a chain names nobody twice and is linked, that the     *)
(* page's walk is the server's, and that with arrays of one entry the two  *)
(* detectors report every admin an agent acts for.                         *)
(***************************************************************************)
EXTENDS DelegationChain, WellFoundedInduction, TLAPS

(* A walk is always at a link of its own chain.  With it a chain is linked  *)
(* because the array an entry comes from is that of an earlier link.       *)
AtALink == \A w \in Walkers : cur[w] \in ToSet(chain[w])

(* Beside AtALink: the next link is one of the chain, unless there is none. *)
NextIsALink == \A w \in Walkers : next[w] # NoNext(w) => next[w] \in ToSet(chain[w])

IInv == TypeOK /\ ChainIsLinked /\ AtALink /\ NextIsALink

LEMMA InitEstablishesIt == Init => IInv
<1> SUFFICES ASSUME Init PROVE IInv
  OBVIOUS
<1>1. start \in IDs /\ DOMAIN index \subseteq IDs /\ index \in [DOMAIN index -> Node]
  BY IdsAssumption, GraphsAssumption DEF Init
<1>2. TypeOK
  BY <1>1, IdsAssumption DEF Init, TypeOK, NoNext
<1>3. ChainIsLinked
  BY DEF Init, ChainIsLinked
<1>4. AtALink /\ NextIsALink
  BY DEF Init, AtALink, NextIsALink, ToSet
<1> QED BY <1>2, <1>3, <1>4 DEF IInv

(* What AddEntry does to the chain of the walk that takes it. *)
LEMMA AddingKeepsAChain ==
    ASSUME NEW w \in Walkers, IInv, AddEntry(w)
    PROVE  /\ chain' \in [Walkers -> Seq(IDs)]
           /\ ToSet(chain[w]) \subseteq ToSet(chain'[w])
           /\ next'[w] \in IDs \cup {Null}
           /\ next'[w] # NoNext(w) => next'[w] \in ToSet(chain'[w])
           /\ chain'[w] # <<>> /\ chain'[w][1] = start
           /\ \A k, m \in DOMAIN chain'[w] : chain'[w][k] = chain'[w][m] => k = m
           /\ \A k \in DOMAIN chain'[w] \ {1} :
                \E m \in 1..(k - 1) : chain'[w][k] \in Principals(chain'[w][m])
<1> DEFINE links == chain[w]
           p == index[cur[w]].onBehalfOf[i[w]]
<1>1. links \in Seq(IDs) /\ cur[w] \in DOMAIN index /\ index[cur[w]] \in Node
      /\ i[w] \in 1..Len(index[cur[w]].onBehalfOf)
  BY DEF IInv, TypeOK, AddEntry
<1>2. p \in IDs /\ p \in Principals(cur[w])
  BY <1>1 DEF Node, Principals, ToSet
<1>3. /\ links # <<>> /\ links[1] = start /\ Len(links) \in Nat \ {0}
      /\ DOMAIN links = 1..Len(links)
      /\ \A k, m \in DOMAIN links : links[k] = links[m] => k = m
      /\ \A k \in DOMAIN links \ {1} :
           \E m \in 1..(k - 1) : links[k] \in Principals(links[m])
  BY <1>1 DEF IInv, ChainIsLinked
<1>4. PICK c \in DOMAIN links : links[c] = cur[w]
  BY DEF IInv, AtALink, ToSet
<1>5. CASE p \in ToSet(links)
  <2>1. chain' = chain /\ next' = next
    BY <1>5 DEF AddEntry, IInv, TypeOK
  <2> QED BY <1>1, <1>3, <2>1 DEF IInv, TypeOK, NextIsALink
<1>6. CASE p \notin ToSet(links)
  <2>1. chain' = [chain EXCEPT ![w] = Append(links, p)] /\ next'[w] = p
    BY <1>6 DEF AddEntry, IInv, TypeOK
  <2>2. chain'[w] = Append(links, p)
    BY <2>1 DEF IInv, TypeOK
  <2> DEFINE after == Append(links, p)
  <2>3. after \in Seq(IDs) /\ Len(after) = Len(links) + 1
        /\ DOMAIN after = 1..(Len(links) + 1)
        /\ (\A k \in 1..Len(links) : after[k] = links[k])
        /\ after[Len(links) + 1] = p
    BY <1>1, <1>2
  <2> HIDE DEF after
  <2>4. chain' \in [Walkers -> Seq(IDs)]
    BY <2>1, <2>3 DEF IInv, TypeOK, after
  <2>5. DOMAIN links = 1..Len(links) /\ Len(links) \in Nat \ {0}
    BY <1>3
  <2> HIDE DEF links
  <2>6. Len(links) + 1 \in DOMAIN after /\ DOMAIN links \subseteq DOMAIN after
    BY <2>3, <2>5
  <2>7. \A n \in DOMAIN links : after[n] = links[n]
    BY <2>3, <2>5
  <2>8. ToSet(links) \subseteq ToSet(after) /\ p \in ToSet(after)
    BY <2>3, <2>6, <2>7 DEF ToSet
  <2>9. after # <<>> /\ after[1] = start
    BY <1>3, <2>3
  <2>10. ASSUME NEW k \in DOMAIN after, NEW m \in DOMAIN after, after[k] = after[m]
        PROVE  k = m
    <3>1. \A n \in 1..Len(links) : links[n] # p
      BY <1>3, <1>6 DEF ToSet
    <3>2. CASE k \in 1..Len(links) /\ m \in 1..Len(links)
      BY <1>3, <2>3, <2>10, <3>2
    <3>3. CASE k = Len(links) + 1 /\ m \in 1..Len(links)
      BY <2>3, <2>10, <3>1, <3>3
    <3>4. CASE k \in 1..Len(links) /\ m = Len(links) + 1
      BY <2>3, <2>10, <3>1, <3>4
    <3>5. k \in 1..(Len(links) + 1) /\ m \in 1..(Len(links) + 1)
      BY <2>3, <2>10
    <3>6. CASE k = Len(links) + 1 /\ m = Len(links) + 1
      BY <3>6
    <3> QED BY <1>3, <3>2, <3>3, <3>4, <3>5, <3>6
  <2>11. ASSUME NEW k \in DOMAIN after \ {1}
        PROVE  \E m \in 1..(k - 1) : after[k] \in Principals(after[m])
    <3>1. CASE k = Len(links) + 1
      BY <1>2, <1>3, <1>4, <2>3, <3>1
    <3>2. CASE k \in DOMAIN links \ {1}
      <4>1. PICK m \in 1..(k - 1) : links[k] \in Principals(links[m])
        BY <1>3, <3>2
      <4>2. m \in 1..Len(links) /\ k \in 1..Len(links)
        BY <1>3, <3>2
      <4> QED BY <2>3, <4>1, <4>2
    <3>3. k = Len(links) + 1 \/ k \in DOMAIN links \ {1}
      BY <2>3, <2>5, <2>11
    <3> QED BY <3>1, <3>2, <3>3
  <2>12. chain'[w] = after
    BY <2>2 DEF after
  <2> QED BY <1>2, <2>1, <2>4, <2>8, <2>9, <2>10, <2>11, <2>12 DEF links
<1> QED BY <1>5, <1>6

LEMMA StepKeepsIt == IInv /\ [Next]_vars => IInv'
<1> SUFFICES ASSUME IInv, [Next]_vars PROVE IInv'
  OBVIOUS
<1>1. CASE UNCHANGED vars
  BY <1>1 DEF IInv, TypeOK, ChainIsLinked, AtALink, NextIsALink, Principals, NoNext, vars
<1>2. ASSUME NEW w \in Walkers, Look(w) PROVE IInv'
  <2>1. index[cur[w]] \in Node /\ cur[w] \in DOMAIN index
    BY <1>2 DEF Look, HasArray, IInv, TypeOK
  <2>2. Len(index[cur[w]].onBehalfOf) \in Nat
    BY <2>1 DEF Node
  <2>3. NoNext(w) \in IDs \cup {Null}
    BY IdsAssumption DEF NoNext
  <2>4. TypeOK'
    BY <1>2, <2>1, <2>2, <2>3 DEF Look, IInv, TypeOK
  <2>5. ChainIsLinked' /\ AtALink'
    BY <1>2 DEF Look, IInv, ChainIsLinked, AtALink, Principals
  <2>6. NextIsALink'
    BY <1>2 DEF Look, IInv, TypeOK, NextIsALink, NoNext
  <2> QED BY <2>4, <2>5, <2>6 DEF IInv
<1>3. ASSUME NEW w \in Walkers, LinkMissing(w) PROVE IInv'
  BY <1>3 DEF LinkMissing, IInv, TypeOK, ChainIsLinked, AtALink, NextIsALink, Principals, NoNext
<1>4. ASSUME NEW w \in Walkers, AddEntry(w) PROVE IInv'
  <2> DEFINE Kept == /\ UNCHANGED <<index, start, status, cur>>
                     /\ \A v \in Walkers \ {w} :
                          chain'[v] = chain[v] /\ next'[v] = next[v] /\ i'[v] = i[v]
  <2>1. Kept
    BY <1>4 DEF AddEntry, IInv, TypeOK
  <2>2. i' \in [Walkers -> Nat] /\ i'[w] <= i[w]
    BY <1>4 DEF AddEntry, IInv, TypeOK
  <2>3. next' \in [Walkers -> IDs \cup {Null}]
    BY <1>4, AddingKeepsAChain DEF AddEntry, IInv, TypeOK
  <2>4. chain' \in [Walkers -> Seq(IDs)]
    BY <1>4, AddingKeepsAChain
  <2>5. TypeOK'
    <3>1. ASSUME NEW v \in Walkers, status[v] = "adding"
          PROVE  cur[v] \in DOMAIN index /\ i'[v] <= Len(index[cur[v]].onBehalfOf)
      <4>1. cur[v] \in DOMAIN index /\ i[v] <= Len(index[cur[v]].onBehalfOf) /\ i[v] \in Nat
        BY <3>1 DEF IInv, TypeOK
      <4>2. Len(index[cur[v]].onBehalfOf) \in Nat
        BY <4>1 DEF IInv, TypeOK, Node
      <4>3. i'[v] \in Nat /\ i'[v] <= i[v]
        BY <2>1, <2>2, <4>1
      <4> QED BY <4>1, <4>2, <4>3
    <3> QED BY <2>1, <2>2, <2>3, <2>4, <3>1 DEF IInv, TypeOK
  <2>6. ChainIsLinked'
    <3>1. ASSUME NEW v \in Walkers
          PROVE  /\ chain'[v] # <<>> /\ chain'[v][1] = start'
                 /\ \A k, m \in DOMAIN chain'[v] : chain'[v][k] = chain'[v][m] => k = m
                 /\ \A k \in DOMAIN chain'[v] \ {1} :
                      \E m \in 1..(k - 1) : chain'[v][k] \in Principals(chain'[v][m])
      <4>1. CASE v = w
        BY <1>4, <2>1, <4>1, AddingKeepsAChain
      <4>2. CASE v # w
        BY <2>1, <4>2 DEF IInv, ChainIsLinked
      <4> QED BY <4>1, <4>2
    <3> QED BY <2>1, <3>1 DEF ChainIsLinked, Principals
  <2>7. AtALink'
    BY <1>4, <2>1, AddingKeepsAChain DEF IInv, AtALink
  <2>8. NextIsALink'
    BY <1>4, <2>1, AddingKeepsAChain DEF IInv, NextIsALink, NoNext
  <2> QED BY <2>5, <2>6, <2>7, <2>8 DEF IInv
<1>5. ASSUME NEW w \in Walkers, Continue(w) PROVE IInv'
  <2>1. next[w] \in ToSet(chain[w]) /\ next[w] \in IDs
    BY <1>5 DEF Continue, IInv, NextIsALink, TypeOK, ToSet
  <2>2. TypeOK'
    BY <1>5, <2>1 DEF Continue, IInv, TypeOK
  <2>3. ChainIsLinked' /\ NextIsALink'
    BY <1>5 DEF Continue, IInv, ChainIsLinked, NextIsALink, Principals, NoNext
  <2>4. AtALink'
    BY <1>5, <2>1 DEF Continue, IInv, TypeOK, AtALink
  <2> QED BY <2>2, <2>3, <2>4 DEF IInv
<1>6. ASSUME NEW w \in Walkers, NothingNew(w) PROVE IInv'
  BY <1>6 DEF NothingNew, IInv, TypeOK, ChainIsLinked, AtALink, NextIsALink, Principals, NoNext
<1> QED BY <1>1, <1>2, <1>3, <1>4, <1>5, <1>6 DEF Next, Step

(* The inductive invariant holds of every walk. *)
THEOREM InvHolds == Spec => []IInv
<1> QED BY InitEstablishesIt, StepKeepsIt, PTL DEF Spec

(* The state of both walks is what the code's variables can hold. *)
THEOREM TypeCorrect == Spec => []TypeOK
<1>1. IInv => TypeOK
  BY DEF IInv
<1> QED BY <1>1, InvHolds, PTL

(* WalkDelegationChain and getDelegationChain, in every graph: the chain    *)
(* starts with its agent, names nobody twice, and each further link is a    *)
(* principal of an earlier one.                                            *)
THEOREM ChainsAreLinked == Spec => []ChainIsLinked
<1>1. IInv => ChainIsLinked
  BY DEF IInv
<1> QED BY <1>1, InvHolds, PTL

-----------------------------------------------------------------------------
(* The page walks what the server walked.  The states the server's walk went *)
(* through are a path, one step determined by the one before; the page,     *)
(* which starts when that path is complete, is always at a place on it.    *)

Walk(w) == [status |-> status[w], chain |-> chain[w], cur |-> cur[w], i |-> i[w],
            next |-> next[w]]

At(st, ch, c, n, x) == [status |-> st, chain |-> ch, cur |-> c, i |-> n, next |-> x]

(* The next state of a walk of the server that is not done. *)
After(s) ==
    LET p == index[s.cur].onBehalfOf[s.i]
    IN  IF s.status = "looking"
        THEN IF s.cur \in DOMAIN index
             THEN At("adding", s.chain, s.cur, Len(index[s.cur].onBehalfOf), Blank)
             ELSE At("done", s.chain, s.cur, s.i, s.next)
        ELSE IF s.i > 0
        THEN IF p \in ToSet(s.chain) THEN At(s.status, s.chain, s.cur, s.i - 1, s.next)
             ELSE At(s.status, Append(s.chain, p), s.cur, s.i - 1, p)
        ELSE IF s.next = Blank THEN At("done", s.chain, s.cur, s.i, s.next)
        ELSE At("looking", s.chain, s.next, s.i, s.next)

IsPath(f, n) ==
    /\ f[0].chain = <<start>> /\ f[0].status = "looking" /\ f[0].cur = start
    /\ \A k \in 0..(n - 1) : f[k].status # "done" /\ f[k + 1] = After(f[k])
    /\ f[n] = Walk("server")

(* Where the page is when the server is at s.  The page may have to look    *)
(* where the server, which has no next but the empty id, is done already.  *)
Mirrors(s) ==
    /\ s.chain = chain["page"]
    /\ \/ status["page"] = "done" /\ s.status = "done"
       \/ status["page"] = "looking" /\ s.status = "looking" /\ s.cur = cur["page"]
       \/ status["page"] = "looking" /\ s.status = "done" /\ cur["page"] \notin DOMAIN index
       \/ /\ status["page"] = "adding" /\ s.status = "adding" /\ s.cur = cur["page"]
          /\ s.i = i["page"] /\ s.next = IF next["page"] = Null THEN Blank ELSE next["page"]

PageIsOnThePath ==
    /\ status["server"] # "done" => status["page"] = "looking"
    /\ \E n \in Nat : \E f : IsPath(f, n) /\ \E k \in 0..n : Mirrors(f[k])

(* In a graph without an identity of empty id. *)
Mirroring == Blank \notin DOMAIN index => PageIsOnThePath

LEMMA ServerTakesAfter ==
    ASSUME IInv, Step("server")
    PROVE  /\ status["server"] # "done" /\ Walk("server")' = After(Walk("server"))
           /\ UNCHANGED <<index, start>>
           /\ status'["page"] = status["page"] /\ chain'["page"] = chain["page"]
           /\ cur'["page"] = cur["page"] /\ i'["page"] = i["page"]
           /\ next'["page"] = next["page"]
<1> DEFINE w == "server"
           s == Walk(w)
<1>1. w \in Walkers /\ "page" \in Walkers /\ w # "page"
  BY DEF Walkers
<1>2. /\ s.status = status[w] /\ s.chain = chain[w] /\ s.cur = cur[w]
      /\ s.i = i[w] /\ s.next = next[w] /\ i[w] \in Nat
  BY <1>1 DEF Walk, IInv, TypeOK
<1>3. Walk(w)' = At(status'[w], chain'[w], cur'[w], i'[w], next'[w])
  BY DEF Walk, At
<1> HIDE DEF s
<1> USE DEF IInv, TypeOK, NoNext
<1>4. CASE Look(w)
  <2>1. /\ cur[w] \in DOMAIN index /\ status[w] = "looking"
        /\ At(status'[w], chain'[w], cur'[w], i'[w], next'[w])
             = At("adding", chain[w], cur[w], Len(index[cur[w]].onBehalfOf), Blank)
    BY <1>1, <1>4 DEF Look, HasArray
  <2>2. After(s) = At("adding", chain[w], cur[w], Len(index[cur[w]].onBehalfOf), Blank)
    BY <1>2, <2>1 DEF After
  <2> QED BY <1>1, <1>3, <1>4, <2>1, <2>2 DEF Look, s
<1>5. CASE LinkMissing(w)
  <2>1. /\ cur[w] \notin DOMAIN index /\ status[w] = "looking"
        /\ At(status'[w], chain'[w], cur'[w], i'[w], next'[w])
             = At("done", chain[w], cur[w], i[w], next[w])
    BY <1>1, <1>5 DEF LinkMissing, HasArray
  <2>2. After(s) = At("done", chain[w], cur[w], i[w], next[w])
    BY <1>2, <2>1 DEF After
  <2> QED BY <1>1, <1>3, <1>5, <2>1, <2>2 DEF LinkMissing, s
<1>6. CASE AddEntry(w)
  <2> DEFINE p == index[cur[w]].onBehalfOf[i[w]]
  <2>1. /\ status[w] = "adding" /\ i[w] > 0 /\ status'[w] = "adding" /\ cur'[w] = cur[w]
        /\ i'[w] = i[w] - 1
        /\ chain'[w] = IF p \notin ToSet(chain[w]) THEN Append(chain[w], p) ELSE chain[w]
        /\ next'[w] = IF p \notin ToSet(chain[w]) THEN p ELSE next[w]
    BY <1>1, <1>6 DEF AddEntry
  <2>2. After(s) = IF p \in ToSet(chain[w])
                   THEN At("adding", chain[w], cur[w], i[w] - 1, next[w])
                   ELSE At("adding", Append(chain[w], p), cur[w], i[w] - 1, p)
    BY <1>2, <2>1 DEF After
  <2> HIDE DEF p
  <2>3. Walk(w)' = After(s)
    BY <1>3, <2>1, <2>2
  <2> QED BY <1>1, <1>6, <2>1, <2>3 DEF AddEntry, s
<1>7. CASE Continue(w)
  <2>1. /\ status[w] = "adding" /\ i[w] = 0 /\ next[w] # Blank
        /\ At(status'[w], chain'[w], cur'[w], i'[w], next'[w])
             = At("looking", chain[w], next[w], i[w], next[w])
    BY <1>1, <1>7 DEF Continue
  <2>2. After(s) = At("looking", chain[w], next[w], i[w], next[w])
    BY <1>2, <2>1 DEF After
  <2> QED BY <1>1, <1>3, <1>7, <2>1, <2>2 DEF Continue, s
<1>8. CASE NothingNew(w)
  <2>1. /\ status[w] = "adding" /\ i[w] = 0 /\ next[w] = Blank
        /\ At(status'[w], chain'[w], cur'[w], i'[w], next'[w])
             = At("done", chain[w], cur[w], i[w], next[w])
    BY <1>1, <1>8 DEF NothingNew
  <2>2. After(s) = At("done", chain[w], cur[w], i[w], next[w])
    BY <1>2, <2>1 DEF After
  <2> QED BY <1>1, <1>3, <1>8, <2>1, <2>2 DEF NothingNew, s
<1> QED BY <1>4, <1>5, <1>6, <1>7, <1>8 DEF Step

(* The server's step is one more place on the path. *)
LEMMA ServerExtendsThePath ==
    ASSUME IInv, PageIsOnThePath, Step("server")
    PROVE  PageIsOnThePath'
<1>0. PICK n \in Nat : \E f : IsPath(f, n) /\ \E k \in 0..n : Mirrors(f[k])
  BY DEF PageIsOnThePath
<1>1. PICK f : IsPath(f, n) /\ \E k \in 0..n : Mirrors(f[k])
  BY <1>0
<1>2. PICK k \in 0..n : Mirrors(f[k])
  BY <1>1
<1> DEFINE last == Walk("server")
<1>3. PICK f2 : /\ f2[n + 1] = After(last) /\ \A m \in 0..n : f2[m] = f[m]
  <2> DEFINE g == [m \in 0..(n + 1) |-> IF m <= n THEN f[m] ELSE After(last)]
  <2>1. /\ g[n + 1] = After(last) /\ \A m \in 0..n : g[m] = f[m]
    OBVIOUS
  <2> QED BY <2>1
<1>4. f[n] = last /\ last.status # "done" /\ Walk("server")' = After(last)
      /\ UNCHANGED <<index, start>>
  BY <1>1, ServerTakesAfter DEF IsPath, Walk
<1> HIDE DEF last
<1>5. ASSUME NEW s PROVE After(s)' = After(s)
  BY <1>4 DEF After
<1>6. IsPath(f2, n + 1)'
  <2>1. f2[0] = f[0]
    BY <1>3
  <2>2. \A m \in 0..n : f2[m].status # "done" /\ f2[m + 1] = After(f2[m])
    <3>1. ASSUME NEW m \in 0..(n - 1) PROVE f2[m].status # "done" /\ f2[m + 1] = After(f2[m])
      BY <1>1, <1>3, <3>1 DEF IsPath
    <3>2. f2[n].status # "done" /\ f2[n + 1] = After(f2[n])
      BY <1>3, <1>4
    <3> QED BY <3>1, <3>2
  <2>3. f2[n + 1] = Walk("server")'
    BY <1>3, <1>4
  <2>4. n = (n + 1) - 1
    OBVIOUS
  <2> QED BY <1>1, <1>4, <1>5, <2>1, <2>2, <2>3, <2>4 DEF IsPath
<1>7. Mirrors(f[k])'
  BY <1>2, <1>4, ServerTakesAfter DEF Mirrors
<1>8. n + 1 \in Nat /\ k \in 0..(n + 1) /\ f2[k] = f[k]
  BY <1>3
<1>9. Mirrors(f2[k])'
  BY <1>7, <1>8
<1>10. status'["page"] = "looking"
  BY ServerTakesAfter DEF PageIsOnThePath
<1> QED BY <1>6, <1>8, <1>9, <1>10 DEF PageIsOnThePath

(* The page's step leads to the place after, or to the same. *)
LEMMA PageStaysOnThePath ==
    ASSUME IInv, PageIsOnThePath, Blank \notin DOMAIN index, Step("page")
    PROVE  PageIsOnThePath'
<1> DEFINE w == "page"
<1>0. PICK n \in Nat : \E f : IsPath(f, n) /\ \E k \in 0..n : Mirrors(f[k])
  BY DEF PageIsOnThePath
<1>1. PICK f : IsPath(f, n) /\ \E k \in 0..n : Mirrors(f[k])
  BY <1>0
<1>2. PICK k \in 0..n : Mirrors(f[k])
  BY <1>1
<1>3. status["server"] = "done"
  BY DEF PageIsOnThePath, Step, MayStep, Look, LinkMissing, AddEntry, Continue, NothingNew
<1>4. w \in Walkers /\ "server" \in Walkers /\ w # "server"
  BY DEF Walkers
<1>5. /\ UNCHANGED <<index, start>> /\ Walk("server")' = Walk("server")
      /\ status'["server"] = "done"
  BY <1>3, <1>4 DEF IInv, TypeOK, Walk, Step, Look, LinkMissing, AddEntry, Continue, NothingNew
<1>6. ASSUME NEW m \in 0..n, f[m].status # "done"
      PROVE  m + 1 \in 0..n /\ f[m + 1] = After(f[m])
  <2>1. f[n].status = "done"
    BY <1>1, <1>3 DEF IsPath, Walk
  <2>2. m \in 0..(n - 1)
    BY <1>6, <2>1
  <2> QED BY <1>1, <2>2 DEF IsPath
<1>7. IsPath(f, n)'
  <2>1. ASSUME NEW s PROVE After(s)' = After(s)
    BY <1>5 DEF After
  <2> QED BY <1>1, <1>5, <2>1 DEF IsPath
<1>8. SUFFICES \E m \in 0..n : Mirrors(f[m])'
  BY <1>5, <1>7 DEF PageIsOnThePath
<1> DEFINE s == f[k]
<1>9. /\ s.chain = chain[w]
      /\ \/ status[w] = "done" /\ s.status = "done"
         \/ status[w] = "looking" /\ s.status = "looking" /\ s.cur = cur[w]
         \/ status[w] = "looking" /\ s.status = "done" /\ cur[w] \notin DOMAIN index
         \/ /\ status[w] = "adding" /\ s.status = "adding" /\ s.cur = cur[w]
            /\ s.i = i[w] /\ s.next = IF next[w] = Null THEN Blank ELSE next[w]
  BY <1>2 DEF Mirrors
<1>10. s.status # "done" => k + 1 \in 0..n /\ f[k + 1] = After(s)
  BY <1>6
<1> HIDE DEF s
<1> USE DEF IInv, TypeOK, NoNext, At
<1>11. CASE Look(w)
  <2>1. /\ status[w] = "looking" /\ cur[w] \in DOMAIN index /\ status'[w] = "adding"
        /\ i'[w] = Len(index[cur[w]].onBehalfOf) /\ next'[w] = Null
        /\ chain'[w] = chain[w] /\ cur'[w] = cur[w]
    BY <1>4, <1>11 DEF Look, HasArray
  <2>2. s.status = "looking" /\ s.cur = cur[w]
    BY <1>9, <2>1
  <2>3. After(s) = At("adding", chain[w], cur[w], Len(index[cur[w]].onBehalfOf), Blank)
    BY <1>9, <2>1, <2>2 DEF After
  <2>4. Mirrors(f[k + 1])'
    BY <1>10, <2>1, <2>2, <2>3 DEF Mirrors
  <2> QED BY <1>10, <2>2, <2>4
<1>12. CASE LinkMissing(w)
  <2>1. /\ status[w] = "looking" /\ status'[w] = "done"
        /\ chain'[w] = chain[w]
        /\ cur[w] \notin DOMAIN index \/ index[cur[w]].onBehalfOf = <<>>
    BY <1>4, <1>12 DEF LinkMissing, HasArray
  <2>2. CASE s.status = "done"
    BY <1>9, <2>1, <2>2 DEF Mirrors, s
  <2>3. CASE s.status = "looking" /\ cur[w] \notin DOMAIN index
    <3>1. After(s) = At("done", chain[w], s.cur, s.i, s.next)
      BY <1>9, <2>1, <2>3 DEF After
    <3>2. Mirrors(f[k + 1])'
      BY <1>10, <2>1, <2>3, <3>1 DEF Mirrors
    <3> QED BY <1>10, <2>3, <3>2
  <2>4. CASE s.status = "looking" /\ cur[w] \in DOMAIN index
    <3>1. index[cur[w]].onBehalfOf = <<>> /\ s.cur = cur[w]
      BY <1>9, <2>1, <2>4
    <3> DEFINE s1 == f[k + 1]
    <3>2. s1 = At("adding", chain[w], cur[w], 0, Blank) /\ k + 1 \in 0..n
      BY <1>9, <1>10, <2>1, <2>4, <3>1 DEF After
    <3>3. k + 2 \in 0..n /\ f[k + 2] = After(s1)
      <4>1. k + 1 \in 0..n /\ f[k + 1].status # "done"
        BY <3>2
      <4>2. (k + 1) + 1 = k + 2
        OBVIOUS
      <4> QED BY <1>6, <4>1, <4>2
    <3> HIDE DEF s1
    <3>4. After(s1) = At("done", chain[w], cur[w], 0, Blank)
      BY <3>2 DEF After
    <3>5. Mirrors(f[k + 2])'
      BY <2>1, <3>3, <3>4 DEF Mirrors
    <3> QED BY <3>3, <3>5
  <2> QED BY <1>9, <2>1, <2>2, <2>3, <2>4
<1>13. CASE AddEntry(w)
  <2> DEFINE p == index[cur[w]].onBehalfOf[i[w]]
             new == p \notin ToSet(chain[w])
  <2>1. /\ status[w] = "adding" /\ i[w] > 0 /\ status'[w] = "adding" /\ cur'[w] = cur[w]
        /\ i'[w] = i[w] - 1
        /\ chain'[w] = IF new THEN Append(chain[w], p) ELSE chain[w]
        /\ next'[w] = IF new THEN p ELSE next[w]
    BY <1>4, <1>13 DEF AddEntry
  <2>2. s.status = "adding" /\ s.cur = cur[w] /\ s.i = i[w]
        /\ s.next = IF next[w] = Null THEN Blank ELSE next[w]
    BY <1>9, <2>1
  <2>3. After(s) = IF new THEN At("adding", Append(chain[w], p), cur[w], i[w] - 1, p)
                   ELSE At("adding", chain[w], cur[w], i[w] - 1, s.next)
    BY <1>9, <2>1, <2>2 DEF After
  <2>4. new => p # Null
    <3>1. i[w] \in 1..Len(index[cur[w]].onBehalfOf) /\ cur[w] \in DOMAIN index
          /\ index[cur[w]] \in Node
      BY <1>4, <2>1
    <3>2. p \in IDs
      BY <3>1 DEF Node
    <3> QED BY <3>2, IdsAssumption
  <2> HIDE DEF p, new
  <2>5. Mirrors(f[k + 1])'
    <3>1. CASE new
      BY <1>10, <2>1, <2>2, <2>3, <2>4, <3>1 DEF Mirrors
    <3>2. CASE ~new
      BY <1>10, <2>1, <2>2, <2>3, <3>2 DEF Mirrors
    <3> QED BY <3>1, <3>2
  <2> QED BY <1>10, <2>2, <2>5
<1>14. CASE Continue(w)
  <2>1. /\ status[w] = "adding" /\ i[w] = 0 /\ next[w] # Null /\ status'[w] = "looking"
        /\ cur'[w] = next[w] /\ chain'[w] = chain[w]
    BY <1>4, <1>14 DEF Continue
  <2>2. s.status = "adding" /\ s.i = 0 /\ s.next = next[w]
    BY <1>9, <2>1
  <2>3. CASE next[w] = Blank
    <3>1. After(s) = At("done", chain[w], s.cur, 0, Blank)
      BY <1>9, <2>2, <2>3 DEF After
    <3>2. Mirrors(f[k + 1])'
      BY <1>5, <1>10, <2>1, <2>2, <2>3, <3>1 DEF Mirrors
    <3> QED BY <1>10, <2>2, <3>2
  <2>4. CASE next[w] # Blank
    <3>1. After(s) = At("looking", chain[w], next[w], 0, next[w])
      BY <1>9, <2>2, <2>4 DEF After
    <3>2. Mirrors(f[k + 1])'
      BY <1>10, <2>1, <2>2, <3>1 DEF Mirrors
    <3> QED BY <1>10, <2>2, <3>2
  <2> QED BY <2>3, <2>4
<1>15. CASE NothingNew(w)
  <2>1. /\ status[w] = "adding" /\ i[w] = 0 /\ next[w] = Null /\ status'[w] = "done"
        /\ chain'[w] = chain[w]
    BY <1>4, <1>15 DEF NothingNew
  <2>2. s.status = "adding" /\ s.i = 0 /\ s.next = Blank
    BY <1>9, <2>1
  <2>3. After(s) = At("done", chain[w], s.cur, 0, Blank)
    BY <1>9, <2>2 DEF After
  <2>4. Mirrors(f[k + 1])'
    BY <1>10, <2>1, <2>2, <2>3 DEF Mirrors
  <2> QED BY <1>10, <2>2, <2>4
<1> QED BY <1>11, <1>12, <1>13, <1>14, <1>15 DEF Step

LEMMA MirroringHolds == Spec => [](IInv /\ Mirroring)
<1>1. Init => Mirroring
  <2> SUFFICES ASSUME Init PROVE PageIsOnThePath
    BY DEF Mirroring
  <2> DEFINE f == [k \in 0..0 |-> Walk("server")]
  <2>1. IsPath(f, 0) /\ Mirrors(f[0])
    BY DEF Init, IsPath, Mirrors, Walk, Walkers
  <2>2. status["page"] = "looking"
    BY DEF Init, Walkers
  <2> HIDE DEF f
  <2> QED BY <2>1, <2>2 DEF PageIsOnThePath
<1>2. IInv /\ Mirroring /\ [Next]_vars => Mirroring'
  <2> SUFFICES ASSUME IInv, Mirroring, [Next]_vars, Blank \notin DOMAIN index'
               PROVE  PageIsOnThePath'
    BY DEF Mirroring
  <2>1. index' = index
    BY DEF Next, Step, Look, LinkMissing, AddEntry, Continue, NothingNew, vars
  <2>2. PageIsOnThePath
    BY <2>1 DEF Mirroring
  <2>3. CASE UNCHANGED vars
    <3>1. ASSUME NEW s PROVE After(s)' = After(s) /\ Mirrors(s)' = Mirrors(s)
      BY <2>3 DEF After, Mirrors, vars
    <3>2. Walk("server")' = Walk("server")
      BY <2>3 DEF Walk, vars
    <3>0. PICK n \in Nat : \E f : IsPath(f, n) /\ \E k \in 0..n : Mirrors(f[k])
      BY <2>2 DEF PageIsOnThePath
    <3>3. PICK f : IsPath(f, n) /\ \E k \in 0..n : Mirrors(f[k])
      BY <3>0
    <3>4. IsPath(f, n)'
      BY <2>3, <3>1, <3>2, <3>3 DEF IsPath, vars
    <3>5. \E k \in 0..n : Mirrors(f[k])'
      BY <3>1, <3>3
    <3> QED BY <2>2, <2>3, <3>4, <3>5 DEF PageIsOnThePath, vars
  <2>4. CASE Step("server")
    BY <2>2, <2>4, ServerExtendsThePath
  <2>5. CASE Step("page")
    BY <2>1, <2>2, <2>5, PageStaysOnThePath
  <2> QED BY <2>3, <2>4, <2>5 DEF Next, Walkers
<1> QED BY <1>1, <1>2, InitEstablishesIt, StepKeepsIt, PTL DEF Spec

(* dashboard.go:998 and 1034, in every graph that has no identity of empty   *)
(* id: a page whose walk has ended shows the server's chain, and the grants  *)
(* the detectors judged, though it stops at empty arrays and says null for   *)
(* the end where the server says the empty string.                         *)
THEOREM PagesMirrorServers == Spec => []PageMirrorsServer
<1>1. IInv /\ Mirroring => PageMirrorsServer
  <2> SUFFICES ASSUME IInv, PageIsOnThePath, status["page"] = "done"
               PROVE  chain["page"] = chain["server"]
    BY DEF Mirroring, PageMirrorsServer
  <2>0. PICK n \in Nat : \E f : IsPath(f, n) /\ \E k \in 0..n : Mirrors(f[k])
    BY DEF PageIsOnThePath
  <2>1. PICK f : IsPath(f, n) /\ \E k \in 0..n : Mirrors(f[k])
    BY <2>0
  <2>2. PICK k \in 0..n : Mirrors(f[k])
    BY <2>1
  <2>3. f[k].status = "done" /\ f[k].chain = chain["page"]
    BY <2>2 DEF Mirrors
  <2>4. ~(k \in 0..(n - 1))
    BY <2>1, <2>3 DEF IsPath
  <2>5. k = n
    BY <2>4
  <2> QED BY <2>1, <2>3, <2>5 DEF IsPath, Walk
<1> QED BY <1>1, MirroringHolds, PTL

-----------------------------------------------------------------------------
(* What the server's walk reaches in a graph where only roots go on. *)

RootsOnly == Blank \notin DOMAIN index /\ OnlyRootsGoOn

ServerLinks == ToSet(chain["server"])

Closed(x) == Principals(x) \subseteq ServerLinks

LinksAreReached == ServerLinks \subseteq Reach(start)

(* The entries of the array that the walk has passed are links. *)
PassedAreLinks ==
    status["server"] = "adding" =>
        \A k \in 1..Len(index[cur["server"]].onBehalfOf) :
            k > i["server"] => index[cur["server"]].onBehalfOf[k] \in ServerLinks

(* Only the link the walk is at, or may go to next, may have a principal    *)
(* that the chain has not; and one it may still turn away from has none.   *)
OthersAreClosed ==
    RootsOnly =>
        /\ \A x \in ServerLinks :
             \/ Closed(x)
             \/ status["server"] = "looking" /\ x = cur["server"]
             \/ status["server"] = "adding" /\ i["server"] > 0 /\ x = cur["server"]
             \/ status["server"] = "adding" /\ i["server"] = 0 /\ x = next["server"]
                /\ x # Blank
        /\ status["server"] = "adding" /\ i["server"] > 0 => Principals(next["server"]) = {}

LEMMA ToSetAppend ==
    ASSUME NEW S, NEW a \in Seq(S), NEW e \in S
    PROVE  ToSet(Append(a, e)) = ToSet(a) \cup {e}
<1>1. /\ DOMAIN a = 1..Len(a) /\ Len(a) \in Nat
      /\ DOMAIN Append(a, e) = 1..(Len(a) + 1) /\ Append(a, e)[Len(a) + 1] = e
      /\ \A k \in 1..Len(a) : Append(a, e)[k] = a[k]
  OBVIOUS
<1>2. ASSUME NEW x \in ToSet(a) PROVE x \in ToSet(Append(a, e))
  BY <1>1 DEF ToSet
<1>3. e \in ToSet(Append(a, e))
  BY <1>1 DEF ToSet
<1>4. ASSUME NEW x \in ToSet(Append(a, e)) PROVE x \in ToSet(a) \cup {e}
  <2>1. PICK k \in 1..(Len(a) + 1) : x = Append(a, e)[k]
    BY <1>1 DEF ToSet
  <2>2. k \in 1..Len(a) \/ k = Len(a) + 1
    BY <1>1
  <2> QED BY <1>1, <2>1, <2>2 DEF ToSet
<1> QED BY <1>2, <1>3, <1>4

LEMMA ToSetConcat ==
    ASSUME NEW S, NEW a \in Seq(S), NEW b \in Seq(S)
    PROVE  ToSet(a \o b) = ToSet(a) \cup ToSet(b)
<1>1. /\ DOMAIN a = 1..Len(a) /\ Len(a) \in Nat /\ DOMAIN b = 1..Len(b) /\ Len(b) \in Nat
      /\ DOMAIN (a \o b) = 1..(Len(a) + Len(b))
      /\ \A k \in 1..Len(a) : (a \o b)[k] = a[k]
      /\ \A k \in 1..Len(b) : (a \o b)[Len(a) + k] = b[k]
  OBVIOUS
<1>2. ASSUME NEW x \in ToSet(a) PROVE x \in ToSet(a \o b)
  BY <1>1 DEF ToSet
<1>3. ASSUME NEW x \in ToSet(b) PROVE x \in ToSet(a \o b)
  <2>1. PICK k \in 1..Len(b) : x = b[k]
    BY <1>1, <1>3 DEF ToSet
  <2>2. Len(a) + k \in DOMAIN (a \o b) /\ (a \o b)[Len(a) + k] = x
    BY <1>1, <2>1
  <2> QED BY <2>2 DEF ToSet
<1>4. ASSUME NEW x \in ToSet(a \o b) PROVE x \in ToSet(a) \cup ToSet(b)
  <2>1. PICK k \in 1..(Len(a) + Len(b)) : x = (a \o b)[k]
    BY <1>1, <1>4 DEF ToSet
  <2>2. k \in 1..Len(a) \/ (k - Len(a) \in 1..Len(b) /\ k = Len(a) + (k - Len(a)))
    BY <1>1
  <2> QED BY <1>1, <2>1, <2>2 DEF ToSet
<1> QED BY <1>2, <1>3, <1>4

LEMMA ReachIsClosed ==
    ASSUME NEW x \in Reach(start), NEW p \in Principals(x), p \in IDs
    PROVE  p \in Reach(start)
BY DEF Reach

LEMMA ServerStepReaches ==
    ASSUME IInv, LinksAreReached, PassedAreLinks, OthersAreClosed, [Next]_vars
    PROVE  LinksAreReached' /\ PassedAreLinks' /\ OthersAreClosed'
<1> DEFINE w == "server"
<1>1. w \in Walkers
  BY DEF Walkers
<1>2. index' = index /\ start' = start
  BY DEF Next, Step, Look, LinkMissing, AddEntry, Continue, NothingNew, vars
<1>3. Reach(start)' = Reach(start) /\ RootsOnly' = RootsOnly
      /\ \A x : Principals(x)' = Principals(x)
  BY <1>2 DEF Reach, Principals, RootsOnly, OnlyRootsGoOn
<1>4. CASE UNCHANGED <<chain[w], status[w], cur[w], i[w], next[w]>>
  <2>1. ServerLinks' = ServerLinks
    BY <1>4 DEF ServerLinks
  <2>2. LinksAreReached'
    BY <1>3, <2>1 DEF LinksAreReached
  <2>3. PassedAreLinks'
    BY <1>2, <1>4, <2>1 DEF PassedAreLinks
  <2>4. OthersAreClosed'
    BY <1>3, <1>4, <2>1 DEF OthersAreClosed, Closed
  <2> QED BY <2>2, <2>3, <2>4
<1>5. CASE UNCHANGED vars \/ Step("page")
  <2>1. UNCHANGED <<chain[w], status[w], cur[w], i[w], next[w]>>
    BY <1>1, <1>5 DEF vars, IInv, TypeOK, Walkers, Step, Look, LinkMissing, AddEntry,
                      Continue, NothingNew
  <2> QED BY <1>4, <2>1
<1>6. cur[w] \in ServerLinks /\ cur[w] \in IDs /\ i[w] \in Nat
  BY <1>1 DEF IInv, AtALink, ServerLinks, TypeOK
<1>7. CASE Look(w)
  <2>1. /\ status[w] = "looking" /\ cur[w] \in DOMAIN index /\ status'[w] = "adding"
        /\ i'[w] = Len(index[cur[w]].onBehalfOf) /\ next'[w] = Blank
        /\ chain' = chain /\ cur' = cur /\ ServerLinks' = ServerLinks
    BY <1>1, <1>7 DEF Look, HasArray, IInv, TypeOK, NoNext, ServerLinks
  <2>2. LinksAreReached'
    BY <1>3, <2>1 DEF LinksAreReached
  <2>3. index[cur[w]].onBehalfOf \in Seq(IDs)
    BY <2>1 DEF IInv, TypeOK, Node
  <2>4. i'[w] \in Nat /\ (i'[w] = 0 => Closed(cur[w]))
    <3>1. ASSUME NEW a \in Seq(IDs), Len(a) = 0 PROVE ToSet(a) = {}
      BY <3>1 DEF ToSet
    <3>2. i'[w] = 0 => ToSet(index[cur[w]].onBehalfOf) = {}
      BY <2>1, <2>3, <3>1
    <3> QED BY <2>1, <2>3, <3>2 DEF Closed, Principals
  <2>5. PassedAreLinks'
    <3>1. \A k \in 1..Len(index[cur[w]].onBehalfOf) : ~(k > i'[w])
      BY <2>1, <2>3
    <3> QED BY <1>2, <2>1, <3>1 DEF PassedAreLinks
  <2>6. RootsOnly => Principals(Blank) = {}
    BY DEF RootsOnly, Principals
  <2>7. OthersAreClosed'
    BY <1>3, <2>1, <2>4, <2>6 DEF OthersAreClosed, Closed
  <2> QED BY <2>2, <2>5, <2>7
<1>8. CASE LinkMissing(w)
  <2>1. /\ status[w] = "looking" /\ cur[w] \notin DOMAIN index /\ status'[w] = "done"
        /\ chain' = chain /\ cur' = cur /\ ServerLinks' = ServerLinks
    BY <1>1, <1>8 DEF LinkMissing, HasArray, IInv, TypeOK, ServerLinks
  <2>2. LinksAreReached'
    BY <1>3, <2>1 DEF LinksAreReached
  <2>3. Closed(cur[w])
    BY <2>1 DEF Closed, Principals
  <2>4. OthersAreClosed'
    BY <1>3, <2>1, <2>3 DEF OthersAreClosed, Closed
  <2>5. PassedAreLinks'
    BY <2>1 DEF PassedAreLinks
  <2> QED BY <2>2, <2>4, <2>5
<1>9. CASE AddEntry(w)
  <2> DEFINE p == index[cur[w]].onBehalfOf[i[w]]
             new == p \notin ToSet(chain[w])
  <2>1. /\ status[w] = "adding" /\ i[w] > 0 /\ status'[w] = "adding" /\ cur'[w] = cur[w]
        /\ i'[w] = i[w] - 1
        /\ chain'[w] = IF new THEN Append(chain[w], p) ELSE chain[w]
        /\ next'[w] = IF new THEN p ELSE next[w]
    BY <1>1, <1>9 DEF AddEntry, IInv, TypeOK
  <2>2. /\ cur[w] \in DOMAIN index /\ index[cur[w]] \in Node
        /\ i[w] \in 1..Len(index[cur[w]].onBehalfOf)
    BY <1>1, <2>1 DEF IInv, TypeOK
  <2>3. p \in IDs /\ p \in Principals(cur[w])
    BY <2>2 DEF Node, Principals, ToSet
  <2>4. RootsOnly /\ i[w] > 1 => Principals(p) = {}
    <3>1. i[w] > 1 => i[w] \in 2..Len(index[cur[w]].onBehalfOf)
      BY <2>2
    <3> QED BY <2>2, <3>1 DEF RootsOnly, OnlyRootsGoOn
  <2>5. chain[w] \in Seq(IDs)
    BY <1>1 DEF IInv, TypeOK
  <2> HIDE DEF p
  <2>6. ServerLinks' = ServerLinks \cup {p}
    <3>1. CASE new
      <4>1. ToSet(Append(chain[w], p)) = ToSet(chain[w]) \cup {p}
        BY <2>3, <2>5, ToSetAppend
      <4> QED BY <2>1, <3>1, <4>1 DEF ServerLinks
    <3>2. CASE ~new
      BY <2>1, <3>2 DEF ServerLinks
    <3> QED BY <3>1, <3>2
  <2>7. p \in Reach(start)
    BY <1>6, <2>3, ReachIsClosed DEF LinksAreReached
  <2>8. LinksAreReached'
    BY <1>3, <2>6, <2>7 DEF LinksAreReached
  <2>9. next'[w] = p \/ (p \in ServerLinks /\ next'[w] = next[w])
    BY <2>1 DEF ServerLinks
  <2>10. PassedAreLinks'
    <3>1. ASSUME NEW k \in 1..Len(index[cur[w]].onBehalfOf), k > i[w] - 1
          PROVE  index[cur[w]].onBehalfOf[k] \in ServerLinks \cup {p}
      <4>1. k > i[w] \/ k = i[w]
        BY <1>6, <3>1
      <4>2. k > i[w] => index[cur[w]].onBehalfOf[k] \in ServerLinks
        BY <2>1 DEF PassedAreLinks
      <4> QED BY <4>1, <4>2 DEF p
    <3> QED BY <1>2, <2>1, <2>6, <3>1 DEF PassedAreLinks
  <2>11. i'[w] = 0 => Closed(cur[w])'
    <3>1. SUFFICES ASSUME i'[w] = 0 PROVE Closed(cur[w])'
      OBVIOUS
    <3>2. \A k \in 1..Len(index[cur[w]].onBehalfOf) : k > i'[w]
      BY <3>1
    <3>3. \A k \in 1..Len(index[cur[w]].onBehalfOf) :
            index[cur[w]].onBehalfOf[k] \in ServerLinks'
      BY <1>2, <2>1, <2>10, <3>2 DEF PassedAreLinks
    <3>4. DOMAIN index[cur[w]].onBehalfOf = 1..Len(index[cur[w]].onBehalfOf)
      BY <2>2 DEF Node
    <3> QED BY <1>2, <2>1, <2>2, <3>3, <3>4 DEF Closed, Principals, ToSet
  <2>12. ASSUME RootsOnly PROVE OthersAreClosed'
    <3>1. ASSUME NEW x \in ServerLinks, x # cur[w] PROVE Closed(x)'
      <4>1. Closed(x)
        BY <2>1, <2>12, <3>1 DEF OthersAreClosed
      <4> QED BY <1>3, <2>6, <4>1 DEF Closed
    <3>2. CASE i[w] > 1
      <4>1. i'[w] > 0 /\ Principals(p) = {}
        BY <1>6, <2>1, <2>4, <2>12, <3>2
      <4>2. \A x : x = p => Closed(x)'
        BY <1>3, <4>1 DEF Closed
      <4>3. Principals(next'[w]) = {}
        BY <2>1, <2>9, <2>12, <4>1 DEF OthersAreClosed
      <4> QED BY <1>3, <2>1, <2>6, <3>1, <4>1, <4>2, <4>3 DEF OthersAreClosed
    <3>3. CASE i[w] = 1
      <4>1. i'[w] = 0
        BY <2>1, <3>3
      <4>2. Closed(cur[w])'
        BY <2>1, <2>11, <4>1
      <4>3. p \notin ServerLinks => p = next'[w]
        BY <2>9
      <4>4. \A x : x = Blank => Closed(x)'
        BY <1>2, <2>12 DEF RootsOnly, Closed, Principals
      <4>5. \A x \in ServerLinks : Closed(x)'
        BY <2>1, <3>1, <4>2
      <4>6. ASSUME NEW x \in ServerLinks' PROVE Closed(x)' \/ (x = next'[w] /\ x # Blank)
        <5>1. x \in ServerLinks \/ (x = p /\ p \notin ServerLinks)
          BY <2>6
        <5> QED BY <4>3, <4>4, <4>5, <5>1
      <4>7. i'["server"] = 0 /\ ~(i'["server"] > 0)
        <5>1. ~(0 > 0)
          OBVIOUS
        <5> QED BY <4>1, <5>1, Zenon
      <4>8. \A x \in ServerLinks' : Closed(x)' \/ (x = next'["server"] /\ x # Blank)
        BY <4>6
      <4> QED BY <2>1, <4>7, <4>8 DEF OthersAreClosed
    <3>4. i[w] > 1 \/ i[w] = 1
      BY <1>6, <2>1
    <3> QED BY <3>2, <3>3, <3>4
  <2>13. OthersAreClosed'
    BY <1>3, <2>12 DEF OthersAreClosed
  <2> QED BY <2>8, <2>10, <2>13
<1>10. CASE Continue(w)
  <2>1. /\ status[w] = "adding" /\ i[w] = 0 /\ status'[w] = "looking" /\ cur'[w] = next[w]
        /\ ServerLinks' = ServerLinks
    BY <1>1, <1>10 DEF Continue, IInv, TypeOK, ServerLinks
  <2>2. LinksAreReached'
    BY <1>3, <2>1 DEF LinksAreReached
  <2>3. OthersAreClosed'
    BY <1>3, <1>6, <2>1 DEF OthersAreClosed, Closed
  <2>4. PassedAreLinks'
    BY <2>1 DEF PassedAreLinks
  <2> QED BY <2>2, <2>3, <2>4
<1>11. CASE NothingNew(w)
  <2>1. /\ status[w] = "adding" /\ i[w] = 0 /\ status'[w] = "done" /\ next[w] = Blank
        /\ ServerLinks' = ServerLinks
    BY <1>1, <1>11 DEF NothingNew, IInv, TypeOK, ServerLinks, NoNext
  <2>2. LinksAreReached'
    BY <1>3, <2>1 DEF LinksAreReached
  <2>3. OthersAreClosed'
    BY <1>3, <1>6, <2>1 DEF OthersAreClosed, Closed
  <2>4. PassedAreLinks'
    BY <2>1 DEF PassedAreLinks
  <2> QED BY <2>2, <2>3, <2>4
<1> QED BY <1>5, <1>7, <1>8, <1>9, <1>10, <1>11 DEF Next, Step, Walkers

LEMMA ReachedHolds ==
    Spec => [](IInv /\ LinksAreReached /\ PassedAreLinks /\ OthersAreClosed)
<1>1. Init => LinksAreReached /\ PassedAreLinks /\ OthersAreClosed
  <2> SUFFICES ASSUME Init PROVE LinksAreReached /\ PassedAreLinks /\ OthersAreClosed
    OBVIOUS
  <2>1. ServerLinks = {start} /\ cur["server"] = start /\ status["server"] = "looking"
    BY DEF Init, ServerLinks, Walkers, ToSet
  <2>2. start \in Reach(start)
    BY IdsAssumption DEF Init, Reach
  <2> QED BY <2>1, <2>2 DEF LinksAreReached, PassedAreLinks, OthersAreClosed
<1> QED BY <1>1, ServerStepReaches, InitEstablishesIt, StepKeepsIt, PTL DEF Spec

(* Where only roots go on, the links of the chain are everybody the         *)
(* identity can come to act as.                                            *)
LEMMA LinksAreTheReach ==
    ASSUME IInv, LinksAreReached, OthersAreClosed, RootsOnly, status["server"] = "done"
    PROVE  ServerLinks = Reach(start)
<1>1. \A x \in ServerLinks : Principals(x) \subseteq ServerLinks
  BY DEF OthersAreClosed, Closed
<1>2. start \in ServerLinks /\ ServerLinks \subseteq IDs
  <2>1. "server" \in Walkers
    BY DEF Walkers
  <2>2. chain["server"] \in Seq(IDs) /\ chain["server"] # <<>> /\ chain["server"][1] = start
    BY <2>1 DEF IInv, TypeOK, ChainIsLinked
  <2> QED BY <2>2 DEF ServerLinks, ToSet
<1>3. Reach(start) \subseteq ServerLinks
  BY <1>1, <1>2 DEF Reach
<1> QED BY <1>3 DEF LinksAreReached

-----------------------------------------------------------------------------
(* What a chain grants: facts about the folds of Granted and BlastRadius.    *)

(* Induction over a set of numbers. *)
LEMMA SetInduction ==
    ASSUME NEW S, 0 \in S, \A n \in Nat : n \in S => n + 1 \in S
    PROVE  Nat \subseteq S
<1> DEFINE T == Nat \ S
           R == OpToRel(<, Nat)
<1>1. IsWellFoundedOn(R, Nat)
  BY NatLessThanWellFounded
<1>2. \A x, y \in Nat : <<y, x>> \in R <=> y < x
  BY DEF OpToRel
<1> HIDE DEF R
<1>3. SUFFICES ASSUME T # {} PROVE FALSE
  OBVIOUS
<1>4. PICK x \in T : \A y \in T : <<y, x>> \notin R
  <2>1. T \subseteq Nat
    OBVIOUS
  <2> HIDE DEF T
  <2> QED BY <1>1, <1>3, <2>1, WFMin
<1>5. x # 0 /\ x - 1 \in Nat /\ x - 1 < x
  OBVIOUS
<1>6. x - 1 \in S
  BY <1>2, <1>4, <1>5
<1> QED BY <1>5, <1>6

(* A set of numbers has a least. *)
LEMMA LeastOf ==
    ASSUME NEW S \in SUBSET Nat, S # {}
    PROVE  \E m \in S : \A n \in S : m <= n
<1> DEFINE R == OpToRel(<, Nat)
<1>1. IsWellFoundedOn(R, Nat)
  BY NatLessThanWellFounded
<1>2. \A x, y \in Nat : <<y, x>> \in R <=> y < x
  BY DEF OpToRel
<1> HIDE DEF R
<1>3. PICK m \in S : \A n \in S : <<n, m>> \notin R
  BY <1>1, WFMin
<1>4. \A n \in S : ~(n < m)
  BY <1>2, <1>3
<1> QED BY <1>4

(* FlattenSeq has the elements of the sequences it joins. *)
LEMMA FlattenHasAll ==
    ASSUME NEW T, NEW qs \in Seq(Seq(T))
    PROVE  /\ FlattenSeq(qs) \in Seq(T)
           /\ ToSet(FlattenSeq(qs)) = UNION {ToSet(qs[k]) : k \in DOMAIN qs}
<1>1. CASE Len(qs) = 0
  <2>1. FlattenSeq(qs) = qs /\ qs = <<>>
    BY <1>1 DEF FlattenSeq
  <2> QED BY <2>1 DEF ToSet
<1>2. CASE Len(qs) # 0
  <2> DEFINE N == Len(qs)
             IsFlat(f, n) == f = [k \in 1..n |-> IF k = 1 THEN qs[k] ELSE f[k - 1] \o qs[k]]
             Grows == {n \in Nat : n <= N => \E f : IsFlat(f, n)}
  <2>1. N \in Nat \ {0} /\ DOMAIN qs = 1..N /\ \A k \in 1..N : qs[k] \in Seq(T)
    BY <1>2
  <2> HIDE DEF N, IsFlat
  <2>2. 0 \in Grows
    <3>1. IsFlat([k \in {} |-> k], 0)
      BY DEF IsFlat
    <3> QED BY <3>1
  <2>3. ASSUME NEW n \in Nat, n \in Grows PROVE n + 1 \in Grows
    <3>1. SUFFICES ASSUME n + 1 <= N PROVE \E f : IsFlat(f, n + 1)
      OBVIOUS
    <3>2. PICK f : IsFlat(f, n)
      <4>1. n <= N
        BY <2>1, <3>1
      <4> QED BY <2>3, <4>1
    <3> DEFINE g == [k \in 1..(n + 1) |->
                       IF k = n + 1 THEN IF k = 1 THEN qs[k] ELSE f[k - 1] \o qs[k] ELSE f[k]]
    <3>3. \A k \in 1..n : f[k] = IF k = 1 THEN qs[k] ELSE f[k - 1] \o qs[k]
      BY <3>2, Zenon DEF IsFlat
    <3>4. \A k \in 1..n : g[k] = f[k] /\ k # n + 1
      OBVIOUS
    <3>5. ASSUME NEW k \in 1..(n + 1)
          PROVE  g[k] = IF k = 1 THEN qs[k] ELSE g[k - 1] \o qs[k]
      <4>1. CASE k = n + 1
        <5>1. k # 1 => k - 1 \in 1..n
          BY <4>1
        <5>2. k # 1 => g[k - 1] = f[k - 1]
          BY <3>4, <5>1
        <5> QED BY <4>1, <5>2
      <4>2. CASE k \in 1..n
        <5>1. k # 1 => k - 1 \in 1..n
          BY <4>2
        <5> HIDE DEF g
        <5> QED BY <3>3, <3>4, <4>2, <5>1
      <4> QED BY <4>1, <4>2
    <3>6. g = [k \in 1..(n + 1) |-> g[k]]
      OBVIOUS
    <3> HIDE DEF g
    <3>7. IsFlat(g, n + 1)
      BY <3>5, <3>6 DEF IsFlat
    <3> QED BY <3>7
  <2>4. Nat \subseteq Grows
    <3> HIDE DEF Grows
    <3> QED BY <2>2, <2>3, SetInduction
  <2>5. \E f : IsFlat(f, N)
    <3>1. N \in Grows /\ N <= N
      BY <2>1, <2>4
    <3> QED BY <3>1
  <2> DEFINE flat == CHOOSE f : IsFlat(f, N)
  <2>6. IsFlat(flat, N)
    BY <2>5
  <2>7. FlattenSeq(qs) = flat[N]
    BY <1>2 DEF FlattenSeq, N, IsFlat
  <2> HIDE DEF flat
  <2>8. \A k \in 1..N : flat[k] = IF k = 1 THEN qs[k] ELSE flat[k - 1] \o qs[k]
    BY <2>6, Zenon DEF IsFlat
  <2> DEFINE Upto(n) == UNION {ToSet(qs[k]) : k \in 1..n}
             Good == {n \in Nat : n \in 1..N => flat[n] \in Seq(T) /\ ToSet(flat[n]) = Upto(n)}
  <2>9. 0 \in Good
    OBVIOUS
  <2>10. ASSUME NEW n \in Nat, n \in Good PROVE n + 1 \in Good
    <3>1. SUFFICES ASSUME n + 1 \in 1..N
                   PROVE  flat[n + 1] \in Seq(T) /\ ToSet(flat[n + 1]) = Upto(n + 1)
      OBVIOUS
    <3>2. CASE n = 0
      <4>1. 1..1 = {1} /\ flat[1] = qs[1] /\ n + 1 = 1
        BY <2>8, <3>1, <3>2
      <4> QED BY <2>1, <3>1, <4>1
    <3>3. CASE n # 0
      <4>1. n \in 1..N /\ flat[n] \in Seq(T) /\ ToSet(flat[n]) = Upto(n)
        <5>1. n \in 1..N
          BY <2>1, <3>1, <3>3
        <5> QED BY <2>10, <5>1
      <4>2. flat[n + 1] = flat[n] \o qs[n + 1] /\ qs[n + 1] \in Seq(T)
        <5>1. n + 1 # 1 /\ (n + 1) - 1 = n
          BY <3>3
        <5> QED BY <2>1, <2>8, <3>1, <5>1
      <4>3. ToSet(flat[n + 1]) = ToSet(flat[n]) \cup ToSet(qs[n + 1])
        BY <4>1, <4>2, ToSetConcat
      <4>4. Upto(n + 1) = Upto(n) \cup ToSet(qs[n + 1])
        <5>1. 1..(n + 1) = (1..n) \cup {n + 1}
          OBVIOUS
        <5> QED BY <5>1
      <4> HIDE DEF Upto
      <4> QED BY <4>1, <4>2, <4>3, <4>4
    <3> QED BY <3>2, <3>3
  <2>11. Nat \subseteq Good
    <3> HIDE DEF Good
    <3> QED BY <2>9, <2>10, SetInduction
  <2>12. N \in Good /\ N \in 1..N
    <3> HIDE DEF Good
    <3> QED BY <2>1, <2>11
  <2>13. flat[N] \in Seq(T) /\ ToSet(flat[N]) = Upto(N)
    BY <2>12
  <2> QED BY <2>1, <2>7, <2>13
<1> QED BY <1>1, <1>2

(* One grant of BlastRadius's loop. *)
AddFirst(out, g) ==
    IF \E h \in ToSet(out) : h[2].name = g[2].name THEN out ELSE Append(out, g)

(* FoldLeft takes the grants one by one, in their order. *)
LEMMA FoldTakesEach ==
    ASSUME NEW T, NEW gs \in Seq(T)
    PROVE  \E f : /\ FoldLeft(AddFirst, <<>>, gs) = f[Len(gs)] /\ f[0] = <<>>
                  /\ \A k \in 1..Len(gs) : f[k] = AddFirst(f[k - 1], gs[k])
<1> DEFINE N == Len(gs)
           Of(f, s) == IF s = {} THEN <<>> ELSE AddFirst(f[s \ {Max(s)}], gs[Max(s)])
           IsIter(f, n) == f = [s \in SUBSET (1..n) |-> Of(f, s)]
           Grows == {n \in Nat : \E f : IsIter(f, n)}
<1>1. N \in Nat /\ DOMAIN gs = 1..N
  OBVIOUS
<1>2. ASSUME NEW n \in Nat, NEW s \in SUBSET (1..n), n \in s PROVE Max(s) = n
  <2> DEFINE IsMax(x) == x \in s /\ \A y \in s : x >= y
  <2>1. IsMax(n)
    BY <1>2
  <2>2. \A x : IsMax(x) => x = n
    BY <1>2
  <2>3. Max(s) = CHOOSE x : IsMax(x)
    BY DEF Max
  <2> HIDE DEF IsMax
  <2> QED BY <2>1, <2>2, <2>3
<1> HIDE DEF N, IsIter, Of
<1>3. 0 \in Grows
  <2> DEFINE f == [s \in SUBSET (1..0) |-> <<>>]
  <2>1. SUBSET (1..0) = {{}}
    OBVIOUS
  <2>2. \A s \in SUBSET (1..0) : Of(f, s) = <<>>
    BY <2>1 DEF Of
  <2>3. IsIter(f, 0)
    BY <2>2 DEF IsIter
  <2> HIDE DEF f
  <2> QED BY <2>3
<1>4. ASSUME NEW n \in Nat, n \in Grows PROVE n + 1 \in Grows
  <2>1. PICK f : IsIter(f, n)
    BY <1>4
  <2>2. \A s \in SUBSET (1..n) : f[s] = Of(f, s)
    BY <2>1, Zenon DEF IsIter
  <2> DEFINE g == [s \in SUBSET (1..(n + 1)) |->
                     IF n + 1 \in s THEN AddFirst(f[s \ {n + 1}], gs[n + 1]) ELSE f[s]]
  <2>3. ASSUME NEW s \in SUBSET (1..n)
        PROVE  g[s] = f[s] /\ s \in SUBSET (1..(n + 1)) /\ n + 1 \notin s
    OBVIOUS
  <2>4. ASSUME NEW s \in SUBSET (1..(n + 1)), n + 1 \in s
        PROVE  /\ Max(s) = n + 1 /\ s \ {n + 1} \in SUBSET (1..n)
               /\ g[s] = AddFirst(f[s \ {n + 1}], gs[n + 1])
    BY <1>2, <2>4
  <2>5. ASSUME NEW s \in SUBSET (1..(n + 1)), n + 1 \notin s PROVE s \in SUBSET (1..n)
    BY <2>5
  <2>6. g = [s \in SUBSET (1..(n + 1)) |-> g[s]]
    OBVIOUS
  <2> HIDE DEF g
  <2>7. ASSUME NEW s \in SUBSET (1..(n + 1)) PROVE g[s] = Of(g, s)
    <3>1. CASE n + 1 \in s
      <4>1. g[s \ {n + 1}] = f[s \ {n + 1}]
        BY <2>3, <2>4, <3>1
      <4> QED BY <2>4, <3>1, <4>1 DEF Of
    <3>2. CASE n + 1 \notin s
      <4>1. s \in SUBSET (1..n) /\ g[s] = f[s]
        BY <2>3, <2>5, <3>2
      <4>2. g[s \ {Max(s)}] = f[s \ {Max(s)}]
        <5>1. s \ {Max(s)} \in SUBSET (1..n)
          BY <4>1
        <5> QED BY <2>3, <5>1
      <4> QED BY <2>2, <4>1, <4>2 DEF Of
    <3> QED BY <3>1, <3>2
  <2>8. IsIter(g, n + 1)
    BY <2>6, <2>7 DEF IsIter
  <2> QED BY <2>8
<1>5. \E f : IsIter(f, N)
  <2>1. Nat \subseteq Grows
    <3> HIDE DEF Grows
    <3> QED BY <1>3, <1>4, SetInduction
  <2>2. N \in Grows
    <3> HIDE DEF Grows
    <3> QED BY <1>1, <2>1
  <2> QED BY <2>2
<1> DEFINE it == CHOOSE f : IsIter(f, N)
<1>6. IsIter(it, N)
  BY <1>5
<1>7. FoldLeft(AddFirst, <<>>, gs) = it[1..N]
  BY <1>1 DEF FoldLeft, MapThenFoldSet, IsIter, Of
<1> HIDE DEF it
<1>8. \A s \in SUBSET (1..N) : it[s] = Of(it, s)
  BY <1>6, Zenon DEF IsIter
<1> DEFINE f == [k \in 0..N |-> it[1..k]]
<1>9. f[0] = <<>>
  <2>1. 1..0 = {} /\ 1..0 \in SUBSET (1..N) /\ 0 \in 0..N
    BY <1>1
  <2> QED BY <1>8, <2>1 DEF Of
<1>10. ASSUME NEW k \in 1..N PROVE f[k] = AddFirst(f[k - 1], gs[k])
  <2>1. /\ k \in Nat /\ k \in 0..N /\ k - 1 \in 0..N /\ 1..k \in SUBSET (1..N)
        /\ k \in 1..k /\ (1..k) \ {k} = 1..(k - 1) /\ 1..k # {}
    BY <1>1
  <2>2. Max(1..k) = k
    BY <1>2, <2>1
  <2> QED BY <1>8, <2>1, <2>2 DEF Of
<1>11. f[N] = it[1..N]
  BY <1>1
<1> HIDE DEF f
<1> QED BY <1>7, <1>9, <1>10, <1>11 DEF N

Names(gs) == {g[2].name : g \in ToSet(gs)}

(* The blast radius of a chain has a grant of every name the chain was      *)
(* granted, and of no other.                                               *)
LEMMA RadiusHasEveryName ==
    ASSUME NEW links, NEW T, Granted(links) \in Seq(T)
    PROVE  Names(BlastRadius(links)) = Names(Granted(links))
<1> DEFINE gs == Granted(links)
           N == Len(gs)
<1>1. BlastRadius(links) = FoldLeft(AddFirst, <<>>, gs)
  BY DEF BlastRadius, AddFirst
<1>2. N \in Nat /\ DOMAIN gs = 1..N /\ \A k \in 1..N : gs[k] \in T
  OBVIOUS
<1>3. PICK f : /\ FoldLeft(AddFirst, <<>>, gs) = f[N] /\ f[0] = <<>>
               /\ \A k \in 1..N : f[k] = AddFirst(f[k - 1], gs[k])
  BY FoldTakesEach
<1> HIDE DEF gs, N
<1> DEFINE Upto(n) == {gs[k][2].name : k \in 1..n}
           Good == {n \in Nat : n <= N => f[n] \in Seq(T) /\ Names(f[n]) = Upto(n)}
<1>4. 0 \in Good
  <2>1. Names(<<>>) = {} /\ Upto(0) = {} /\ <<>> \in Seq(T)
    BY DEF Names, ToSet
  <2> QED BY <1>3, <2>1
<1>5. ASSUME NEW n \in Nat, n \in Good PROVE n + 1 \in Good
  <2>1. SUFFICES ASSUME n + 1 <= N
                 PROVE  f[n + 1] \in Seq(T) /\ Names(f[n + 1]) = Upto(n + 1)
    OBVIOUS
  <2>2. f[n] \in Seq(T) /\ Names(f[n]) = Upto(n)
    <3>1. n <= N
      BY <1>2, <2>1
    <3> QED BY <1>5, <3>1
  <2>3. /\ n + 1 \in 1..N /\ f[n + 1] = AddFirst(f[n], gs[n + 1]) /\ gs[n + 1] \in T
    <3>1. n + 1 \in 1..N /\ (n + 1) - 1 = n
      BY <1>2, <2>1
    <3> QED BY <1>2, <1>3, <3>1
  <2>4. Upto(n + 1) = Upto(n) \cup {gs[n + 1][2].name}
    <3>1. 1..(n + 1) = (1..n) \cup {n + 1}
      OBVIOUS
    <3> QED BY <3>1
  <2> HIDE DEF Upto
  <2>5. CASE \E h \in ToSet(f[n]) : h[2].name = gs[n + 1][2].name
    <3>1. f[n + 1] = f[n] /\ gs[n + 1][2].name \in Names(f[n])
      BY <2>3, <2>5 DEF AddFirst, Names
    <3> QED BY <2>2, <2>4, <3>1
  <2>6. CASE ~\E h \in ToSet(f[n]) : h[2].name = gs[n + 1][2].name
    <3>1. f[n + 1] = Append(f[n], gs[n + 1])
      BY <2>3, <2>6 DEF AddFirst
    <3>2. f[n + 1] \in Seq(T) /\ ToSet(f[n + 1]) = ToSet(f[n]) \cup {gs[n + 1]}
      BY <2>2, <2>3, <3>1, ToSetAppend
    <3>3. Names(f[n + 1]) = Names(f[n]) \cup {gs[n + 1][2].name}
      BY <3>2 DEF Names
    <3> QED BY <2>2, <2>4, <3>2, <3>3
  <2> QED BY <2>5, <2>6
<1>6. N \in Good
  <2> HIDE DEF Good
  <2> QED BY <1>2, <1>4, <1>5, SetInduction
<1>7. N <= N /\ Names(f[N]) = Upto(N)
  BY <1>2, <1>6
<1>8. Upto(N) = Names(gs)
  BY <1>2 DEF Names, ToSet
<1> QED BY <1>1, <1>3, <1>7, <1>8 DEF gs

PermissionsOf(x) == IF x \in DOMAIN index THEN ToSet(index[x].permissions) ELSE {}

(* The grants of a chain are those of its links. *)
LEMMA GrantedByTheLinks ==
    ASSUME IInv, NEW links \in Seq(IDs)
    PROVE  /\ Granted(links) \in Seq(IDs \X Permissions)
           /\ Names(Granted(links))
                = UNION {{p.name : p \in PermissionsOf(x)} : x \in ToSet(links)}
<1> DEFINE T == IDs \X Permissions
           Of(k) == IF links[k] \in DOMAIN index
                    THEN [m \in DOMAIN index[links[k]].permissions |->
                             <<links[k], index[links[k]].permissions[m]>>]
                    ELSE <<>>
           qs == [k \in DOMAIN links |-> Of(k)]
<1>1. ASSUME NEW k \in DOMAIN links
      PROVE  /\ Of(k) \in Seq(T)
             /\ ToSet(Of(k)) = {<<links[k], p>> : p \in PermissionsOf(links[k])}
  <2>1. links[k] \in IDs
    OBVIOUS
  <2>2. CASE links[k] \in DOMAIN index
    <3> DEFINE ps == index[links[k]].permissions
    <3>1. ps \in Seq(Permissions)
      BY <2>2 DEF IInv, TypeOK, Node
    <3>2. DOMAIN ps = 1..Len(ps) /\ Len(ps) \in Nat /\ \A m \in 1..Len(ps) : ps[m] \in Permissions
      BY <3>1
    <3>3. Of(k) = [m \in 1..Len(ps) |-> <<links[k], ps[m]>>]
      BY <2>2, <3>2
    <3>4. PermissionsOf(links[k]) = ToSet(ps)
      BY <2>2 DEF PermissionsOf
    <3> HIDE DEF ps, Of
    <3>5. Of(k) \in Seq(T)
      BY <2>1, <3>2, <3>3
    <3>6. DOMAIN Of(k) = 1..Len(ps) /\ \A m \in 1..Len(ps) : Of(k)[m] = <<links[k], ps[m]>>
      BY <3>3
    <3>7. ToSet(Of(k)) = {<<links[k], p>> : p \in ToSet(ps)}
      BY <3>2, <3>6 DEF ToSet
    <3> QED BY <3>4, <3>5, <3>7
  <2>3. CASE links[k] \notin DOMAIN index
    <3>1. Of(k) = <<>> /\ PermissionsOf(links[k]) = {}
      BY <2>3 DEF PermissionsOf
    <3> QED BY <3>1 DEF ToSet
  <2> QED BY <2>2, <2>3
<1>2. Granted(links) = FlattenSeq(qs)
  BY DEF Granted
<1> HIDE DEF Of
<1>3. qs \in Seq(Seq(T)) /\ DOMAIN qs = DOMAIN links /\ \A k \in DOMAIN links : qs[k] = Of(k)
  <2>1. DOMAIN links = 1..Len(links) /\ Len(links) \in Nat
    OBVIOUS
  <2> QED BY <1>1, <2>1
<1> HIDE DEF qs, T
<1>4. /\ Granted(links) \in Seq(T)
      /\ ToSet(Granted(links)) = UNION {ToSet(qs[k]) : k \in DOMAIN qs}
  BY <1>2, <1>3, FlattenHasAll
<1>5. ToSet(Granted(links))
        = UNION {{<<links[k], p>> : p \in PermissionsOf(links[k])} : k \in DOMAIN links}
  BY <1>1, <1>3, <1>4
<1>6. Names(Granted(links))
        = UNION {{p.name : p \in PermissionsOf(links[k])} : k \in DOMAIN links}
  <2> DEFINE named == UNION {{p.name : p \in PermissionsOf(links[k])} : k \in DOMAIN links}
  <2>1. ASSUME NEW g \in ToSet(Granted(links)) PROVE g[2].name \in named
    <3>1. PICK k \in DOMAIN links : \E p \in PermissionsOf(links[k]) : g = <<links[k], p>>
      BY <1>5
    <3>2. PICK p \in PermissionsOf(links[k]) : g = <<links[k], p>>
      BY <3>1
    <3> QED BY <3>2
  <2>2. ASSUME NEW k \in DOMAIN links, NEW p \in PermissionsOf(links[k])
        PROVE  p.name \in Names(Granted(links))
    <3> DEFINE g == <<links[k], p>>
    <3>1. g \in ToSet(Granted(links)) /\ g[2] = p
      BY <1>5
    <3> HIDE DEF g
    <3> QED BY <3>1 DEF Names
  <2>3. Names(Granted(links)) \subseteq named
    BY <2>1 DEF Names
  <2>4. named \subseteq Names(Granted(links))
    BY <2>2
  <2> QED BY <2>3, <2>4
<1>7. ToSet(links) = {links[k] : k \in DOMAIN links}
  BY DEF ToSet
<1> QED BY <1>4, <1>6, <1>7 DEF T

(* excessive_agency.go:10-15, in every graph, with arrays of any length,    *)
(* where only the roots of arrays act for somebody in turn: an agent that   *)
(* can come to act as an admin is reported by one of the two detectors, and *)
(* the blast radius names every grant it can come to use.                  *)
THEOREM AdminsAreReported == Spec => []ReachableAdminsAreReported
<1>1. IInv /\ LinksAreReached /\ OthersAreClosed => ReachableAdminsAreReported
  <2> DEFINE links == chain["server"]
             within == Reach(start) \cap DOMAIN index
  <2> SUFFICES ASSUME IInv, LinksAreReached, OthersAreClosed, RootsOnly,
                      status["server"] = "done"
               PROVE  /\ start \in within /\ index[start].agent
                           /\ (\E x \in within : HasAdmin(x))
                         => ExcessiveAgency(links) \/ OverPrivilegedNHI
                      /\ {g[2].name : g \in ToSet(BlastRadius(links))}
                           = UNION {{p.name : p \in ToSet(index[x].permissions)} : x \in within}
    BY DEF ReachableAdminsAreReported, RootsOnly
  <2>1. links \in Seq(IDs) /\ ToSet(links) = Reach(start)
    BY LinksAreTheReach DEF IInv, TypeOK, Walkers, ServerLinks
  <2> HIDE DEF links
  <2>2. ASSUME start \in within, index[start].agent, NEW x \in within, HasAdmin(x)
        PROVE  ExcessiveAgency(links) \/ OverPrivilegedNHI
    <3> DEFINE admins == {k \in DOMAIN links : HasAdmin(links[k])}
    <3>1. x \in ToSet(links)
      BY <2>1, <2>2
    <3>2. PICK k \in DOMAIN links : links[k] = x
      BY <3>1 DEF ToSet
    <3>3. admins # {} /\ admins \in SUBSET Nat
      BY <2>1, <2>2, <3>2
    <3>4. PICK m \in admins : \A n \in admins : m <= n
      <4> HIDE DEF admins
      <4> QED BY <3>3, LeastOf
    <3>5. AdminInChain(links) = {links[k2] : k2 \in {m2 \in admins : \A n \in admins : m2 <= n}}
      BY DEF AdminInChain
    <3> HIDE DEF admins
    <3>6. AdminInChain(links) # {}
      BY <3>4, <3>5
    <3>7. \A y \in AdminInChain(links) : HasAdmin(y)
      BY <3>5 DEF admins
    <3>8. start \in AdminInChain(links) => OverPrivilegedNHI
      BY <2>2, <3>7 DEF OverPrivilegedNHI
    <3> QED BY <2>2, <3>6, <3>8 DEF ExcessiveAgency
  <2>3. Names(BlastRadius(links)) = UNION {{p.name : p \in PermissionsOf(x)} : x \in ToSet(links)}
    BY <2>1, GrantedByTheLinks, RadiusHasEveryName
  <2>4. UNION {{p.name : p \in PermissionsOf(x)} : x \in ToSet(links)}
          = UNION {{p.name : p \in ToSet(index[x].permissions)} : x \in within}
    <3>1. \A x \in ToSet(links) : x \notin within => PermissionsOf(x) = {}
      BY <2>1 DEF PermissionsOf
    <3>2. \A x \in within : PermissionsOf(x) = ToSet(index[x].permissions) /\ x \in ToSet(links)
      BY <2>1 DEF PermissionsOf
    <3> HIDE DEF within
    <3> QED BY <3>1, <3>2
  <2> QED BY <2>2, <2>3, <2>4 DEF Names
<1> QED BY <1>1, ReachedHolds, PTL

=============================================================================
