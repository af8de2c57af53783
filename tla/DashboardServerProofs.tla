------------------------ MODULE DashboardServerProofs ------------------------
(***************************************************************************)
(* Proofs about the dashboard server, for every set of clients and source  *)
(* files and every bound on versions and failed rebuilds.                  *)
(***************************************************************************)
EXTENDS DashboardServer, TLAPS

LEMMA InitType == Init => TypeOK
BY BoundsAssumption DEF Init, TypeOK, Versions, Built, Nothing

LEMMA NextType == TypeOK /\ [Next]_vars => TypeOK'
<1> SUFFICES ASSUME TypeOK, [Next]_vars PROVE TypeOK'
  OBVIOUS
<1> USE DEF TypeOK, refreshVars, serverVars, handlerVars
<1>1. ASSUME NEW s \in Sources, Grow(s) PROVE TypeOK'
  BY <1>1, BoundsAssumption DEF Grow, Versions
<1>2. CASE Tick
  BY <1>2 DEF Tick
<1>3. ASSUME NEW s \in Sources, ReadSource(s) PROVE TypeOK'
  <2>1. [built.of EXCEPT ![s] = file[s]] \in Versions
    BY DEF Versions
  <2>2. built' \in [of : Versions, sorted : BOOLEAN]
    BY <1>3, <2>1 DEF ReadSource, Built
  <2>3. QED
    BY <1>3, <2>2 DEF ReadSource
<1>4. CASE RebuildFails
  BY <1>4, BoundsAssumption DEF RebuildFails
<1>5. CASE RunDetectors
  BY <1>5 DEF RunDetectors
<1>6. CASE Lock
  BY <1>6 DEF Lock
<1>7. CASE Acquire
  BY <1>7 DEF Acquire
<1>8. CASE SwapGraph
  BY <1>8 DEF SwapGraph
<1>9. CASE SwapAlerts
  BY <1>9 DEF SwapAlerts
<1>10. CASE Unlock
  BY <1>10 DEF Unlock
<1>11. ASSUME NEW c \in Clients, NEW fields \in Endpoints, Ask(c, fields) PROVE TypeOK'
  BY <1>11 DEF Ask, Endpoints, Fields
<1>12. ASSUME NEW c \in Clients, RLock(c) PROVE TypeOK'
  BY <1>12 DEF RLock
<1>13. ASSUME NEW c \in Clients, ReadAlerts(c) PROVE TypeOK'
  BY <1>13 DEF ReadAlerts, Fetch, Fields
<1>14. ASSUME NEW c \in Clients, ReadGraph(c) PROVE TypeOK'
  BY <1>14 DEF ReadGraph, Fetch, Fields
<1>15. ASSUME NEW c \in Clients, Drain(c) PROVE TypeOK'
  BY <1>15 DEF Drain
<1>16. ASSUME NEW c \in Clients, RUnlock(c) PROVE TypeOK'
  BY <1>16 DEF RUnlock, Nothing
<1>17. CASE UNCHANGED vars
  BY <1>17 DEF vars
<1>18. QED
  BY <1>1, <1>2, <1>3, <1>4, <1>5, <1>6, <1>7, <1>8, <1>9, <1>10, <1>11, <1>12, <1>13,
     <1>14, <1>15, <1>16, <1>17 DEF Next, Refresh

(* Every reachable state of the server is well typed. *)
THEOREM TypeCorrect == Spec => []TypeOK
BY InitType, NextType, PTL DEF Spec

-----------------------------------------------------------------------------
(* The lock: who holds it is where the goroutines are. *)
LockInv ==
    /\ writer = "held" <=> refresher \in {"swapping", "swapped", "unlocking"}
    /\ writer = "held" => readers = {}
    /\ \A c \in Clients : c \in readers <=> handler[c] \in {"reading", "written"}

(* Graph and alerts agree but between the two assignments of Replace, and   *)
(* neither they nor the graph being built hold more than the files do.      *)
ServeInv ==
    /\ refresher # "swapped" => graph.of = alerts
    /\ refresher \in {"swapped", "unlocking"} => graph.of = built.of
    /\ graph.sorted
    /\ refresher \in {"replacing", "locking", "swapping", "swapped"} => built.sorted
    /\ \A s \in Sources : alerts[s] <= built.of[s] /\ built.of[s] <= file[s]

(* A handler that holds the lock has read the current view, one that does   *)
(* not has read nothing, and a request always asks for something.           *)
ReadInv ==
    /\ \A c \in readers : \A f \in Fields : response[c][f] \in {alerts, NoAnswer}
    /\ \A c \in Clients \ readers : \A f \in Fields : response[c][f] = NoAnswer
    /\ \A c \in Clients :
         /\ handler[c] \in {"arrived", "blocked"} => wants[c] # {}
         /\ handler[c] = "written" => wants[c] = {}
         /\ c \in readers /\ wants[c] = {} => \E f \in Fields : response[c][f] # NoAnswer

Inv == TypeOK /\ LockInv /\ ServeInv /\ ReadInv

LEMMA InitInv == Init => Inv
<1> SUFFICES ASSUME Init PROVE Inv
  OBVIOUS
<1>1. TypeOK
  BY InitType
<1>2. LockInv
  BY DEF Init, LockInv
<1>3. ServeInv
  BY DEF Init, ServeInv, Built, Versions
<1>4. ReadInv
  BY DEF Init, ReadInv, Nothing
<1>5. QED
  BY <1>1, <1>2, <1>3, <1>4 DEF Inv

LEMMA LockStep == Inv /\ [Next]_vars => LockInv'
<1> SUFFICES ASSUME Inv, [Next]_vars PROVE LockInv'
  OBVIOUS
<1> USE DEF Inv, TypeOK, LockInv, refreshVars, serverVars, handlerVars
<1>1. ASSUME NEW s \in Sources, Grow(s) PROVE LockInv'
  BY <1>1 DEF Grow
<1>2. CASE Tick
  BY <1>2 DEF Tick
<1>3. ASSUME NEW s \in Sources, ReadSource(s) PROVE LockInv'
  BY <1>3 DEF ReadSource
<1>4. CASE RebuildFails
  BY <1>4 DEF RebuildFails
<1>5. CASE RunDetectors
  BY <1>5 DEF RunDetectors
<1>6. CASE Lock
  BY <1>6 DEF Lock
<1>7. CASE Acquire
  BY <1>7 DEF Acquire
<1>8. CASE SwapGraph
  BY <1>8 DEF SwapGraph
<1>9. CASE SwapAlerts
  BY <1>9 DEF SwapAlerts
<1>10. CASE Unlock
  BY <1>10 DEF Unlock
<1>11. ASSUME NEW c \in Clients, NEW fields \in Endpoints, Ask(c, fields) PROVE LockInv'
  BY <1>11 DEF Ask
<1>12. ASSUME NEW c \in Clients, RLock(c) PROVE LockInv'
  <2>1. CASE writer = "free"
    BY <1>12, <2>1 DEF RLock
  <2>2. CASE writer # "free"
    BY <1>12, <2>2 DEF RLock
  <2>3. QED
    BY <2>1, <2>2
<1>13. ASSUME NEW c \in Clients, ReadAlerts(c) PROVE LockInv'
  BY <1>13 DEF ReadAlerts, Fetch
<1>14. ASSUME NEW c \in Clients, ReadGraph(c) PROVE LockInv'
  BY <1>14 DEF ReadGraph, Fetch
<1>15. ASSUME NEW c \in Clients, Drain(c) PROVE LockInv'
  BY <1>15 DEF Drain
<1>16. ASSUME NEW c \in Clients, RUnlock(c) PROVE LockInv'
  BY <1>16 DEF RUnlock
<1>17. CASE UNCHANGED vars
  BY <1>17 DEF vars
<1>18. QED
  BY <1>1, <1>2, <1>3, <1>4, <1>5, <1>6, <1>7, <1>8, <1>9, <1>10, <1>11, <1>12, <1>13,
     <1>14, <1>15, <1>16, <1>17 DEF Next, Refresh

LEMMA ServeStep == Inv /\ [Next]_vars => ServeInv'
<1> SUFFICES ASSUME Inv, [Next]_vars PROVE ServeInv'
  OBVIOUS
<1> USE DEF Inv, TypeOK, ServeInv, refreshVars, serverVars, handlerVars
<1>1. ASSUME NEW s \in Sources, Grow(s) PROVE ServeInv'
  BY <1>1, BoundsAssumption DEF Grow, Versions
<1>2. CASE Tick
  BY <1>2 DEF Tick
<1>3. ASSUME NEW s \in Sources, ReadSource(s) PROVE ServeInv'
  BY <1>3, BoundsAssumption DEF ReadSource, Built, Versions
<1>4. CASE RebuildFails
  <2>1. \A s \in Sources : graph.of[s] <= file[s] /\ alerts[s] <= graph.of[s]
    BY <1>4, BoundsAssumption DEF RebuildFails, Versions
  <2>2. QED
    BY <1>4, <2>1 DEF RebuildFails
<1>5. CASE RunDetectors
  BY <1>5 DEF RunDetectors
<1>6. CASE Lock
  BY <1>6 DEF Lock
<1>7. CASE Acquire
  BY <1>7 DEF Acquire
<1>8. CASE SwapGraph
  BY <1>8 DEF SwapGraph
<1>9. CASE SwapAlerts
  BY <1>9, BoundsAssumption DEF SwapAlerts, Versions
<1>10. CASE Unlock
  BY <1>10 DEF Unlock
<1>11. ASSUME NEW c \in Clients, NEW fields \in Endpoints, Ask(c, fields) PROVE ServeInv'
  BY <1>11 DEF Ask
<1>12. ASSUME NEW c \in Clients, RLock(c) PROVE ServeInv'
  BY <1>12 DEF RLock
<1>13. ASSUME NEW c \in Clients, ReadAlerts(c) PROVE ServeInv'
  BY <1>13 DEF ReadAlerts, Fetch
<1>14. ASSUME NEW c \in Clients, ReadGraph(c) PROVE ServeInv'
  BY <1>14 DEF ReadGraph, Fetch
<1>15. ASSUME NEW c \in Clients, Drain(c) PROVE ServeInv'
  BY <1>15 DEF Drain
<1>16. ASSUME NEW c \in Clients, RUnlock(c) PROVE ServeInv'
  BY <1>16 DEF RUnlock
<1>17. CASE UNCHANGED vars
  BY <1>17 DEF vars
<1>18. QED
  BY <1>1, <1>2, <1>3, <1>4, <1>5, <1>6, <1>7, <1>8, <1>9, <1>10, <1>11, <1>12, <1>13,
     <1>14, <1>15, <1>16, <1>17 DEF Next, Refresh

LEMMA ReadStep == Inv /\ [Next]_vars => ReadInv'
<1> SUFFICES ASSUME Inv, [Next]_vars PROVE ReadInv'
  OBVIOUS
<1> USE DEF Inv, TypeOK, LockInv, ReadInv, refreshVars, serverVars, handlerVars
<1>1. ASSUME NEW s \in Sources, Grow(s) PROVE ReadInv'
  BY <1>1 DEF Grow
<1>2. CASE Tick
  BY <1>2 DEF Tick
<1>3. ASSUME NEW s \in Sources, ReadSource(s) PROVE ReadInv'
  BY <1>3 DEF ReadSource
<1>4. CASE RebuildFails
  BY <1>4 DEF RebuildFails
<1>5. CASE RunDetectors
  BY <1>5 DEF RunDetectors
<1>6. CASE Lock
  BY <1>6 DEF Lock
<1>7. CASE Acquire
  BY <1>7 DEF Acquire
<1>8. CASE SwapGraph
  BY <1>8 DEF SwapGraph
<1>9. CASE SwapAlerts
  BY <1>9 DEF SwapAlerts
<1>10. CASE Unlock
  BY <1>10 DEF Unlock
<1>11. ASSUME NEW c \in Clients, NEW fields \in Endpoints, Ask(c, fields) PROVE ReadInv'
  BY <1>11 DEF Ask, Endpoints
<1>12. ASSUME NEW c \in Clients, RLock(c) PROVE ReadInv'
  BY <1>12 DEF RLock
<1>13. ASSUME NEW c \in Clients, ReadAlerts(c) PROVE ReadInv'
  BY <1>13, NoAnswerAssumption DEF ReadAlerts, Fetch, Fields, Versions
<1>14. ASSUME NEW c \in Clients, ReadGraph(c) PROVE ReadInv'
  <2>1. graph.of = alerts
    BY <1>14 DEF ReadGraph, ServeInv
  <2>2. QED
    BY <1>14, <2>1, NoAnswerAssumption DEF ReadGraph, Fetch, Fields, Versions
<1>15. ASSUME NEW c \in Clients, Drain(c) PROVE ReadInv'
  BY <1>15 DEF Drain
<1>16. ASSUME NEW c \in Clients, RUnlock(c) PROVE ReadInv'
  BY <1>16 DEF RUnlock, Nothing
<1>17. CASE UNCHANGED vars
  BY <1>17 DEF vars
<1>18. QED
  BY <1>1, <1>2, <1>3, <1>4, <1>5, <1>6, <1>7, <1>8, <1>9, <1>10, <1>11, <1>12, <1>13,
     <1>14, <1>15, <1>16, <1>17 DEF Next, Refresh

(* The inductive invariant that the theorems below rest on. *)
THEOREM InvHolds == Spec => []Inv
<1>1. Inv /\ [Next]_vars => Inv'
  BY NextType, LockStep, ServeStep, ReadStep DEF Inv
<1>2. QED
  BY <1>1, InitInv, PTL DEF Spec

(* Server: a swap never splits a response across two graphs, whatever the   *)
(* interleaving of handlers and refresher.                                  *)
THEOREM OneGraph == Spec => []OneGraphPerResponse
<1>1. Inv => OneGraphPerResponse
  BY DEF Inv, TypeOK, LockInv, ServeInv, ReadInv, OneGraphPerResponse
<1>2. QED
  BY <1>1, InvHolds, PTL

(* Store.Identities: no handler finds events to sort in a graph it shares.  *)
THEOREM SharedGraphIsSorted == Spec => []NoSharedSort
<1>1. Inv => NoSharedSort
  BY DEF Inv, ServeInv, NoSharedSort
<1>2. QED
  BY <1>1, InvHolds, PTL

-----------------------------------------------------------------------------
(* The view a client is shown, as the refinement reads it off the state. *)
LEMMA ShownIs ==
    Inv => \A c \in Clients :
              Shown(c) = IF c \in readers /\ wants[c] = {} THEN alerts ELSE NoAnswer
<1> SUFFICES ASSUME Inv, NEW c \in Clients
             PROVE  Shown(c) = IF c \in readers /\ wants[c] = {} THEN alerts ELSE NoAnswer
  OBVIOUS
<1>1. CASE c \in readers /\ wants[c] = {}
  <2>1. handler[c] \in {"reading", "written"}
    BY <1>1 DEF Inv, LockInv
  <2>2. alerts \in Versions /\ Shows(c, alerts)
    BY <1>1, <2>1 DEF Inv, TypeOK, ReadInv, Shows
  <2>3. ASSUME NEW v \in Versions, Shows(c, v) PROVE v = alerts
    BY <1>1, <2>3 DEF Inv, ReadInv, Shows
  <2>4. QED
    BY <1>1, <2>2, <2>3 DEF Shown
<1>2. CASE ~(c \in readers /\ wants[c] = {})
  BY <1>2 DEF Inv, LockInv, Shown, Shows
<1>3. QED
  BY <1>1, <1>2

(* Nothing a client can see has changed. *)
LEMMA ShownUnchanged ==
    ASSUME handler' = handler, wants' = wants, response' = response
    PROVE  /\ {c \in Clients : handler[c] # "none"}' = {c \in Clients : handler[c] # "none"}
           /\ [c \in Clients |-> Shown(c)]' = [c \in Clients |-> Shown(c)]
BY DEF Shown, Shows

LEMMA ViewInit == Init => View!Init
<1> SUFFICES ASSUME Init PROVE View!Init
  OBVIOUS
<1>1. alerts \in View!Views
  BY DEF Init, View!Views, Versions
<1>2. {c \in Clients : handler[c] # "none"} = {}
  BY DEF Init
<1>3. \A c \in Clients : Shown(c) = NoAnswer
  BY DEF Init, Shown, Shows
<1>4. QED
  BY <1>1, <1>2, <1>3 DEF View!Init

(* The same, before and after a step. *)
LEMMA AnswerIs ==
    ASSUME Inv, Inv'
    PROVE  /\ \A c \in Clients :
                Shown(c) = IF c \in readers /\ wants[c] = {} THEN alerts ELSE NoAnswer
           /\ \A c \in Clients :
                Shown(c)' = IF c \in readers' /\ wants'[c] = {} THEN alerts' ELSE NoAnswer
<1>1. Inv => \A c \in Clients :
                Shown(c) = IF c \in readers /\ wants[c] = {} THEN alerts ELSE NoAnswer
  BY ShownIs
<1>2. (Inv => \A c \in Clients :
                Shown(c) = IF c \in readers /\ wants[c] = {} THEN alerts ELSE NoAnswer)'
  BY ShownIs, PTL
<1>3. QED
  BY <1>1, <1>2

(* The step that reads the last field is the one where the view is chosen. *)
LEMMA ChooseStep ==
    ASSUME Inv, Inv', NEW c \in Clients, c \in readers, wants[c] # {},
           UNCHANGED <<alerts, readers, handler>>,
           \E w \in SUBSET Fields : wants' = [wants EXCEPT ![c] = w]
    PROVE  View!Choose(c) \/ UNCHANGED View!vars
<1> DEFINE asking == {d \in Clients : handler[d] # "none"}
           answer == [d \in Clients |-> Shown(d)]
<1>1. handler[c] # "none" /\ asking' = asking
  BY DEF Inv, LockInv
<1>2. answer[c] = NoAnswer
  BY AnswerIs
<1>3. \A d \in Clients \ {c} : Shown(d)' = Shown(d)
  BY AnswerIs DEF Inv, TypeOK
<1>4. CASE wants'[c] = {}
  <2>1. Shown(c)' = alerts
    BY <1>4, AnswerIs
  <2>2. answer' = [answer EXCEPT ![c] = alerts]
    BY <1>3, <2>1
  <2>3. QED
    BY <1>1, <1>2, <2>2 DEF View!Choose
<1>5. CASE wants'[c] # {}
  <2>1. Shown(c)' = Shown(c)
    BY <1>5, AnswerIs
  <2>2. answer' = answer
    BY <1>3, <2>1
  <2>3. QED
    BY <1>1, <2>2 DEF View!vars
<1>6. QED
  BY <1>4, <1>5

LEMMA ViewStep == Inv /\ Inv' /\ [Next]_vars => [View!Next]_(View!vars)
<1> SUFFICES ASSUME Inv, Inv', [Next]_vars PROVE View!Next \/ UNCHANGED View!vars
  OBVIOUS
<1> DEFINE asking == {d \in Clients : handler[d] # "none"}
           answer == [d \in Clients |-> Shown(d)]
<1> USE DEF refreshVars, serverVars, handlerVars
<1>1. ASSUME UNCHANGED <<alerts, handler, wants, response>> PROVE UNCHANGED View!vars
  BY <1>1, ShownUnchanged DEF View!vars
<1>2. CASE \/ \E s \in Sources : Grow(s) \/ ReadSource(s)
           \/ Tick \/ RebuildFails \/ RunDetectors \/ Lock \/ Acquire \/ SwapGraph
  BY <1>1, <1>2
     DEF Grow, ReadSource, Tick, RebuildFails, RunDetectors, Lock, Acquire, SwapGraph
<1>3. CASE SwapAlerts
  <2>1. alerts' \in View!Views /\ \A s \in Sources : alerts[s] <= alerts'[s]
    BY <1>3 DEF SwapAlerts, Inv, TypeOK, ServeInv, View!Views, Versions
  <2>2. asking' = asking /\ answer' = answer
    BY <1>3, ShownUnchanged DEF SwapAlerts
  <2>3. View!Publish(alerts')
    BY <2>1, <2>2 DEF View!Publish
  <2>4. QED
    BY <2>1, <2>3 DEF View!Next
<1>4. CASE Unlock
  <2>1. asking' = asking
    BY <1>4 DEF Unlock, Inv, TypeOK
  <2>2. ASSUME NEW d \in Clients PROVE Shown(d)' = Shown(d)
    <3>1. d \notin readers /\ (d \in readers' => wants[d] # {})
      BY <1>4 DEF Unlock, Inv, TypeOK, LockInv, ReadInv
    <3>2. QED
      BY <1>4, <3>1, AnswerIs DEF Unlock
  <2>3. QED
    BY <1>4, <2>1, <2>2 DEF Unlock, View!vars
<1>5. ASSUME NEW c \in Clients, NEW fields \in Endpoints, Ask(c, fields) PROVE View!Next
  <2>1. c \notin asking /\ asking' = asking \cup {c}
    BY <1>5 DEF Ask, Inv, TypeOK
  <2>2. ASSUME NEW d \in Clients PROVE Shown(d)' = Shown(d)
    <3>1. CASE d = c
      BY <1>5, <3>1, AnswerIs DEF Ask, Inv, TypeOK, LockInv
    <3>2. CASE d # c
      BY <1>5, <3>2, AnswerIs DEF Ask, Inv, TypeOK
    <3>3. QED
      BY <3>1, <3>2
  <2>3. View!Ask(c)
    BY <1>5, <2>1, <2>2 DEF Ask, View!Ask
  <2>4. QED
    BY <2>3 DEF View!Next
<1>6. ASSUME NEW c \in Clients, RLock(c) PROVE UNCHANGED View!vars
  <2>1. asking' = asking
    BY <1>6 DEF RLock, Inv, TypeOK
  <2>2. ASSUME NEW d \in Clients PROVE Shown(d)' = Shown(d)
    <3>1. wants[c] # {} /\ wants' = wants /\ alerts' = alerts
      BY <1>6 DEF RLock, Inv, ReadInv
    <3>2. d # c => (d \in readers' <=> d \in readers)
      BY <1>6 DEF RLock
    <3>3. QED
      BY <3>1, <3>2, AnswerIs
  <2>3. QED
    BY <1>6, <2>1, <2>2 DEF RLock, View!vars
<1>7. ASSUME NEW c \in Clients, ReadAlerts(c) \/ ReadGraph(c)
      PROVE  View!Next \/ UNCHANGED View!vars
  <2>1. c \in readers /\ wants[c] # {} /\ UNCHANGED <<alerts, readers, handler>>
    BY <1>7 DEF ReadAlerts, ReadGraph, Fetch, Inv, LockInv
  <2>2. \E w \in SUBSET Fields : wants' = [wants EXCEPT ![c] = w]
    <3>1. PICK f : wants' = [wants EXCEPT ![c] = @ \ {f}]
      BY <1>7 DEF ReadAlerts, ReadGraph, Fetch
    <3>2. wants[c] \ {f} \in SUBSET Fields
      BY DEF Inv, TypeOK
    <3>3. QED
      BY <3>1, <3>2
  <2>3. View!Choose(c) \/ UNCHANGED View!vars
    BY <2>1, <2>2, ChooseStep
  <2>4. QED
    BY <2>3 DEF View!Next
<1>8. ASSUME NEW c \in Clients, Drain(c) PROVE UNCHANGED View!vars
  <2>1. asking' = asking
    BY <1>8 DEF Drain, Inv, TypeOK
  <2>2. \A d \in Clients : Shown(d)' = Shown(d)
    BY <1>8, AnswerIs DEF Drain
  <2>3. QED
    BY <1>8, <2>1, <2>2 DEF Drain, View!vars
<1>9. ASSUME NEW c \in Clients, RUnlock(c) PROVE View!Next
  <2>1. asking' = asking \ {c}
    BY <1>9 DEF RUnlock, Inv, TypeOK
  <2>2. answer[c] # NoAnswer
    <3>1. c \in readers /\ wants[c] = {}
      BY <1>9 DEF RUnlock, Inv, LockInv, ReadInv
    <3>2. alerts # NoAnswer
      BY NoAnswerAssumption DEF Inv, TypeOK, Versions
    <3>3. QED
      BY <3>1, <3>2, AnswerIs
  <2>3. answer' = [answer EXCEPT ![c] = NoAnswer]
    <3>1. Shown(c)' = NoAnswer
      BY <1>9, AnswerIs DEF RUnlock
    <3>2. \A d \in Clients \ {c} : Shown(d)' = Shown(d)
      BY <1>9, AnswerIs DEF RUnlock
    <3>3. QED
      BY <3>1, <3>2
  <2>4. View!Answer(c)
    BY <1>9, <2>1, <2>2, <2>3 DEF RUnlock, View!Answer
  <2>5. QED
    BY <2>4 DEF View!Next
<1>10. CASE UNCHANGED vars
  BY <1>1, <1>10 DEF vars
<1>11. QED
  BY <1>2, <1>3, <1>4, <1>5, <1>6, <1>7, <1>8, <1>9, <1>10 DEF Next, Refresh

(* The API behaves as if every request read graph and alerts in one step,   *)
(* and what it shows never goes back: the promise of Server and Replace.    *)
THEOREM ServerImplementsLiveView == Spec => ImplementsLiveView
<1>1. Inv /\ Inv' /\ [Next]_vars => [View!Next]_(View!vars)
  BY ViewStep
<1>2. QED
  BY <1>1, ViewInit, InvHolds, PTL DEF Spec, ImplementsLiveView, View!Spec

=============================================================================
