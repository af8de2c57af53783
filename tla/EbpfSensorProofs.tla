-------------------------- MODULE EbpfSensorProofs --------------------------
(***************************************************************************)
(* Proofs about EbpfSensor, for any number of processes, any ring, any     *)
(* traffic: its four invariants.  A record carries what the kernel knew of  *)
(* its process (RecordsAreTrue), the ring is what is left of the records    *)
(* submitted (RingIsTheRest), and the sensor shares its pid with nobody     *)
(* (SelfIsAlone): the rest follows from these.                             *)
(***************************************************************************)
EXTENDS EbpfSensor, Integers, SequenceTheorems, TLAPS

Records == [task : Tasks, to : Addresses, pid : Nat, nsTgid : Nat, ktime : Nat]
Flows == [task : Tasks, ktime : Nat, time : Int, identity : FlowIDs, observed : FlowIDs]
Counts == [Reasons -> Nat]

HostOK ==
    /\ self \in alive /\ alive \subseteq born /\ born \subseteq Tasks
    /\ made \in Nat /\ clock = 1 + made /\ skew \in 0..1

StopsOK ==
    /\ phase \in {"starting", "attached", "reading", "closed", "counted", "uncounted", "exited"}
    /\ closers \subseteq stops /\ stops \subseteq {"signal", "timer"} /\ closes \in 0..2
    /\ exit \in {0, 1, None} /\ (exit # None <=> phase = "exited")

RecordsOK ==
    /\ ring \in Seq(Records) /\ submitted \in Seq(Records) /\ wanted \in Seq(Records)
    /\ skipped \in Counts /\ reported \in Counts
    /\ \A r \in Reasons : reported[r] <= skipped[r] /\ skipped[r] <= made

FlowsOK ==
    /\ flows \in Seq(Flows)
    /\ offset # None => offset \in [wall : Nat, mono : Nat]
    /\ log # None => log \in [flows : Seq(Flows), told : BOOLEAN]

(* The ring is the last records submitted, oldest first. *)
RingIsTheRest ==
    /\ Len(ring) <= RingSize /\ Len(ring) <= Len(submitted)
    /\ \A i \in 1..Len(ring) : ring[i] = submitted[Len(submitted) - Len(ring) + i]

SelfIsAlone == \A t \in born : Proc[t].pid = Proc[self].pid => t = self

TrueRecord(r) ==
    r.task \in born /\ r.pid = Proc[r.task].pid /\ r.nsTgid = NsTgid(r.task)

RecordsAreTrue ==
    /\ \A i \in 1..Len(ring) : TrueRecord(ring[i])
    /\ \A i \in 1..Len(submitted) : TrueRecord(submitted[i])

Base == HostOK /\ StopsOK /\ RecordsOK /\ FlowsOK /\ RingIsTheRest /\ SelfIsAlone
        /\ RecordsAreTrue

(* What is measured from the sampled clocks was measured after they were    *)
(* sampled: before, there are no flows.                                    *)
FlowsAreTimed ==
    /\ phase \in {"starting", "attached"} => flows = <<>> /\ offset = None
    /\ offset # None => \A i \in DOMAIN flows :
          flows[i].time = offset.wall + flows[i].ktime - offset.mono

Kept(w) ==
    \/ \E i \in DOMAIN ring : ring[i] = w
    \/ \E i \in DOMAIN flows : Stamp(flows[i]) = Stamp(w)

(* As long as the counter the reader is to see says that the ring was never *)
(* full, a wanted connection is in the ring or among the flows.            *)
NothingWantedIsLost ==
    /\ \A k \in DOMAIN wanted : InScope(wanted[k])
    /\ phase \in {"starting", "attached"} => wanted = <<>>
    /\ \/ phase \in {"reading", "closed"} /\ skipped["ringbuf_full"] = 0
       \/ phase = "counted" /\ reported["ringbuf_full"] = 0
       \/ exit = 0 /\ log.told /\ reported["ringbuf_full"] = 0
       => \A k \in DOMAIN wanted : Kept(wanted[k])
    /\ exit = 0 => log.flows = flows

Inv == Base /\ FlowsAreTimed /\ NothingWantedIsLost /\ FlowsAreTheConnections
       /\ ClaimComesFromThatPid

-----------------------------------------------------------------------------
(* What each kind of step leaves alone. *)

LEMMA StepLeaves ==
    Step => UNCHANGED <<taskVars, stopVars, skipped, made, submitted, wanted>>
BY DEF Step, StartFails, Attach, OpenReader, HandleRecord, ReadFails, LoopEnds, ReadSkipped,
       WriteLog, taskVars, stopVars, kernelVars, runVars

LEMMA StopLeaves ==
    ASSUME NEW by, AskToStop(by) \/ CloseReader(by)
    PROVE  UNCHANGED <<taskVars, phase, kernelVars, runVars>>
BY DEF AskToStop, CloseReader, taskVars, stopVars, kernelVars, runVars

LEMMA HostLeaves ==
    ASSUME (\E t \in Tasks : StartTask(t) \/ ExitTask(t)) \/ StepWallClock
    PROVE  UNCHANGED <<self, phase, kernelVars, stopVars, runVars>>
BY DEF StartTask, ExitTask, StepWallClock, taskVars, stopVars, kernelVars, runVars

(* The alternatives of a step, as the proofs below go through them. *)
LEMMA Alternatives ==
    ASSUME [Next]_vars
    PROVE  \/ \E t \in Tasks : StartTask(t) \/ ExitTask(t)
           \/ \E t \in Tasks, a \in Addresses : Connect(t, a)
           \/ StepWallClock
           \/ \E by \in {"signal", "timer"} : AskToStop(by) \/ CloseReader(by)
           \/ Step
           \/ UNCHANGED vars
BY DEF Next

LEMMA RecordIsRecord ==
    ASSUME HostOK, NEW t \in alive, NEW a \in Addresses
    PROVE  Record(t, a) \in Records /\ TrueRecord(Record(t, a))
BY ProcAssumption DEF HostOK, Record, Records, TrueRecord, NsTgid, Process

LEMMA WhySkippedIsReasons == ASSUME NEW a PROVE WhySkipped(a) \subseteq Reasons
BY DEF WhySkipped, Reasons

LEMMA HostStep ==
    ASSUME HostOK, [Next]_vars
    PROVE  HostOK'
<1> USE DEF HostOK
<1>1. ASSUME NEW t \in Tasks, StartTask(t) PROVE HostOK'
  BY <1>1, HostLeaves DEF StartTask, kernelVars
<1>2. ASSUME NEW t \in Tasks, ExitTask(t) PROVE HostOK'
  BY <1>2, HostLeaves DEF ExitTask, kernelVars
<1>3. ASSUME NEW t \in Tasks, NEW a \in Addresses, Connect(t, a) PROVE HostOK'
  BY <1>3 DEF Connect
<1>4. CASE StepWallClock
  BY <1>4 DEF StepWallClock, kernelVars
<1>5. ASSUME NEW by, AskToStop(by) \/ CloseReader(by) PROVE HostOK'
  BY <1>5, StopLeaves DEF taskVars, kernelVars
<1>6. CASE Step
  BY <1>6, StepLeaves DEF taskVars, kernelVars
<1>7. CASE UNCHANGED vars
  BY <1>7 DEF vars, taskVars, kernelVars
<1> QED BY <1>1, <1>2, <1>3, <1>4, <1>5, <1>6, <1>7, Alternatives

LEMMA StopsStep ==
    ASSUME StopsOK, [Next]_vars
    PROVE  StopsOK'
<1> USE DEF StopsOK, stopVars, runVars
<1>1. CASE (\E t \in Tasks : StartTask(t) \/ ExitTask(t)) \/ StepWallClock
  BY <1>1, HostLeaves
<1>2. ASSUME NEW t \in Tasks, NEW a \in Addresses, Connect(t, a) PROVE StopsOK'
  BY <1>2 DEF Connect
<1>3. ASSUME NEW by \in {"signal", "timer"}, AskToStop(by) PROVE StopsOK'
  BY <1>3 DEF AskToStop
<1>4. ASSUME NEW by, CloseReader(by) PROVE StopsOK'
  BY <1>4 DEF CloseReader
<1>5. CASE Step
  <2>1. UNCHANGED stopVars
    BY <1>5, StepLeaves
  <2>2. (exit' # None <=> phase' = "exited") /\ exit' \in {0, 1, None}
        /\ phase' \in {"starting", "attached", "reading", "closed", "counted", "uncounted",
                       "exited"}
    BY <1>5, NoneAssumption DEF Step, StartFails, Attach, OpenReader, HandleRecord, ReadFails,
       LoopEnds, ReadSkipped, WriteLog
  <2> QED BY <2>1, <2>2
<1>6. CASE UNCHANGED vars
  BY <1>6 DEF vars
<1> QED BY <1>1, <1>2, <1>3, <1>4, <1>5, <1>6, Alternatives

LEMMA RecordsStep ==
    ASSUME HostOK, RecordsOK, [Next]_vars
    PROVE  RecordsOK'
<1> USE DEF RecordsOK, kernelVars, runVars
<1>1. CASE (\E t \in Tasks : StartTask(t) \/ ExitTask(t)) \/ StepWallClock
  BY <1>1, HostLeaves
<1>2. ASSUME NEW t \in Tasks, NEW a \in Addresses, Connect(t, a) PROVE RecordsOK'
  <2> DEFINE r == Record(t, a)
  <2>1. r \in Records
    BY <1>2, RecordIsRecord DEF Connect
  <2>2. Append(ring, r) \in Seq(Records) /\ Append(submitted, r) \in Seq(Records)
        /\ Append(wanted, r) \in Seq(Records)
    BY <2>1, AppendProperties
  <2>3. ring' \in Seq(Records) /\ submitted' \in Seq(Records) /\ wanted' \in Seq(Records)
    BY <1>2, <2>2 DEF Connect
  <2>4. reported' = reported /\ made' = made + 1
        /\ skipped' = [w \in Reasons |->
                        IF w \in WhySkipped(a) THEN skipped[w] + 1 ELSE skipped[w]]
    BY <1>2 DEF Connect
  <2>5. skipped' \in Counts /\ \A w \in Reasons : skipped[w] <= skipped'[w]
                                                 /\ skipped'[w] <= skipped[w] + 1
    BY <2>4 DEF Counts
  <2> QED BY <2>3, <2>4, <2>5 DEF HostOK, Counts
<1>3. ASSUME NEW by, AskToStop(by) \/ CloseReader(by) PROVE RecordsOK'
  BY <1>3, StopLeaves
<1>4. CASE Step
  <2>1. UNCHANGED <<skipped, made, submitted, wanted>>
    BY <1>4, StepLeaves
  <2>2. ring' \in Seq(Records)
    <3>1. CASE HandleRecord
      BY <3>1, HeadTailProperties DEF HandleRecord
    <3>2. CASE ~HandleRecord
      BY <1>4, <3>2 DEF Step, StartFails, Attach, OpenReader, ReadFails, LoopEnds, ReadSkipped,
         WriteLog
    <3> QED BY <3>1, <3>2
  <2>3. reported' \in {reported, skipped, NoCounts}
    BY <1>4 DEF Step, StartFails, Attach, OpenReader, HandleRecord, ReadFails, LoopEnds,
       ReadSkipped, WriteLog
  <2> QED BY <2>1, <2>2, <2>3 DEF NoCounts, Counts, HostOK
<1>5. CASE UNCHANGED vars
  BY <1>5 DEF vars
<1> QED BY <1>1, <1>2, <1>3, <1>4, <1>5, Alternatives

LEMMA FlowIsFlow ==
    ASSUME HostOK, FlowsOK, NEW r \in Records, NEW claim \in {None} \cup Agents
    PROVE  FlowOf(r, claim) \in Flows
<1>1. WallTime(r.ktime, clock + skew) \in Int
  BY DEF HostOK, FlowsOK, WallTime, Records
<1>2. r.task \in Tasks /\ r.ktime \in Nat
  BY DEF Records
<1>3. <<"proc", r.task>> \in FlowIDs /\ (claim # None => <<"claimed", claim>> \in FlowIDs)
  BY <1>2 DEF FlowIDs
<1> QED BY <1>1, <1>2, <1>3 DEF FlowOf, Flows

(* What HandleRecord does to the flows. *)
LEMMA HandledFlow ==
    ASSUME HostOK, RecordsOK, HandleRecord
    PROVE  /\ Head(ring) \in Records
           /\ \/ Filtered(Head(ring)) /\ flows' = flows
              \/ /\ ~Filtered(Head(ring))
                 /\ \E claim \in ClaimedAgentURI(ProcPIDFor(Head(ring))) :
                       flows' = Append(flows, FlowOf(Head(ring), claim))
BY HeadTailProperties DEF HandleRecord, RecordsOK

LEMMA FlowsStep ==
    ASSUME HostOK, StopsOK, RecordsOK, FlowsOK, [Next]_vars
    PROVE  FlowsOK'
<1> USE DEF FlowsOK, runVars
<1>1. CASE (\E t \in Tasks : StartTask(t) \/ ExitTask(t)) \/ StepWallClock
  BY <1>1, HostLeaves
<1>2. ASSUME NEW t \in Tasks, NEW a \in Addresses, Connect(t, a) PROVE FlowsOK'
  BY <1>2 DEF Connect
<1>3. ASSUME NEW by, AskToStop(by) \/ CloseReader(by) PROVE FlowsOK'
  BY <1>3, StopLeaves
<1>4. CASE StartFails \/ Attach \/ ReadFails \/ LoopEnds \/ \E found \in BOOLEAN : ReadSkipped(found)
  BY <1>4 DEF StartFails, Attach, ReadFails, LoopEnds, ReadSkipped
<1>5. ASSUME NEW sampled \in BOOLEAN, OpenReader(sampled) PROVE FlowsOK'
  BY <1>5 DEF OpenReader, HostOK
<1>6. CASE HandleRecord
  <2>1. flows' \in Seq(Flows)
    <3>1. CASE flows' = flows
      BY <3>1
    <3>2. ASSUME NEW claim \in ClaimedAgentURI(ProcPIDFor(Head(ring))),
                 flows' = Append(flows, FlowOf(Head(ring), claim))
          PROVE  flows' \in Seq(Flows)
      <4>1. FlowOf(Head(ring), claim) \in Flows
        BY <1>6, HandledFlow, FlowIsFlow DEF ClaimedAgentURI
      <4> QED BY <3>2, <4>1, AppendProperties
    <3> QED BY <1>6, <3>1, <3>2, HandledFlow
  <2> QED BY <1>6, <2>1 DEF HandleRecord
<1>7. ASSUME NEW written \in BOOLEAN, WriteLog(written) PROVE FlowsOK'
  BY <1>7 DEF WriteLog
<1>8. CASE UNCHANGED vars
  BY <1>8 DEF vars
<1> QED BY <1>1, <1>2, <1>3, <1>4, <1>5, <1>6, <1>7, <1>8, Alternatives DEF Step

(* What a step does to the ring, the records submitted and the flows. *)
LEMMA RingStep ==
    ASSUME HostOK, RecordsOK, [Next]_vars
    PROVE  \/ ring' = ring /\ submitted' = submitted /\ flows' = flows
           \/ HandleRecord /\ ring # <<>> /\ ring' = Tail(ring) /\ submitted' = submitted
           \/ \E t \in alive, a \in Addresses :
                 /\ Len(ring) < RingSize /\ flows' = flows
                 /\ ring' = Append(ring, Record(t, a))
                 /\ submitted' = Append(submitted, Record(t, a))
<1> USE DEF kernelVars, runVars
<1>1. CASE (\E t \in Tasks : StartTask(t) \/ ExitTask(t)) \/ StepWallClock
  BY <1>1, HostLeaves
<1>2. ASSUME NEW t \in Tasks, NEW a \in Addresses, Connect(t, a)
      PROVE  /\ flows' = flows
             /\ \/ ring' = ring /\ submitted' = submitted
                \/ /\ Len(ring) < RingSize /\ t \in alive
                   /\ ring' = Append(ring, Record(t, a))
                   /\ submitted' = Append(submitted, Record(t, a))
  BY <1>2 DEF Connect
<1>3. ASSUME NEW by, AskToStop(by) \/ CloseReader(by)
      PROVE  ring' = ring /\ submitted' = submitted /\ flows' = flows
  BY <1>3, StopLeaves
<1>4. ASSUME Step, ~HandleRecord
      PROVE  ring' = ring /\ submitted' = submitted /\ flows' = flows
  BY <1>4 DEF Step, StartFails, Attach, OpenReader, ReadFails, LoopEnds, ReadSkipped, WriteLog
<1>5. CASE HandleRecord
  BY <1>5 DEF HandleRecord
<1>6. CASE UNCHANGED vars
  BY <1>6 DEF vars
<1> QED BY <1>1, <1>2, <1>3, <1>4, <1>5, <1>6, Alternatives

LEMMA RingIsTheRestStep ==
    ASSUME HostOK, RecordsOK, RingIsTheRest, [Next]_vars
    PROVE  RingIsTheRest'
<1> USE DEF RingIsTheRest, RecordsOK
<1>0. Len(ring) \in Nat /\ Len(submitted) \in Nat /\ RingSize \in Nat
  BY RingAssumption
<1>1. CASE ring' = ring /\ submitted' = submitted
  BY <1>1
<1>2. CASE ring # <<>> /\ ring' = Tail(ring) /\ submitted' = submitted
  <2>1. Len(ring') = Len(ring) - 1 /\ \A i \in 1..Len(ring') : ring'[i] = ring[i + 1]
    BY <1>2, HeadTailProperties
  <2>2. ASSUME NEW i \in 1..Len(ring')
        PROVE  ring'[i] = submitted'[Len(submitted') - Len(ring') + i]
    <3>1. i + 1 \in 1..Len(ring) /\ Len(submitted) - Len(ring') + i = Len(submitted) - Len(ring) + (i + 1)
      BY <1>0, <2>1
    <3> QED BY <1>2, <2>1, <3>1
  <2> QED BY <1>0, <1>2, <2>1, <2>2
<1>3. ASSUME NEW t \in alive, NEW a \in Addresses, Len(ring) < RingSize,
             ring' = Append(ring, Record(t, a)), submitted' = Append(submitted, Record(t, a))
      PROVE  RingIsTheRest'
  <2>1. Record(t, a) \in Records
    BY RecordIsRecord
  <2>2. /\ Len(ring') = Len(ring) + 1 /\ Len(submitted') = Len(submitted) + 1
        /\ \A i \in 1..Len(ring) : ring'[i] = ring[i]
        /\ \A i \in 1..Len(submitted) : submitted'[i] = submitted[i]
        /\ ring'[Len(ring')] = Record(t, a) /\ submitted'[Len(submitted')] = Record(t, a)
    BY <1>3, <2>1, AppendProperties
  <2>3. Len(ring') <= RingSize /\ Len(ring') <= Len(submitted')
        /\ Len(submitted') - Len(ring') = Len(submitted) - Len(ring)
    BY <1>0, <1>3, <2>2
  <2>4. ASSUME NEW i \in 1..Len(ring')
        PROVE  ring'[i] = submitted'[Len(submitted') - Len(ring') + i]
    <3>1. CASE i \in 1..Len(ring)
      <4>1. Len(submitted) - Len(ring) + i \in 1..Len(submitted)
        BY <1>0, <3>1
      <4> QED BY <2>2, <2>3, <3>1, <4>1
    <3>2. CASE i = Len(ring')
      BY <1>0, <2>2, <2>3, <3>2
    <3> QED BY <1>0, <2>2, <3>1, <3>2
  <2> QED BY <2>3, <2>4
<1> QED BY <1>1, <1>2, <1>3, RingStep

LEMMA SelfIsAloneStep ==
    ASSUME HostOK, SelfIsAlone, [Next]_vars
    PROVE  SelfIsAlone' /\ self' = self /\ born \subseteq born'
<1> USE DEF SelfIsAlone, taskVars
<1>1. ASSUME NEW t \in Tasks, StartTask(t) PROVE SelfIsAlone' /\ self' = self /\ born \subseteq born'
  BY <1>1 DEF StartTask, HostOK
<1>2. ASSUME NEW t \in Tasks, ExitTask(t) PROVE self' = self /\ born' = born
  BY <1>2 DEF ExitTask
<1>3. ASSUME NEW t \in Tasks, NEW a \in Addresses, Connect(t, a) PROVE self' = self /\ born' = born
  BY <1>3 DEF Connect
<1>4. CASE StepWallClock
  BY <1>4 DEF StepWallClock
<1>5. ASSUME NEW by, AskToStop(by) \/ CloseReader(by) PROVE UNCHANGED taskVars
  BY <1>5, StopLeaves
<1>6. CASE Step
  BY <1>6, StepLeaves
<1>7. CASE UNCHANGED vars
  BY <1>7 DEF vars
<1> QED BY <1>1, <1>2, <1>3, <1>4, <1>5, <1>6, <1>7, Alternatives

LEMMA StaysTrue ==
    ASSUME self' = self, born \subseteq born', NEW r, TrueRecord(r)
    PROVE  TrueRecord(r)'
BY DEF TrueRecord, NsTgid

LEMMA RecordsAreTrueStep ==
    ASSUME HostOK, RecordsOK, SelfIsAlone, RecordsAreTrue, [Next]_vars
    PROVE  RecordsAreTrue'
<1> USE DEF RecordsAreTrue, RecordsOK
<1>1. self' = self /\ born \subseteq born'
  BY SelfIsAloneStep
<1>2. CASE ring' = ring /\ submitted' = submitted
  BY <1>1, <1>2, StaysTrue
<1>3. CASE ring # <<>> /\ ring' = Tail(ring) /\ submitted' = submitted
  <2>1. Len(ring') = Len(ring) - 1 /\ \A i \in 1..Len(ring') : ring'[i] = ring[i + 1]
    BY <1>3, HeadTailProperties
  <2>2. \A i \in 1..Len(ring') : i + 1 \in 1..Len(ring)
    BY <2>1
  <2> QED BY <1>1, <1>3, <2>1, <2>2, StaysTrue
<1>4. ASSUME NEW t \in alive, NEW a \in Addresses,
             ring' = Append(ring, Record(t, a)), submitted' = Append(submitted, Record(t, a))
      PROVE  RecordsAreTrue'
  <2>1. Record(t, a) \in Records /\ TrueRecord(Record(t, a))
    BY RecordIsRecord
  <2>2. /\ Len(ring') = Len(ring) + 1 /\ Len(submitted') = Len(submitted) + 1
        /\ \A i \in 1..Len(ring) : ring'[i] = ring[i]
        /\ \A i \in 1..Len(submitted) : submitted'[i] = submitted[i]
        /\ ring'[Len(ring')] = Record(t, a) /\ submitted'[Len(submitted')] = Record(t, a)
    BY <1>4, <2>1, AppendProperties
  <2>3. /\ \A i \in 1..Len(ring') : i \in 1..Len(ring) \/ i = Len(ring')
        /\ \A i \in 1..Len(submitted') : i \in 1..Len(submitted) \/ i = Len(submitted')
    BY <2>2
  <2>4. ASSUME NEW r, r = Record(t, a) PROVE TrueRecord(r)'
    <3>1. TrueRecord(r)
      BY <2>1, <2>4
    <3> QED BY <1>1, <3>1, StaysTrue
  <2> QED BY <1>1, <2>2, <2>3, <2>4, StaysTrue
<1> QED BY <1>2, <1>3, <1>4, RingStep

-----------------------------------------------------------------------------
(* The properties of the flows. *)

(* What a step does to the flows and to the offset they are timed with. *)
LEMMA RunStep ==
    ASSUME [Next]_vars
    PROVE  /\ \/ flows' = flows /\ offset' = offset
              \/ HandleRecord /\ offset' = offset
              \/ phase = "attached" /\ phase' = "reading" /\ flows' = flows
           /\ phase' \in {"starting", "attached"} => phase \in {"starting", "attached"}
<1> USE DEF runVars
<1>1. CASE (\E t \in Tasks : StartTask(t) \/ ExitTask(t)) \/ StepWallClock
  BY <1>1, HostLeaves DEF kernelVars
<1>2. ASSUME NEW t \in Tasks, NEW a \in Addresses, Connect(t, a)
      PROVE  t \in alive /\ UNCHANGED <<phase, flows, offset>>
  BY <1>2 DEF Connect
<1>3. ASSUME NEW by, AskToStop(by) \/ CloseReader(by)
      PROVE  UNCHANGED <<phase, flows, offset, ring>>
  BY <1>3, StopLeaves DEF kernelVars
<1>4. CASE StartFails \/ Attach \/ ReadFails \/ LoopEnds \/ (\E found \in BOOLEAN : ReadSkipped(found))
           \/ (\E written \in BOOLEAN : WriteLog(written))
  BY <1>4 DEF StartFails, Attach, ReadFails, LoopEnds, ReadSkipped, WriteLog, kernelVars
<1>5. ASSUME NEW sampled \in BOOLEAN, OpenReader(sampled)
      PROVE  phase = "attached" /\ phase' = "reading" /\ flows' = flows /\ ring' = ring
  BY <1>5 DEF OpenReader, kernelVars
<1>6. CASE HandleRecord
  BY <1>6 DEF HandleRecord
<1>7. CASE UNCHANGED vars
  BY <1>7 DEF vars, kernelVars
<1> QED BY <1>1, <1>2, <1>3, <1>4, <1>5, <1>6, <1>7, Alternatives DEF Step

LEMMA FlowsAreTimedStep ==
    ASSUME HostOK, RecordsOK, FlowsOK, FlowsAreTimed, [Next]_vars
    PROVE  FlowsAreTimed'
<1> USE DEF FlowsAreTimed
<1>1. CASE flows' = flows /\ offset' = offset
  BY <1>1, RunStep
<1>2. CASE phase = "attached" /\ phase' = "reading" /\ flows' = flows
  BY <1>2
<1>3. CASE HandleRecord
  <2>1. phase' = "reading" /\ offset' = offset
    BY <1>3 DEF HandleRecord
  <2>2. ASSUME NEW claim \in ClaimedAgentURI(ProcPIDFor(Head(ring))), offset # None,
               flows' = Append(flows, FlowOf(Head(ring), claim))
        PROVE  \A i \in DOMAIN flows' :
                  flows'[i].time = offset.wall + flows'[i].ktime - offset.mono
    <3> DEFINE f == FlowOf(Head(ring), claim)
    <3>1. Head(ring) \in Records /\ f \in Flows
      BY <1>3, HandledFlow, FlowIsFlow DEF ClaimedAgentURI
    <3>2. f.time = offset.wall + f.ktime - offset.mono
      BY <2>2, <3>1 DEF FlowOf, WallTime, Records, FlowsOK
    <3> HIDE DEF f
    <3>3. /\ DOMAIN flows' = 1..(Len(flows) + 1) /\ DOMAIN flows = 1..Len(flows)
          /\ \A i \in 1..Len(flows) : flows'[i] = flows[i]
          /\ flows'[Len(flows) + 1] = f /\ Len(flows) \in Nat
      BY <2>2, <3>1, AppendProperties, LenProperties DEF FlowsOK, f
    <3> QED BY <2>2, <3>2, <3>3
  <2>3. CASE flows' = flows
    BY <2>1, <2>3
  <2> QED BY <1>3, <2>1, <2>2, <2>3, HandledFlow
<1> QED BY <1>1, <1>2, <1>3, RunStep

(* A number that /proc shows belongs to a process of the pid that connected. *)
LEMMA AddressedHasThePid ==
    ASSUME HostOK, NEW r, TrueRecord(r), NEW t \in Addressed(ProcPIDFor(r))
    PROVE  t \in born /\ Proc[t].pid = Proc[r.task].pid
<1>0. t \in alive /\ t \in Tasks /\ r.task \in Tasks /\ self \in Tasks
  BY DEF HostOK, TrueRecord, Addressed
<1>1. CASE InInitPidNS
  BY <1>0, <1>1 DEF HostOK, TrueRecord, Addressed, ProcPIDFor
<1>2. CASE ~InInitPidNS
  <2>1. Proc[t].ns = Proc[self].ns /\ Proc[t].nsPid = NsTgid(r.task)
    BY <1>0, <1>2 DEF TrueRecord, Addressed, ProcPIDFor
  <2>2. Proc[t].nsPid \in Nat \ {0}
    BY <1>0, ProcAssumption DEF Process
  <2>3. Proc[r.task].ns = Proc[t].ns /\ Proc[r.task].nsPid = Proc[t].nsPid
    BY <2>1, <2>2 DEF NsTgid
  <2> QED BY <1>0, <2>3, ProcAssumption DEF HostOK
<1> QED BY <1>1, <1>2

LEMMA ClaimStep ==
    ASSUME Base, ClaimComesFromThatPid, [Next]_vars
    PROVE  ClaimComesFromThatPid'
<1> USE DEF ClaimComesFromThatPid
<1>1. born \subseteq born'
  BY SelfIsAloneStep DEF Base
<1>2. CASE flows' = flows
  BY <1>1, <1>2
<1>3. ASSUME HandleRecord, NEW claim \in ClaimedAgentURI(ProcPIDFor(Head(ring))),
             flows' = Append(flows, FlowOf(Head(ring), claim))
      PROVE  ClaimComesFromThatPid'
  <2> DEFINE r == Head(ring)
             f == FlowOf(r, claim)
  <2>1. r \in Records /\ f \in Flows /\ flows \in Seq(Flows)
    BY <1>3, HandledFlow, FlowIsFlow DEF ClaimedAgentURI, Base, FlowsOK
  <2>2. TrueRecord(r)
    BY <1>3, HeadTailProperties DEF Base, RecordsOK, RecordsAreTrue, HandleRecord
  <2>3. f.identity # f.observed =>
          \E t \in born : Proc[t].pid = Proc[f.task].pid
                          /\ f.identity = <<"claimed", Proc[t].claim>>
    <3>1. SUFFICES ASSUME f.identity # f.observed
                   PROVE  \E t \in born : Proc[t].pid = Proc[f.task].pid
                                          /\ f.identity = <<"claimed", Proc[t].claim>>
      OBVIOUS
    <3>2. claim # None /\ f.identity = <<"claimed", claim>> /\ f.task = r.task
      BY <3>1 DEF FlowOf
    <3>3. PICK t \in Addressed(ProcPIDFor(r)) : claim = Proc[t].claim
      BY <3>2 DEF ClaimedAgentURI
    <3> QED BY <2>2, <3>2, <3>3, AddressedHasThePid DEF Base
  <2> HIDE DEF f
  <2>4. /\ DOMAIN flows' = 1..(Len(flows) + 1) /\ DOMAIN flows = 1..Len(flows)
        /\ \A i \in 1..Len(flows) : flows'[i] = flows[i]
        /\ flows'[Len(flows) + 1] = f /\ Len(flows) \in Nat
    BY <1>3, <2>1, AppendProperties, LenProperties DEF f
  <2> QED BY <1>1, <2>3, <2>4
<1> QED BY <1>2, <1>3, RunStep, HandledFlow DEF Base

(* isSelf and the filters of Run leave out what is out of scope, and no     *)
(* more: the sensor is known by its number in its own namespace.           *)
LEMMA FilteredIsOutOfScope ==
    ASSUME HostOK, SelfIsAlone, NEW r \in Records, TrueRecord(r)
    PROVE  Filtered(r) <=> ~InScope(r)
<1>1. IsSelf(r) <=> r.task = self
  <2>0. r.task \in Tasks /\ self \in Tasks /\ r.task \in born
    BY DEF HostOK, TrueRecord
  <2>1. Proc[self].nsPid \in Nat \ {0} /\ NsTgid(self) = Proc[self].nsPid
    BY <2>0, ProcAssumption DEF Process, NsTgid
  <2>2. CASE r.task = self
    BY <2>1, <2>2 DEF IsSelf, TrueRecord
  <2>3. ASSUME IsSelf(r) PROVE r.task = self
    <3>1. Proc[r.task].ns = Proc[self].ns /\ Proc[r.task].nsPid = Proc[self].nsPid
      BY <2>1, <2>3 DEF IsSelf, TrueRecord, NsTgid
    <3> QED BY <2>0, <3>1, ProcAssumption DEF SelfIsAlone
  <2> QED BY <2>2, <2>3
<1> QED BY <1>1 DEF Filtered, InScope

HandledCount == Len(submitted) - Len(ring)

LEMMA HandledIs ==
    ASSUME RecordsOK, RingIsTheRest
    PROVE  /\ HandledCount \in Nat /\ HandledCount <= Len(submitted)
           /\ DOMAIN Handled = 1..HandledCount
           /\ \A i \in 1..HandledCount : Handled[i] = submitted[i]
<1>1. Len(submitted) \in Nat /\ Len(ring) \in Nat
  BY DEF RecordsOK
<1>2. \A i \in 1..HandledCount : submitted[i] \in Records
  BY <1>1 DEF RecordsOK, HandledCount
<1>3. HandledCount \in Nat /\ HandledCount <= Len(submitted)
  BY <1>1 DEF RingIsTheRest, HandledCount
<1>4. /\ Handled \in Seq(Records) /\ Len(Handled) = HandledCount
      /\ \A i \in 1..HandledCount : Handled[i] = submitted[1 + i - 1]
  <2> HIDE DEF HandledCount
  <2>1. Handled = SubSeq(submitted, 1, HandledCount)
    BY DEF Handled, HandledCount
  <2> QED BY <1>2, <1>3, <2>1, SubSeqProperties
<1> QED BY <1>3, <1>4

(* The connections in scope among the first n submitted. *)
Scoped(n) == {i \in 1..n : InScope(submitted[i])}

(* The flows fs are those of the records rs at the positions S, in order. *)
Matches(at, S, fs, rs) ==
    /\ at \in [1..Len(fs) -> S]
    /\ \A i \in S : \E j \in 1..Len(fs) : at[j] = i
    /\ \A j, k \in 1..Len(fs) : j < k => at[j] < at[k]
    /\ \A j \in 1..Len(fs) : Stamp(fs[j]) = Stamp(rs[at[j]])

ConnectionsAreMatched ==
    FlowsAreTheConnections <=> \E at : Matches(at, Scoped(HandledCount), flows, submitted)

LEMMA ConnectionsMatch == RecordsOK /\ FlowsOK /\ RingIsTheRest => ConnectionsAreMatched
<1> SUFFICES ASSUME RecordsOK, FlowsOK, RingIsTheRest PROVE ConnectionsAreMatched
  OBVIOUS
<1> DEFINE S == Scoped(HandledCount)
           Fits(at) == /\ S \subseteq {at[j] : j \in 1..Len(flows)}
                       /\ \A j, k \in 1..Len(flows) : j < k => at[j] < at[k]
                       /\ \A j \in 1..Len(flows) : Stamp(flows[j]) = Stamp(Handled[at[j]])
<1>1. DOMAIN flows = 1..Len(flows)
  BY DEF FlowsOK
<1>2. {i \in DOMAIN Handled : InScope(Handled[i])} = S /\ S \subseteq 1..HandledCount
  BY HandledIs DEF Scoped
<1> HIDE DEF S
<1>3. FlowsAreTheConnections <=> \E at \in [1..Len(flows) -> S] : Fits(at)
  BY <1>1, <1>2 DEF FlowsAreTheConnections
<1>4. ASSUME NEW at \in [1..Len(flows) -> S] PROVE Fits(at) <=> Matches(at, S, flows, submitted)
  <2>1. \A j \in 1..Len(flows) : Handled[at[j]] = submitted[at[j]]
    BY <1>2, HandledIs
  <2> QED BY <2>1 DEF Matches
<1>5. \A at : Matches(at, S, flows, submitted) => at \in [1..Len(flows) -> S]
  BY DEF Matches
<1> HIDE DEF Fits
<1> QED BY <1>3, <1>4, <1>5 DEF S, ConnectionsAreMatched

(* One record more that is in scope, and its flow. *)
LEMMA OneMoreFlow ==
    ASSUME NEW fs \in Seq(Flows), NEW f \in Flows, NEW rs, NEW n \in Nat,
           NEW S \in SUBSET (1..n), NEW at, Matches(at, S, fs, rs),
           Stamp(f) = Stamp(rs[n + 1])
    PROVE  \E to : Matches(to, S \cup {n + 1}, Append(fs, f), rs)
<1> DEFINE m == Len(fs)
           to == [j \in 1..(m + 1) |-> IF j = m + 1 THEN n + 1 ELSE at[j]]
           more == S \cup {n + 1}
<1>1. /\ m \in Nat /\ Len(Append(fs, f)) = m + 1
      /\ \A j \in 1..m : Append(fs, f)[j] = fs[j]
      /\ Append(fs, f)[m + 1] = f
  BY AppendProperties, LenProperties
<1>2. /\ at \in [1..m -> S]
      /\ \A i \in S : \E j \in 1..m : at[j] = i
      /\ \A j, k \in 1..m : j < k => at[j] < at[k]
      /\ \A j \in 1..m : Stamp(fs[j]) = Stamp(rs[at[j]])
  BY DEF Matches
<1> HIDE DEF m
<1>3. to \in [1..(m + 1) -> more]
  BY <1>1, <1>2
<1>4. \A i \in more : \E j \in 1..(m + 1) : to[j] = i
  <2>1. to[m + 1] = n + 1 /\ m + 1 \in 1..(m + 1)
    BY <1>1
  <2>2. \A j \in 1..m : to[j] = at[j] /\ j \in 1..(m + 1)
    BY <1>1
  <2> QED BY <1>2, <2>1, <2>2
<1>5. ASSUME NEW j \in 1..(m + 1), NEW k \in 1..(m + 1), j < k PROVE to[j] < to[k]
  <2>0. j \in 1..m /\ j # m + 1
    BY <1>1, <1>5
  <2>1. to[j] = at[j] /\ at[j] \in 1..n
    BY <1>2, <2>0
  <2>2. CASE k = m + 1
    BY <2>1, <2>2
  <2>3. CASE k \in 1..m
    BY <1>1, <1>2, <1>5, <2>0, <2>1, <2>3
  <2> QED BY <1>1, <2>2, <2>3
<1>6. \A j \in 1..(m + 1) : Stamp(Append(fs, f)[j]) = Stamp(rs[to[j]])
  BY <1>1, <1>2
<1> HIDE DEF to
<1>7. Matches(to, more, Append(fs, f), rs)
  BY <1>1, <1>3, <1>4, <1>5, <1>6 DEF Matches
<1> QED BY <1>7

(* ConnectionsMatch after a step. *)
LEMMA ConnectionsMatchNext ==
    RecordsOK' /\ FlowsOK' /\ RingIsTheRest' => ConnectionsAreMatched'
BY ConnectionsMatch, PTL

LEMMA ConnectionsStep ==
    ASSUME Base, FlowsAreTheConnections, [Next]_vars
    PROVE  FlowsAreTheConnections'
<1> USE DEF Base
<1> DEFINE n == HandledCount
<1>1. PICK at : Matches(at, Scoped(n), flows, submitted)
  BY ConnectionsMatch DEF ConnectionsAreMatched
<1>2. RecordsOK' /\ FlowsOK' /\ RingIsTheRest' /\ self' = self
  BY RecordsStep, FlowsStep, RingIsTheRestStep, SelfIsAloneStep
<1>3. SUFFICES \E to : Matches(to, Scoped(n)', flows', submitted')
  BY <1>2, ConnectionsMatchNext DEF ConnectionsAreMatched
<1>4. n \in Nat /\ n <= Len(submitted) /\ Len(ring) \in Nat /\ Len(submitted) \in Nat
  BY HandledIs DEF RecordsOK
<1>5. CASE ring' = ring /\ submitted' = submitted /\ flows' = flows
  BY <1>1, <1>2, <1>5 DEF Scoped, InScope, HandledCount
<1>6. CASE HandleRecord /\ ring # <<>> /\ ring' = Tail(ring) /\ submitted' = submitted
  <2> DEFINE r == Head(ring)
  <2>1. Len(ring) > 0 /\ Len(ring') = Len(ring) - 1 /\ r = ring[1]
    BY <1>4, <1>6, HeadTailProperties DEF RecordsOK
  <2>2. n' = n + 1 /\ n + 1 <= Len(submitted) /\ r = submitted[n + 1]
    BY <1>4, <1>6, <2>1 DEF RingIsTheRest, HandledCount
  <2>3. r \in Records /\ TrueRecord(r)
    BY <1>4, <1>6, <2>1, HandledFlow DEF RecordsAreTrue
  <2>4. Scoped(n)' = {i \in 1..(n + 1) : InScope(submitted[i])}
    BY <1>2, <1>6, <2>2 DEF Scoped, InScope
  <2> HIDE DEF n, r
  <2>5. CASE Filtered(r) /\ flows' = flows
    <3>1. Scoped(n)' = Scoped(n)
      BY <1>4, <2>2, <2>3, <2>4, <2>5, FilteredIsOutOfScope DEF Scoped
    <3> QED BY <1>1, <1>6, <2>5, <3>1
  <2>6. ASSUME ~Filtered(r), NEW claim \in ClaimedAgentURI(ProcPIDFor(r)),
               flows' = Append(flows, FlowOf(r, claim))
        PROVE  \E to : Matches(to, Scoped(n)', flows', submitted')
    <3>1. Scoped(n)' = Scoped(n) \cup {n + 1} /\ Scoped(n) \in SUBSET (1..n)
      BY <1>4, <2>2, <2>3, <2>4, <2>6, FilteredIsOutOfScope DEF Scoped
    <3>2. FlowOf(r, claim) \in Flows /\ Stamp(FlowOf(r, claim)) = Stamp(submitted[n + 1])
      BY <2>2, <2>3, FlowIsFlow DEF ClaimedAgentURI, Stamp, FlowOf
    <3>3. flows \in Seq(Flows)
      BY DEF FlowsOK
    <3> HIDE DEF Base
    <3>4. \E to : Matches(to, Scoped(n) \cup {n + 1}, Append(flows, FlowOf(r, claim)), submitted)
      BY <1>1, <1>4, <3>1, <3>2, <3>3, OneMoreFlow
    <3> QED BY <1>6, <2>6, <3>1, <3>4
  <2> QED BY <1>6, <2>5, <2>6, HandledFlow DEF r
<1>7. ASSUME NEW t \in alive, NEW a \in Addresses, flows' = flows,
             ring' = Append(ring, Record(t, a)), submitted' = Append(submitted, Record(t, a))
      PROVE  Matches(at, Scoped(n)', flows', submitted')
  <2>1. Record(t, a) \in Records
    BY RecordIsRecord
  <2>2. /\ Len(ring') = Len(ring) + 1 /\ Len(submitted') = Len(submitted) + 1
        /\ \A i \in 1..Len(submitted) : submitted'[i] = submitted[i]
    BY <1>7, <2>1, AppendProperties DEF RecordsOK
  <2>3. n' = n /\ \A i \in 1..n : submitted'[i] = submitted[i]
    BY <1>4, <2>2 DEF HandledCount
  <2>4. Scoped(n)' = Scoped(n) /\ Scoped(n) \subseteq 1..n
    BY <1>2, <2>3 DEF Scoped, InScope
  <2> HIDE DEF n
  <2>5. \A j \in 1..Len(flows) : submitted'[at[j]] = submitted[at[j]]
    BY <1>1, <2>3, <2>4 DEF Matches
  <2> QED BY <1>1, <1>7, <2>4, <2>5 DEF Matches
<1> QED BY <1>5, <1>6, <1>7, RingStep

-----------------------------------------------------------------------------
(* The completeness of a quiet capture. *)

(* The counter that would tell is still zero. *)
NeverFull ==
    \/ phase \in {"reading", "closed"} /\ skipped["ringbuf_full"] = 0
    \/ phase = "counted" /\ reported["ringbuf_full"] = 0
    \/ exit = 0 /\ log.told /\ reported["ringbuf_full"] = 0

(* It is enough that the counters, the wanted connections and the log keep  *)
(* their meaning and that nothing that was kept is lost.                   *)
LEMMA LostFrom ==
    ASSUME NothingWantedIsLost, wanted' = wanted, self' = self,
           phase' \in {"starting", "attached"} => phase \in {"starting", "attached"},
           NeverFull' => NeverFull \/ phase \in {"starting", "attached"},
           \A k \in DOMAIN wanted : Kept(wanted[k]) => Kept(wanted[k])',
           exit' = 0 => log'.flows = flows'
    PROVE  NothingWantedIsLost'
<1>1. NeverFull' => \A k \in DOMAIN wanted : Kept(wanted[k])'
  BY DEF NothingWantedIsLost, NeverFull
<1> QED BY <1>1 DEF NothingWantedIsLost, NeverFull, InScope

LEMMA ConnectLosesNothing ==
    ASSUME Base, NothingWantedIsLost, NEW t \in Tasks, NEW a \in Addresses, Connect(t, a)
    PROVE  NothingWantedIsLost'
<1> DEFINE r == Record(t, a)
<1> USE DEF Base
<1>1. r \in Records /\ self' = self /\ UNCHANGED <<phase, flows, log, exit, reported, closes>>
  BY RecordIsRecord DEF Connect, stopVars, runVars
<1>2. ring' = ring \/ ring' = Append(ring, r)
  BY DEF Connect
<1>3. /\ \A i \in DOMAIN ring : i \in DOMAIN ring' /\ ring'[i] = ring[i]
      /\ ring' = Append(ring, r) => \E i \in DOMAIN ring' : ring'[i] = r
  <2>1. /\ Append(ring, r) \in Seq(Records) /\ Len(Append(ring, r)) = Len(ring) + 1
        /\ \A i \in 1..Len(ring) : Append(ring, r)[i] = ring[i]
        /\ Append(ring, r)[Len(ring) + 1] = r
        /\ DOMAIN ring = 1..Len(ring) /\ Len(ring) \in Nat
    BY <1>1, AppendProperties, LenProperties DEF RecordsOK
  <2>2. DOMAIN Append(ring, r) = 1..(Len(ring) + 1)
    BY <2>1, LenProperties
  <2> HIDE DEF r
  <2> QED BY <1>2, <2>1, <2>2
<1>4. \A w : Kept(w) => Kept(w)'
  BY <1>1, <1>3 DEF Kept
<1>5. skipped'["ringbuf_full"] = 0
        => skipped["ringbuf_full"] = 0 /\ "ringbuf_full" \notin WhySkipped(a)
  <2>1. "ringbuf_full" \in Reasons /\ skipped["ringbuf_full"] \in Nat
    BY DEF Reasons, RecordsOK, Counts
  <2>2. skipped'["ringbuf_full"] = IF "ringbuf_full" \in WhySkipped(a)
                                   THEN skipped["ringbuf_full"] + 1 ELSE skipped["ringbuf_full"]
    BY <2>1 DEF Connect
  <2> QED BY <2>1, <2>2
<1>6. CASE wanted' = wanted
  <2>1. NeverFull' => NeverFull
    BY <1>1, <1>5 DEF NeverFull
  <2> QED BY <1>1, <1>4, <1>6, <2>1, LostFrom DEF NothingWantedIsLost
<1>7. CASE wanted' # wanted
  <2>1. phase = "reading" /\ Whole(a) /\ InScope(r) /\ wanted' = Append(wanted, r)
    BY <1>7 DEF Connect
  <2>2. exit # 0 /\ exit' # 0
    BY <1>1, <2>1, NoneAssumption DEF StopsOK
  <2>3. /\ DOMAIN wanted' = 1..(Len(wanted) + 1) /\ DOMAIN wanted = 1..Len(wanted)
        /\ Len(wanted) \in Nat /\ wanted'[Len(wanted) + 1] = r
        /\ \A k \in 1..Len(wanted) : wanted'[k] = wanted[k]
    BY <1>1, <2>1, AppendProperties, LenProperties DEF RecordsOK
  <2>4. ASSUME NEW k \in DOMAIN wanted', NEW w, w = wanted'[k] PROVE InScope(w)'
    <3>1. InScope(w)
      BY <2>1, <2>3, <2>4 DEF NothingWantedIsLost
    <3> QED BY <1>1, <3>1 DEF InScope
  <2>5. ASSUME skipped'["ringbuf_full"] = 0, NEW k \in DOMAIN wanted', NEW w, w = wanted'[k]
        PROVE  Kept(w)'
    <3>1. CASE k \in 1..Len(wanted)
      BY <1>4, <1>5, <2>1, <2>3, <2>5, <3>1 DEF NothingWantedIsLost
    <3>2. CASE k = Len(wanted) + 1
      <4>1. WhySkipped(a) = {} /\ Len(ring) # RingSize
        BY <1>5, <2>1, <2>5 DEF WhySkipped, Whole
      <4>2. Len(ring) < RingSize
        BY <4>1, RingAssumption DEF RingIsTheRest, RecordsOK
      <4>3. ring' = Append(ring, r)
        BY <4>1, <4>2 DEF Connect
      <4> QED BY <1>3, <2>3, <2>5, <3>2, <4>3 DEF Kept
    <3> QED BY <2>3, <3>1, <3>2
  <2>6. (\A k \in DOMAIN wanted : InScope(wanted[k]))'
    BY <2>4
  <2>7. skipped'["ringbuf_full"] = 0 => (\A k \in DOMAIN wanted : Kept(wanted[k]))'
    BY <2>5
  <2> QED BY <1>1, <2>1, <2>2, <2>6, <2>7 DEF NothingWantedIsLost
<1> QED BY <1>6, <1>7

LEMMA HandlingLosesNothing ==
    ASSUME Base, NothingWantedIsLost, HandleRecord
    PROVE  NothingWantedIsLost'
<1> USE DEF Base
<1> DEFINE r == Head(ring)
<1>1. /\ UNCHANGED <<self, phase, wanted, skipped, reported, log, exit>>
      /\ phase = "reading" /\ ring # <<>> /\ ring' = Tail(ring)
  BY DEF HandleRecord, taskVars
<1>2. r \in Records /\ TrueRecord(r) /\ r = ring[1] /\ Len(ring) \in Nat
  BY <1>1, HeadTailProperties DEF RecordsOK, RecordsAreTrue
<1>3. /\ Len(ring') = Len(ring) - 1 /\ DOMAIN ring' = 1..Len(ring') /\ DOMAIN ring = 1..Len(ring)
      /\ \A i \in 1..Len(ring') : ring'[i] = ring[i + 1]
  BY <1>1, HeadTailProperties, LenProperties DEF RecordsOK
<1>4. /\ DOMAIN flows = 1..Len(flows) /\ Len(flows) \in Nat
      /\ \A i \in DOMAIN flows : i \in DOMAIN flows' /\ flows'[i] = flows[i]
      /\ ~Filtered(r) => \E i \in DOMAIN flows' : Stamp(flows'[i]) = Stamp(r)
  <2>1. CASE Filtered(r) /\ flows' = flows
    BY <2>1 DEF FlowsOK
  <2>2. ASSUME NEW claim \in ClaimedAgentURI(ProcPIDFor(r)), flows' = Append(flows, FlowOf(r, claim))
        PROVE  <1>4!:
    <3>1. FlowOf(r, claim) \in Flows /\ Stamp(FlowOf(r, claim)) = Stamp(r)
      BY <1>2, FlowIsFlow DEF ClaimedAgentURI, Stamp, FlowOf
    <3>2. /\ Append(flows, FlowOf(r, claim)) \in Seq(Flows)
          /\ Len(Append(flows, FlowOf(r, claim))) = Len(flows) + 1
          /\ \A i \in 1..Len(flows) : Append(flows, FlowOf(r, claim))[i] = flows[i]
          /\ Append(flows, FlowOf(r, claim))[Len(flows) + 1] = FlowOf(r, claim)
          /\ DOMAIN flows = 1..Len(flows) /\ Len(flows) \in Nat
      BY <3>1, AppendProperties, LenProperties DEF FlowsOK
    <3>3. DOMAIN Append(flows, FlowOf(r, claim)) = 1..(Len(flows) + 1)
      BY <3>2, LenProperties
    <3> QED BY <2>2, <3>1, <3>2, <3>3
  <2> QED BY <2>1, <2>2, HandledFlow
<1>5. ASSUME NEW k \in DOMAIN wanted, Kept(wanted[k]) PROVE Kept(wanted[k])'
  <2>1. CASE \E i \in DOMAIN flows : Stamp(flows[i]) = Stamp(wanted[k])
    BY <1>1, <1>4, <2>1 DEF Kept
  <2>2. ASSUME NEW i \in 1..Len(ring), ring[i] = wanted[k] PROVE Kept(wanted[k])'
    <3>1. CASE i = 1
      <4>1. InScope(r)
        BY <1>2, <2>2, <3>1 DEF NothingWantedIsLost
      <4>2. ~Filtered(r)
        BY <1>2, <4>1, FilteredIsOutOfScope
      <4> QED BY <1>1, <1>2, <1>4, <2>2, <3>1, <4>2 DEF Kept
    <3>2. CASE i # 1
      <4>1. i - 1 \in DOMAIN ring' /\ ring'[i - 1] = ring[i]
        BY <1>2, <1>3, <3>2
      <4> QED BY <1>1, <2>2, <4>1 DEF Kept
    <3> QED BY <3>1, <3>2
  <2> QED BY <1>3, <1>5, <2>1, <2>2 DEF Kept
<1>6. NeverFull' => NeverFull
  BY <1>1 DEF NeverFull
<1>7. exit' # 0
  BY <1>1, NoneAssumption DEF StopsOK
<1> QED BY <1>1, <1>5, <1>6, <1>7, LostFrom

LEMMA NothingWantedIsLostStep ==
    ASSUME Base, NothingWantedIsLost, [Next]_vars
    PROVE  NothingWantedIsLost'
<1> USE DEF kernelVars, runVars, taskVars, stopVars
<1>1. CASE (\E t \in Tasks : StartTask(t) \/ ExitTask(t)) \/ StepWallClock
  BY <1>1, HostLeaves, LostFrom DEF NeverFull, Kept, NothingWantedIsLost
<1>2. ASSUME NEW t \in Tasks, NEW a \in Addresses, Connect(t, a) PROVE NothingWantedIsLost'
  BY <1>2, ConnectLosesNothing
<1>3. ASSUME NEW by, AskToStop(by) \/ CloseReader(by) PROVE NothingWantedIsLost'
  BY <1>3, StopLeaves, LostFrom DEF NeverFull, Kept, NothingWantedIsLost
<1>4. CASE HandleRecord
  BY <1>4, HandlingLosesNothing
<1>5. ASSUME Step, ~HandleRecord PROVE NothingWantedIsLost'
  <2>1. /\ UNCHANGED <<self, wanted, flows, ring, skipped>>
        /\ phase' \in {"starting", "attached"} => phase \in {"starting", "attached"}
    BY <1>5, StepLeaves DEF Step, StartFails, Attach, OpenReader, ReadFails, LoopEnds,
       ReadSkipped, WriteLog
  <2>2. phase = "exited" <=> exit # None
    BY DEF Base, StopsOK
  <2>3. CASE StartFails \/ Attach \/ ReadFails \/ LoopEnds \/ \E sampled \in BOOLEAN : OpenReader(sampled)
    <3>1. exit' # 0
      BY <2>2, <2>3, NoneAssumption DEF StartFails, Attach, ReadFails, LoopEnds, OpenReader
    <3>2. NeverFull' => NeverFull \/ phase \in {"starting", "attached"}
      BY <2>1, <2>3, <3>1 DEF NeverFull, StartFails, Attach, ReadFails, LoopEnds, OpenReader
    <3> QED BY <2>1, <3>1, <3>2, LostFrom DEF Kept
  <2>4. ASSUME NEW found \in BOOLEAN, ReadSkipped(found) PROVE NothingWantedIsLost'
    <3>1. exit' # 0
      BY <2>2, <2>4, NoneAssumption DEF ReadSkipped
    <3>2. /\ phase = "closed" /\ skipped' = skipped
          /\ \/ phase' = "counted" /\ reported' = skipped
             \/ phase' = "uncounted"
      BY <2>1, <2>4 DEF ReadSkipped
    <3>3. NeverFull' => NeverFull
      BY <3>1, <3>2 DEF NeverFull
    <3> QED BY <2>1, <3>1, <3>3, LostFrom DEF Kept
  <2>5. ASSUME NEW written \in BOOLEAN, WriteLog(written) PROVE NothingWantedIsLost'
    <3>1. exit' = 0 => log' = [flows |-> flows, told |-> phase = "counted"]
      BY <2>5 DEF WriteLog
    <3>2. exit' = 0 /\ log'.told => phase = "counted"
      <4>1. ASSUME exit' = 0, phase # "counted" PROVE ~log'.told
        <5> DEFINE told == phase = "counted"
        <5>1. told = FALSE
          BY <4>1
        <5> HIDE DEF told
        <5>2. log'.told = told
          BY <3>1, <4>1 DEF told
        <5> QED BY <5>1, <5>2
      <4> QED BY <4>1
    <3>3. phase' = "exited" /\ reported' = reported
      BY <2>5 DEF WriteLog
    <3>4. exit' = 0 => log'.flows = flows'
      BY <2>1, <3>1
    <3>5. NeverFull' => NeverFull
      BY <3>2, <3>3 DEF NeverFull
    <3> QED BY <2>1, <3>4, <3>5, LostFrom DEF Kept
  <2> QED BY <1>5, <2>3, <2>4, <2>5 DEF Step
<1>6. CASE UNCHANGED vars
  BY <1>6, LostFrom DEF vars, NeverFull, Kept, NothingWantedIsLost
<1> QED BY <1>1, <1>2, <1>3, <1>4, <1>5, <1>6, Alternatives

-----------------------------------------------------------------------------
LEMMA InitEstablishesInv == Init => Inv
<1> SUFFICES ASSUME Init PROVE Inv
  OBVIOUS
<1>1. HostOK /\ StopsOK
  BY NoneAssumption, RunningAssumption DEF Init, HostOK, StopsOK
<1>2. RecordsOK /\ FlowsOK
  BY EmptySeq DEF Init, RecordsOK, FlowsOK, NoCounts, Counts
<1>3. RingIsTheRest /\ RecordsAreTrue
  BY RingAssumption DEF Init, RingIsTheRest, RecordsAreTrue
<1>4. SelfIsAlone
  BY RunningAssumption DEF Init, SelfIsAlone
<1>5. FlowsAreTimed /\ NothingWantedIsLost /\ ClaimComesFromThatPid
  BY NoneAssumption DEF Init, FlowsAreTimed, NothingWantedIsLost, ClaimComesFromThatPid
<1>6. FlowsAreTheConnections
  <2>1. HandledCount = 0 /\ flows = <<>>
    BY DEF Init, HandledCount
  <2>2. Matches([j \in 1..0 |-> 0], Scoped(HandledCount), flows, submitted)
    BY <2>1 DEF Matches, Scoped
  <2> QED BY <1>2, <1>3, <2>2, ConnectionsMatch DEF ConnectionsAreMatched
<1> QED BY <1>1, <1>2, <1>3, <1>4, <1>5, <1>6 DEF Inv, Base

LEMMA InvIsInductive == Inv /\ [Next]_vars => Inv'
<1> SUFFICES ASSUME Inv, [Next]_vars PROVE Inv'
  OBVIOUS
<1>1. Base'
  BY HostStep, StopsStep, RecordsStep, FlowsStep, RingIsTheRestStep, SelfIsAloneStep,
     RecordsAreTrueStep DEF Inv, Base
<1> QED BY <1>1, FlowsAreTimedStep, NothingWantedIsLostStep, ConnectionsStep, ClaimStep
        DEF Inv, Base

LEMMA InvHolds == Spec => []Inv
<1>1. Init => Inv BY InitEstablishesInv
<1>2. Inv /\ [Next]_vars => Inv' BY InvIsInductive
<1> QED BY <1>1, <1>2, PTL DEF Spec

(* Every state is well typed, and the ring is always the end of what was     *)
(* submitted.                                                              *)
THEOREM TypeCorrect == Spec => []TypeOK
<1>1. Inv => TypeOK
  <2> SUFFICES ASSUME Inv PROVE TypeOK
    OBVIOUS
  <2> USE DEF Inv, Base
  <2>1. Len(ring) \in Nat /\ Len(submitted) \in Nat /\ ring \in Seq(Records)
        /\ submitted \in Seq(Records) /\ Len(ring) <= Len(submitted)
    BY DEF RecordsOK, RingIsTheRest
  <2>2. IsSuffix(ring, submitted)
    <3> DEFINE a == Reverse(ring)
               b == Reverse(submitted)
               n == Len(ring)
               m == Len(submitted)
    <3>1. \A i \in 1..n : a[i] = ring[n - i + 1] /\ b[i] = submitted[m - i + 1]
      BY <2>1 DEF Reverse
    <3>2. \A i \in 1..n : a[i] = b[i]
      <4>1. ASSUME NEW i \in 1..n PROVE ring[n - i + 1] = submitted[m - i + 1]
        <5>1. n - i + 1 \in 1..n /\ m - n + (n - i + 1) = m - i + 1
          BY <2>1
        <5> QED BY <5>1 DEF RingIsTheRest
      <4> QED BY <3>1, <4>1
    <3>3. a \in Seq(Records) /\ Len(a) = n /\ b \in Seq(Records) /\ Len(b) = m
      BY <2>1 DEF Reverse
    <3> HIDE DEF a, b
    <3>4. /\ SubSeq(a, 1, n) \in Seq(Records) /\ SubSeq(b, 1, n) \in Seq(Records)
          /\ Len(SubSeq(a, 1, n)) = n /\ Len(SubSeq(b, 1, n)) = n
          /\ \A i \in 1..n : SubSeq(a, 1, n)[i] = a[i] /\ SubSeq(b, 1, n)[i] = b[i]
      BY <2>1, <3>3, SubSeqProperties
    <3>5. SubSeq(a, 1, n) = SubSeq(b, 1, n)
      BY <3>2, <3>4, SeqEqual
    <3> QED BY <2>1, <3>3, <3>5 DEF IsSuffix, IsPrefix, a, b
  <2>3. \A i \in DOMAIN flows : flows[i].identity \in FlowIDs
    <3>1. flows \in Seq(Flows) /\ DOMAIN flows = 1..Len(flows)
      BY LenProperties DEF FlowsOK
    <3>2. \A f \in Flows : f.identity \in FlowIDs
      BY DEF Flows
    <3> QED BY <3>1, <3>2, ElementOfSeq
  <2>4. DOMAIN skipped = Reasons /\ DOMAIN reported = Reasons
    BY DEF RecordsOK, Counts
  <2> QED BY <2>2, <2>3, <2>4 DEF TypeOK, HostOK, StopsOK, RecordsOK, RingIsTheRest
<1> QED BY <1>1, InvHolds, PTL

(* Whatever the traffic and whoever comes and goes, the flows are the        *)
(* connections in scope that were read, one for one and in order.          *)
THEOREM FlowsAreConnections == Spec => []FlowsAreTheConnections
<1>1. Inv => FlowsAreTheConnections BY DEF Inv
<1> QED BY <1>1, InvHolds, PTL

(* A declared identity was declared by a process of that very pid, whatever  *)
(* number it has in the sensor's namespace.                                *)
THEOREM ClaimsComeFromThatPid == Spec => []ClaimComesFromThatPid
<1>1. Inv => ClaimComesFromThatPid BY DEF Inv
<1> QED BY <1>1, InvHolds, PTL

(* Between two flows lies the time the kernel measured.                     *)
THEOREM IntervalsAreKept == Spec => []IntervalsAreTheKernels
<1>1. Inv => IntervalsAreTheKernels
  <2> SUFFICES ASSUME Inv, offset # None, NEW i \in DOMAIN flows, NEW j \in DOMAIN flows
               PROVE  flows[i].time + flows[j].ktime = flows[j].time + flows[i].ktime
    BY DEF IntervalsAreTheKernels
  <2>1. flows[i] \in Flows /\ flows[j] \in Flows /\ offset \in [wall : Nat, mono : Nat]
    BY DEF Inv, Base, FlowsOK
  <2>2. /\ flows[i].time = offset.wall + flows[i].ktime - offset.mono
        /\ flows[j].time = offset.wall + flows[j].ktime - offset.mono
    BY DEF Inv, FlowsAreTimed
  <2> QED BY <2>1, <2>2 DEF Flows
<1> QED BY <1>1, InvHolds, PTL

(* A capture whose counters say that the ring was never full has every       *)
(* connection it was to report, but for those left in the ring.            *)
THEOREM QuietCapturesAreComplete == Spec => []QuietCaptureIsComplete
<1>1. Inv => QuietCaptureIsComplete
  <2> SUFFICES ASSUME Inv, exit = 0, log.told, reported["ringbuf_full"] = 0,
                      NEW k \in DOMAIN wanted
               PROVE  Stamp(wanted[k]) \in ToSet(Stamps(log.flows \o ring))
    BY DEF QuietCaptureIsComplete, ToSet, Stamps
  <2>1. Kept(wanted[k]) /\ log.flows = flows
    BY DEF Inv, NothingWantedIsLost
  <2>2. flows \in Seq(Flows \cup Records) /\ ring \in Seq(Flows \cup Records)
    BY SeqMonotonic DEF Inv, Base, FlowsOK, RecordsOK
  <2>3. /\ DOMAIN flows = 1..Len(flows) /\ DOMAIN ring = 1..Len(ring)
        /\ Len(flows) \in Nat /\ Len(ring) \in Nat
        /\ DOMAIN (flows \o ring) = 1..(Len(flows) + Len(ring))
        /\ \A i \in 1..Len(flows) : (flows \o ring)[i] = flows[i]
        /\ \A i \in 1..Len(ring) : (flows \o ring)[Len(flows) + i] = ring[i]
    BY <2>2, ConcatProperties, LenProperties
  <2>4. PICK i \in DOMAIN (flows \o ring) : Stamp((flows \o ring)[i]) = Stamp(wanted[k])
    <3>1. CASE \E i \in DOMAIN flows : Stamp(flows[i]) = Stamp(wanted[k])
      BY <2>3, <3>1
    <3>2. ASSUME NEW i \in DOMAIN ring, ring[i] = wanted[k]
          PROVE  \E j \in DOMAIN (flows \o ring) : Stamp((flows \o ring)[j]) = Stamp(wanted[k])
      <4>1. Len(flows) + i \in DOMAIN (flows \o ring) /\ (flows \o ring)[Len(flows) + i] = wanted[k]
        BY <2>3, <3>2
      <4> QED BY <4>1
    <3> QED BY <2>1, <3>1, <3>2 DEF Kept
  <2> QED BY <2>1, <2>4 DEF ToSet, Stamps
<1> QED BY <1>1, InvHolds, PTL
=============================================================================
