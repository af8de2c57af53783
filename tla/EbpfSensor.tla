----------------------------- MODULE EbpfSensor -----------------------------
(***************************************************************************)
(* `idryx ebpf-capture`: the program of bpf/connect.c that runs in every    *)
(* connect() of the host, the ring buffer and the counters it shares with   *)
(* userspace, the loop of ebpfcapture.Run that drains it, the two ways a    *)
(* capture is stopped, and the log runEBPFCapture writes.                   *)
(*                                                                         *)
(* Processes start, connect and exit at their own pace, and a pid may be    *)
(* taken again by the time the sensor reads /proc.  The sensor is on the    *)
(* host or in a container, where pids are other numbers.  A destination is  *)
(* what the filters tell apart; how it is spelled, and the provider name it *)
(* may get, are left out.  The committed object and the decoder agree, so   *)
(* no record is too short and no family unknown.  A claim is                *)
(* AGENT_PASSPORT_ID, one that is no agent:// URI included.                 *)
(***************************************************************************)
EXTENDS Naturals, Sequences, FiniteSets, SequencesExt

CONSTANTS
    Tasks,          \* the processes there may be
    Proc,           \* each one's PID namespace, numbers and claim
    Running,        \* those that run when the sensor starts
    Sensors,        \* those of them that may be the sensor
    Addresses,      \* what connect() may be given
    Agents,         \* the claims that are agent:// URIs
    None,           \* no claim, no offset, no exit code
    RingSize,       \* the records the ring buffer holds
    MaxConnects,    \* bound: the connects that are made
    MaxExits        \* bound: the processes that exit

(* pid is the number in the initial namespace, nsPid that in its own. *)
Process == [ns : {"init", "box", "other"}, pid : Nat \ {0}, nsPid : Nat \ {0},
            claim : Agents \cup {"unusable", None}]

(* read: what the program can read of the address: nothing, the family, or  *)
(* all of it.                                                              *)
Address == [read : {"nothing", "family", "all"}, family : {"inet", "other"},
            short : BOOLEAN, port : {"zero", "model", "web"}, loopback : BOOLEAN]

ASSUME ProcAssumption ==
    /\ Proc \in [Tasks -> Process]
    /\ \A t \in Tasks : Proc[t].ns = "init" => Proc[t].nsPid = Proc[t].pid
    /\ \A t, u \in Tasks : Proc[t].ns = Proc[u].ns
          => (Proc[t].nsPid = Proc[u].nsPid <=> Proc[t].pid = Proc[u].pid)
ASSUME RunningAssumption ==
    /\ Sensors \subseteq Running /\ Running \subseteq Tasks /\ Sensors # {}
    /\ \A t, u \in Running : Proc[t].pid = Proc[u].pid => t = u
ASSUME AddressesAssumption == Addresses \subseteq Address
ASSUME NoneAssumption == None \notin {0, 1}
ASSUME RingAssumption == RingSize \in Nat \ {0} /\ {MaxConnects, MaxExits} \subseteq Nat

VARIABLES
    self,           \* the sensor's own process
    born, alive,    \* the processes that have started, and those that have not exited
    clock, skew,    \* the kernel's monotonic clock, which goes on with every connect,
                    \* and how far the wall clock has been set on
    phase,          \* where the command is
    stops,          \* what has asked it to stop: a signal, the timer
    closers,        \* the callers of closeReader that have run
    closes,         \* how often the stop channel has been closed
    ring,           \* the ring buffer
    skipped,        \* the map of counters
    offset,         \* the clockOffset of the capture
    flows,          \* what Run has collected
    reported,       \* the counters readSkipped returned
    log,            \* the egress log that was written, or None
    exit,           \* the exit code, or None
    made,           \* how many connects have been made
    submitted,      \* history: every record put on the ring
    wanted          \* history: the connects to report made while the reader was open

taskVars == <<self, born, alive, clock, skew>>
kernelVars == <<ring, skipped, made, submitted, wanted>>
stopVars == <<stops, closers, closes>>
runVars == <<offset, flows, reported, log, exit>>
vars == <<taskVars, phase, kernelVars, stopVars, runVars>>

Reasons == {"other_family", "unreadable", "ringbuf_full", "too_short"}
NoCounts == [r \in Reasons |-> 0]

InInitPidNS == Proc[self].ns = "init"

(* The tgid as the sensor's PID namespace numbers it, 0 outside it. *)
NsTgid(t) == IF Proc[t].ns = Proc[self].ns THEN Proc[t].nsPid ELSE 0

Init ==
    /\ self \in Sensors /\ born = Running /\ alive = Running
    /\ clock = 1 /\ skew = 0
    /\ phase = "starting"
    /\ stops = {} /\ closers = {} /\ closes = 0
    /\ ring = <<>> /\ skipped = NoCounts /\ made = 0
    /\ submitted = <<>> /\ wanted = <<>>
    /\ offset = None /\ flows = <<>> /\ reported = NoCounts /\ log = None /\ exit = None

-----------------------------------------------------------------------------
(* The host, for as long as the command runs. *)

(* No two processes that are alive have one pid. *)
StartTask(t) ==
    /\ exit = None /\ t \notin born
    /\ \A u \in alive : Proc[u].pid # Proc[t].pid
    /\ born' = born \cup {t} /\ alive' = alive \cup {t}
    /\ UNCHANGED <<self, clock, skew, phase, kernelVars, stopVars, runVars>>

ExitTask(t) ==
    /\ exit = None /\ t \in alive \ {self}
    /\ Cardinality(born \ alive) < MaxExits
    /\ alive' = alive \ {t}
    /\ UNCHANGED <<self, born, clock, skew, phase, kernelVars, stopVars, runVars>>

(* The wall clock is set, once and by one: bound. *)
StepWallClock ==
    /\ exit = None /\ skew = 0
    /\ skew' = 1
    /\ UNCHANGED <<self, born, alive, clock, phase, kernelVars, stopVars, runVars>>

(* Ctrl+C or SIGTERM, or the timer of -duration, which runs with the loop. *)
AskToStop(by) ==
    /\ exit = None /\ by \notin stops
    /\ by = "timer" => phase = "reading"
    /\ stops' = stops \cup {by}
    /\ UNCHANGED <<taskVars, phase, kernelVars, closers, closes, runVars>>

-----------------------------------------------------------------------------
(* on_connect. *)

Attached == phase \in {"attached", "reading", "closed", "counted", "uncounted"}

Record(t, a) ==
    [task |-> t, to |-> a, pid |-> Proc[t].pid, nsTgid |-> NsTgid(t), ktime |-> clock]

Whole(a) == a.read = "all" /\ a.family = "inet" /\ ~a.short

(* What the sensor is to report: another process's connection to a port,    *)
(* and over loopback only to a model server.                               *)
InScope(r) ==
    /\ r.task # self /\ r.to.port # "zero"
    /\ r.to.loopback => r.to.port = "model"

(* Mutant: a record that finds no room goes uncounted. *)
WhySkipped_silentFull(a) ==
    IF a.read = "nothing" THEN {"unreadable"}
    ELSE IF a.family # "inet" THEN {"other_family"}
    ELSE IF a.short THEN {"too_short"}
    ELSE IF a.read = "family" THEN {"unreadable"} ELSE {}

(* Why on_connect gives up, in the order it finds out.  The record is       *)
(* reserved before the whole address is read.                              *)
WhySkipped(a) ==
    IF a.read = "nothing" THEN {"unreadable"}
    ELSE IF a.family # "inet" THEN {"other_family"}
    ELSE IF a.short THEN {"too_short"}
    ELSE IF Len(ring) = RingSize THEN {"ringbuf_full"}
    ELSE IF a.read = "family" THEN {"unreadable"} ELSE {}

Connect(t, a) ==
    LET r == Record(t, a)
        submits == WhySkipped(a) = {} /\ Len(ring) < RingSize
    IN  /\ Attached /\ t \in alive /\ made < MaxConnects
        /\ made' = made + 1 /\ clock' = clock + 1
        /\ skipped' = [w \in Reasons |->
                         IF w \in WhySkipped(a) THEN skipped[w] + 1 ELSE skipped[w]]
        /\ ring' = IF submits THEN Append(ring, r) ELSE ring
        /\ submitted' = IF submits THEN Append(submitted, r) ELSE submitted
        /\ wanted' = IF phase = "reading" /\ closes = 0 /\ Whole(a) /\ InScope(r)
                     THEN Append(wanted, r) ELSE wanted
        /\ UNCHANGED <<self, born, alive, skew, phase, stopVars, runVars>>

-----------------------------------------------------------------------------
(* Run up to its loop. *)

(* Not root, no BTF, an inlined __sys_connect_file, no ring buffer. *)
StartFails ==
    /\ phase \in {"starting", "attached"}
    /\ phase' = "exited" /\ exit' = 1
    /\ UNCHANGED <<taskVars, kernelVars, stopVars, offset, flows, reported, log>>

(* The program is loaded and attached: connections are recorded from here. *)
Attach ==
    /\ phase = "starting"
    /\ phase' = "attached"
    /\ UNCHANGED <<taskVars, kernelVars, stopVars, runVars>>

(* The reader is opened and both clocks are sampled, which may fail. *)
OpenReader(sampled) ==
    /\ phase = "attached"
    /\ phase' = "reading"
    /\ offset' = IF sampled THEN [wall |-> clock + skew, mono |-> clock] ELSE None
    /\ UNCHANGED <<taskVars, kernelVars, stopVars, flows, reported, log, exit>>

-----------------------------------------------------------------------------
(* The loop. *)

(* Mutant: an event from before the offset was taken is clamped to it. *)
WallTime_clamped(ktime, fallback) ==
    IF offset = None THEN fallback
    ELSE IF ktime >= offset.mono THEN offset.wall + (ktime - offset.mono) ELSE offset.wall

WallTime(ktime, fallback) ==
    IF offset = None THEN fallback
    ELSE IF ktime >= offset.mono THEN offset.wall + (ktime - offset.mono)
    ELSE offset.wall - (offset.mono - ktime)

(* Mutant: the kernel's pid is compared with the one the sensor has in its  *)
(* own namespace.                                                          *)
IsSelf_rawPid(r) == r.pid = NsTgid(self)

IsSelf(r) == r.nsTgid # 0 /\ r.nsTgid = NsTgid(self)

(* Mutant: the kernel's pid, in whatever namespace /proc is. *)
ProcPIDFor_raw(r) == r.pid

ProcPIDFor(r) == IF InInitPidNS THEN r.pid ELSE r.nsTgid

(* The process the sensor's /proc shows under a number, if any. *)
Addressed(pid) ==
    {t \in alive : IF InInitPidNS THEN Proc[t].pid = pid
                   ELSE Proc[t].ns = Proc[self].ns /\ Proc[t].nsPid = pid}

(* What /proc/<pid>/environ may say: a read may fail, and a failed read, a  *)
(* process that is gone and a value that is no URI are all no claim.       *)
ClaimedAgentURI(pid) ==
    {None} \cup (Agents \cap {Proc[t].claim : t \in Addressed(pid)})

Filtered(r) ==
    \/ r.to.port = "zero"
    \/ IsSelf(r)
    \/ r.to.loopback /\ r.to.port # "model"

FlowOf(r, claim) ==
    [task |-> r.task, ktime |-> r.ktime, time |-> WallTime(r.ktime, clock + skew),
     identity |-> IF claim = None THEN <<"proc", r.task>> ELSE <<"claimed", claim>>,
     observed |-> <<"proc", r.task>>]

(* Read returns a record; the environment is read at once.  After the close *)
(* Read returns ErrClosed, whatever the ring still holds.                  *)
HandleRecord ==
    /\ phase = "reading" /\ closes = 0 /\ ring # <<>>
    /\ ring' = Tail(ring)
    /\ IF Filtered(Head(ring))
       THEN flows' = flows
       ELSE \E claim \in ClaimedAgentURI(ProcPIDFor(Head(ring))) :
               flows' = Append(flows, FlowOf(Head(ring), claim))
    /\ UNCHANGED <<taskVars, phase, skipped, made, submitted, wanted, stopVars, offset,
                   reported, log, exit>>

(* Any other error of Read: the command fails and writes nothing. *)
ReadFails ==
    /\ phase = "reading" /\ closes = 0
    /\ phase' = "exited" /\ exit' = 1
    /\ UNCHANGED <<taskVars, kernelVars, stopVars, offset, flows, reported, log>>

(* closeReader, from the goroutine that waits for the context and from the  *)
(* timer.  The former may still run when Run has returned.                 *)
CloseReader(by) ==
    /\ by \in stops \ closers
    /\ phase \notin {"starting", "attached", "exited"}
    /\ closers' = closers \cup {by}
    /\ closes' = IF closes = 0 THEN 1 ELSE closes
    /\ UNCHANGED <<taskVars, phase, kernelVars, stops, runVars>>

(* Mutant: the stop is looked at between two records. *)
LoopEnds_onRecord ==
    /\ phase = "reading" /\ closes > 0 /\ ring # <<>>
    /\ phase' = "closed"
    /\ UNCHANGED <<taskVars, kernelVars, stopVars, runVars>>

LoopEnds ==
    /\ phase = "reading" /\ closes > 0
    /\ phase' = "closed"
    /\ UNCHANGED <<taskVars, kernelVars, stopVars, runVars>>

-----------------------------------------------------------------------------
(* After the loop. *)

(* readSkipped; a failed lookup returns zeros. *)
ReadSkipped(found) ==
    /\ phase = "closed"
    /\ phase' = IF found THEN "counted" ELSE "uncounted"
    /\ reported' = IF found THEN skipped ELSE NoCounts
    /\ UNCHANGED <<taskVars, kernelVars, stopVars, offset, flows, log, exit>>

(* Run's deferred closes detach the program, and the log is written or, a   *)
(* file that cannot be created, is not.                                    *)
WriteLog(written) ==
    /\ phase \in {"counted", "uncounted"}
    /\ phase' = "exited"
    /\ log' = IF written THEN [flows |-> flows, told |-> phase = "counted"] ELSE None
    /\ exit' = IF written THEN 0 ELSE 1
    /\ UNCHANGED <<taskVars, kernelVars, stopVars, offset, flows, reported>>

Step ==
    \/ StartFails \/ Attach
    \/ \E sampled \in BOOLEAN : OpenReader(sampled)
    \/ HandleRecord \/ ReadFails \/ LoopEnds
    \/ \E found \in BOOLEAN : ReadSkipped(found)
    \/ \E written \in BOOLEAN : WriteLog(written)

Next ==
    \/ \E t \in Tasks : StartTask(t) \/ ExitTask(t) \/ \E a \in Addresses : Connect(t, a)
    \/ StepWallClock
    \/ \E by \in {"signal", "timer"} : AskToStop(by) \/ CloseReader(by)
    \/ Step

(* The command's own goroutines keep running; the host owes it nothing. *)
Fairness == WF_vars(Step) /\ \A by \in {"signal", "timer"} : WF_vars(CloseReader(by))

Spec == Init /\ [][Next]_vars /\ Fairness

-----------------------------------------------------------------------------
FlowIDs == {<<"proc", t>> : t \in Tasks} \cup {<<"claimed", a>> : a \in Agents}

(* Type correctness: the ring holds no more than its size, every record in  *)
(* it was submitted, and the exit code is set when the command is over.     *)
TypeOK ==
    /\ self \in alive /\ alive \subseteq born /\ born \subseteq Tasks
    /\ clock = 1 + made /\ skew \in 0..1
    /\ phase \in {"starting", "attached", "reading", "closed", "counted", "uncounted", "exited"}
    /\ closers \subseteq stops /\ stops \subseteq {"signal", "timer"} /\ closes \in 0..2
    /\ Len(ring) <= RingSize /\ IsSuffix(ring, submitted)
    /\ DOMAIN skipped = Reasons /\ DOMAIN reported = Reasons
    /\ \A r \in Reasons : reported[r] <= skipped[r] /\ skipped[r] <= made
    /\ \A i \in DOMAIN flows : flows[i].identity \in FlowIDs
    /\ exit \in {0, 1, None} /\ (exit # None <=> phase = "exited")

Stamp(x) == <<x.task, x.ktime>>
Stamps(s) == [i \in DOMAIN s |-> Stamp(s[i])]

(* What Run has taken off the ring. *)
Handled == SubSeq(submitted, 1, Len(submitted) - Len(ring))

(* The flows are, one for one and in the kernel's order, the connections in *)
(* scope that were read off the ring.  The sensor's own are never among     *)
(* them, on the host or in a container, and no other process's is taken for *)
(* one of its own because a number agrees (capture_linux.go isSelf, the     *)
(* port filter and the loopback filter of Run).                             *)
FlowsAreTheConnections ==
    LET scoped == {i \in DOMAIN Handled : InScope(Handled[i])}
    IN  \E at \in [DOMAIN flows -> scoped] :
          /\ scoped \subseteq {at[j] : j \in DOMAIN flows}
          /\ \A j, k \in DOMAIN flows : j < k => at[j] < at[k]
          /\ \A j \in DOMAIN flows : Stamp(flows[j]) = Stamp(Handled[at[j]])

(* A capture that ends well, has read its counters and reports no full ring *)
(* has in its log every connection in scope made while it was reading, but  *)
(* for those that were still in the ring when the reader was closed         *)
(* (SkippedCounts.Lost, decode.go).                                         *)
QuietCaptureIsComplete ==
    exit = 0 /\ log.told /\ reported["ringbuf_full"] = 0
        => ToSet(Stamps(wanted)) \subseteq ToSet(Stamps(log.flows \o ring))

(* A flow is under a declared identity only if a process that has had the   *)
(* pid of the one that connected declared it.  A later process with that    *)
(* pid is the window that remains before the environment is read; a process *)
(* that has the number in another PID namespace never is (procPIDFor).      *)
ClaimComesFromThatPid ==
    \A i \in DOMAIN flows : flows[i].identity # flows[i].observed =>
        \E t \in born : /\ Proc[t].pid = Proc[flows[i].task].pid
                        /\ flows[i].identity = <<"claimed", Proc[t].claim>>

(* With both clocks sampled, the time between two flows of a log is the     *)
(* time the kernel measured between the connections, for those from before  *)
(* the sampling too, and whatever is done to the wall clock meanwhile       *)
(* (clock.go).                                                              *)
IntervalsAreTheKernels ==
    offset # None =>
        \A i, j \in DOMAIN flows :
            flows[i].time + flows[j].ktime = flows[j].time + flows[i].ktime

(* A capture that is asked to stop ends, with traffic and without.          *)
CaptureEnds == stops # {} /\ phase \in {"attached", "reading"} ~> phase = "exited"
=============================================================================
