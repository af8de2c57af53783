---------------------------- MODULE MCEbpfSensor ----------------------------
(* A sensor on a host or in its container "box", each of them with the      *)
(* number in its own namespace that the other has in its.                   *)
EXTENDS EbpfSensor

CONSTANTS onHost, inBox, agent, heir, a1, a2

MCTasks == {onHost, inBox, agent, heir}
MCRunning == MCTasks \ {heir}
MCSensors == {onHost, inBox}

P(ns, number, nsNumber, who) == [ns |-> ns, pid |-> number, nsPid |-> nsNumber, claim |-> who]

(* heir takes the pid of agent when that has exited. *)
MCProc ==
    onHost :> P("init", 4, 4, "unusable")
 @@ inBox  :> P("box", 8, 4, a2)
 @@ agent  :> P("box", 12, 9, a1)
 @@ heir   :> P("box", 12, 9, a2)

At(door, looped) == [read |-> "all", family |-> "inet", short |-> FALSE, port |-> door,
                     loopback |-> looped]
MCAddresses ==
    {At("web", TRUE), At("model", TRUE), [At("web", FALSE) EXCEPT !.read = "nothing"]}
=============================================================================
