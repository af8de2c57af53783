-------------------------- MODULE MCEventDetectors --------------------------
(* One feed per family of detectors, with thresholds scaled down. *)
EXTENDS EventDetectors

Base == [type |-> "login", time |-> 0, outcome |-> "SUCCESS", place |-> Unknown, device |-> 0, ip |-> 0,
         to |-> Unknown]
At(what, when) == [Base EXCEPT !.type = what, !.time = when]
LoginAt(when, where, on) == [Base EXCEPT !.time = when, !.place = where, !.device = on]

Feed(who, what, known, last) == [whose |-> who, events |-> what, facts |-> known, until |-> last]

(* Two challenges at one time, and gaps of the window and one more. *)
Challenges ==
    {At("mfa_challenge", t) : t \in {1, 2, 5, 6, 9}} \cup {[At("mfa_challenge", 5) EXCEPT !.ip = 1]}

(* A journey through b, simultaneous logins in two places and in one, one    *)
(* without a place and one that failed.                                     *)
Logins ==
    {LoginAt(1, "a", 1), LoginAt(2, "b", 1), LoginAt(3, "c", 2), LoginAt(3, "a", 1),
     LoginAt(6, "c", 1), LoginAt(6, "c", 2), LoginAt(7, "a", 1), LoginAt(5, Unknown, 2), LoginAt(13, "b", 3),
     [LoginAt(4, "a", 2) EXCEPT !.outcome = "FAILURE"]}

(* A period of ten with a little and with much jitter, and a burst. *)
Connections ==
    {[At("egress", t) EXCEPT !.to = "model_api"] : t \in {0, 10, 21, 30, 41, 48, 49}}
        \cup {[At("egress", t) EXCEPT !.to = "host"] : t \in {5, 8}}

Incidents ==
    {At("dlp_block", t) : t \in 0..4}
        \cup {At("taint_block", 1), At("taint_block", 3), At("mcp_drift", 2)}

Overspends ==
    {At("budget_exhausted", 0), At("sustained_loop", 2), At("spend_spike", 2),
     At("fanout_explosion", 3), At("breaker_tripped", 5)}

(* Of the last nobody says how it came out. *)
Uses ==
    {[LoginAt(t, p, t) EXCEPT !.ip = t, !.outcome = IF t = 3 THEN "" ELSE "SUCCESS"] :
       t \in 1..3, p \in {"a", "b"}}

MCFeeds ==
    {Feed("human", Challenges, {"privileged"}, 0), Feed("human", Logins, {"privileged"}, 0),
     Feed("agent", Connections, {}, 0), Feed("agent", Uses, {}, 0),
     Feed("agent", Incidents, {"privileged", "admin"}, 7),
     Feed("agent", Overspends, Facts, 8)}

Line == [a |-> 0, b |-> 10, c |-> 20]
MCKm == [p \in {"a", "b", "c"} \X {"a", "b", "c"} |->
           IF Line[p[1]] < Line[p[2]] THEN Line[p[2]] - Line[p[1]] ELSE Line[p[1]] - Line[p[2]]]
=============================================================================
