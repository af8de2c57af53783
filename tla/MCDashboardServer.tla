------------------------- MODULE MCDashboardServer -------------------------
(* Two clients and two stitched sources for TLC. *)
EXTENDS DashboardServer

CONSTANTS c1, c2, agents, mcp

=============================================================================
