------------------------------ MODULE MCPullRun ------------------------------
(* PullRun on two notes, with liveness: no symmetry.                         *)
EXTENDS PullRun
=============================================================================
