----------------------------- MODULE MCMultiPe -----------------------------
(* A test on both secondary CPUs, one on the first only, and one on both   *)
(* again: a CPU is used by consecutive tests and skipped by one.           *)
EXTENDS MultiPe

CONSTANTS c1, c2

MCPlan == << <<c1, c2>>, <<c1>>, <<c1, c2>> >>
=============================================================================
