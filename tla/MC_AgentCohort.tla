--------------------------- MODULE MC_AgentCohort ---------------------------
(***************************************************************************)
(* An instance for TLC: cohorts of one and two agents under a cap of three.   *)
(***************************************************************************)
EXTENDS AgentCohort
=============================================================================
