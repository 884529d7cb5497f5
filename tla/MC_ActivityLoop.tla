-------------------------- MODULE MC_ActivityLoop --------------------------
(***************************************************************************)
(* An instance for TLC: runs of a few steps over a timeline of two items.     *)
(***************************************************************************)
EXTENDS ActivityLoop
=============================================================================
