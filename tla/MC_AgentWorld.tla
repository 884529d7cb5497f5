---------------------------- MODULE MC_AgentWorld ----------------------------
(***************************************************************************)
(* Instances of AgentWorld for TLC.  Two requests ask for one new handle,    *)
(* one for the handle of a fixture agent, one for a reserved handle and one   *)
(* for a handle of its own.                                                  *)
(***************************************************************************)
EXTENDS AgentWorld, TLC

CONSTANTS s1, s2, s3, s4, s5, alex, oracle, nora, nova

TheWanted ==
    [s \in Signups |-> CASE s = s1 -> nora [] s = s2 -> nora [] s = s3 -> alex
                          [] s = s5 -> oracle [] OTHER -> nova]
=============================================================================
