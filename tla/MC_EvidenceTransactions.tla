---------------------- MODULE MC_EvidenceTransactions ----------------------
(***************************************************************************)
(* An instance for TLC: one fixture run with an event, two requests that each  *)
(* create a run, a finding under the fixture run or an event under the run of   *)
(* the first, an export or a list, and a reset.                               *)
(***************************************************************************)
EXTENDS EvidenceTransactions, TLC

CONSTANTS fixtureRun, scenario, event0, w1

TheCreates ==
    {[kind |-> "run", name |-> None],
     [kind |-> "finding", name |-> scenario],
     [kind |-> "event", name |-> w1]}
TheReads ==
    {[kinds |-> Kinds, names |-> {fixtureRun, w1}, single |-> FALSE],
     [kinds |-> {"event"}, names |-> {w1}, single |-> TRUE],
     [kinds |-> {"finding"}, names |-> {scenario}, single |-> TRUE]}
TheScenarios == fixtureRun :> scenario
TheItems == event0 :> [kind |-> "event", run |-> fixtureRun]
=============================================================================
