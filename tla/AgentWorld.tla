------------------------------ MODULE AgentWorld ------------------------------
(***************************************************************************)
(* Agents and their tokens: POST /agents/signup (app/api/routes/agents.py)   *)
(* against POST /fixtures/seed and /fixtures/reset (app/services/fixtures.py) *)
(* at READ COMMITTED.  A statement sees what is committed when it starts and  *)
(* waits for uncommitted rows it conflicts with; a DELETE that has waited is  *)
(* taken to start when the wait is over.                                     *)
(*                                                                          *)
(* A signed-up agent is named by the request that made it, a fixture agent   *)
(* by its handle, and a token by its owner.                                  *)
(***************************************************************************)
EXTENDS Integers, FiniteSets

CONSTANTS
    None,
    Signups,        \* the requests to sign up
    Operators,      \* the harness requests, each a seed or a reset
    Wanted,         \* Signups -> the handle asked for
    Reserved,       \* SIGNUP_RESERVED_HANDLES
    Fixtures,       \* the handles of the fixture agents
    FixtureTokens,  \* the owners of the fixture tokens
    Harness,        \* the owner of the harness token, which is no agent
    MaxDynamic,     \* signup_max_dynamic_agents
    Workers,        \* the sessions the connection pool gives out at once
    Mortal          \* the requests whose worker may die

Requests == Signups \cup Operators
Agents == Signups \cup Fixtures
Owners == Agents \cup {Harness}

AgentWorldAssumption ==
    /\ IsFiniteSet(Signups) /\ IsFiniteSet(Operators) /\ IsFiniteSet(Fixtures)
    /\ Signups \cap (Operators \cup Fixtures) = {}
    /\ Harness \notin Agents
    /\ FixtureTokens \subseteq Fixtures \cup {Harness} /\ Harness \in FixtureTokens
    /\ MaxDynamic \in Nat \ {0} /\ Workers \in Nat \ {0}
    /\ None \notin Nat
    /\ Mortal \subseteq Requests
ASSUME AgentWorldAssumption

VARIABLES
    agents,   \* the owners of the committed agent rows
    tokens,   \* the owners of the committed token rows
    pc,
    answer,   \* status code, None before the answer or without one
    doomed,   \* per operator the rows it has deleted and not committed
    seen,     \* per operator the fixture rows its merges have found
    older     \* per reset the agents that had signed up when it began

vars == <<agents, tokens, pc, answer, doomed, seen, older>>

NoRows == [agents |-> {}, tokens |-> {}]

HandleOf(a) == IF a \in Signups THEN Wanted[a] ELSE a
Dynamic == agents \cap Signups
Pending == {s \in Signups : pc[s] = "commit"}
Passed == {s \in Signups : pc[s] \in {"insert", "commit"}}
InFlight == {s \in Signups : pc[s] \notin {"idle", "done"}}

DoomedAgents == UNION {doomed[o].agents : o \in Operators}
DoomedTokens == UNION {doomed[o].tokens : o \in Operators}

Init ==
    /\ agents = Fixtures
    /\ tokens = FixtureTokens
    /\ pc = [p \in Requests |-> "idle"]
    /\ answer = [p \in Requests |-> None]
    /\ doomed = [o \in Operators |-> NoRows]
    /\ seen = [o \in Operators |-> NoRows]
    /\ older = [o \in Operators |-> {}]

Goto(p, place) == pc' = [pc EXCEPT ![p] = place]

Reply(p, status) ==
    /\ Goto(p, "done")
    /\ answer' = [answer EXCEPT ![p] = status]

-----------------------------------------------------------------------------
(* POST /agents/signup *)

Begin(s) ==
    /\ pc[s] = "idle"
    /\ Cardinality(InFlight) < Workers
    /\ IF Wanted[s] \in Reserved THEN Reply(s, 409) ELSE Goto(s, "check") /\ UNCHANGED answer
    /\ UNCHANGED <<agents, tokens, doomed, seen, older>>

Taken(handle) == \E a \in agents : HandleOf(a) = handle

Check(s) ==
    /\ pc[s] = "check"
    /\ IF Taken(Wanted[s]) THEN Reply(s, 409) ELSE Goto(s, "count") /\ UNCHANGED answer
    /\ UNCHANGED <<agents, tokens, doomed, seen, older>>

(* Mutant: a bound that is off by one. *)
CountInclusive(s) ==
    /\ pc[s] = "count"
    /\ IF Cardinality(Dynamic) > MaxDynamic
       THEN Reply(s, 429) ELSE Goto(s, "insert") /\ UNCHANGED answer
    /\ UNCHANGED <<agents, tokens, doomed, seen, older>>

Count(s) ==
    /\ pc[s] = "count"
    /\ IF Cardinality(Dynamic) >= MaxDynamic
       THEN Reply(s, 429) ELSE Goto(s, "insert") /\ UNCHANGED answer
    /\ UNCHANGED <<agents, tokens, doomed, seen, older>>

(* An uncommitted row with the handle, inserted or deleted, makes the INSERT wait. *)
Contested(handle) ==
    \E a \in Pending \cup DoomedAgents : HandleOf(a) = handle

(* Mutant: one that waits for the holder of the handle to go. *)
InsertPatient(s) ==
    /\ pc[s] = "insert"
    /\ ~Contested(Wanted[s]) /\ ~Taken(Wanted[s])
    /\ Goto(s, "commit")
    /\ UNCHANGED <<agents, tokens, answer, doomed, seen, older>>

Insert(s) ==
    /\ pc[s] = "insert"
    /\ ~Contested(Wanted[s])
    /\ IF Taken(Wanted[s]) THEN Reply(s, 500) ELSE Goto(s, "commit") /\ UNCHANGED answer
    /\ UNCHANGED <<agents, tokens, doomed, seen, older>>

(* Mutant: a commit before the token is made. *)
CommitAgentFirst(s) ==
    /\ pc[s] = "commit"
    /\ agents' = agents \cup {s}
    /\ tokens' = IF s \in agents THEN tokens \cup {s} ELSE tokens
    /\ Goto(s, IF s \in agents THEN "refresh" ELSE "commit")
    /\ UNCHANGED <<answer, doomed, seen, older>>

Commit(s) ==
    /\ pc[s] = "commit"
    /\ agents' = agents \cup {s}
    /\ tokens' = tokens \cup {s}
    /\ Goto(s, "refresh")
    /\ UNCHANGED <<answer, doomed, seen, older>>

Refresh(s) ==
    /\ pc[s] = "refresh"
    /\ Reply(s, IF s \in agents THEN 201 ELSE 500)
    /\ UNCHANGED <<agents, tokens, doomed, seen, older>>

SignupStep(s) == Check(s) \/ Count(s) \/ Insert(s) \/ Commit(s) \/ Refresh(s)

-----------------------------------------------------------------------------
(* POST /fixtures/reset: all deletes in one transaction, the seed in another. *)
(* POST /fixtures/seed: the second alone.                                   *)

(* Mutant: a reset whose session keeps the token its caller was authorised by. *)
StartUnexpunged(o) ==
    /\ pc[o] = "idle"
    /\ Harness \in tokens
    /\ \/ /\ Goto(o, "deleteTokens")
          /\ older' = [older EXCEPT ![o] = Dynamic]
       \/ /\ Goto(o, "readAgents")
          /\ UNCHANGED older
    /\ seen' = [seen EXCEPT ![o].tokens = {Harness}]
    /\ UNCHANGED <<agents, tokens, answer, doomed>>

(* The session of a seed keeps the token its caller was authorised by; a     *)
(* reset expunges it.                                                        *)
Start(o) ==
    /\ pc[o] = "idle"
    /\ \/ /\ Harness \in tokens
          /\ Goto(o, "deleteTokens")
          /\ older' = [older EXCEPT ![o] = Dynamic]
          /\ UNCHANGED <<answer, seen>>
       \/ /\ Harness \in tokens
          /\ Goto(o, "readAgents")
          /\ seen' = [seen EXCEPT ![o].tokens = {Harness}]
          /\ UNCHANGED <<answer, older>>
       \/ /\ Harness \notin tokens
          /\ Reply(o, 401)
          /\ UNCHANGED <<older, seen>>
    /\ UNCHANGED <<agents, tokens, doomed>>

DeleteTokens(o) ==
    /\ pc[o] = "deleteTokens"
    /\ DoomedTokens = {}
    /\ doomed' = [doomed EXCEPT ![o].tokens = tokens]
    /\ Goto(o, "deleteAgents")
    /\ UNCHANGED <<agents, tokens, answer, seen, older>>

Rollback(o) == doomed' = [doomed EXCEPT ![o] = NoRows]

(* Mutant: a reset that goes on to the seed when its deletes fail. *)
DeleteAgentsRegardless(o) ==
    /\ pc[o] = "deleteAgents"
    /\ DoomedAgents = {}
    /\ IF agents \cap (tokens \ doomed[o].tokens) # {}
       THEN Rollback(o) /\ Goto(o, "readAgents")
       ELSE doomed' = [doomed EXCEPT ![o].agents = agents] /\ Goto(o, "commitDeletes")
    /\ UNCHANGED <<agents, tokens, answer, seen, older>>

(* A token that came after the first DELETE still refers to its agent. *)
DeleteAgents(o) ==
    /\ pc[o] = "deleteAgents"
    /\ DoomedAgents = {}
    /\ IF agents \cap (tokens \ doomed[o].tokens) # {}
       THEN Rollback(o) /\ Reply(o, 500)
       ELSE /\ doomed' = [doomed EXCEPT ![o].agents = agents]
            /\ Goto(o, "commitDeletes")
            /\ UNCHANGED answer
    /\ UNCHANGED <<agents, tokens, seen, older>>

CommitDeletes(o) ==
    /\ pc[o] = "commitDeletes"
    /\ agents' = agents \ doomed[o].agents
    /\ tokens' = tokens \ doomed[o].tokens
    /\ Rollback(o)
    /\ Goto(o, "readAgents")
    /\ UNCHANGED <<answer, seen, older>>

ReadAgents(o) ==
    /\ pc[o] = "readAgents"
    /\ seen' = [seen EXCEPT ![o].agents = agents \cap Fixtures]
    /\ Goto(o, "readTokens")
    /\ UNCHANGED <<agents, tokens, answer, doomed, older>>

ReadTokens(o) ==
    /\ pc[o] = "readTokens"
    /\ seen' = [seen EXCEPT ![o].tokens = @ \cup (tokens \cap FixtureTokens)]
    /\ Goto(o, "write")
    /\ UNCHANGED <<agents, tokens, answer, doomed, older>>

(* The rows the merges did not find are inserted, the others updated where   *)
(* they differ from the fixture file.                                       *)
MissingAgents(o) == Fixtures \ seen[o].agents
MissingTokens(o) == FixtureTokens \ seen[o].tokens

Conflicts(o) ==
    \/ \E f \in MissingAgents(o) : Taken(f)
    \/ MissingTokens(o) \cap tokens # {}
    \/ ~((MissingTokens(o) \ {Harness}) \subseteq (agents \cup MissingAgents(o)))

(* Mutant: a seed that leaves out what it cannot insert. *)
WriteWhatFits(o) ==
    /\ pc[o] = "write"
    /\ ~\E f \in MissingAgents(o) : Contested(f)
    /\ MissingTokens(o) \cap (DoomedTokens \cup DoomedAgents) = {}
    /\ agents' = agents \cup {f \in MissingAgents(o) : ~Taken(f)}
    /\ tokens' = tokens \cup {f \in MissingTokens(o) : f = Harness \/ ~Taken(f)}
    /\ Reply(o, 200)
    /\ UNCHANGED <<doomed, seen, older>>

Write(o) ==
    /\ pc[o] = "write"
    /\ ~\E f \in MissingAgents(o) : Contested(f)
    /\ MissingTokens(o) \cap (DoomedTokens \cup DoomedAgents) = {}
    /\ \E a \in SUBSET seen[o].agents, t \in SUBSET seen[o].tokens :
         /\ a \cap DoomedAgents = {} /\ t \cap DoomedTokens = {}
         /\ IF Conflicts(o) \/ ~(a \subseteq agents /\ t \subseteq tokens)
            THEN Reply(o, 500) /\ UNCHANGED <<agents, tokens>>
            ELSE /\ agents' = agents \cup MissingAgents(o)
                 /\ tokens' = tokens \cup MissingTokens(o)
                 /\ Reply(o, 200)
    /\ UNCHANGED <<doomed, seen, older>>

OperatorStep(o) ==
    \/ DeleteTokens(o) \/ DeleteAgents(o) \/ CommitDeletes(o)
    \/ ReadAgents(o) \/ ReadTokens(o) \/ Write(o)

(* A worker dies, its transaction is rolled back. *)
Die(p) ==
    /\ p \in Mortal /\ pc[p] \notin {"idle", "done"}
    /\ Goto(p, "done")
    /\ doomed' = IF p \in Operators THEN [doomed EXCEPT ![p] = NoRows] ELSE doomed
    /\ UNCHANGED <<agents, tokens, answer, seen, older>>

Next ==
    \/ \E s \in Signups : Begin(s) \/ SignupStep(s)
    \/ \E o \in Operators : Start(o) \/ OperatorStep(o)
    \/ \E p \in Requests : Die(p)

Spec == Init /\ [][Next]_vars

Fairness ==
    /\ \A s \in Signups : WF_vars(SignupStep(s))
    /\ \A o \in Operators : WF_vars(OperatorStep(o))

FairSpec == Spec /\ Fairness

-----------------------------------------------------------------------------
TypeOK ==
    /\ agents \subseteq Agents
    /\ tokens \subseteq Owners
    /\ pc \in [Requests -> {"idle", "check", "count", "insert", "commit", "refresh",
                            "deleteTokens", "deleteAgents", "commitDeletes",
                            "readAgents", "readTokens", "write", "done"}]
    /\ answer \in [Requests -> {None, 200, 201, 401, 409, 429, 500}]
    /\ doomed \in [Operators -> [agents : SUBSET Agents, tokens : SUBSET Owners]]
    /\ seen \in [Operators -> [agents : SUBSET Fixtures, tokens : SUBSET FixtureTokens]]
    /\ older \in [Operators -> SUBSET Signups]

(* No signed-up agent is without its token, which no route could issue later, *)
(* and no token is left without its agent, whatever resets do meanwhile.      *)
TokenPerAgent == agents \cap Signups = tokens \cap Signups

(* One agent to a handle, the rows not yet committed included: neither two   *)
(* signups nor a signup and the seed share one.                              *)
OneAgentPerHandle ==
    \A a, b \in agents \cup Pending : HandleOf(a) = HandleOf(b) => a = b

(* The signup cap is checked before the INSERT, so signups that run together *)
(* may pass it, but by no more than the sessions there are less one: those    *)
(* under way that have passed the check count already.                       *)
OvershootBounded ==
    Cardinality(Dynamic) + Cardinality(Passed) <= MaxDynamic - 1 + Workers

(* A seed or a reset that answers 200 leaves every fixture agent and token   *)
(* in place, when no other operator has been at work.                        *)
RestoresFixtures ==
    [][\A o \in Operators :
          (\A q \in Operators \ {o} : pc[q] = "idle") /\ answer[o] # 200 /\ answer'[o] = 200 =>
             Fixtures \subseteq agents' /\ FixtureTokens \subseteq tokens']_vars

(* A reset that answers 200 has removed every agent that had signed up when  *)
(* it began, with its token.                                                 *)
ResetWipes ==
    \A o \in Operators : answer[o] = 200 => older[o] \cap (agents \cup tokens) = {}

(* Why: a signup commits once, so what a reset has deleted does not return.   *)
Settled(s) == pc[s] \in {"refresh", "done"}

DeletesKept(o) ==
    /\ \A s \in (older[o] \cup doomed[o].tokens) \cap Signups : Settled(s)
    /\ pc[o] = "idle" => older[o] = {}
    /\ answer[o] = 200 => pc[o] = "done"
    /\ pc[o] = "deleteAgents" => older[o] \cap tokens \subseteq doomed[o].tokens
    /\ pc[o] = "commitDeletes" =>
          /\ doomed[o].agents \cap Signups \subseteq doomed[o].tokens
          /\ agents \cap doomed[o].tokens \cap Signups \subseteq doomed[o].agents
          /\ older[o] \cap tokens \subseteq doomed[o].tokens
    /\ pc[o] \in {"readAgents", "readTokens", "write"} =>
          older[o] \cap (agents \cup tokens) = {}

(* The state between the steps of signups and resets, from which the          *)
(* invariants above follow.                                                  *)
WorldInvariant ==
    /\ TokenPerAgent
    /\ OneAgentPerHandle
    /\ OvershootBounded
    /\ Cardinality(InFlight) <= Workers
    /\ ResetWipes
    /\ \A s \in (agents \cup tokens) \cap Signups : Settled(s)
    /\ \A o \in Operators : DeletesKept(o)

(* Why RestoresFixtures: rows that the merges of a lone operator have found     *)
(* are still there when it writes.                                           *)
Alone(o) == \A q \in Operators \ {o} : pc[q] = "idle"

Found(o) ==
    /\ pc[o] \in {"idle", "deleteTokens", "deleteAgents", "commitDeletes"} => seen[o] = NoRows
    /\ Alone(o) /\ pc[o] \in {"readAgents", "readTokens", "write"} =>
          seen[o].agents \subseteq agents /\ seen[o].tokens \subseteq tokens

FoundInvariant == \A o \in Operators : Found(o)

(* Every request that is served gets an answer: nobody waits for ever on a   *)
(* handle or a row.                                                          *)
EveryoneAnswered == \A p \in Requests : pc[p] # "idle" ~> pc[p] = "done"

(* The harness token, which alone authorises the next reset, is there unless a  *)
(* reset is under way or has ended without an answer of 200: concurrent         *)
(* operators do not lose it among them, and what is lost in a failed reset is    *)
(* not forgotten by an answer of success.                                    *)
HarnessReturns ==
    (\A o \in Operators : pc[o] = "idle" \/ answer[o] \in {200, 401}) => Harness \in tokens

(* Why: whoever has deleted it is to insert it, or has not succeeded.           *)
Owes(o) ==
    \/ pc[o] \in {"readAgents", "readTokens", "write"} /\ Harness \notin seen[o].tokens
    \/ pc[o] = "done" /\ answer[o] \notin {200, 401}

HarnessOwed ==
    /\ \A o \in Operators : pc[o] # "done" => answer[o] = None
    /\ Harness \notin tokens => \E o \in Operators : Owes(o)

(* docs/v2-spec-outline.md:146, POST /agents/signup: "409 handle taken/reserved", *)
(* or a guardrail's 429.  A signup that ends while another agent has its handle  *)
(* is answered so, whether it finds the handle taken or loses a race for it.     *)
TakenIsConflict ==
    [][\A s \in Signups :
          pc[s] # "refresh" /\ Taken(Wanted[s]) /\ answer'[s] # answer[s]
             => answer'[s] \in {409, 429}]_vars

=============================================================================
