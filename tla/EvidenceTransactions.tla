------------------------- MODULE EvidenceTransactions -------------------------
(***************************************************************************)
(* Validation runs, their events and their findings: the routes that write   *)
(* them, the lists and the public export that read them with several SELECTs, *)
(* and a fixture reset, which deletes all of them in one transaction and      *)
(* loads the fixtures in a second.                                           *)
(*                                                                          *)
(* Transactions are READ COMMITTED, one action per statement.  Rows that are  *)
(* not committed yet are in the locals of their request.  Locks are those of  *)
(* PostgreSQL: an UPDATE or DELETE locks its row, the INSERT of a child locks *)
(* its parent against deletion, and a cycle of waits is broken by failing one *)
(* of those in it.  Each request authenticates with the harness token; a      *)
(* request that commits also writes the last_used_at of the token, which      *)
(* SQLAlchemy flushes before the new row, in the order of its class names.    *)
(*                                                                          *)
(* Rows are never changed after their INSERT, so a row is its id, named after *)
(* the request that makes it.  The order of rows in an answer and the fields  *)
(* of a row are left out.                                                    *)
(***************************************************************************)
EXTENDS Naturals, FiniteSets

CONSTANTS
    None,
    Writers,       \* the requests that create something
    Creates,       \* what they may be: [kind: "run" | "event" | "finding", name: the run in the path]
    Readers,       \* the exports and lists
    Reads,         \* what they may be: [kinds, names: the runs in path or body, single: a list]
    Resets,        \* one at most
    Mortal,        \* the requests whose worker may die
    FixtureRuns,   \* the validation runs of the fixture files
    ScenarioOf,    \* fixture run -> its scenario run, by which a path may name it
    FixtureItems   \* [kind, run]-records by id: the fixtures' events and findings

Requests == Writers \cup Readers \cup Resets
Runs == FixtureRuns \cup Writers
Kinds == {"event", "finding"}
Items == DOMAIN FixtureItems \cup Writers
Row == [id : Items, kind : Kinds, run : Runs]
FixtureRows ==
    {[id |-> i, kind |-> FixtureItems[i].kind, run |-> FixtureItems[i].run] : i \in DOMAIN FixtureItems}

EvidenceAssumption ==
    /\ None \notin Requests \cup Runs
    /\ \A p, q \in Resets : p = q   \* AgentWorld has several
    /\ Writers \cap Readers = {} /\ Writers \cap Resets = {} /\ Readers \cap Resets = {}
    /\ \A c \in Creates : c.kind \in {"run"} \cup Kinds
    /\ \A a \in Reads : a.kinds \subseteq Kinds
    /\ FixtureRuns \cap Writers = {} /\ DOMAIN FixtureItems \cap Writers = {}
    /\ DOMAIN ScenarioOf = FixtureRuns
    /\ \A i \in DOMAIN FixtureItems : FixtureItems[i].kind \in Kinds /\ FixtureItems[i].run \in FixtureRuns
ASSUME EvidenceAssumption

VARIABLES
    token,       \* the harness token is there
    runs,        \* the committed runs
    evidence,    \* the committed events and findings
    pc,
    run,         \* of a writer: the run it found; of a reader: the run it is at
    asked,       \* of a writer or reader: which of Creates or Reads it is
    kind,        \* of a reader: the kind it reads next
    todo,        \* of a reader: the runs it has not come to
    shown,       \* of a reader: the rows it has read
    gone,        \* of a reset: what its transaction has deleted, [rows, runs, token]
    target,      \* of a reset: the runs its DELETE saw
    before,      \* history, of a reader or reset: the writes acknowledged when it arrived
    crossed      \* history, of a reader: a deletion was committed since it arrived

locals == <<run, kind, todo, shown, gone, target>>
database == <<token, runs, evidence>>
vars == <<database, pc, asked, locals, before, crossed>>

Askings ==
    {a \in [Writers \cup Readers -> Creates \cup Reads] :
        (\A w \in Writers : a[w] \in Creates) /\ (\A p \in Readers : a[p] \in Reads)}

Nothing == [rows |-> {}, runs |-> {}, token |-> FALSE]

Init ==
    /\ token = TRUE
    /\ runs = FixtureRuns
    /\ evidence = FixtureRows
    /\ pc = [p \in Requests |-> "arrive"]
    /\ run = [p \in Requests |-> None]
    /\ asked \in Askings
    /\ kind = [p \in Readers |-> None]
    /\ todo = [p \in Readers |-> {}]
    /\ shown = [p \in Readers |-> {}]
    /\ gone = [p \in Resets |-> Nothing]
    /\ target = [p \in Resets |-> {}]
    /\ before = [p \in Readers \cup Resets |-> {}]
    /\ crossed = [p \in Readers |-> FALSE]

Ended == {"created", "read", "reset", "unauthorized", "not_found", "failed", "dead"}
Labels ==
    {"arrive", "find", "token", "row", "commit", "refresh", "select", "next",
     "rows", "events", "findings", "see_runs", "runs", "wipe", "seed"} \cup Ended
Goto(p, label) == pc' = [pc EXCEPT ![p] = label]

-----------------------------------------------------------------------------
(* Locks *)

(* The token is written from its UPDATE to the end of the transaction. *)
HoldsToken(p) ==
    \/ p \in Writers /\ pc[p] \in {"row", "commit"}
    \/ p \in Resets /\ gone[p].token

(* The parent of an inserted row is locked until the end of the transaction. *)
HoldsRun(p, r) == p \in Writers /\ pc[p] = "commit" /\ asked[p].kind \in Kinds /\ run[p] = r

WaitsForToken(p) == {q \in Requests \ {p} : HoldsToken(q)}
WaitsForRun(p) == {q \in Resets : run[p] \in gone[q].runs}
WaitsForRuns(p) == {q \in Writers : \E r \in target[p] : HoldsRun(q, r)}

(* Whom a statement waits for. *)
Waits(p) ==
    CASE p \in Writers /\ pc[p] = "token" -> WaitsForToken(p)
      [] p \in Writers /\ pc[p] = "row" -> WaitsForRun(p)
      [] p \in Resets /\ pc[p] = "runs" -> WaitsForRuns(p)
      [] p \in Resets /\ pc[p] = "token" -> WaitsForToken(p)
      [] OTHER -> {}

Rollback(p) ==
    /\ IF p \in Resets
       THEN gone' = [gone EXCEPT ![p] = Nothing] /\ target' = [target EXCEPT ![p] = {}]
       ELSE UNCHANGED <<gone, target>>
    /\ UNCHANGED <<database, run, kind, todo, shown>>

(* The client gets a 500. *)
Fail(p) == Goto(p, "failed") /\ Rollback(p)

(* A cycle of waits: the server fails whichever of its members looks first. *)
BreakDeadlock(p) ==
    /\ \E q \in Waits(p) : p \in Waits(q)
    /\ Fail(p)

(* The worker dies, and nobody is answered. *)
Die(p) ==
    /\ p \in Mortal /\ pc[p] \notin Ended
    /\ Goto(p, "dead") /\ Rollback(p)

-----------------------------------------------------------------------------
(* resolve_actor_from_token *)
Arrive(p, next) ==
    /\ pc[p] = "arrive"
    /\ Goto(p, IF token THEN next ELSE "unauthorized")
    /\ UNCHANGED <<database, locals>>

(* _get_validation_run: by its id or by that of its scenario run. *)
Named(name) == {r \in runs : r = name \/ (r \in FixtureRuns /\ ScenarioOf[r] = name)}

-----------------------------------------------------------------------------
(* _create_validation_run, _create_validation_event, _create_validation_finding *)

FindRun(w) ==
    /\ pc[w] = "find"
    /\ \/ \E r \in Named(asked[w].name) : run' = [run EXCEPT ![w] = r] /\ Goto(w, "token")
       \/ Named(asked[w].name) = {} /\ Goto(w, "not_found") /\ UNCHANGED run
    /\ UNCHANGED <<database, kind, todo, shown, gone, target>>

(* The flush of last_used_at: an UPDATE that finds its row gone is an error. *)
WriteToken(w) ==
    /\ pc[w] = "token" /\ Waits(w) = {}
    /\ \/ token /\ Goto(w, "row") /\ UNCHANGED <<database, locals>>
       \/ ~token /\ Fail(w)

NewRow(w) == [id |-> w, kind |-> asked[w].kind, run |-> run[w]]

(* Mutants: no foreign key; the check of the key tried again for ever. *)
InsertRowUnchecked(w) ==
    /\ pc[w] = "row"
    /\ Goto(w, "commit") /\ UNCHANGED <<database, locals>>

InsertRowRetrying(w) ==
    /\ pc[w] = "row" /\ Waits(w) = {}
    /\ asked[w].kind = "run" \/ run[w] \in runs
    /\ Goto(w, "commit") /\ UNCHANGED <<database, locals>>

(* The flush of the row: its foreign key has to hold. *)
InsertRow(w) ==
    /\ pc[w] = "row" /\ Waits(w) = {}
    /\ IF asked[w].kind = "run" \/ run[w] \in runs
       THEN Goto(w, "commit") /\ UNCHANGED <<database, locals>>
       ELSE Fail(w)

Commit(w) ==
    /\ pc[w] = "commit"
    /\ IF asked[w].kind = "run"
       THEN runs' = runs \cup {w} /\ UNCHANGED evidence
       ELSE evidence' = evidence \cup {NewRow(w)} /\ UNCHANGED runs
    /\ Goto(w, "refresh")
    /\ UNCHANGED <<token, locals>>

Written(w) == w \in runs \/ \E x \in evidence : x.id = w

(* Mutant: last_used_at is written after the row, in a transaction of its own. *)
RefreshWithToken(w) ==
    /\ pc[w] = "refresh"
    /\ Goto(w, IF Written(w) /\ token THEN "created" ELSE "failed")
    /\ UNCHANGED <<database, locals>>

(* db.refresh reads the row again, in a new transaction. *)
Refresh(w) ==
    /\ pc[w] = "refresh"
    /\ Goto(w, IF Written(w) THEN "created" ELSE "failed")
    /\ UNCHANGED <<database, locals>>

Write(w) ==
    \/ Arrive(w, IF asked[w].kind = "run" THEN "token" ELSE "find")
    \/ FindRun(w) \/ WriteToken(w) \/ InsertRow(w) \/ Commit(w) \/ Refresh(w)

-----------------------------------------------------------------------------
(* build_public_evidence_export, and the lists, which do the same for one run  *)
(* and one kind.                                                             *)

FirstKind(p) == IF "event" \in asked[p].kinds THEN "event" ELSE "finding"

(* Mutant: only the runs of the fixtures. *)
ScopeOfScenarios(p) ==
    {r \in runs \cap FixtureRuns : \E name \in asked[p].names : r \in Named(name)}

(* An export without ids reads every run, one with ids those that are there.  *)
Scope(p) ==
    IF asked[p].single THEN UNION {Named(name) : name \in asked[p].names}
    ELSE runs \cap asked[p].names

SelectRuns(p) ==
    /\ pc[p] = "select"
    /\ IF asked[p].single /\ Scope(p) = {}
       THEN Goto(p, "not_found") /\ UNCHANGED todo
       ELSE Goto(p, "next") /\ todo' = [todo EXCEPT ![p] = Scope(p)]
    /\ UNCHANGED <<database, run, kind, shown, gone, target>>

NextRun(p) ==
    /\ pc[p] = "next"
    /\ \/ /\ todo[p] = {}
          /\ Goto(p, "read")
          /\ run' = [run EXCEPT ![p] = None]
          /\ kind' = [kind EXCEPT ![p] = None]
          /\ UNCHANGED todo
       \/ \E r \in todo[p] :
             /\ run' = [run EXCEPT ![p] = r]
             /\ kind' = [kind EXCEPT ![p] = FirstKind(p)]
             /\ todo' = [todo EXCEPT ![p] = @ \ {r}]
             /\ Goto(p, "rows")
    /\ UNCHANGED <<database, shown, gone, target>>

SelectRows(p) ==
    /\ pc[p] = "rows"
    /\ shown' = [shown EXCEPT ![p] = @ \cup {x \in evidence : x.run = run[p] /\ x.kind = kind[p]}]
    /\ \/ /\ kind[p] = "event" /\ "finding" \in asked[p].kinds
          /\ kind' = [kind EXCEPT ![p] = "finding"]
          /\ UNCHANGED pc
       \/ /\ ~(kind[p] = "event" /\ "finding" \in asked[p].kinds)
          /\ Goto(p, "next")
          /\ UNCHANGED kind
    /\ UNCHANGED <<database, run, todo, gone, target>>

Read(p) == Arrive(p, "select") \/ SelectRuns(p) \/ NextRun(p) \/ SelectRows(p)

-----------------------------------------------------------------------------
(* reset_used_car_world, of whose thirteen DELETEs four are about these tables *)

Seen(k) == {x \in evidence : x.kind = k}

DeleteRows(p, k, next) ==
    /\ gone' = [gone EXCEPT ![p].rows = @ \cup Seen(k)]
    /\ Goto(p, next)
    /\ UNCHANGED <<database, run, kind, todo, shown, target>>

(* Mutant: only the runs of scenarios. *)
SeeScenarioRuns(p) ==
    /\ pc[p] = "see_runs"
    /\ target' = [target EXCEPT ![p] = runs \cap FixtureRuns]
    /\ Goto(p, "runs")
    /\ UNCHANGED <<database, run, kind, todo, shown, gone>>

(* DELETE FROM validation_runs sees the runs there are when it starts, waits   *)
(* for the locks on them, and fails if one of them still has a child.          *)
SeeRuns(p) ==
    /\ pc[p] = "see_runs"
    /\ target' = [target EXCEPT ![p] = runs]
    /\ Goto(p, "runs")
    /\ UNCHANGED <<database, run, kind, todo, shown, gone>>

Childless(p) == \A x \in evidence \ gone[p].rows : x.run \notin target[p]

DeleteRuns(p) ==
    /\ pc[p] = "runs" /\ Waits(p) = {}
    /\ IF Childless(p)
       THEN /\ gone' = [gone EXCEPT ![p].runs = target[p] \cap runs]
            /\ target' = [target EXCEPT ![p] = {}]
            /\ Goto(p, "token")
            /\ UNCHANGED <<database, run, kind, todo, shown>>
       ELSE Fail(p)

DeleteToken(p) ==
    /\ pc[p] = "token" /\ Waits(p) = {}
    /\ gone' = [gone EXCEPT ![p].token = TRUE]
    /\ Goto(p, "wipe")
    /\ UNCHANGED <<database, run, kind, todo, shown, target>>

Wipe(p) ==
    /\ pc[p] = "wipe"
    /\ evidence' = evidence \ gone[p].rows
    /\ runs' = runs \ gone[p].runs
    /\ token' = FALSE
    /\ gone' = [gone EXCEPT ![p] = Nothing]
    /\ Goto(p, "seed")
    /\ UNCHANGED <<run, kind, todo, shown, target>>

(* _seed_fixture_rows *)
Seed(p) ==
    /\ pc[p] = "seed"
    /\ token' = TRUE
    /\ runs' = runs \cup FixtureRuns
    /\ evidence' = evidence \cup FixtureRows
    /\ Goto(p, "reset")
    /\ UNCHANGED locals

Reset(p) ==
    \/ Arrive(p, "events")
    \/ pc[p] = "events" /\ DeleteRows(p, "event", "findings")
    \/ pc[p] = "findings" /\ DeleteRows(p, "finding", "see_runs")
    \/ SeeRuns(p) \/ DeleteRuns(p) \/ DeleteToken(p) \/ Wipe(p) \/ Seed(p)

-----------------------------------------------------------------------------
Step(p) ==
    \/ p \in Writers /\ Write(p)
    \/ p \in Readers /\ Read(p)
    \/ p \in Resets /\ Reset(p)
    \/ BreakDeadlock(p)

(* What was acknowledged before a request, and what was wiped since. *)
History(p) ==
    /\ before' = IF pc[p] = "arrive" /\ p \notin Writers
                 THEN [before EXCEPT ![p] = {w \in Writers : pc[w] = "created"}]
                 ELSE before
    /\ crossed' = IF \E q \in Resets : pc[q] = "wipe" /\ pc'[q] = "seed"
                  THEN [q \in Readers |-> crossed[q] \/ pc[q] # "arrive"]
                  ELSE crossed
    /\ UNCHANGED asked

Next ==
    \/ \E p \in Requests : (Step(p) \/ Die(p)) /\ History(p)
    \/ (\A p \in Requests : pc[p] \in Ended) /\ UNCHANGED vars

Fairness == \A p \in Requests : WF_vars(Step(p) /\ History(p))
Spec == Init /\ [][Next]_vars /\ Fairness

-----------------------------------------------------------------------------
(* Rows have the types of their columns, and no event or finding is ever       *)
(* without its run.                                                          *)
TypeOK ==
    /\ token \in BOOLEAN
    /\ runs \subseteq Runs
    /\ evidence \subseteq {x \in Row : x.run \in runs}
    /\ pc \in [Requests -> Labels]
    /\ run \in [Requests -> Runs \cup {None}]
    /\ asked \in Askings
    /\ kind \in [Readers -> Kinds \cup {None}]
    /\ todo \in [Readers -> SUBSET Runs]
    /\ shown \in [Readers -> SUBSET Row]
    /\ gone \in [Resets -> [rows : SUBSET Row, runs : SUBSET Runs, token : BOOLEAN]]
    /\ target \in [Resets -> SUBSET Runs]
    /\ before \in [Readers \cup Resets -> SUBSET Writers]
    /\ crossed \in [Readers -> BOOLEAN]

(* An export or a list that no reset crossed shows every row that was          *)
(* acknowledged before it began, of the runs and kinds it is about, and only   *)
(* rows that are there: its SELECTs may see different moments, but rows only   *)
(* come in between.                                                          *)
InScope(p, x) ==
    /\ x.kind \in asked[p].kinds
    /\ \E name \in asked[p].names :
          \/ x.run = name
          \/ asked[p].single /\ x.run \in FixtureRuns /\ ScenarioOf[x.run] = name

AnswersBracketed ==
    \A p \in Readers : pc[p] = "read" /\ ~crossed[p] =>
        /\ {x \in evidence : x.id \in before[p] /\ InScope(p, x)} \subseteq shown[p]
        /\ shown[p] \subseteq evidence

(* A request that failed left nothing behind, whether its transaction was      *)
(* rolled back or its row wiped before it could be read again: it can be sent   *)
(* again.  (These routes take no client_request_id.)                          *)
FailedWroteNothing == \A w \in Writers : pc[w] = "failed" => ~Written(w)

(* Nothing that was acknowledged before a reset began is left when the reset    *)
(* has succeeded, though each of its DELETEs saw another moment.                *)
ResetWipesEvidence ==
    \A p \in Resets : pc[p] = "reset" => \A w \in before[p] : ~Written(w)

(* Every request is answered: no two wait for each other for ever, though a     *)
(* reset deletes runs before tokens and a write locks them the other way.       *)
EveryoneAnswered == \A p \in Requests : <>(pc[p] \in Ended)
=============================================================================
