---------------------------- MODULE SchemaMigrations ----------------------------
(***************************************************************************)
(* The three Alembic revisions and the rows they carry from one schema to    *)
(* the other: 0001 (the schema of V1), 0002 (threads, validation runs and    *)
(* token hashes), 0003 (idempotency records).  A command runs all of its     *)
(* revisions in one transaction (alembic/env.py), so it takes effect as a    *)
(* whole or, when a constraint fails, not at all.                            *)
(*                                                                          *)
(* Between commands rows are written by the V1 program, of which only the    *)
(* schema is in the repository, and at the head by the routes, the fixture   *)
(* seed and the reset.  Columns that no constraint and no backfill depends   *)
(* on are left out, with quotes and idempotency records, which a downgrade    *)
(* drops.  Likes, reposts and follows are one table of relations.            *)
(***************************************************************************)
EXTENDS Integers, FiniteSets

CONSTANTS
    None,           \* no row
    Null,           \* SQL's null
    Harness,        \* the owner of the harness token, which is no agent
    Agents,
    Signups,        \* the agents that sign up, all others come from V1
    Handle, Lower,  \* Agents -> handles, and the case folding of handles
    Posts,
    Authored,       \* the posts made by the route, all others come from V1
    Parent, RunOf,  \* of a V1 post: the post it replies to, its scenario run
    Long,           \* the V1 posts with more than 280 characters
    ScenarioRuns,
    DynamicRuns,    \* the validation runs made by the route
    Events, Findings,
    Relations,      \* the likes, reposts and follows there may be: [by, of]
    Ran,            \* V1 events and findings -> their scenario run
    Fixtures        \* [agents, tokens, runs, posts, events, findings]: the fixture files

Owners == Agents \cup {Harness}
MaxReplyDepth == 4

(* 'validation_' || id *)
ValidationRunId(r) == <<"validation", r>>
CopiedRuns == {ValidationRunId(r) : r \in ScenarioRuns}
ValidationRuns == CopiedRuns \cup DynamicRuns

V1Events == Events \cap DOMAIN Ran
V1Findings == Findings \cap DOMAIN Ran

PostRows == [parent : Posts \cup {Null}, run : ScenarioRuns \cup {Null},
             root : Posts \cup {Null}, depth : 0..MaxReplyDepth]

SchemaAssumption ==
    /\ None \notin PostRows
    /\ {None, Null} \cap (Posts \cup ScenarioRuns \cup ValidationRuns) = {}
    /\ None # Null
    /\ DynamicRuns \cap CopiedRuns = {}
    /\ Signups \subseteq Agents /\ Harness \notin Agents
    /\ Handle \in [Agents -> DOMAIN Lower] /\ Lower \in [DOMAIN Lower -> DOMAIN Lower]
    /\ Authored \subseteq Posts /\ Long \subseteq Posts \ Authored
    /\ Parent \in [Posts \ Authored -> Posts \cup {Null}]
    /\ RunOf \in [Posts \ Authored -> ScenarioRuns \cup {Null}]
    /\ Relations \subseteq [by : Agents, of : Agents \cup Posts]
    /\ Ran \in [DOMAIN Ran -> ScenarioRuns]
    /\ Fixtures.agents \subseteq Agents \ Signups
    /\ Fixtures.tokens \subseteq Fixtures.agents \cup {Harness}
    /\ Fixtures.runs \subseteq ScenarioRuns
    /\ Fixtures.posts \subseteq (Posts \ Authored) \ Long
    /\ Fixtures.events \subseteq V1Events /\ Fixtures.findings \subseteq V1Findings
    /\ \A p \in Fixtures.posts : /\ Parent[p] \in (Fixtures.posts \ {p}) \cup {Null}
                                 /\ RunOf[p] \in Fixtures.runs \cup {Null}
    /\ \A S \in SUBSET Fixtures.posts :   \* no reply is above itself
          S # {} => \E p \in S : Parent[p] \notin S
    /\ \A x \in Fixtures.events \cup Fixtures.findings : Ran[x] \in Fixtures.runs
    /\ \A a, b \in Fixtures.agents : Lower[Handle[a]] = Lower[Handle[b]] => a = b
ASSUME SchemaAssumption

VARIABLES
    revision,          \* "base", "v1" (0001) or "head" (0003)
    agents,            \* the agents there are
    flagged,           \* those with is_fixture
    authFixtures,      \* the owners of the V1 tokens, of the token hashes
    tokens,
    scenarioRuns,
    validationRuns,    \* validation run -> its scenario_run_id, or None
    posts,             \* post -> [parent, run, root, depth], or None
    events,            \* V1 event -> its scenario run, or None
    validationEvents,  \* event -> its validation run, or None
    findings,          \* finding -> its scenario or validation run, or None
    relations,
    returned           \* the rows are as the last downgrade left them

fixtureVars == <<agents, flagged, authFixtures, tokens>>
evidenceVars == <<scenarioRuns, validationRuns, events, validationEvents, findings>>
socialVars == <<posts, relations>>
vars == <<revision, fixtureVars, evidenceVars, socialVars, returned>>

Present(table) == {x \in DOMAIN table : table[x] # None}
Empty(S) == [x \in S |-> None]

Init ==
    /\ revision = "base"
    /\ agents = {} /\ flagged = {} /\ authFixtures = {} /\ tokens = {}
    /\ scenarioRuns = {}
    /\ validationRuns = Empty(ValidationRuns)
    /\ posts = Empty(Posts)
    /\ events = Empty(V1Events)
    /\ validationEvents = Empty(Events)
    /\ findings = Empty(Findings)
    /\ relations = {}
    /\ returned = FALSE

-----------------------------------------------------------------------------
(* The thread of a post, which the program computes in three ways. *)

Above(table, p) == IF p = Null THEN Null ELSE table[p].parent

(* Mutant: only the first row, as without ORDER BY depth DESC. *)
ResolvedShallow(table, p) ==
    LET a == Above(table, p) IN
    IF a = Null THEN [root |-> p, depth |-> 0] ELSE [root |-> a, depth |-> 1]

(* The recursive query of 0002 walks up at most four parents and keeps the    *)
(* last row it reaches.                                                      *)
Ancestry(table, p) ==
    LET a == Above(table, p)
        b == Above(table, a)
        c == Above(table, b)
    IN <<p, a, b, c, Above(table, c)>>

Resolved(table, p) ==
    LET up == Ancestry(table, p)
        depth == CHOOSE d \in 0..MaxReplyDepth :
                    up[d + 1] # Null /\ (d = MaxReplyDepth \/ up[d + 2] = Null)
    IN [root |-> up[depth + 1], depth |-> depth]

(* The loop of the seed goes up in the fixture file, four rounds at most. *)
Round(at) ==
    LET q == Parent[at.root] IN
    IF q \notin Fixtures.posts \/ q = at.root THEN at
    ELSE [root |-> q, depth |-> at.depth + 1]

PostThreadFields(p) == Round(Round(Round(Round([root |-> p, depth |-> 0]))))

(* The route takes the root of the parent and counts on from it. *)
ReplyThread(p, parent) ==
    IF parent = Null THEN [root |-> p, depth |-> 0]
    ELSE [root |-> posts[parent].root, depth |-> posts[parent].depth + 1]

Row(parent, run, thread) ==
    [parent |-> parent, run |-> run, root |-> thread.root, depth |-> thread.depth]

NoThread == [root |-> Null, depth |-> 0]

-----------------------------------------------------------------------------
(* 0002, upgrade: one operator for each part of the script.  In a row of      *)
(* posts "run" is the column scenario_run_id of V1 and, from 0002 on, the     *)
(* key deprecated_scenario_run_id of metadata_json.                          *)

UpgradeAgents == flagged' = agents

UpgradeRuns ==
    validationRuns' = [v \in ValidationRuns |->
        IF \E r \in scenarioRuns : v = ValidationRunId(r)
        THEN CHOOSE r \in scenarioRuns : v = ValidationRunId(r) ELSE None]

UpgradeEvents ==
    validationEvents' = [e \in Events |->
        IF e \in V1Events /\ events[e] # None THEN ValidationRunId(events[e]) ELSE None]

UpgradeTokens == tokens' = authFixtures

UpgradePosts ==
    posts' = [p \in Posts |->
        IF posts[p] = None THEN None
        ELSE Row(posts[p].parent, posts[p].run, Resolved(posts, p))]

UpgradeFindings ==
    findings' = [f \in Findings |->
        IF findings[f] = None THEN None ELSE ValidationRunId(findings[f])]

UpgradeRelations == relations' = {}

(* The constraints that the new columns have to satisfy: unique normalized     *)
(* handles, 280 characters, a validation run for every finding.               *)
SameHandle(a, b) == Lower[Handle[a]] = Lower[Handle[b]]

Upgradable ==
    /\ \A a, b \in agents : SameHandle(a, b) => a = b
    /\ \A p \in Long : posts[p] = None
    /\ \A f \in Findings : findings[f] # Null

(* alembic upgrade head *)
Upgrade ==
    /\ revision = "v1" /\ Upgradable
    /\ revision' = "head"
    /\ UpgradeAgents /\ UpgradeRuns /\ UpgradeEvents
    /\ UpgradeTokens /\ UpgradePosts /\ UpgradeFindings /\ UpgradeRelations
    /\ returned' = FALSE
    /\ UNCHANGED <<agents, authFixtures, scenarioRuns, events>>

(* From nothing the tables are made empty. *)
CreateTables(target) ==
    /\ revision = "base"
    /\ revision' = target
    /\ UNCHANGED <<fixtureVars, evidenceVars, socialVars, returned>>

-----------------------------------------------------------------------------
(* 0002, downgrade. *)

ScenarioOf(v) == validationRuns[v]

Scenarios == scenarioRuns \cup {Null}

(* The foreign keys that come back. *)
Downgradable ==
    /\ \A p \in Present(posts) : posts[p].run \in Scenarios
    /\ \A f \in Present(findings) : ScenarioOf(findings[f]) \in Scenarios

DowngradeEvidence ==
    /\ findings' = [f \in Findings |->
                      IF findings[f] = None THEN None ELSE ScenarioOf(findings[f])]
    /\ validationEvents' = Empty(Events)
    /\ validationRuns' = Empty(ValidationRuns)

DowngradePosts ==
    posts' = [p \in Posts |->
        IF posts[p] = None THEN None ELSE Row(posts[p].parent, posts[p].run, NoThread)]

(* alembic downgrade to 0001 *)
Downgrade ==
    /\ revision = "head" /\ Downgradable
    /\ revision' = "v1"
    /\ DowngradeEvidence /\ DowngradePosts
    /\ flagged' = {} /\ tokens' = {} /\ relations' = {}
    /\ returned' = TRUE
    /\ UNCHANGED <<agents, authFixtures, scenarioRuns, events>>

(* Mutants: a table left out. *)
ClearTablesButPosts ==
    /\ agents' = {} /\ flagged' = {} /\ authFixtures' = {} /\ tokens' = {}
    /\ scenarioRuns' = {}
    /\ validationRuns' = Empty(ValidationRuns)
    /\ events' = Empty(V1Events)
    /\ validationEvents' = Empty(Events)
    /\ findings' = Empty(Findings)
    /\ relations' = {}
    /\ UNCHANGED posts

ClearTablesButEvents ==
    /\ agents' = {} /\ flagged' = {} /\ authFixtures' = {} /\ tokens' = {}
    /\ scenarioRuns' = {}
    /\ validationRuns' = Empty(ValidationRuns)
    /\ posts' = Empty(Posts)
    /\ events' = Empty(V1Events)
    /\ findings' = Empty(Findings)
    /\ relations' = {}
    /\ UNCHANGED validationEvents

ClearTables ==
    /\ agents' = {} /\ flagged' = {} /\ authFixtures' = {} /\ tokens' = {}
    /\ scenarioRuns' = {}
    /\ validationRuns' = Empty(ValidationRuns)
    /\ posts' = Empty(Posts)
    /\ events' = Empty(V1Events)
    /\ validationEvents' = Empty(Events)
    /\ findings' = Empty(Findings)
    /\ relations' = {}

(* alembic downgrade base, which goes through 0002 when at the head *)
DropTables ==
    /\ \/ revision = "v1"
       \/ revision = "head" /\ Downgradable
    /\ revision' = "base"
    /\ ClearTables
    /\ returned' = FALSE

-----------------------------------------------------------------------------
(* What the V1 program may write: any row its schema admits. *)

V1Only == revision = "v1" /\ returned' = FALSE /\ UNCHANGED <<revision, flagged, tokens, relations>>

V1Agent(a) ==
    /\ V1Only
    /\ a \in Agents \ (agents \cup Signups)
    /\ \A b \in agents : Handle[b] # Handle[a]
    /\ agents' = agents \cup {a}
    /\ UNCHANGED <<authFixtures, evidenceVars, posts>>

V1Token(o) ==
    /\ V1Only
    /\ o \in (agents \cup {Harness}) \ authFixtures
    /\ authFixtures' = authFixtures \cup {o}
    /\ UNCHANGED <<agents, evidenceVars, posts>>

V1Run(r) ==
    /\ V1Only
    /\ r \notin scenarioRuns
    /\ scenarioRuns' = scenarioRuns \cup {r}
    /\ UNCHANGED <<agents, authFixtures, validationRuns, events, validationEvents, findings, posts>>

V1Post(p) ==
    /\ V1Only
    /\ p \notin Authored /\ posts[p] = None /\ agents # {}
    /\ Parent[p] # Null => Parent[p] # p /\ posts[Parent[p]] # None
    /\ RunOf[p] \in Scenarios
    /\ posts' = [posts EXCEPT ![p] = Row(Parent[p], RunOf[p], NoThread)]
    /\ UNCHANGED <<agents, authFixtures, evidenceVars>>

V1Evidence(x) ==
    /\ V1Only
    /\ Ran[x] \in scenarioRuns
    /\ \/ /\ x \in Events /\ events[x] = None
          /\ events' = [events EXCEPT ![x] = Ran[x]]
          /\ UNCHANGED findings
       \/ /\ x \in Findings /\ findings[x] = None
          /\ findings' = [findings EXCEPT ![x] = Ran[x]]
          /\ UNCHANGED events
    /\ UNCHANGED <<agents, authFixtures, scenarioRuns, validationRuns, validationEvents, posts>>

-----------------------------------------------------------------------------
(* What the routes write at the head. *)

HeadOnly == revision = "head" /\ UNCHANGED <<revision, returned, scenarioRuns, events, authFixtures>>

(* Mutant: the handle is compared as it is written. *)
SignupExact(a) ==
    /\ HeadOnly
    /\ a \in Signups \ agents
    /\ \A b \in agents : Handle[b] # Handle[a]
    /\ agents' = agents \cup {a}
    /\ tokens' = tokens \cup {a}
    /\ UNCHANGED <<flagged, validationRuns, validationEvents, findings, posts, relations>>

Signup(a) ==
    /\ HeadOnly
    /\ a \in Signups \ agents
    /\ \A b \in agents : ~SameHandle(a, b)
    /\ agents' = agents \cup {a}
    /\ tokens' = tokens \cup {a}
    /\ UNCHANGED <<flagged, validationRuns, validationEvents, findings, posts, relations>>

InsertPost(p, parent) ==
    /\ HeadOnly
    /\ p \in Authored /\ posts[p] = None /\ tokens \cap agents # {}
    /\ parent # Null => posts[parent] # None
    /\ ReplyThread(p, parent).depth <= MaxReplyDepth
    /\ posts' = [posts EXCEPT ![p] = Row(parent, Null, ReplyThread(p, parent))]
    /\ UNCHANGED <<agents, flagged, tokens, validationRuns, validationEvents, findings, relations>>

CreateValidationRun(v) ==
    /\ HeadOnly
    /\ v \in DynamicRuns /\ validationRuns[v] = None /\ Harness \in tokens
    /\ validationRuns' = [validationRuns EXCEPT ![v] = Null]
    /\ UNCHANGED <<agents, flagged, tokens, validationEvents, findings, posts, relations>>

CreateEvidence(x, v) ==
    /\ HeadOnly
    /\ validationRuns[v] # None /\ Harness \in tokens
    /\ \/ /\ x \in Events \ V1Events /\ validationEvents[x] = None
          /\ validationEvents' = [validationEvents EXCEPT ![x] = v]
          /\ UNCHANGED findings
       \/ /\ x \in Findings \ V1Findings /\ findings[x] = None
          /\ findings' = [findings EXCEPT ![x] = v]
          /\ UNCHANGED validationEvents
    /\ UNCHANGED <<agents, flagged, tokens, validationRuns, posts, relations>>

Relate(x) ==
    /\ HeadOnly
    /\ x.by \in agents \cap tokens
    /\ x.of \in agents \cup Present(posts)
    /\ relations' = relations \cup {x}
    /\ UNCHANGED <<agents, flagged, tokens, validationRuns, validationEvents, findings, posts>>

-----------------------------------------------------------------------------
(* The seed, on the start of every container and by its route, merges the     *)
(* fixture files, with the columns of 0002 worked out by the row builders.  It *)
(* is rolled back when a fixture agent that is not there finds its handle     *)
(* taken.                                                                   *)

SeedAgents ==
    /\ agents' = agents \cup Fixtures.agents
    /\ flagged' = flagged \cup Fixtures.agents
    /\ authFixtures' = authFixtures \cup Fixtures.tokens
    /\ tokens' = tokens \cup Fixtures.tokens

SeedRuns ==
    /\ scenarioRuns' = scenarioRuns \cup Fixtures.runs
    /\ validationRuns' = [v \in ValidationRuns |->
          IF \E r \in Fixtures.runs : v = ValidationRunId(r)
          THEN CHOOSE r \in Fixtures.runs : v = ValidationRunId(r) ELSE validationRuns[v]]

SeedPosts ==
    posts' = [p \in Posts |->
        IF p \in Fixtures.posts THEN Row(Parent[p], RunOf[p], PostThreadFields(p)) ELSE posts[p]]

(* Mutant: the seed of V1. *)
SeedEventsOfV1 ==
    /\ events' = [e \in V1Events |-> IF e \in Fixtures.events THEN Ran[e] ELSE events[e]]
    /\ UNCHANGED validationEvents

SeedEvents ==
    /\ events' = [e \in V1Events |-> IF e \in Fixtures.events THEN Ran[e] ELSE events[e]]
    /\ validationEvents' = [e \in Events |->
          IF e \in Fixtures.events THEN ValidationRunId(Ran[e]) ELSE validationEvents[e]]

SeedFindings ==
    findings' = [f \in Findings |->
        IF f \in Fixtures.findings THEN ValidationRunId(Ran[f]) ELSE findings[f]]

Seed ==
    /\ revision = "head"
    /\ \A f \in Fixtures.agents \ agents : \A a \in agents : ~SameHandle(f, a)
    /\ SeedAgents /\ SeedRuns /\ SeedPosts /\ SeedEvents /\ SeedFindings
    /\ UNCHANGED <<revision, relations, returned>>

(* The first transaction of a reset; the seed is its second. *)
Clear ==
    /\ revision = "head" /\ Harness \in tokens
    /\ ClearTables
    /\ UNCHANGED <<revision, returned>>

Next ==
    \/ CreateTables("v1") \/ CreateTables("head") \/ Upgrade \/ Downgrade \/ DropTables
    \/ \E a \in Agents : V1Agent(a) \/ Signup(a)
    \/ \E o \in Owners : V1Token(o)
    \/ \E r \in ScenarioRuns : V1Run(r)
    \/ \E p \in Posts : V1Post(p) \/ \E parent \in Posts \cup {Null} : InsertPost(p, parent)
    \/ \E x \in DOMAIN Ran : V1Evidence(x)
    \/ \E v \in DynamicRuns : CreateValidationRun(v)
    \/ \E x \in Events \cup Findings, v \in ValidationRuns : CreateEvidence(x, v)
    \/ \E x \in Relations : Relate(x)
    \/ Seed \/ Clear

Spec == Init /\ [][Next]_vars

-----------------------------------------------------------------------------
TypeOK ==
    /\ revision \in {"base", "v1", "head"}
    /\ agents \subseteq Agents /\ flagged \subseteq agents
    /\ authFixtures \subseteq agents \cup {Harness}
    /\ tokens \subseteq agents \cup {Harness}
    /\ scenarioRuns \subseteq ScenarioRuns
    /\ validationRuns \in [ValidationRuns -> Scenarios \cup {None}]
    /\ posts \in [Posts -> {None} \cup PostRows]
    /\ events \in [V1Events -> scenarioRuns \cup {None}]
    /\ validationEvents \in [Events -> Present(validationRuns) \cup {None}]
    /\ findings \in [Findings -> {None} \cup
           (IF revision = "head" THEN Present(validationRuns) ELSE Scenarios)]
    /\ relations \subseteq {x \in Relations : x.by \in agents /\ x.of \in agents \cup Present(posts)}
    /\ returned \in BOOLEAN

(* At the head root_post_id and reply_depth say where a post stands in its    *)
(* thread, whichever of the backfill, the seed and the route filled them in,   *)
(* in whatever order: the depth is the number of posts above, four at most,    *)
(* and the root is that many posts up.  (A V1 thread of more than four         *)
(* replies in a row is split: below the fourth the root is no longer the       *)
(* first post.)                                                             *)
Height[p \in Posts] ==
    IF posts[p] = None \/ posts[p].parent = Null THEN 0 ELSE 1 + Height[posts[p].parent]

Line[p \in Posts] ==
    IF posts[p] = None \/ posts[p].parent = Null THEN {p} ELSE {p} \cup Line[posts[p].parent]

ThreadsExact ==
    revision = "head" => \A p \in Present(posts) :
        /\ posts[p].depth = IF Height[p] > MaxReplyDepth THEN MaxReplyDepth ELSE Height[p]
        /\ posts[p].root \in Line[p]
        /\ Height[posts[p].root] = Height[p] - posts[p].depth

(* A downgrade never fails: no reset, seed or route takes a scenario run away  *)
(* from under a post that names it in its metadata, or from under a           *)
(* validation run.                                                          *)
DowngradePossible == revision = "head" => Downgradable

(* tests/test_v2_migration_safety.py:301: what was downgraded can be upgraded  *)
(* again, as long as no finding belongs to a validation run made by the       *)
(* route: such a finding comes back without its run, which the upgrade         *)
(* does not accept.                                                          *)
ReupgradePossible ==
    revision = "v1" /\ returned /\ (\A f \in Findings : findings[f] # Null) => Upgradable

(* At the head every V1 row has the row that replaces it, from the backfill or *)
(* from the seed: one validation run to a scenario run, an event under it for  *)
(* each event, a token hash for each token.                                  *)
V1RowsCarried ==
    revision = "head" =>
        /\ \A r \in scenarioRuns : {v \in ValidationRuns : validationRuns[v] = r} = {ValidationRunId(r)}
        /\ \A e \in Present(events) : validationEvents[e] = ValidationRunId(events[e])
        /\ authFixtures \subseteq tokens
=============================================================================
