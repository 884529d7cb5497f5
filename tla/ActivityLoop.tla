---------------------------- MODULE ActivityLoop ----------------------------
(***************************************************************************)
(* The steps of an AI activity run, and the client that carries them out.     *)
(*                                                                          *)
(* At each step one agent, in turn, reads the public timeline and its own      *)
(* replies, picks an action and a target the local policy allows, and sends    *)
(* one write.  A write without an answer, or with one that may pass, is sent   *)
(* again under the same client_request_id, within a budget its agent shares     *)
(* over the run.  A rejected token costs the agent its place: a new account     *)
(* takes it and carries the action out.  The run may be killed at any time;    *)
(* the next one starts over with the same agents, in the same world.          *)
(*                                                                          *)
(* Of the backend the client sees what KeyedCreation promises: a key stands    *)
(* for one creation, and an answer may be lost, be an error although the       *)
(* creation took place, or come from a request that was long given up.  A      *)
(* fixture reset deletes every account and all it did.                       *)
(*                                                                          *)
(* Accounts and posts are numbered in the order they are made, the fixtures'    *)
(* first: an agent and a post of its own have one number.  What is written is   *)
(* left out, and so is what an LLM would prefer: any choice the code accepts    *)
(* may be made.                                                             *)
(***************************************************************************)
EXTENDS Integers, Sequences, FiniteSets

CONSTANTS
    Agents,        \* the size of the cohort
    Fixtures,      \* the number of fixtures, agents with a post
    Retries,       \* AI_ACTIVITY_LLM_MAX_RETRIES, of a request and of an agent
    Window,        \* how much of the timeline is read: 20
    History,       \* how many of an agent's replies are read: 50
    Cooldown,      \* AI_ACTIVITY_TARGET_COOLDOWN_STEPS
    Recent,        \* AI_ACTIVITY_RECENT_ACTION_WINDOW
    ReplyShare,    \* AI_ACTIVITY_MAX_REPLY_SHARE, in percent
    Intents,       \* those of FEED_WEIGHTS that an instance has
    MaxSteps,      \* AI_ACTIVITY_MAX_STEPS
    MaxTotal, MaxLate, MaxResets   \* bounds: the steps of all runs, the requests that
                   \* are given up and yet under way, and resets of the backend

ActivityAssumption ==
    /\ {Agents, Fixtures, Window, History, Recent} \subseteq Nat \ {0}
    /\ {Retries, Cooldown, MaxSteps, MaxTotal, MaxLate, MaxResets} \subseteq Nat
    /\ {"root_post", "silence"} \subseteq Intents
    /\ ReplyShare \in 0..100
ASSUME ActivityAssumption

VARIABLES
    posts,     \* [id, author, parent, at], parent None of a root post
    feed,      \* the items of the public timeline, oldest first: [post, by]
    alive,     \* the accounts whose token is accepted
    issued,    \* how many accounts and posts there have been
    made,      \* the keys under which something was created
    flight,    \* the requests not yet carried out, given up or not
    resets,
    pc,
    at,        \* the number of its step, from run to run
    began,     \* that of the first step of the run
    cohort,
    seen,      \* the posts it read from the timeline
    plan,      \* [intent, target]
    redo,      \* the plan is carried out again, by the account that replaces another
    attempt,
    answer,    \* to the request it waits for
    spent,     \* V2APIClient.retry_spent
    recent,    \* ActionDiversityTracker.recent_actions
    targets,   \* ActionDiversityTracker.recent_targets
    log,       \* of activity.jsonl: the writes reported ok, [at, intent]
    knew       \* history: the last post there was when the step read its agent's replies,
               \* 0 if it could not read them

world == <<posts, feed, alive, issued, made, resets>>
request == <<plan, redo, attempt, answer, spent>>
tracker == <<recent, targets>>
vars == <<world, flight, pc, at, began, cohort, seen, request, tracker, log, knew>>

Members(s) == {s[i] : i \in DOMAIN s}
Newest(s, n) == SubSeq(s, IF Len(s) > n THEN Len(s) - n + 1 ELSE 1, Len(s))
Count(s, I) == Cardinality({i \in DOMAIN s : s[i] \in I})

None == <<"none", 0>>
PostTarget(id) == <<"post", id>>
AgentTarget(a) == <<"agent", a>>
Silence == [intent |-> "silence", target |-> None]

Replying == {"reply"}
Texts == {"reply", "quote"}
OnPosts == Texts \cup {"like", "repost"}
Interactions == OnPosts \cup {"follow"}
Feed == (Interactions \cup {"root_post", "silence"}) \cap Intents

Steps == 1..MaxTotal + 1
Step == at - began
Position == (Step % Agents) + 1
Actor == cohort[Position]

FixturePosts == {[id |-> i, author |-> i, parent |-> None, at |-> -i] : i \in 1..Fixtures}
FixtureItems == [i \in 1..Fixtures |-> [post |-> i, by |-> i]]

Init ==
    /\ posts = FixturePosts /\ feed = FixtureItems
    /\ alive = (Fixtures + 1)..(Fixtures + Agents) /\ issued = Fixtures + Agents
    /\ made = {} /\ flight = {} /\ resets = 0
    /\ pc = "next" /\ at = 1 /\ began = 1
    /\ cohort = [i \in 1..Agents |-> Fixtures + i]
    /\ seen = {} /\ plan = Silence /\ redo = FALSE /\ attempt = 1 /\ answer = "none"
    /\ spent = [i \in 1..Agents |-> 0]
    /\ recent = << >> /\ targets = << >>
    /\ log = {} /\ knew = [step \in Steps |-> 0]

-----------------------------------------------------------------------------
(* What the agent may do *)

(* public_timeline *)
ReadTimeline ==
    /\ pc = "next" /\ Step < MaxSteps /\ at <= MaxTotal
    /\ \/ seen' = {p \in posts : \E item \in Members(Newest(feed, Window)) : item.post = p.id}
       \/ seen' = {}
    /\ pc' = "choose"
    /\ UNCHANGED <<world, flight, at, began, cohort, request, tracker, log, knew>>

RepliesOf(a) == {p \in posts : p.author = a /\ p.parent # None}

(* What the route of the replies shows of them. *)
Shown(a) == {p \in RepliesOf(a) : Cardinality({q \in RepliesOf(a) : q.id > p.id}) < History}

(* Mutant: the posts of authors already answered are collected before those    *)
(* that were answered themselves are left out.                               *)
FallbackUnfiltered(replies) == {p \in seen : p.author # Actor}

(* Others' posts that the agent has not replied to. *)
Fallback(replies) ==
    {p \in seen : p.author # Actor /\ PostTarget(p.id) \notin {r.parent : r \in replies}}

(* Those of authors it has not replied to, if there are any.  A reply names its *)
(* parent's author as long as the parent is there.                            *)
PostCandidates(replies) ==
    LET parents == {p \in posts : PostTarget(p.id) \in {r.parent : r \in replies}}
        answered == {p.author : p \in parents}
        fresh == {p \in Fallback(replies) : p.author \notin answered}
    IN  {PostTarget(p.id) : p \in IF fresh = {} THEN Fallback(replies) ELSE fresh}

AgentCandidates(listed) ==
    {AgentTarget(a) : a \in ({p.author : p \in seen} \cup listed) \ {Actor}}

OnCooldown(t) == t \in DOMAIN targets /\ Step - targets[t] < Cooldown

Cooled(candidates) ==
    IF \A t \in candidates : OnCooldown(t) THEN candidates ELSE {t \in candidates : ~OnCooldown(t)}

TooManyReplies == Count(recent, Replying) * 100 > ReplyShare * Len(recent)

(* The intents the policy offers, with the swap of _prefer_interactions_when_available. *)
Options(candidates) ==
    LET offered == IF TooManyReplies THEN Feed \ Replying ELSE Feed
        roots == Count(recent, {"root_post"})
    IN  IF candidates # {} /\ roots >= 2 /\ roots > Count(recent, Interactions)
        THEN (offered \ {"root_post"})
                \cup (IF \E t \in candidates : t[1] = "post" THEN OnPosts \cap Intents ELSE {})
                \cup (IF \E t \in candidates : t[1] = "agent" THEN {"follow"} \cap Intents ELSE {})
        ELSE offered

Fits(intent, t) ==
    \/ intent \in OnPosts /\ t[1] = "post"
    \/ intent = "follow" /\ t[1] = "agent"

(* A target the LLM names must be a candidate; one it invents is replaced by a  *)
(* candidate that fits.  A text without a target becomes a root post, and what  *)
(* still makes no sense, or has a bad text, is silence.                        *)
Plans(candidates) ==
    {Silence}
        \cup {p \in [intent : Options(candidates), target : candidates] : Fits(p.intent, p.target)}
        \cup (IF \/ "root_post" \in Options(candidates)
                 \/ /\ Options(candidates) \cap Texts # {}
                    /\ candidates # {} => \E t \in candidates : t[1] = "agent"
              THEN {[intent |-> "root_post", target |-> None]} ELSE {})

-----------------------------------------------------------------------------
(* The end of a step: what is recorded of it *)

Idle == plan' = Silence /\ redo' = FALSE /\ attempt' = 1 /\ answer' = "none"

(* Mutant: the window of recent actions is not bounded. *)
RecordAll(p, outcome) ==
    /\ recent' = Append(recent, p.intent)
    /\ targets' = IF p.target = None THEN targets
                  ELSE [t \in DOMAIN targets \cup {p.target} |-> IF t = p.target THEN Step ELSE targets[t]]
    /\ log' = IF outcome = "ok" THEN log \cup {[at |-> at, intent |-> p.intent]} ELSE log
    /\ at' = at + 1
    /\ pc' = "next" /\ Idle

Record(p, outcome) ==
    /\ recent' = Newest(Append(recent, p.intent), Recent)
    /\ targets' = IF p.target = None THEN targets
                  ELSE [t \in DOMAIN targets \cup {p.target} |-> IF t = p.target THEN Step ELSE targets[t]]
    /\ log' = IF outcome = "ok" THEN log \cup {[at |-> at, intent |-> p.intent]} ELSE log
    /\ at' = at + 1
    /\ pc' = "next" /\ Idle

Known(read) == IF read \/ RepliesOf(Actor) = {} THEN issued ELSE 0

(* The replies and the agents are read, each or not, and the action is planned. *)
Choose ==
    /\ pc = "choose"
    /\ \E read \in BOOLEAN, listed \in {{}, (1..Fixtures) \cup alive} :
          LET candidates == Cooled(PostCandidates(IF read THEN Shown(Actor) ELSE {})
                                       \cup AgentCandidates(listed))
          IN  \E p \in Plans(candidates) :
                 /\ knew' = IF p.intent = "reply" THEN [knew EXCEPT ![at] = Known(read)] ELSE knew
                 /\ IF p = Silence
                    THEN Record(p, "silence")
                    ELSE /\ plan' = p /\ pc' = "send"
                         /\ UNCHANGED <<at, redo, attempt, answer, tracker, log>>
    /\ seen' = {}
    /\ UNCHANGED <<world, flight, began, cohort, spent>>

-----------------------------------------------------------------------------
(* V2APIClient._request *)

(* Mutant: every attempt has a client_request_id of its own. *)
KeyOfAttempt == <<at, redo, attempt>>

(* client_request_id: one for all attempts. *)
Key == <<at, redo>>

Send ==
    /\ pc = "send"
    /\ flight' = flight \cup {[key |-> Key, attempt |-> attempt, by |-> Actor, at |-> at,
                               intent |-> plan.intent, target |-> plan.target]}
    /\ pc' = "wait" /\ answer' = "none"
    /\ UNCHANGED <<world, at, began, cohort, seen, plan, redo, attempt, spent, tracker, log, knew>>

(* Mutant: a request is repeated for as long as it fails. *)
AgainForever ==
    /\ pc' = "send"
    /\ UNCHANGED <<at, plan, redo, attempt, answer, spent, tracker, log>>

(* Another attempt, if the request and the agent have one left. *)
Again ==
    IF attempt > Retries
    THEN Record(plan, "failed") /\ UNCHANGED spent
    ELSE /\ spent' = [spent EXCEPT ![Position] = @ + 1]
         /\ IF spent[Position] < Retries
            THEN /\ pc' = "send" /\ attempt' = attempt + 1
                 /\ UNCHANGED <<at, plan, redo, answer, tracker, log>>
            ELSE Record(plan, "failed")

Late == {q \in flight : q.key # Key \/ q.attempt # attempt}

(* The request is lost, or carried out later. *)
TimeOut ==
    /\ pc = "wait"
    /\ \/ flight' = Late
       \/ Cardinality(flight) <= MaxLate /\ UNCHANGED flight
    /\ Again
    /\ UNCHANGED <<world, began, cohort, seen, knew>>

(* Mutant: a conflict is taken for a success. *)
ReportLenient == IF answer \in {"ok", "conflict"} THEN "ok" ELSE "failed"

Report == IF answer = "ok" THEN "ok" ELSE "failed"

(* An answer is final unless it is one that may pass, or the token is rejected  *)
(* and was not replaced before.                                              *)
Hear ==
    /\ pc = "wait" /\ answer # "none"
    /\ IF answer = "busy" THEN Again
       ELSE /\ answer = "rejected" => redo
            /\ Record(plan, Report)
            /\ UNCHANGED spent
    /\ UNCHANGED <<world, flight, began, cohort, seen, knew>>

(* replace_rejected_agent, of which AgentCohort has the steps.  The budget goes *)
(* with the handle, which another agent of the run may have had before.       *)
Replace ==
    /\ pc = "wait" /\ answer = "rejected" /\ ~redo
    /\ issued' = issued + 1
    /\ alive' = alive \cup {issued'}
    /\ cohort' = [cohort EXCEPT ![Position] = issued']
    /\ \E n \in 0..Retries : spent' = [spent EXCEPT ![Position] = n]
    /\ redo' = TRUE /\ attempt' = 1
    /\ pc' = "send"
    /\ UNCHANGED <<posts, feed, made, resets, flight, at, began, seen, plan, answer, tracker, log, knew>>

(* The signup mode does not permit it. *)
Blocked ==
    /\ pc = "wait" /\ answer = "rejected" /\ ~redo
    /\ Record(plan, "failed")
    /\ UNCHANGED <<world, flight, began, cohort, seen, spent, knew>>

-----------------------------------------------------------------------------
(* Runs *)

(* After the last step, or when max_wall_seconds have passed. *)
Stop ==
    /\ pc = "next"
    /\ pc' = "stopped"
    /\ UNCHANGED <<world, flight, at, began, cohort, seen, request, tracker, log, knew>>

(* timeout(1), a crash, or a replacement whose signup failed. *)
Kill ==
    /\ pc \notin {"next", "stopped"}
    /\ pc' = "stopped" /\ Idle
    /\ flight' = IF pc = "wait" /\ Cardinality(flight) > MaxLate THEN Late ELSE flight
    /\ at' = at + 1 /\ seen' = {}
    /\ UNCHANGED <<world, began, cohort, spent, tracker, log, knew>>

StartRun ==
    /\ pc = "stopped"
    /\ began' = at
    /\ pc' = "next"
    /\ recent' = << >> /\ targets' = << >>
    /\ spent' = [i \in 1..Agents |-> 0]
    /\ UNCHANGED <<world, flight, at, cohort, seen, plan, redo, attempt, answer, log, knew>>

-----------------------------------------------------------------------------
(* The backend *)

Exists(t) ==
    \/ t = None
    \/ t[1] = "post" /\ \E p \in posts : PostTarget(p.id) = t
    \/ t[1] = "agent" /\ t[2] \in (1..Fixtures) \cup alive

(* The row of a post, or of a repost that is shown again; there is one repost of *)
(* a post to an account.                                                     *)
Effect(q) ==
    LET post == [id |-> issued + 1, author |-> q.by, at |-> q.at,
                 parent |-> IF q.intent = "reply" THEN q.target ELSE None]
        item == [post |-> IF q.intent = "repost" THEN q.target[2] ELSE post.id, by |-> q.by]
    IN  /\ made' = made \cup {q.key}
        /\ IF q.intent \in Texts \cup {"root_post"}
           THEN posts' = posts \cup {post} /\ issued' = issued + 1
           ELSE UNCHANGED <<posts, issued>>
        /\ feed' = IF q.intent \in {"root_post", "quote", "repost"} /\ item \notin Members(feed)
                   THEN Append(feed, item) ELSE feed
        /\ UNCHANGED <<alive, resets>>

(* What is answered to a request, and whether it takes effect.  An earlier attempt, *)
(* under way, failed or killed, may have left its record in flight.           *)
Outcomes(q) ==
    {[status |-> "busy", effect |-> FALSE]}
        \cup (IF q.by \notin alive THEN {[status |-> "rejected", effect |-> FALSE]}
              ELSE (IF q.attempt > 1 THEN {[status |-> "conflict", effect |-> FALSE]} ELSE {})
                   \cup (IF q.key \in made THEN [status : {"ok", "conflict"}, effect : {FALSE}]
                         ELSE IF ~Exists(q.target) THEN {[status |-> "refused", effect |-> FALSE]}
                         ELSE [status : {"ok", "busy"}, effect : {TRUE}]))

Execute ==
    \E q \in flight :
        /\ flight' = flight \ {q}
        /\ \E o \in Outcomes(q) :
              /\ IF o.effect THEN Effect(q) ELSE UNCHANGED world
              /\ answer' = IF pc = "wait" /\ q.key = Key /\ q.attempt = attempt THEN o.status ELSE answer
        /\ UNCHANGED <<pc, at, began, cohort, seen, plan, redo, attempt, spent, tracker, log, knew>>

Reset ==
    /\ resets < MaxResets
    /\ resets' = resets + 1
    /\ posts' = FixturePosts /\ feed' = FixtureItems /\ alive' = {} /\ made' = {}
    /\ UNCHANGED <<issued, flight, pc, at, began, cohort, seen, request, tracker, log, knew>>

-----------------------------------------------------------------------------
Runner == ReadTimeline \/ Choose \/ Send \/ TimeOut \/ Hear \/ Replace \/ Blocked \/ Stop
Next == Runner \/ Kill \/ StartRun \/ Execute \/ Reset

(* The runner goes on: it waits for no answer beyond its timeout. *)
Spec == Init /\ [][Next]_vars /\ WF_vars(Runner)

-----------------------------------------------------------------------------
Targets == {None} \cup ({"post", "agent"} \X Nat)
Statuses == {"none", "ok", "busy", "conflict", "refused", "rejected"}

TypeOK ==
    /\ \A p \in posts : p.id \in 1..issued /\ p.author \in 1..issued /\ p.parent \in Targets
    /\ \A i \in DOMAIN feed : feed[i].post \in {p.id : p \in posts} /\ feed[i].by \in (1..Fixtures) \cup alive
    /\ alive \subseteq 1..issued /\ issued \in Nat /\ resets \in 0..MaxResets
    /\ \A q \in flight : q.by \in 1..issued /\ q.at \in Steps /\ q.attempt \in 1..Retries + 1
    /\ pc \in {"next", "choose", "send", "wait", "stopped"} /\ at \in Steps /\ began \in 1..at
    /\ cohort \in [1..Agents -> 1..issued]
    /\ plan.intent \in Feed /\ plan.target \in Targets
    /\ redo \in BOOLEAN /\ attempt \in 1..Retries + 1 /\ answer \in Statuses
    /\ spent \in [1..Agents -> Nat]
    /\ recent \in Seq(Feed) /\ Len(recent) <= Recent
    /\ DOMAIN targets \subseteq Targets /\ \A t \in DOMAIN targets : targets[t] \in 0..MaxSteps
    /\ \A l \in log : l.at \in Steps /\ l.intent \in Feed
    /\ knew \in [Steps -> 0..issued]

ReportedOk(step) == \E l \in log : l.at = step

(* spec:531, retries under one client_request_id: a step leaves at most one post *)
(* however often its request is repeated, answered late or carried out again   *)
(* with a new token.  Of reposts, likes and follows there is one row anyway.   *)
OneEffectPerStep == \A p, q \in posts : p.at = q.at => p = q

(* test_runner_excludes_posts_actor_already_replied_to_across_runs: an agent     *)
(* replies twice to a post only if its replies could not be read, they show as  *)
(* many newer ones, or the first reply, a success nobody was told of, came     *)
(* after they were read.                                                    *)
NoSecondReply ==
    \A p, q \in posts :
        /\ p.parent # None /\ p.parent = q.parent /\ p.author = q.author /\ p.at < q.at
        => \/ knew[q.at] = 0
           \/ knew[q.at] < p.id /\ ~ReportedOk(p.at)
           \/ Cardinality({r \in RepliesOf(p.author) : p.id < r.id /\ r.id < q.id}) >= History

(* Until a reset, a text that was reported as written is there. *)
OkMeansDone ==
    resets = 0 => \A l \in log :
        l.intent \in Texts \cup {"root_post"} => \E p \in posts : p.at = l.at

(* A run comes to its end, whatever the backend answers or leaves unanswered. *)
RunEnds == pc # "stopped" ~> pc = "stopped"

-----------------------------------------------------------------------------
(* Inductive invariants *)

Writing == pc \in {"send", "wait"}

(* The last step that has sent anything. *)
LastSent == IF Writing THEN at ELSE at - 1

Requests == [key : Steps \X BOOLEAN, attempt : 1..Retries + 1, by : 1..issued, at : Steps,
             intent : Feed, target : Targets]
Rows == [id : 1..issued, author : 1..issued, parent : Targets, at : Int]
SuitsPosts(q) == q.intent \in OnPosts => q.target[1] = "post"

(* The types by the part of the state they are about, with what they leave open: *)
(* a request is about its step, and the steps that act are within the bounds.   *)
WorldTyped ==
    /\ IsFiniteSet(posts) /\ posts \subseteq Rows /\ made \subseteq Steps \X BOOLEAN
    /\ \A i \in DOMAIN feed : feed[i].post \in {p.id : p \in posts} /\ feed[i].by \in (1..Fixtures) \cup alive
    /\ feed \in Seq([post : Int, by : Int])
    /\ alive \subseteq 1..issued /\ issued \in Nat /\ Fixtures <= issued /\ resets \in 0..MaxResets

FlightTyped == flight \subseteq Requests /\ \A q \in flight : q.key[1] = q.at /\ SuitsPosts(q)

TurnTyped ==
    /\ pc \in {"next", "choose", "send", "wait", "stopped"} /\ at \in Steps /\ began \in 1..at
    /\ pc \notin {"next", "stopped"} => at <= MaxTotal /\ Step < MaxSteps
    /\ plan \in [intent : Feed, target : Targets] /\ SuitsPosts(plan)
    /\ redo \in BOOLEAN /\ attempt \in 1..Retries + 1 /\ answer \in Statuses

CohortTyped == cohort \in [1..Agents -> 1..issued] /\ spent \in [1..Agents -> Nat]

TrackerTyped ==
    /\ recent \in Seq(Feed) /\ Len(recent) <= Recent
    /\ DOMAIN targets \subseteq Targets /\ \A t \in DOMAIN targets : targets[t] \in 0..MaxSteps
    /\ log \subseteq [at : Steps, intent : Feed]
    /\ knew \in [Steps -> 0..issued]

Typed == WorldTyped /\ FlightTyped /\ TurnTyped /\ CohortTyped /\ TrackerTyped /\ seen \subseteq Rows

(* Nothing is ahead of the step: no key, request, report or post. *)
NothingAhead ==
    /\ \A k \in made : k[1] <= LastSent
    /\ \A q \in flight : q.at <= LastSent
    /\ \A l \in log : l.at < at
    /\ \A p \in posts : p \in FixturePosts \/ \E again \in BOOLEAN : <<p.at, again>> \in made

(* The requests of the step carry out its plan, for the agent whose turn it is;  *)
(* only the agent of an accepted token has had its plan carried out.           *)
TurnInvariant ==
    /\ \A q \in flight :
          q.at = at => q.intent = plan.intent /\ q.target = plan.target /\ (q.key = Key => q.by = Actor)
    /\ Writing /\ Key \in made => Actor \in alive
    /\ pc = "wait" /\ answer = "rejected" => Actor \notin alive

(* The plan of the step was carried out again. *)
Redone(step) ==
    \/ redo /\ step = at
    \/ <<step, TRUE>> \in made
    \/ \E q \in flight : q.key = <<step, TRUE>>

(* Then the first account had not carried it out, and no longer can. *)
RedoneForGood ==
    /\ Redone(at) => redo
    /\ \A step \in Steps : Redone(step) =>
          /\ <<step, FALSE>> \notin made
          /\ \A q \in flight : q.key = <<step, FALSE>> => q.by \notin alive

EffectInvariant == NothingAhead /\ TurnInvariant /\ RedoneForGood /\ OneEffectPerStep

(* An answer ok means that the plan is carried out, and a text then has a post;   *)
(* what is reported ok is not carried out any more, with or without a reset.    *)
DoneInvariant ==
    /\ resets = 0 /\ Writing /\ Key \in made /\ plan.intent \in Texts \cup {"root_post"}
          => \E p \in posts : p.at = at
    /\ pc = "wait" /\ answer = "ok" => Key \in made \/ (Actor \notin alive /\ resets > 0)
    /\ \A q \in flight : ReportedOk(q.at) => q.key \in made \/ q.by \notin alive

(* A reply of the step, if sent now, would be no second one. *)
Unanswered(a, step, target) ==
    \A p \in posts :
        /\ p.parent = target /\ p.author = a /\ p.at < step
        /\ p.id <= knew[step] \/ ReportedOk(p.at)
        => Cardinality({r \in RepliesOf(a) : p.id < r.id}) >= History

ReplyInvariant ==
    /\ \A q \in flight : q.intent = "reply" /\ knew[q.at] # 0 => Unanswered(q.by, q.at, q.target)
    /\ Writing /\ plan.intent = "reply" /\ knew[at] # 0 => Unanswered(Actor, at, plan.target)
=============================================================================
