-------------------------- MODULE ActivityLoop_proofs --------------------------
(***************************************************************************)
(* That a step of a run writes once, that a report of it is true, and that no  *)
(* agent replies twice to a post it could know of, for every cohort, budget of *)
(* retries, number of runs and of resets.  First what a step may plan and      *)
(* record; then the keys: nothing is ahead of the step, and what a step's       *)
(* requests do is settled by who may still carry them out.                     *)
(***************************************************************************)
EXTENDS ActivityLoop, SequenceTheorems, FiniteSetTheorems, TLAPS

-----------------------------------------------------------------------------
(* What the definitions of a step return *)

LEMMA Numbers ==
    /\ Agents \in Nat \ {0} /\ Fixtures \in Nat \ {0} /\ Window \in Nat \ {0}
    /\ History \in Nat \ {0} /\ Recent \in Nat \ {0}
    /\ Retries \in Nat /\ MaxSteps \in Nat /\ MaxTotal \in Nat /\ MaxResets \in Nat
    /\ "root_post" \in Feed /\ "silence" \in Feed
  BY ActivityAssumption DEF ActivityAssumption, Feed

(* An agent has its turn, whatever the step. *)
LEMMA SomeonesTurn ==
    ASSUME TurnTyped
    PROVE  Step \in Nat /\ Position \in 1..Agents
<1>1. Step \in Nat
  BY Numbers DEF TurnTyped, Steps, Step
<1>2. Step % Agents \in 0..Agents - 1
  BY <1>1, Numbers
<1> QED
  BY <1>1, <1>2, Numbers DEF Position

LEMMA ActorTyped ==
    ASSUME TurnTyped, CohortTyped
    PROVE  Actor \in 1..issued
  BY SomeonesTurn DEF CohortTyped, Actor

LEMMA NewestOf ==
    ASSUME NEW S, NEW s \in Seq(S), NEW n \in Nat
    PROVE  Newest(s, n) \in Seq(S) /\ Len(Newest(s, n)) <= n
<1> DEFINE first == IF Len(s) > n THEN Len(s) - n + 1 ELSE 1
<1>1. Len(s) \in Nat /\ first \in Nat \ {0} /\ \A i \in first..Len(s) : s[i] \in S
  BY LenProperties
<1>2. /\ SubSeq(s, first, Len(s)) \in Seq(S)
      /\ Len(SubSeq(s, first, Len(s))) = IF first <= Len(s) THEN Len(s) - first + 1 ELSE 0
  <2> HIDE DEF first
  <2> QED
    BY <1>1, SubSeqProperties
<1> QED
  BY <1>1, <1>2 DEF Newest

(* What may be aimed at is a post or an agent. *)
LEMMA PostsToAimAt ==
    ASSUME NEW replies, NEW t \in PostCandidates(replies)
    PROVE  \E p \in seen : /\ t = PostTarget(p.id) /\ p.author # Actor
                           /\ t \notin {r.parent : r \in replies}
  BY DEF PostCandidates, Fallback

LEMMA AgentsToAimAt ==
    ASSUME NEW listed, NEW t \in AgentCandidates(listed)
    PROVE  \E a \in {p.author : p \in seen} \cup listed : t = AgentTarget(a)
  BY DEF AgentCandidates

LEMMA CooledWithin ==
    ASSUME NEW candidates
    PROVE  Cooled(candidates) \subseteq candidates
  BY DEF Cooled

(* A plan is silence, a new post, or what suits one of the candidates. *)
LEMMA PlanIs ==
    ASSUME NEW candidates, NEW p \in Plans(candidates)
    PROVE  \/ p = Silence
           \/ p = [intent |-> "root_post", target |-> None]
           \/ /\ p \in [intent : Feed, target : candidates]
              /\ Fits(p.intent, p.target)
<1>1. Options(candidates) \subseteq Feed
  BY DEF Options, Feed, Interactions
<1> QED
  BY <1>1 DEF Plans

LEMMA PlanTyped ==
    ASSUME NEW candidates \in SUBSET Targets, NEW p \in Plans(candidates)
    PROVE  p \in [intent : Feed, target : Targets] /\ SuitsPosts(p)
<1>1. Silence \in [intent : Feed, target : Targets] /\ SuitsPosts(Silence)
  BY Numbers DEF Silence, SuitsPosts, OnPosts, Texts, Targets
<1>2. [intent |-> "root_post", target |-> None] \in [intent : Feed, target : Targets]
  BY Numbers DEF Targets
<1>3. SuitsPosts([intent |-> "root_post", target |-> None])
  BY DEF SuitsPosts, OnPosts, Texts
<1>4. ASSUME p \in [intent : Feed, target : candidates], Fits(p.intent, p.target)
      PROVE  p \in [intent : Feed, target : Targets] /\ SuitsPosts(p)
  BY <1>4 DEF Fits, SuitsPosts, OnPosts, Texts
<1> QED
  BY <1>1, <1>2, <1>3, <1>4, PlanIs

LEMMA SilenceTyped ==
    Silence \in [intent : Feed, target : Targets] /\ SuitsPosts(Silence) /\ Silence.target = None
  BY Numbers DEF Silence, SuitsPosts, OnPosts, Texts, Targets

(* What is recorded of a step keeps the types, and the next step is idle. *)
LEMMA RecordTyped ==
    ASSUME TurnTyped, TrackerTyped, pc \notin {"next", "stopped"},
           NEW p \in [intent : Feed, target : Targets], NEW outcome, Record(p, outcome),
           began' = began, UNCHANGED world, knew' = knew \/ knew' \in [Steps -> 0..issued]
    PROVE  TurnTyped' /\ TrackerTyped'
<1>1. Step \in 0..MaxSteps /\ at \in Steps /\ at + 1 \in Steps /\ began \in 1..at + 1
  BY SomeonesTurn, Numbers DEF TurnTyped, Steps
<1>2. recent' \in Seq(Feed) /\ Len(recent') <= Recent
  <2>1. Append(recent, p.intent) \in Seq(Feed)
    BY AppendProperties DEF TrackerTyped
  <2> QED
    BY <2>1, NewestOf, Numbers DEF Record
<1>3. DOMAIN targets' \subseteq Targets /\ \A t \in DOMAIN targets' : targets'[t] \in 0..MaxSteps
  <2>1. CASE p.target = None
    BY <2>1 DEF Record, TrackerTyped
  <2>2. CASE p.target # None
    BY <1>1, <2>2 DEF Record, TrackerTyped
  <2> QED
    BY <2>1, <2>2
<1>4. log' \subseteq [at : Steps, intent : Feed] /\ knew' \in [Steps -> 0..issued']
  BY <1>1 DEF Record, TrackerTyped, world
<1>5. /\ at' = at + 1 /\ pc' = "next" /\ plan' = Silence /\ redo' = FALSE /\ attempt' = 1
      /\ answer' = "none"
  BY DEF Record, Idle
<1>6. TurnTyped'
  <2>1. plan' \in [intent : Feed, target : Targets] /\ SuitsPosts(plan)'
    BY <1>5, SilenceTyped DEF SuitsPosts
  <2>2. at' \in Steps /\ began' \in 1..at'
    BY <1>1, <1>5
  <2>3. pc' \in {"next", "choose", "send", "wait", "stopped"} /\ pc' \in {"next", "stopped"}
    BY <1>5
  <2>4. redo' \in BOOLEAN /\ attempt' \in 1..Retries + 1 /\ answer' \in Statuses
    <3>1. redo' \in BOOLEAN
      BY <1>5
    <3>2. 1 \in 1..Retries + 1
      BY Numbers
    <3> QED
      BY <1>5, <3>1, <3>2 DEF Statuses
  <2> QED
    BY <2>1, <2>2, <2>3, <2>4 DEF TurnTyped
<1> QED
  BY <1>2, <1>3, <1>4, <1>6 DEF TrackerTyped

-----------------------------------------------------------------------------
(* The types *)

LEMMA WorldKept ==
    ASSUME WorldTyped, UNCHANGED world
    PROVE  WorldTyped' /\ issued' = issued /\ Rows' = Rows /\ Requests' = Requests
  BY DEF world, WorldTyped, Rows, Requests

LEMMA FlightKept ==
    ASSUME FlightTyped, flight' \subseteq flight, Requests \subseteq Requests'
    PROVE  FlightTyped'
  BY DEF FlightTyped, SuitsPosts

(* What changes neither the world nor what is seen, apart from the requests. *)
LEMMA RunnerTyped ==
    ASSUME Typed, UNCHANGED <<world, cohort>>, flight' \subseteq flight,
           spent' \in [1..Agents -> Nat], seen' \subseteq Rows, TurnTyped', TrackerTyped'
    PROVE  Typed'
<1>1. WorldTyped' /\ issued' = issued /\ Rows' = Rows /\ Requests' = Requests
  BY WorldKept DEF Typed
<1>2. FlightTyped'
  BY <1>1, FlightKept DEF Typed
<1>3. CohortTyped'
  BY <1>1 DEF Typed, CohortTyped
<1> QED
  BY <1>1, <1>2, <1>3 DEF Typed

LEMMA SameTracker ==
    ASSUME TrackerTyped, UNCHANGED <<world, tracker, log>>,
           knew' = knew \/ knew' \in [Steps -> 0..issued]
    PROVE  TrackerTyped'
  BY DEF TrackerTyped, tracker, world

LEMMA AgainTyped ==
    ASSUME Typed, pc = "wait", Again, UNCHANGED <<world, began, knew>>
    PROVE  TurnTyped' /\ TrackerTyped' /\ spent' \in [1..Agents -> Nat]
<1> USE DEF Typed
<1>1. plan \in [intent : Feed, target : Targets]
  BY DEF TurnTyped
<1>2. spent' \in [1..Agents -> Nat]
  <2>1. spent' = spent \/ spent' = [spent EXCEPT ![Position] = @ + 1]
    BY DEF Again
  <2>2. spent \in [1..Agents -> Nat] /\ Position \in 1..Agents
    BY SomeonesTurn DEF CohortTyped
  <2> HIDE DEF Typed
  <2> QED
    BY <2>1, <2>2
<1>3. CASE Record(plan, "failed")
  BY <1>1, <1>2, <1>3, RecordTyped
<1>4. CASE ~Record(plan, "failed")
  <2>1. /\ attempt <= Retries /\ pc' = "send" /\ attempt' = attempt + 1
        /\ UNCHANGED <<at, plan, redo, answer, tracker, log>>
        /\ spent' = [spent EXCEPT ![Position] = @ + 1]
    BY <1>4, Numbers DEF Again, TurnTyped
  <2>2. TrackerTyped'
    BY <2>1, SameTracker
  <2>3. attempt' \in 1..Retries + 1
    BY <2>1, Numbers DEF TurnTyped
  <2>4. TurnTyped'
    BY <2>1, <2>3 DEF TurnTyped, Step, SuitsPosts
  <2> QED
    BY <1>2, <2>2, <2>4
<1> QED
  BY <1>3, <1>4

LEMMA ReadTimelineTyped == Typed /\ ReadTimeline => Typed'
<1> SUFFICES ASSUME Typed, ReadTimeline PROVE Typed'
  OBVIOUS
<1>1. TurnTyped'
  BY DEF Typed, TurnTyped, ReadTimeline, request, Step, SuitsPosts
<1>2. TrackerTyped'
  BY SameTracker DEF Typed, ReadTimeline
<1>3. seen' \subseteq Rows /\ spent' \in [1..Agents -> Nat]
  BY DEF Typed, WorldTyped, CohortTyped, ReadTimeline, request
<1> QED
  BY <1>1, <1>2, <1>3, RunnerTyped DEF ReadTimeline

(* What Choose may aim at. *)
LEMMA CandidatesTyped ==
    ASSUME WorldTyped, seen \subseteq Rows, NEW replies, NEW listed \in {{}, (1..Fixtures) \cup alive}
    PROVE  PostCandidates(replies) \cup AgentCandidates(listed) \subseteq Targets
<1>1. PostCandidates(replies) \subseteq Targets
  <2>1. \A p \in seen : p.id \in Nat
    BY DEF WorldTyped, Rows
  <2> QED
    BY <2>1, PostsToAimAt DEF PostTarget, Targets
<1>2. AgentCandidates(listed) \subseteq Targets
  <2>1. \A p \in seen : p.author \in Nat
    BY DEF WorldTyped, Rows
  <2>2. listed \subseteq Nat
    <3>1. 1..issued \subseteq Nat /\ 1..Fixtures \subseteq Nat
      OBVIOUS
    <3> QED
      BY <3>1 DEF WorldTyped
  <2>3. ASSUME NEW t \in AgentCandidates(listed) PROVE t \in Targets
    <3>1. PICK a \in {p.author : p \in seen} \cup listed : t = AgentTarget(a)
      BY AgentsToAimAt
    <3>2. a \in Nat
      BY <2>1, <2>2
    <3> QED
      BY <3>1, <3>2 DEF AgentTarget, Targets
  <2> QED
    BY <2>3
<1> QED
  BY <1>1, <1>2

LEMMA ChooseTyped == Typed /\ Choose => Typed'
<1> SUFFICES ASSUME Typed, Choose PROVE Typed'
  OBVIOUS
<1> USE DEF Typed
<1>1. PICK read \in BOOLEAN, listed \in {{}, (1..Fixtures) \cup alive} :
          LET candidates == Cooled(PostCandidates(IF read THEN Shown(Actor) ELSE {})
                                       \cup AgentCandidates(listed))
          IN  \E p \in Plans(candidates) :
                 /\ knew' = IF p.intent = "reply" THEN [knew EXCEPT ![at] = Known(read)] ELSE knew
                 /\ IF p = Silence
                    THEN Record(p, "silence")
                    ELSE /\ plan' = p /\ pc' = "send"
                         /\ UNCHANGED <<at, redo, attempt, answer, tracker, log>>
  BY DEF Choose
<1> DEFINE candidates == Cooled(PostCandidates(IF read THEN Shown(Actor) ELSE {})
                                    \cup AgentCandidates(listed))
<1>2. PICK p \in Plans(candidates) :
          /\ knew' = knew \/ knew' = [knew EXCEPT ![at] = Known(read)]
          /\ \/ p = Silence /\ Record(p, "silence")
             \/ /\ plan' = p /\ pc' = "send"
                /\ UNCHANGED <<at, redo, attempt, answer, tracker, log>>
  BY <1>1
<1>3. candidates \in SUBSET Targets
  BY CandidatesTyped, CooledWithin
<1>4. p \in [intent : Feed, target : Targets] /\ SuitsPosts(p)
  <2> HIDE DEF candidates
  <2> QED
    BY <1>3, PlanTyped
<1>5. /\ pc = "choose" /\ began' = began /\ UNCHANGED world
      /\ knew' \in [Steps -> 0..issued]
  <2>1. at \in Steps /\ issued \in Nat /\ knew \in [Steps -> 0..issued] /\ Known(read) \in 0..issued
    BY DEF TurnTyped, TrackerTyped, WorldTyped, Known
  <2>2. pc = "choose" /\ began' = began /\ UNCHANGED world
    BY DEF Choose
  <2> QED
    BY <1>2, <2>1, <2>2
<1>6. TurnTyped' /\ TrackerTyped'
  <2>1. CASE Record(p, "silence")
    BY <1>2, <1>4, <1>5, <2>1, RecordTyped
  <2>2. CASE plan' = p /\ pc' = "send" /\ UNCHANGED <<at, redo, attempt, answer, tracker, log>>
    <3>1. TrackerTyped'
      BY <1>2, <1>5, <2>2, SameTracker
    <3>2. plan' \in [intent : Feed, target : Targets] /\ SuitsPosts(plan)'
      BY <1>4, <2>2 DEF SuitsPosts
    <3> QED
      BY <1>5, <2>2, <3>1, <3>2 DEF TurnTyped, Step
  <2> QED
    BY <1>2, <2>1, <2>2
<1>7. seen' \subseteq Rows /\ spent' \in [1..Agents -> Nat]
  BY DEF CohortTyped, Choose
<1> QED
  BY <1>6, <1>7, RunnerTyped DEF Choose

LEMMA SendTyped == Typed /\ Send => Typed'
<1> SUFFICES ASSUME Typed, Send PROVE Typed'
  OBVIOUS
<1> DEFINE q == [key |-> Key, attempt |-> attempt, by |-> Actor, at |-> at,
                 intent |-> plan.intent, target |-> plan.target]
<1>1. WorldTyped' /\ issued' = issued /\ Rows' = Rows /\ Requests' = Requests
  BY WorldKept DEF Typed, Send
<1>2. q \in Requests
  BY ActorTyped DEF Typed, TurnTyped, Requests, Key
<1>3. q.key[1] = q.at /\ SuitsPosts(q)
  BY DEF Typed, TurnTyped, SuitsPosts, Key
<1>4. flight' = flight \cup {q}
  BY DEF Send
<1>5. FlightTyped'
  <2> HIDE DEF q
  <2> QED
    BY <1>1, <1>2, <1>3, <1>4 DEF Typed, FlightTyped, SuitsPosts
<1>6. TurnTyped'
  BY DEF Typed, TurnTyped, Send, Step, Statuses, SuitsPosts
<1>7. TrackerTyped'
  BY SameTracker DEF Typed, Send
<1>8. CohortTyped' /\ seen' \subseteq Rows
  BY <1>1 DEF Typed, CohortTyped, Send
<1> QED
  BY <1>1, <1>5, <1>6, <1>7, <1>8 DEF Typed

LEMMA TimeOutTyped == Typed /\ TimeOut => Typed'
<1> SUFFICES ASSUME Typed, TimeOut PROVE Typed'
  OBVIOUS
<1>1. flight' \subseteq flight
  BY DEF TimeOut, Late
<1>2. TurnTyped' /\ TrackerTyped' /\ spent' \in [1..Agents -> Nat]
  BY AgainTyped DEF TimeOut
<1> QED
  BY <1>1, <1>2, RunnerTyped DEF TimeOut, Typed

LEMMA HearTyped == Typed /\ Hear => Typed'
<1> SUFFICES ASSUME Typed, Hear PROVE Typed'
  OBVIOUS
<1>1. CASE answer = "busy"
  <2>1. TurnTyped' /\ TrackerTyped' /\ spent' \in [1..Agents -> Nat]
    BY <1>1, AgainTyped DEF Hear
  <2> QED
    BY <2>1, RunnerTyped DEF Hear, Typed
<1>2. CASE answer # "busy"
  <2>1. TurnTyped' /\ TrackerTyped'
    BY <1>2, RecordTyped DEF Hear, Typed, TurnTyped
  <2>2. spent' \in [1..Agents -> Nat]
    BY <1>2 DEF Hear, Typed, CohortTyped
  <2> QED
    BY <2>1, <2>2, RunnerTyped DEF Hear, Typed
<1> QED
  BY <1>1, <1>2

LEMMA ReplaceTyped == Typed /\ Replace => Typed'
<1> SUFFICES ASSUME Typed, Replace PROVE Typed'
  OBVIOUS
<1>1. issued' = issued + 1 /\ issued \in Nat /\ alive' = alive \cup {issued'}
  BY DEF Replace, Typed, WorldTyped
<1>2. Rows \subseteq Rows' /\ Requests \subseteq Requests'
  BY <1>1 DEF Rows, Requests
<1>3. WorldTyped'
  <2>1. posts' = posts /\ feed' = feed /\ made' = made /\ resets' = resets
    BY DEF Replace
  <2>2. posts \subseteq Rows'
    BY <1>2 DEF Typed, WorldTyped
  <2>3. alive' \subseteq 1..issued' /\ issued' \in Nat /\ Fixtures <= issued' /\ alive \subseteq alive'
    BY <1>1, Numbers DEF Typed, WorldTyped
  <2> QED
    BY <2>1, <2>2, <2>3 DEF Typed, WorldTyped
<1>4. FlightTyped'
  BY <1>2, FlightKept DEF Replace, Typed
<1>5. CohortTyped'
  BY <1>1, SomeonesTurn DEF Replace, Typed, CohortTyped
<1>6. TurnTyped'
  <2>1. 1 \in 1..Retries + 1
    BY Numbers
  <2> QED
    BY <2>1 DEF Replace, Typed, TurnTyped, Step, SuitsPosts
<1>7. TrackerTyped'
  BY <1>1 DEF Replace, Typed, TrackerTyped, tracker
<1>8. seen' \subseteq Rows'
  BY <1>2 DEF Replace, Typed
<1> QED
  BY <1>3, <1>4, <1>5, <1>6, <1>7, <1>8 DEF Typed

LEMMA BlockedTyped == Typed /\ Blocked => Typed'
<1> SUFFICES ASSUME Typed, Blocked PROVE Typed'
  OBVIOUS
<1>1. TurnTyped' /\ TrackerTyped'
  BY RecordTyped DEF Blocked, Typed, TurnTyped
<1>2. spent' \in [1..Agents -> Nat]
  BY DEF Blocked, Typed, CohortTyped
<1> QED
  BY <1>1, <1>2, RunnerTyped DEF Blocked, Typed

(* The end of a run, the end of one by force, and the next. *)
LEMMA RunsTyped == Typed /\ (Stop \/ Kill \/ StartRun) => Typed'
<1>1. ASSUME Typed, Stop PROVE Typed'
  <2>1. TurnTyped' /\ TrackerTyped'
    BY <1>1, SameTracker DEF Stop, Typed, TurnTyped, request, SuitsPosts
  <2> QED
    BY <1>1, <2>1, RunnerTyped DEF Stop, Typed, CohortTyped, request
<1>2. ASSUME Typed, Kill PROVE Typed'
  <2>1. TrackerTyped'
    BY <1>2, SameTracker DEF Kill, Typed
  <2>2. plan' \in [intent : Feed, target : Targets] /\ SuitsPosts(plan)'
    BY <1>2, SilenceTyped DEF Kill, Idle, SuitsPosts
  <2>3. at' \in Steps /\ began' \in 1..at'
    BY <1>2, Numbers DEF Kill, Typed, TurnTyped, Steps
  <2>4. 1 \in 1..Retries + 1
    BY Numbers
  <2>5. redo' \in BOOLEAN /\ attempt' \in 1..Retries + 1 /\ answer' \in Statuses
    BY <1>2, <2>4 DEF Kill, Idle, Statuses
  <2>6. TurnTyped'
    BY <1>2, <2>2, <2>3, <2>5 DEF TurnTyped, Kill
  <2>7. flight' \subseteq flight
    BY <1>2 DEF Kill, Late
  <2> QED
    BY <1>2, <2>1, <2>6, <2>7, RunnerTyped DEF Kill, Typed, CohortTyped
<1>3. ASSUME Typed, StartRun PROVE Typed'
  <2>1. TurnTyped'
    BY <1>3 DEF StartRun, Typed, TurnTyped, SuitsPosts, Steps
  <2>2. << >> \in Seq(Feed) /\ Len(<< >>) = 0 /\ DOMAIN << >> = {}
    BY EmptySeq, LenProperties
  <2>3. TrackerTyped'
    BY <1>3, <2>2, Numbers DEF StartRun, Typed, TrackerTyped, world
  <2> QED
    BY <1>3, <2>1, <2>3, RunnerTyped DEF StartRun, Typed
<1> QED
  BY <1>1, <1>2, <1>3

LEMMA FixturesTyped ==
    ASSUME Fixtures <= issued, issued \in Nat
    PROVE  /\ IsFiniteSet(FixturePosts) /\ FixturePosts \subseteq Rows
           /\ \A p \in FixturePosts : p.parent = None /\ p.at = -p.id /\ p.at < 0 /\ p.at \in Int
           /\ FixtureItems \in Seq([post : Int, by : Int]) /\ DOMAIN FixtureItems = 1..Fixtures
           /\ \A i \in 1..Fixtures : /\ FixtureItems[i].post \in {p.id : p \in FixturePosts}
                                     /\ FixtureItems[i].by \in 1..Fixtures
<1>1. IsFiniteSet(FixturePosts)
  <2> DEFINE row == [i \in 1..Fixtures |-> [id |-> i, author |-> i, parent |-> None, at |-> -i]]
  <2>1. row \in Surjection(1..Fixtures, FixturePosts)
    BY DEF Surjection, FixturePosts
  <2>2. IsFiniteSet(1..Fixtures)
    BY FS_Interval, Numbers
  <2> HIDE DEF row
  <2> QED
    BY <2>1, <2>2, FS_Surjection
<1>2. FixturePosts \subseteq Rows
  BY Numbers DEF FixturePosts, Rows, Targets
<1>3. \A p \in FixturePosts : p.parent = None /\ p.at = -p.id /\ p.at < 0 /\ p.at \in Int
  BY Numbers DEF FixturePosts
<1>4. FixtureItems \in [1..Fixtures -> [post : Int, by : Int]]
  BY Numbers DEF FixtureItems
<1>5. FixtureItems \in Seq([post : Int, by : Int])
  BY <1>4, SeqDef, Numbers
<1>6. \A i \in 1..Fixtures : [id |-> i, author |-> i, parent |-> None, at |-> -i].id = i
  OBVIOUS
<1>7. \A i \in 1..Fixtures : i \in {p.id : p \in FixturePosts}
  BY <1>6 DEF FixturePosts
<1> QED
  BY <1>1, <1>2, <1>3, <1>5, <1>7 DEF FixtureItems

LEMMA ResetTyped == Typed /\ Reset => Typed'
<1> SUFFICES ASSUME Typed, Reset PROVE Typed'
  OBVIOUS
<1>1. issued' = issued /\ issued \in Nat /\ Fixtures <= issued /\ Rows' = Rows /\ Requests' = Requests
  BY DEF Reset, Typed, WorldTyped, Rows, Requests
<1>2. WorldTyped'
  <2>1. /\ posts' = FixturePosts /\ feed' = FixtureItems /\ alive' = {} /\ made' = {}
        /\ resets' \in 0..MaxResets
    BY Numbers DEF Reset, Typed, WorldTyped
  <2> QED
    BY <1>1, <2>1, FixturesTyped DEF WorldTyped
<1>3. FlightTyped'
  BY <1>1, FlightKept DEF Reset, Typed
<1>4. TurnTyped' /\ CohortTyped' /\ TrackerTyped' /\ seen' \subseteq Rows'
  BY <1>1 DEF Reset, Typed, TurnTyped, CohortTyped, TrackerTyped, request, tracker, Step, SuitsPosts
<1> QED
  BY <1>2, <1>3, <1>4 DEF Typed

LEMMA InitTyped == Init => Typed
<1> SUFFICES ASSUME Init PROVE Typed
  OBVIOUS
<1>1. Fixtures <= issued /\ issued \in Nat
  BY Numbers DEF Init
<1>2. WorldTyped
  <2>1. alive \subseteq 1..issued
    BY Numbers DEF Init
  <2>2. resets \in 0..MaxResets /\ made = {} /\ posts = FixturePosts /\ feed = FixtureItems
    BY Numbers DEF Init
  <2> QED
    BY <1>1, <2>1, <2>2, FixturesTyped DEF WorldTyped
<1>3. FlightTyped
  BY DEF Init, FlightTyped
<1>4. TurnTyped
  <2>1. 1 \in Steps /\ 1 \in 1..1 /\ 1 \in 1..Retries + 1
    BY Numbers DEF Steps
  <2>2. plan \in [intent : Feed, target : Targets] /\ SuitsPosts(plan)
    BY SilenceTyped DEF Init
  <2> QED
    BY <2>1, <2>2 DEF Init, TurnTyped, Statuses
<1>5. CohortTyped
  BY Numbers DEF Init, CohortTyped
<1>6. << >> \in Seq(Feed) /\ Len(<< >>) = 0 /\ DOMAIN << >> = {}
  BY EmptySeq, LenProperties
<1>7. TrackerTyped
  BY <1>6, Numbers DEF Init, TrackerTyped
<1> QED
  BY <1>2, <1>3, <1>4, <1>5, <1>7 DEF Init, Typed

LEMMA OutcomesAre ==
    ASSUME NEW q, NEW o \in Outcomes(q)
    PROVE  /\ o.status \in Statuses /\ o.effect \in BOOLEAN
           /\ o.effect => q.by \in alive /\ q.key \notin made /\ Exists(q.target)
           /\ o.status = "ok" /\ ~o.effect => q.by \in alive /\ q.key \in made
           /\ o.status = "rejected" => q.by \notin alive /\ ~o.effect
<1> USE DEF Statuses
<1>1. CASE o = [status |-> "busy", effect |-> FALSE]
  BY <1>1
<1>2. CASE q.by \notin alive /\ o = [status |-> "rejected", effect |-> FALSE]
  BY <1>2
<1>3. CASE q.by \in alive /\ q.key \in made /\ o \in [status : {"ok", "conflict"}, effect : {FALSE}]
  BY <1>3
<1>4. CASE o = [status |-> "refused", effect |-> FALSE]
  BY <1>4
<1>5. CASE /\ q.by \in alive /\ q.key \notin made /\ Exists(q.target)
           /\ o \in [status : {"ok", "busy"}, effect : {TRUE}]
  BY <1>5
<1>6. CASE o = [status |-> "conflict", effect |-> FALSE]
  BY <1>6
<1>7. CASE q.by \notin alive
  BY <1>1, <1>2, <1>7 DEF Outcomes
<1>8. CASE q.by \in alive /\ q.key \in made
  BY <1>1, <1>3, <1>6, <1>8 DEF Outcomes
<1>9. CASE q.by \in alive /\ q.key \notin made /\ ~Exists(q.target)
  BY <1>1, <1>4, <1>6, <1>9 DEF Outcomes
<1>10. CASE q.by \in alive /\ q.key \notin made /\ Exists(q.target)
  <2>1. \/ o = [status |-> "busy", effect |-> FALSE]
        \/ o \in [status : {"ok", "busy"}, effect : {TRUE}]
        \/ o = [status |-> "conflict", effect |-> FALSE]
    BY <1>10 DEF Outcomes
  <2> QED
    BY <1>1, <1>5, <1>6, <1>10, <2>1
<1> QED
  BY <1>7, <1>8, <1>9, <1>10

(* What the backend does with a request. *)
LEMMA ExecuteIs ==
    ASSUME Execute
    PROVE  \E q \in flight :
              /\ flight' = flight \ {q}
              /\ \/ UNCHANGED world
                 \/ /\ q.by \in alive /\ q.key \notin made /\ Exists(q.target)
                    /\ Effect(q)
<1>1. PICK q \in flight :
          /\ flight' = flight \ {q}
          /\ \E o \in Outcomes(q) : IF o.effect THEN Effect(q) ELSE UNCHANGED world
  BY DEF Execute
<1>2. PICK o \in Outcomes(q) : IF o.effect THEN Effect(q) ELSE UNCHANGED world
  BY <1>1
<1>3. CASE o.effect
  <2>1. q.by \in alive /\ q.key \notin made /\ Exists(q.target)
    BY <1>2, <1>3, OutcomesAre
  <2> QED
    BY <1>1, <1>2, <1>3, <2>1
<1>4. CASE ~o.effect
  BY <1>1, <1>2, <1>4
<1> QED
  BY <1>3, <1>4

LEMMA EffectTyped ==
    ASSUME WorldTyped, FlightTyped, NEW q \in flight, q.by \in alive, Exists(q.target), Effect(q)
    PROVE  WorldTyped' /\ issued' \in Nat /\ issued <= issued' /\ Rows \subseteq Rows'
           /\ Requests \subseteq Requests'
<1> DEFINE post == [id |-> issued + 1, author |-> q.by, at |-> q.at,
                    parent |-> IF q.intent = "reply" THEN q.target ELSE None]
           item == [post |-> IF q.intent = "repost" THEN q.target[2] ELSE post.id, by |-> q.by]
           ids == {p.id : p \in posts}
<1>1. q \in Requests /\ SuitsPosts(q) /\ issued \in Nat /\ q.key \in Steps \X BOOLEAN
  BY DEF FlightTyped, WorldTyped, Requests
<1>2. \/ posts' = posts \cup {post} /\ issued' = issued + 1
      \/ posts' = posts /\ issued' = issued /\ q.intent \notin {"root_post", "quote"}
  BY DEF Effect, Texts
<1>3. issued' \in Nat /\ issued <= issued'
  BY <1>1, <1>2
<1>4. Rows \subseteq Rows' /\ Requests \subseteq Requests'
  BY <1>1, <1>3 DEF Rows, Requests
<1>5. post \in [id : 1..issued + 1, author : 1..issued + 1, parent : Targets, at : Int]
  BY <1>1 DEF Requests, Steps, Targets
<1>6. posts' \subseteq Rows' /\ IsFiniteSet(posts') /\ posts \subseteq posts'
  <2>1. CASE posts' = posts \cup {post} /\ issued' = issued + 1
    <3>1. posts \subseteq Rows' /\ post \in Rows'
      BY <1>4, <1>5, <2>1 DEF WorldTyped, Rows
    <3> HIDE DEF post
    <3> QED
      BY <2>1, <3>1, FS_AddElement DEF WorldTyped
  <2>2. CASE posts' = posts /\ issued' = issued
    BY <2>2 DEF WorldTyped, Rows
  <2> QED
    BY <1>2, <2>1, <2>2
<1>7. made' \subseteq Steps \X BOOLEAN /\ alive' = alive /\ resets' = resets
  BY <1>1 DEF Effect, WorldTyped
<1>8. /\ feed' \in Seq([post : Int, by : Int])
      /\ \A i \in DOMAIN feed' : feed'[i].post \in {p.id : p \in posts'} /\ feed'[i].by \in (1..Fixtures) \cup alive
  <2>1. \A i \in DOMAIN feed : feed[i].post \in {p.id : p \in posts'} /\ feed[i].by \in (1..Fixtures) \cup alive
    BY <1>6 DEF WorldTyped
  <2>2. CASE feed' = feed
    BY <2>1, <2>2 DEF WorldTyped
  <2>3. CASE feed' = Append(feed, item) /\ q.intent \in {"root_post", "quote", "repost"}
    <3>1. item.post \in {p.id : p \in posts'} /\ item.by \in alive
      <4>1. CASE q.intent = "repost"
        <5>1. q.target[1] = "post" /\ q.target # None
          BY <1>1, <4>1 DEF SuitsPosts, OnPosts, None
        <5>2. PICK p \in posts : PostTarget(p.id) = q.target
          BY <5>1 DEF Exists
        <5> QED
          BY <1>6, <4>1, <5>2 DEF PostTarget
      <4>2. CASE q.intent # "repost"
        <5>1. post \in posts'
          BY <1>2, <2>3, <4>2
        <5> QED
          BY <4>2, <5>1
      <4> QED
        BY <4>1, <4>2
    <3>2. item \in [post : Int, by : Int]
      <4>1. {p.id : p \in posts'} \subseteq Int /\ alive \subseteq Int
        BY <1>3, <1>6 DEF WorldTyped, Rows
      <4> QED
        BY <3>1, <4>1
    <3> HIDE DEF item
    <3>3. /\ Append(feed, item) \in Seq([post : Int, by : Int])
          /\ DOMAIN Append(feed, item) = 1..Len(feed) + 1 /\ DOMAIN feed = 1..Len(feed)
          /\ \A i \in 1..Len(feed) : Append(feed, item)[i] = feed[i]
          /\ Append(feed, item)[Len(feed) + 1] = item /\ Len(feed) \in Nat
      BY <3>2, AppendProperties, LenProperties DEF WorldTyped
    <3>4. ASSUME NEW i \in 1..Len(feed) + 1
          PROVE  feed'[i].post \in {p.id : p \in posts'} /\ feed'[i].by \in (1..Fixtures) \cup alive
      <4>1. CASE i \in 1..Len(feed)
        <5>1. feed'[i] = feed[i]
          BY <2>3, <3>3, <4>1
        <5> QED
          BY <2>1, <3>3, <4>1, <5>1
      <4>2. CASE i = Len(feed) + 1
        BY <2>3, <3>1, <3>3, <4>2
      <4> QED
        BY <3>3, <4>1, <4>2
    <3> QED
      BY <2>3, <3>3, <3>4
  <2>4. feed' = feed \/ (feed' = Append(feed, item) /\ q.intent \in {"root_post", "quote", "repost"})
    BY DEF Effect
  <2> QED
    BY <2>2, <2>3, <2>4
<1>9. Fixtures <= issued' /\ alive \subseteq 1..issued'
  BY <1>3, Numbers DEF WorldTyped
<1> QED
  BY <1>3, <1>4, <1>6, <1>7, <1>8, <1>9 DEF WorldTyped

LEMMA ExecuteTyped == Typed /\ Execute => Typed'
<1> SUFFICES ASSUME Typed, Execute PROVE Typed'
  OBVIOUS
<1>1. PICK q \in flight : /\ flight' = flight \ {q}
                          /\ \/ UNCHANGED world
                             \/ q.by \in alive /\ Exists(q.target) /\ Effect(q)
  BY ExecuteIs
<1>2. /\ WorldTyped' /\ issued \in Nat /\ issued' \in Nat /\ issued <= issued'
      /\ Rows \subseteq Rows' /\ Requests \subseteq Requests'
  <2>1. CASE UNCHANGED world
    BY <2>1, WorldKept DEF Typed, WorldTyped
  <2>2. CASE q.by \in alive /\ Exists(q.target) /\ Effect(q)
    BY <2>2, EffectTyped DEF Typed, WorldTyped
  <2> QED
    BY <1>1, <2>1, <2>2
<1>3. FlightTyped'
  BY <1>1, <1>2, FlightKept DEF Typed
<1>4. answer' \in Statuses
  <2>1. \A r \in flight : \A o \in Outcomes(r) : o.status \in Statuses
    BY OutcomesAre
  <2> QED
    BY <2>1 DEF Execute, Typed, TurnTyped
<1>5. TurnTyped' /\ TrackerTyped'
  <2>1. TurnTyped'
    BY <1>4 DEF Execute, Typed, TurnTyped, Step, SuitsPosts
  <2>2. TrackerTyped'
    BY <1>2 DEF Execute, Typed, TrackerTyped, tracker
  <2> QED
    BY <2>1, <2>2
<1>6. CohortTyped'
  BY <1>2 DEF Execute, Typed, CohortTyped
<1>7. seen' \subseteq Rows'
  BY <1>2 DEF Execute, Typed
<1> QED
  BY <1>2, <1>3, <1>5, <1>6, <1>7 DEF Typed

LEMMA TypedStep == Typed /\ [Next]_vars => Typed'
<1> SUFFICES ASSUME Typed, [Next]_vars PROVE Typed'
  OBVIOUS
<1>1. CASE UNCHANGED vars
  <2>1. UNCHANGED <<world, flight, pc, at, began, cohort, seen, request, tracker, log, knew>>
    BY <1>1 DEF vars
  <2>2. WorldTyped' /\ issued' = issued /\ Rows' = Rows /\ Requests' = Requests
    BY <2>1, WorldKept DEF Typed
  <2>3. FlightTyped' /\ seen' \subseteq Rows'
    BY <2>1, <2>2, FlightKept DEF Typed
  <2>4. TurnTyped' /\ CohortTyped' /\ TrackerTyped'
    BY <2>1, <2>2 DEF Typed, TurnTyped, CohortTyped, TrackerTyped, request, tracker, Step, SuitsPosts
  <2> QED
    BY <2>2, <2>3, <2>4 DEF Typed
<1>2. CASE Runner
  BY <1>2, ReadTimelineTyped, ChooseTyped, SendTyped, TimeOutTyped, HearTyped, ReplaceTyped,
     BlockedTyped, RunsTyped DEF Runner
<1>3. CASE Kill \/ StartRun
  BY <1>3, RunsTyped
<1>4. CASE Execute \/ Reset
  BY <1>4, ExecuteTyped, ResetTyped
<1> QED
  BY <1>1, <1>2, <1>3, <1>4 DEF Next

(* Type correctness of every variable, requests under way included, with what    *)
(* each place of a run says of its step.                                      *)
THEOREM TypedHolds == Spec => []Typed
  BY InitTyped, TypedStep, PTL DEF Spec

(* The state of a run, of the requests under way and of the world they change   *)
(* has the expected type, and the tracker keeps to its window.                 *)
THEOREM TypeCorrect == Spec => []TypeOK
<1>1. Typed => TypeOK
  <2> SUFFICES ASSUME Typed PROVE TypeOK
    OBVIOUS
  <2> USE DEF Typed
  <2>1. \A p \in posts : p.id \in 1..issued /\ p.author \in 1..issued /\ p.parent \in Targets
    BY DEF WorldTyped, Rows
  <2>2. \A q \in flight : q.by \in 1..issued /\ q.at \in Steps /\ q.attempt \in 1..Retries + 1
    BY DEF FlightTyped, Requests
  <2>3. plan.intent \in Feed /\ plan.target \in Targets
    BY DEF TurnTyped
  <2>4. \A l \in log : l.at \in Steps /\ l.intent \in Feed
    BY DEF TrackerTyped
  <2> QED
    BY <2>1, <2>2, <2>3, <2>4 DEF TypeOK, WorldTyped, TurnTyped, CohortTyped, TrackerTyped
<1> QED
  BY <1>1, TypedHolds, PTL

-----------------------------------------------------------------------------
(* One effect of a step *)

(* A step of the runner closes the turn, goes on with it, plans it, sends a       *)
(* request or has the agent replaced.                                        *)
Closes ==
    /\ pc \notin {"next", "stopped"} /\ pc' \in {"next", "stopped"} /\ at' = at + 1 /\ redo' = FALSE
    /\ UNCHANGED <<world, cohort, knew>> /\ flight' \subseteq flight
    /\ \/ log' = log
       \/ pc = "wait" /\ answer = "ok" /\ log' = log \cup {[at |-> at, intent |-> plan.intent]}

GoesOn ==
    /\ UNCHANGED <<world, cohort, at, redo, plan, log, knew>> /\ flight' \subseteq flight
    /\ pc \in {"send", "wait"} <=> pc' \in {"send", "wait"}
    /\ pc' = "wait" => pc = "wait" /\ answer' = answer
    /\ pc' \in {"send", "wait"} => began' = began

PlansTurn ==
    /\ pc = "choose" /\ pc' = "send"
    /\ UNCHANGED <<world, flight, at, began, cohort, redo, answer, log>>
    /\ plan' \in [intent : Feed, target : Targets]
    /\ \/ plan'.intent # "reply" /\ knew' = knew
       \/ knew' = [knew EXCEPT ![at] = 0]
       \/ /\ knew' = [knew EXCEPT ![at] = issued]
          /\ plan'.target[1] = "post"
          /\ RepliesOf(Actor) = {} \/ plan'.target \notin {r.parent : r \in Shown(Actor)}

LEMMA AgainIs ==
    ASSUME pc = "wait", Again, UNCHANGED <<world, began, cohort, knew>>, flight' \subseteq flight
    PROVE  Closes \/ GoesOn
<1>1. CASE Record(plan, "failed")
  BY <1>1 DEF Record, Idle, Closes
<1>2. CASE ~Record(plan, "failed")
  BY <1>2 DEF Again, GoesOn
<1> QED
  BY <1>1, <1>2

LEMMA ChooseIs ==
    ASSUME Typed, Choose
    PROVE  Closes \/ PlansTurn
<1> USE DEF Typed
<1>1. PICK read \in BOOLEAN, listed \in {{}, (1..Fixtures) \cup alive} :
          LET candidates == Cooled(PostCandidates(IF read THEN Shown(Actor) ELSE {})
                                       \cup AgentCandidates(listed))
          IN  \E p \in Plans(candidates) :
                 /\ knew' = IF p.intent = "reply" THEN [knew EXCEPT ![at] = Known(read)] ELSE knew
                 /\ IF p = Silence
                    THEN Record(p, "silence")
                    ELSE /\ plan' = p /\ pc' = "send"
                         /\ UNCHANGED <<at, redo, attempt, answer, tracker, log>>
  BY DEF Choose
<1> DEFINE replies == IF read THEN Shown(Actor) ELSE {}
           candidates == Cooled(PostCandidates(replies) \cup AgentCandidates(listed))
<1>2. PICK p \in Plans(candidates) :
          /\ knew' = IF p.intent = "reply" THEN [knew EXCEPT ![at] = Known(read)] ELSE knew
          /\ IF p = Silence
             THEN Record(p, "silence")
             ELSE /\ plan' = p /\ pc' = "send"
                  /\ UNCHANGED <<at, redo, attempt, answer, tracker, log>>
  BY <1>1
<1>3. candidates \subseteq PostCandidates(replies) \cup AgentCandidates(listed)
  BY CooledWithin
<1>4. CASE p = Silence
  <2>1. p.intent # "reply" /\ Record(p, "silence")
    BY <1>2, <1>4 DEF Silence
  <2> QED
    BY <1>2, <2>1 DEF Record, Idle, Closes, Choose
<1>5. CASE p # Silence
  <2>1. p \in [intent : Feed, target : Targets]
    <3>1. candidates \in SUBSET Targets
      BY <1>3, CandidatesTyped
    <3> HIDE DEF candidates
    <3> QED
      BY <3>1, PlanTyped
  <2>2. ASSUME p.intent = "reply"
        PROVE  p.target[1] = "post" /\ p.target \notin {r.parent : r \in replies}
    <3>1. p.target \in candidates /\ p.target[1] = "post"
      <4> HIDE DEF candidates
      <4> QED
        BY <1>5, <2>2, PlanIs DEF Fits
    <3>2. p.target \notin AgentCandidates(listed)
      BY <3>1, AgentsToAimAt DEF AgentTarget
    <3>3. p.target \in PostCandidates(replies)
      BY <1>3, <3>1, <3>2
    <3> QED
      BY <3>1, <3>3, PostsToAimAt
  <2>3. /\ pc = "choose" /\ pc' = "send" /\ plan' = p
        /\ UNCHANGED <<world, flight, at, began, cohort, redo, answer, log>>
    BY <1>2, <1>5 DEF Choose
  <2>4. \/ p.intent # "reply" /\ knew' = knew
        \/ knew' = [knew EXCEPT ![at] = 0]
        \/ /\ knew' = [knew EXCEPT ![at] = issued]
           /\ p.target[1] = "post"
           /\ RepliesOf(Actor) = {} \/ p.target \notin {r.parent : r \in Shown(Actor)}
    BY <1>2, <2>2 DEF Known
  <2> QED
    BY <2>1, <2>3, <2>4 DEF PlansTurn
<1> QED
  BY <1>4, <1>5

LEMMA StepKinds ==
    ASSUME Typed, [Next]_vars
    PROVE  Closes \/ GoesOn \/ PlansTurn \/ Send \/ Replace \/ Execute \/ Reset
<1>1. CASE UNCHANGED vars
  BY <1>1 DEF vars, request, GoesOn
<1>2. CASE ReadTimeline \/ Stop \/ StartRun
  BY <1>2 DEF ReadTimeline, Stop, StartRun, request, GoesOn
<1>3. CASE TimeOut
  <2>1. flight' \subseteq flight
    BY <1>3 DEF TimeOut, Late
  <2> QED
    BY <1>3, <2>1, AgainIs DEF TimeOut
<1>4. CASE Hear
  <2>1. CASE answer = "busy"
    BY <1>4, <2>1, AgainIs DEF Hear
  <2>2. CASE answer # "busy"
    BY <1>4, <2>2 DEF Hear, Record, Idle, Report, Closes
  <2> QED
    BY <2>1, <2>2
<1>5. CASE Blocked
  BY <1>5 DEF Blocked, Record, Idle, Closes
<1>6. CASE Kill
  <2>1. flight' \subseteq flight
    BY <1>6 DEF Kill, Late
  <2> QED
    BY <1>6, <2>1 DEF Kill, Idle, Closes
<1>7. CASE Choose
  BY <1>7, ChooseIs
<1> QED
  BY <1>1, <1>2, <1>3, <1>4, <1>5, <1>6, <1>7 DEF Next, Runner

(* What the types say of the keys. *)
LEMMA KeyTypes ==
    ASSUME Typed
    PROVE  /\ at \in Nat /\ at \in Steps /\ LastSent \in Int /\ LastSent <= at /\ redo \in BOOLEAN
           /\ \A k \in made : k \in Steps \X BOOLEAN /\ k[1] \in Nat
           /\ \A q \in flight : /\ q.at \in Steps /\ q.at \in Nat /\ q.key[1] = q.at
                                /\ q.key \in Steps \X BOOLEAN /\ q.by \in 1..issued
           /\ \A l \in log : l.at \in Nat
           /\ \A p \in posts : p.at \in Int /\ p.id \in 1..issued /\ p.author \in 1..issued
           /\ issued \in Nat /\ alive \subseteq 1..issued /\ Actor \in 1..issued
<1> USE DEF Typed
<1>1. Steps \subseteq Nat
  BY Numbers DEF Steps
<1>2. at \in Nat /\ at \in Steps /\ redo \in BOOLEAN
  BY <1>1 DEF TurnTyped
<1>3. LastSent \in Int /\ LastSent <= at
  BY <1>2 DEF LastSent
<1>4. \A k \in made : k \in Steps \X BOOLEAN /\ k[1] \in Nat
  BY <1>1 DEF WorldTyped
<1>5. \A q \in flight : /\ q.at \in Steps /\ q.at \in Nat /\ q.key[1] = q.at
                        /\ q.key \in Steps \X BOOLEAN /\ q.by \in 1..issued
  BY <1>1 DEF FlightTyped, Requests
<1>6. \A l \in log : l.at \in Nat
  BY <1>1 DEF TrackerTyped
<1>7. /\ \A p \in posts : p.at \in Int /\ p.id \in 1..issued /\ p.author \in 1..issued
      /\ issued \in Nat /\ alive \subseteq 1..issued
  BY DEF WorldTyped, Rows
<1> QED
  BY <1>2, <1>3, <1>4, <1>5, <1>6, <1>7, ActorTyped

LEMMA InitEffect == Init => EffectInvariant
<1> SUFFICES ASSUME Init PROVE EffectInvariant
  OBVIOUS
<1>1. NothingAhead
  BY DEF Init, NothingAhead
<1>2. TurnInvariant
  BY DEF Init, TurnInvariant, Writing
<1>3. RedoneForGood
  BY DEF Init, RedoneForGood, Redone
<1>4. OneEffectPerStep
  BY Numbers DEF Init, OneEffectPerStep, FixturePosts
<1> QED
  BY <1>1, <1>2, <1>3, <1>4 DEF EffectInvariant

LEMMA ClosesEffect ==
    ASSUME Typed, EffectInvariant, Closes
    PROVE  EffectInvariant'
<1> USE DEF EffectInvariant
<1>1. /\ posts' = posts /\ made' = made /\ alive' = alive /\ cohort' = cohort
      /\ flight' \subseteq flight /\ at' = at + 1 /\ redo' = FALSE /\ LastSent' = at /\ ~Writing'
  BY KeyTypes DEF Closes, world, LastSent, Writing
<1>2. NothingAhead'
  <2>1. \A k \in made' : k[1] <= at
    BY <1>1, KeyTypes DEF NothingAhead
  <2>2. \A q \in flight' : q.at <= at
    BY <1>1, KeyTypes DEF NothingAhead
  <2>3. \A l \in log' : l.at < at'
    BY <1>1, KeyTypes DEF NothingAhead, Closes
  <2> QED
    BY <1>1, <2>1, <2>2, <2>3 DEF NothingAhead
<1>3. \A q \in flight' : q.at # at' /\ q.key[1] # at'
  BY <1>1, <1>2, KeyTypes DEF NothingAhead
<1>4. TurnInvariant'
  BY <1>1, <1>3 DEF TurnInvariant, Closes, Writing
<1>5. RedoneForGood'
  <2>1. ~Redone(at)'
    <3>1. <<at', TRUE>>[1] = at'
      OBVIOUS
    <3>2. <<at', TRUE>> \notin made'
      BY <1>1, <3>1, KeyTypes DEF NothingAhead
    <3>3. \A q \in flight' : q.key # <<at', TRUE>>
      BY <1>3, <3>1
    <3> QED
      BY <1>1, <3>2, <3>3 DEF Redone
  <2>2. ASSUME NEW step \in Steps, Redone(step)' PROVE Redone(step)
    BY <1>1, <2>2 DEF Redone
  <2> QED
    BY <1>1, <2>1, <2>2 DEF RedoneForGood
<1>6. OneEffectPerStep'
  BY <1>1 DEF OneEffectPerStep
<1> QED
  BY <1>2, <1>4, <1>5, <1>6

LEMMA GoesOnEffect ==
    ASSUME Typed, EffectInvariant, GoesOn
    PROVE  EffectInvariant'
<1> USE DEF EffectInvariant
<1>1. /\ posts' = posts /\ made' = made /\ alive' = alive /\ cohort' = cohort /\ log' = log
      /\ flight' \subseteq flight /\ at' = at /\ redo' = redo /\ plan' = plan
      /\ LastSent' = LastSent /\ Key' = Key /\ (Writing' <=> Writing) /\ (Writing' => Actor' = Actor)
  BY DEF GoesOn, world, LastSent, Writing, Key, Actor, Position, Step
<1>2. NothingAhead'
  BY <1>1 DEF NothingAhead
<1>3. TurnInvariant'
  <2>1. ASSUME NEW q \in flight', q.at = at', q.key = Key' PROVE q.by = Actor'
    <3>1. Writing
      BY <1>1, <2>1, KeyTypes DEF NothingAhead, LastSent
    <3> QED
      BY <1>1, <2>1, <3>1 DEF TurnInvariant
  <2>2. pc' = "wait" => pc = "wait" /\ answer' = answer /\ Writing'
    BY DEF GoesOn, Writing
  <2>3. Writing' /\ Key' \in made' => Actor' \in alive'
    BY <1>1 DEF TurnInvariant
  <2>4. pc' = "wait" /\ answer' = "rejected" => Actor' \notin alive'
    BY <1>1, <2>2 DEF TurnInvariant
  <2>5. \A q \in flight' : q.at = at' => q.intent = plan'.intent /\ q.target = plan'.target
    BY <1>1 DEF TurnInvariant
  <2> QED
    BY <2>1, <2>3, <2>4, <2>5 DEF TurnInvariant
<1>4. RedoneForGood'
  <2>1. \A step : Redone(step)' => Redone(step)
    BY <1>1 DEF Redone
  <2> QED
    BY <1>1, <2>1 DEF RedoneForGood
<1>5. OneEffectPerStep'
  BY <1>1 DEF OneEffectPerStep
<1> QED
  BY <1>2, <1>3, <1>4, <1>5

LEMMA PlanEffect ==
    ASSUME Typed, EffectInvariant, PlansTurn
    PROVE  EffectInvariant'
<1> USE DEF EffectInvariant
<1>1. /\ posts' = posts /\ made' = made /\ alive' = alive /\ log' = log /\ flight' = flight
      /\ at' = at /\ redo' = redo /\ LastSent = at - 1 /\ LastSent' = at /\ Key' = Key /\ pc' = "send"
  BY DEF PlansTurn, world, LastSent, Writing, Key
<1>2. NothingAhead'
  BY <1>1, KeyTypes DEF NothingAhead
<1>3. (\A q \in flight : q.at # at) /\ Key \notin made
  BY <1>1, KeyTypes DEF NothingAhead, Key
<1>4. TurnInvariant'
  BY <1>1, <1>3 DEF TurnInvariant
<1>5. RedoneForGood'
  BY <1>1 DEF RedoneForGood, Redone
<1>6. OneEffectPerStep'
  BY <1>1 DEF OneEffectPerStep
<1> QED
  BY <1>2, <1>4, <1>5, <1>6

LEMMA SendEffect ==
    ASSUME Typed, EffectInvariant, Send
    PROVE  EffectInvariant'
<1> USE DEF EffectInvariant
<1> DEFINE new == [key |-> Key, attempt |-> attempt, by |-> Actor, at |-> at,
                   intent |-> plan.intent, target |-> plan.target]
<1>1. /\ posts' = posts /\ made' = made /\ alive' = alive /\ log' = log /\ at' = at /\ redo' = redo
      /\ plan' = plan /\ Key' = Key /\ Actor' = Actor /\ pc = "send" /\ pc' = "wait" /\ answer' = "none"
      /\ LastSent = at /\ LastSent' = at /\ Writing /\ Writing'
  BY DEF Send, world, LastSent, Writing, Key, Actor, Position, Step
<1>2. /\ new.key = Key /\ new.by = Actor /\ new.at = at /\ new.intent = plan.intent
      /\ new.target = plan.target /\ flight' = flight \cup {new}
  BY DEF Send
<1> HIDE DEF new
<1>3. NothingAhead'
  BY <1>1, <1>2, KeyTypes DEF NothingAhead
<1>4. TurnInvariant'
  BY <1>1, <1>2 DEF TurnInvariant
<1>5. RedoneForGood'
  <2>1. \A step : Redone(step)' <=> Redone(step)
    <3>1. ASSUME NEW step, new.key = <<step, TRUE>> PROVE redo /\ step = at
      <4>1. redo = TRUE /\ step = at
        <5>1. <<at, redo>> = <<step, TRUE>>
          BY <1>2, <3>1 DEF Key
        <5>2. <<at, redo>>[1] = at /\ <<at, redo>>[2] = redo /\ <<step, TRUE>>[1] = step /\ <<step, TRUE>>[2] = TRUE
          OBVIOUS
        <5> QED
          BY <5>1, <5>2, Zenon
      <4> QED
        BY <4>1
    <3> QED
      BY <1>1, <1>2, <3>1 DEF Redone
  <2>2. ASSUME NEW step \in Steps, Redone(step), NEW q \in flight', q.key = <<step, FALSE>>
        PROVE  q.by \notin alive
    <3>1. q # new
      <4>1. step = at => redo = TRUE
        BY <2>2, KeyTypes DEF RedoneForGood
      <4>2. Key = <<step, FALSE>> => step = at /\ redo = FALSE
        BY DEF Key
      <4> QED
        BY <1>2, <2>2, <4>1, <4>2
    <3> QED
      BY <1>2, <2>2, <3>1 DEF RedoneForGood
  <2> QED
    BY <1>1, <2>1, <2>2 DEF RedoneForGood
<1>6. OneEffectPerStep'
  BY <1>1 DEF OneEffectPerStep
<1> QED
  BY <1>3, <1>4, <1>5, <1>6

(* The token was rejected: the first account has not carried the plan out. *)
LEMMA ReplaceEffect ==
    ASSUME Typed, EffectInvariant, Replace
    PROVE  EffectInvariant'
<1> USE DEF EffectInvariant
<1>1. /\ posts' = posts /\ made' = made /\ log' = log /\ at' = at /\ redo = FALSE /\ redo' = TRUE
      /\ plan' = plan /\ Key = <<at, FALSE>> /\ Key' = <<at, TRUE>> /\ flight' = flight
      /\ pc = "wait" /\ answer = "rejected" /\ pc' = "send" /\ LastSent = at /\ LastSent' = at
      /\ Writing /\ issued' = issued + 1 /\ alive' = alive \cup {issued'}
  BY KeyTypes DEF Replace, LastSent, Writing, Key
<1>2. NothingAhead'
  BY <1>1, KeyTypes DEF NothingAhead
<1>3. Actor \notin alive /\ Key \notin made /\ ~Redone(at)
  BY <1>1 DEF TurnInvariant, RedoneForGood
<1>4. /\ \A q \in flight : q.key # <<at, TRUE>> /\ (q.key = <<at, FALSE>> => q.by = Actor)
      /\ <<at, TRUE>> \notin made
  <2>1. \A q \in flight : q.key = <<at, FALSE>> => q.at = at
    BY KeyTypes
  <2> QED
    BY <1>1, <1>3, <2>1 DEF Redone, TurnInvariant
<1>5. TurnInvariant'
  BY <1>1, <1>4 DEF TurnInvariant
<1>6. RedoneForGood'
  <2>1. \A step : Redone(step)' <=> Redone(step) \/ step = at
    BY <1>1 DEF Redone
  <2>2. \A q \in flight : q.by \in alive' => q.by \in alive
    BY <1>1, KeyTypes
  <2>3. ASSUME NEW step \in Steps, Redone(step)'
        PROVE  /\ <<step, FALSE>> \notin made
               /\ \A q \in flight : q.key = <<step, FALSE>> => q.by \notin alive
    <3>1. CASE step = at
      BY <1>1, <1>3, <1>4, <3>1
    <3>2. CASE Redone(step)
      BY <3>2 DEF RedoneForGood
    <3> QED
      BY <2>1, <2>3, <3>1, <3>2
  <2> QED
    BY <1>1, <2>2, <2>3 DEF RedoneForGood
<1>7. OneEffectPerStep'
  BY <1>1 DEF OneEffectPerStep
<1> QED
  BY <1>2, <1>5, <1>6, <1>7

LEMMA ExecuteEffect ==
    ASSUME Typed, EffectInvariant, Execute
    PROVE  EffectInvariant'
<1> USE DEF EffectInvariant
<1>1. PICK q \in flight :
          /\ flight' = flight \ {q}
          /\ \E o \in Outcomes(q) :
                /\ IF o.effect THEN Effect(q) ELSE UNCHANGED world
                /\ answer' = IF pc = "wait" /\ q.key = Key /\ q.attempt = attempt THEN o.status ELSE answer
  BY DEF Execute
<1>2. PICK o \in Outcomes(q) :
          /\ IF o.effect THEN Effect(q) ELSE UNCHANGED world
          /\ answer' = IF pc = "wait" /\ q.key = Key /\ q.attempt = attempt THEN o.status ELSE answer
  BY <1>1
<1>3. /\ pc' = pc /\ at' = at /\ redo' = redo /\ plan' = plan /\ cohort' = cohort /\ log' = log
      /\ Key' = Key /\ Actor' = Actor /\ LastSent' = LastSent /\ (Writing' <=> Writing)
      /\ alive' = alive
  BY <1>2 DEF Execute, Effect, world, LastSent, Writing, Key, Actor, Position, Step
<1>4. /\ q.at \in Steps /\ q.key \in Steps \X BOOLEAN /\ q.key[1] = q.at /\ q.at <= LastSent
      /\ (q.key = Key => q.at = at)
  BY KeyTypes DEF NothingAhead, Key
<1>5. made' = made \/ (o.effect /\ made' = made \cup {q.key})
  BY <1>2 DEF Effect, world
<1>6. \/ posts' = posts
      \/ o.effect /\ \E p : p.at = q.at /\ posts' = posts \cup {p}
  <2> DEFINE post == [id |-> issued + 1, author |-> q.by, at |-> q.at,
                      parent |-> IF q.intent = "reply" THEN q.target ELSE None]
  <2>1. post.at = q.at
    OBVIOUS
  <2> QED
    BY <1>2, <2>1 DEF Effect, world
<1>7. o.effect => q.by \in alive /\ q.key \notin made /\ made' = made \cup {q.key}
  BY <1>2, OutcomesAre DEF Effect
<1>8. q.key = <<q.at, q.key[2]>> /\ q.key[2] \in BOOLEAN
  BY <1>4
<1>9. NothingAhead'
  <2>1. \A k \in made' : k[1] <= LastSent
    BY <1>4, <1>5 DEF NothingAhead
  <2>2. \A p \in posts' : p \in FixturePosts \/ \E again \in BOOLEAN : <<p.at, again>> \in made'
    <3>1. \A p \in posts : p \in FixturePosts \/ \E again \in BOOLEAN : <<p.at, again>> \in made'
      BY <1>5 DEF NothingAhead
    <3>2. o.effect => <<q.at, q.key[2]>> \in made'
      BY <1>7, <1>8
    <3> QED
      BY <1>6, <1>8, <3>1, <3>2
  <2> QED
    BY <1>1, <1>3, <2>1, <2>2 DEF NothingAhead
<1>10. TurnInvariant'
  <2>1. Writing /\ Key \in made' => Actor \in alive
    BY <1>4, <1>5, <1>7 DEF TurnInvariant
  <2>2. pc = "wait" /\ answer' = "rejected" => Actor \notin alive
    <3>1. CASE q.key = Key
      <4>1. q.by = Actor
        BY <1>4, <3>1 DEF TurnInvariant
      <4> QED
        BY <1>2, <4>1, OutcomesAre DEF TurnInvariant
    <3>2. CASE q.key # Key
      BY <1>2, <3>2 DEF TurnInvariant
    <3> QED
      BY <3>1, <3>2
  <2> QED
    BY <1>1, <1>3, <2>1, <2>2 DEF TurnInvariant
<1>11. RedoneForGood'
  <2>1. ASSUME NEW step, Redone(step)' PROVE Redone(step)
    BY <1>1, <1>3, <1>5, <2>1 DEF Redone
  <2>2. ASSUME NEW step \in Steps, Redone(step)
        PROVE  <<step, FALSE>> \notin made'
    BY <1>5, <1>7, <2>2 DEF RedoneForGood
  <2> QED
    BY <1>1, <1>3, <2>1, <2>2 DEF RedoneForGood
<1>12. OneEffectPerStep'
  <2>1. CASE posts' = posts
    BY <2>1 DEF OneEffectPerStep
  <2>2. CASE o.effect
    <3>1. ASSUME NEW p \in posts PROVE p.at # q.at
      <4>1. CASE p \in FixturePosts
        BY <1>4, <4>1, KeyTypes, FixturesTyped, Numbers DEF Typed, WorldTyped, Steps
      <4>2. ASSUME NEW again \in BOOLEAN, <<p.at, again>> \in made, p.at = q.at PROVE FALSE
        <5>1. CASE again = TRUE
          <6>1. Redone(q.at)
            BY <4>2, <5>1 DEF Redone
          <6> QED
            BY <1>4, <1>7, <1>8, <2>2, <4>2, <5>1, <6>1 DEF RedoneForGood
        <5>2. CASE again = FALSE
          <6>1. q.key = <<q.at, TRUE>>
            BY <1>7, <1>8, <2>2, <4>2, <5>2
          <6>2. Redone(q.at)
            BY <6>1 DEF Redone
          <6> QED
            BY <1>4, <4>2, <5>2, <6>2 DEF RedoneForGood
        <5> QED
          BY <4>2, <5>1, <5>2
      <4> QED
        BY <4>1, <4>2 DEF NothingAhead
    <3> QED
      BY <1>6, <3>1 DEF OneEffectPerStep
  <2> QED
    BY <1>6, <2>1, <2>2
<1> QED
  BY <1>9, <1>10, <1>11, <1>12

LEMMA ResetEffect ==
    ASSUME Typed, EffectInvariant, Reset
    PROVE  EffectInvariant'
<1> USE DEF EffectInvariant
<1>1. /\ posts' = FixturePosts /\ made' = {} /\ alive' = {} /\ flight' = flight /\ pc' = pc /\ at' = at
      /\ redo' = redo /\ plan' = plan /\ cohort' = cohort /\ log' = log
      /\ Key' = Key /\ Actor' = Actor /\ LastSent' = LastSent
  BY DEF Reset, request, LastSent, Writing, Key, Actor, Position, Step
<1>2. NothingAhead'
  BY <1>1 DEF NothingAhead
<1>3. TurnInvariant'
  BY <1>1 DEF TurnInvariant
<1>4. RedoneForGood'
  BY <1>1 DEF RedoneForGood, Redone
<1>5. OneEffectPerStep'
  BY <1>1, Numbers DEF OneEffectPerStep, FixturePosts
<1> QED
  BY <1>2, <1>3, <1>4, <1>5

LEMMA EffectStep ==
    ASSUME Typed, EffectInvariant, [Next]_vars
    PROVE  EffectInvariant'
  BY StepKinds, ClosesEffect, GoesOnEffect, PlanEffect, SendEffect, ReplaceEffect, ExecuteEffect,
     ResetEffect

(* Nothing is ahead of the step, and who may carry out a step is settled by its   *)
(* keys: the inductive invariant of what a step leaves behind.                *)
THEOREM EffectInvariantHolds == Spec => []EffectInvariant
  BY InitEffect, EffectStep, TypedHolds, PTL DEF Spec

(* A step leaves at most one post, however often its request is repeated,       *)
(* answered late or carried out again by another account, with resets between. *)
THEOREM OneEffectHolds == Spec => []OneEffectPerStep
<1>1. EffectInvariant => OneEffectPerStep
  BY DEF EffectInvariant
<1> QED
  BY <1>1, EffectInvariantHolds, PTL

-----------------------------------------------------------------------------
(* A report is true *)

LEMMA InitDone == Init => DoneInvariant /\ OkMeansDone
  BY DEF Init, DoneInvariant, OkMeansDone, Writing

(* The requests of a step that is reported ok change nothing any more. *)
LEMMA ClosesDone ==
    ASSUME Typed, EffectInvariant, DoneInvariant, OkMeansDone, Closes
    PROVE  DoneInvariant' /\ OkMeansDone'
<1>1. /\ posts' = posts /\ made' = made /\ alive' = alive /\ resets' = resets
      /\ flight' \subseteq flight /\ ~Writing' /\ pc' # "wait"
  BY DEF Closes, world, Writing
<1>2. CASE log' = log
  BY <1>1, <1>2 DEF DoneInvariant, OkMeansDone, ReportedOk
<1>3. CASE /\ pc = "wait" /\ answer = "ok"
           /\ log' = log \cup {[at |-> at, intent |-> plan.intent]}
  <2>1. Writing /\ (Key \in made \/ (Actor \notin alive /\ resets > 0))
    BY <1>3 DEF DoneInvariant, Writing
  <2>2. ASSUME NEW q \in flight, q.at = at PROVE q.key \in made \/ q.by \notin alive
    <3>1. q.key = <<at, redo>> \/ q.key = <<at, ~redo>>
      BY <2>2, KeyTypes
    <3>2. CASE q.key = <<at, redo>>
      BY <2>1, <2>2, <3>2 DEF Key, EffectInvariant, TurnInvariant
    <3>3. CASE q.key = <<at, ~redo>>
      <4>1. redo \/ q.key = <<at, TRUE>>
        BY <3>3, KeyTypes
      <4>2. Redone(at) /\ redo
        BY <4>1 DEF Redone, EffectInvariant, RedoneForGood
      <4>3. q.key = <<at, FALSE>>
        BY <3>3, <4>2, KeyTypes
      <4> QED
        BY <4>2, <4>3, KeyTypes DEF EffectInvariant, RedoneForGood
    <3> QED
      BY <3>1, <3>2, <3>3
  <2>3. ASSUME NEW step, ReportedOk(step)', step # at PROVE ReportedOk(step)
    BY <1>3, <2>3 DEF ReportedOk
  <2>4. DoneInvariant'
    BY <1>1, <2>2, <2>3 DEF DoneInvariant
  <2>5. ASSUME resets = 0, NEW l \in log', l.intent \in Texts \cup {"root_post"}
        PROVE  \E p \in posts : p.at = l.at
    <3>1. CASE l \in log
      BY <2>5, <3>1 DEF OkMeansDone
    <3>2. CASE l = [at |-> at, intent |-> plan.intent]
      BY <2>1, <2>5, <3>2 DEF DoneInvariant
    <3> QED
      BY <1>3, <3>1, <3>2
  <2> QED
    BY <1>1, <2>4, <2>5 DEF OkMeansDone
<1> QED
  BY <1>2, <1>3 DEF Closes

LEMMA ExecuteDone ==
    ASSUME Typed, EffectInvariant, DoneInvariant, OkMeansDone, Execute
    PROVE  DoneInvariant' /\ OkMeansDone'
<1>1. PICK q \in flight :
          /\ flight' = flight \ {q}
          /\ \E o \in Outcomes(q) :
                /\ IF o.effect THEN Effect(q) ELSE UNCHANGED world
                /\ answer' = IF pc = "wait" /\ q.key = Key /\ q.attempt = attempt THEN o.status ELSE answer
  BY DEF Execute
<1>2. PICK o \in Outcomes(q) :
          /\ IF o.effect THEN Effect(q) ELSE UNCHANGED world
          /\ answer' = IF pc = "wait" /\ q.key = Key /\ q.attempt = attempt THEN o.status ELSE answer
  BY <1>1
<1>3. /\ pc' = pc /\ at' = at /\ plan' = plan /\ log' = log /\ Key' = Key /\ Actor' = Actor
      /\ (Writing' <=> Writing) /\ alive' = alive /\ resets' = resets
  BY <1>2 DEF Execute, Effect, world, Writing, Key, Actor, Position, Step
<1>4. /\ posts \subseteq posts' /\ made \subseteq made'
      /\ made' = made \/ (o.effect /\ made' = made \cup {q.key})
  BY <1>2 DEF Effect, world
<1>5. ASSUME o.effect, q.intent \in Texts \cup {"root_post"}
      PROVE  \E p \in posts' : p.at = q.at
  <2> DEFINE post == [id |-> issued + 1, author |-> q.by, at |-> q.at,
                      parent |-> IF q.intent = "reply" THEN q.target ELSE None]
  <2>1. post.at = q.at /\ post \in posts'
    BY <1>2, <1>5 DEF Effect
  <2> QED
    BY <2>1
<1>6. q.key = Key => q.at = at /\ q.intent = plan.intent
  BY KeyTypes DEF Key, EffectInvariant, TurnInvariant
<1>7. resets' = 0 /\ Writing' /\ Key \in made' /\ plan.intent \in Texts \cup {"root_post"}
          => \E p \in posts' : p.at = at
  BY <1>3, <1>4, <1>5, <1>6 DEF DoneInvariant
<1>8. pc = "wait" /\ answer' = "ok" => Key \in made' \/ (Actor \notin alive /\ resets > 0)
  <2>1. CASE q.key = Key /\ o.status = "ok"
    BY <1>2, <2>1, OutcomesAre DEF Effect, world
  <2>2. CASE answer' = answer
    BY <1>4, <2>2 DEF DoneInvariant
  <2>3. CASE answer' = o.status /\ q.key = Key /\ o.status # "ok"
    BY <2>3
  <2> QED
    BY <1>2, <2>1, <2>2, <2>3
<1>9. \A r \in flight' : ReportedOk(r.at)' => r.key \in made' \/ r.by \notin alive'
  BY <1>1, <1>3, <1>4 DEF DoneInvariant, ReportedOk
<1> QED
  BY <1>3, <1>4, <1>7, <1>8, <1>9 DEF DoneInvariant, OkMeansDone

LEMMA DoneStep ==
    ASSUME Typed, EffectInvariant, DoneInvariant, OkMeansDone, [Next]_vars
    PROVE  DoneInvariant' /\ OkMeansDone'
<1>1. CASE GoesOn
  <2>1. /\ posts' = posts /\ made' = made /\ alive' = alive /\ resets' = resets /\ log' = log
        /\ flight' \subseteq flight /\ at' = at /\ plan' = plan
        /\ Key' = Key /\ (Writing' <=> Writing) /\ (Writing' => Actor' = Actor)
    BY <1>1 DEF GoesOn, world, Writing, Key, Actor, Position, Step
  <2>2. pc' = "wait" => pc = "wait" /\ answer' = answer /\ Writing'
    BY <1>1 DEF GoesOn, Writing
  <2> QED
    BY <2>1, <2>2 DEF DoneInvariant, OkMeansDone, ReportedOk
<1>2. CASE PlansTurn
  <2>1. /\ posts' = posts /\ made' = made /\ alive' = alive /\ resets' = resets /\ log' = log
        /\ flight' = flight /\ Key' = Key /\ LastSent = at - 1 /\ pc' = "send"
    BY <1>2 DEF PlansTurn, world, Writing, Key, LastSent
  <2>2. Key \notin made
    BY <2>1, KeyTypes DEF EffectInvariant, NothingAhead, Key
  <2> QED
    BY <2>1, <2>2 DEF DoneInvariant, OkMeansDone, ReportedOk
<1>3. CASE Send
  <2> DEFINE new == [key |-> Key, attempt |-> attempt, by |-> Actor, at |-> at,
                     intent |-> plan.intent, target |-> plan.target]
  <2>1. /\ posts' = posts /\ made' = made /\ alive' = alive /\ resets' = resets /\ log' = log
        /\ at' = at /\ plan' = plan /\ Key' = Key /\ answer' = "none" /\ Writing
        /\ flight' = flight \cup {new} /\ new.at = at
    BY <1>3 DEF Send, world, Writing, Key
  <2>2. ~ReportedOk(at)
    BY KeyTypes DEF EffectInvariant, NothingAhead, ReportedOk
  <2> HIDE DEF new
  <2> QED
    BY <2>1, <2>2 DEF DoneInvariant, OkMeansDone, ReportedOk
<1>4. CASE Replace
  <2>1. /\ posts' = posts /\ made' = made /\ resets' = resets /\ log' = log /\ flight' = flight
        /\ Key' = <<at, TRUE>> /\ ~redo /\ pc' = "send" /\ alive' = alive \cup {issued + 1}
    BY <1>4 DEF Replace, Key
  <2>2. Key' \notin made
    BY <2>1 DEF EffectInvariant, RedoneForGood, Redone
  <2>3. \A q \in flight : q.by \in alive' => q.by \in alive
    BY <2>1, KeyTypes
  <2> QED
    BY <2>1, <2>2, <2>3 DEF DoneInvariant, OkMeansDone, ReportedOk
<1>5. CASE Reset
  <2>1. alive' = {} /\ resets' # 0 /\ resets' > 0
    BY <1>5 DEF Reset, Typed, WorldTyped
  <2> QED
    BY <2>1 DEF DoneInvariant, OkMeansDone
<1> QED
  BY <1>1, <1>2, <1>3, <1>4, <1>5, StepKinds, ClosesDone, ExecuteDone

(* An answer ok that the runner holds or has reported goes back to a key that was  *)
(* carried out; a text then has its row, until a reset.                       *)
THEOREM DoneInvariantHolds == Spec => [](DoneInvariant /\ OkMeansDone)
  BY InitDone, DoneStep, TypedHolds, EffectInvariantHolds, PTL DEF Spec

(* Until a reset, a text that is reported as written is there, whatever answers   *)
(* were lost, late or wrong, and however the runs ended.                      *)
THEOREM OkMeansDoneHolds == Spec => []OkMeansDone
  BY DoneInvariantHolds, PTL

-----------------------------------------------------------------------------
(* No second reply *)

LEMMA FinitePart ==
    ASSUME Typed, NEW S \in SUBSET posts
    PROVE  IsFiniteSet(S) /\ Cardinality(S) \in Nat
  BY FS_Subset, FS_CardinalityType DEF Typed, WorldTyped

LEMMA MoreRows ==
    ASSUME Typed, Typed', NEW S \in SUBSET posts, NEW T \in SUBSET posts', S \subseteq T,
           Cardinality(S) >= History
    PROVE  Cardinality(T) >= History
<1>1. IsFiniteSet(T) /\ Cardinality(T) \in Nat
  BY FS_Subset, FS_CardinalityType DEF Typed, WorldTyped
<1>2. Cardinality(S) \in Nat /\ Cardinality(S) <= Cardinality(T)
  BY <1>1, FinitePart, FS_Subset
<1> QED
  BY <1>1, <1>2, Numbers

(* Rows that were not there to be read and are not reported ok, and later reports, *)
(* do not matter.                                                            *)
LEMMA UnansweredKept ==
    ASSUME Typed, Typed', posts \subseteq posts', NEW a, NEW step, NEW target,
           \A p \in posts' : p.at < step /\ (p.id <= knew'[step] \/ ReportedOk(p.at)')
                              => p \in posts /\ (p.id <= knew[step] \/ ReportedOk(p.at)),
           Unanswered(a, step, target)
    PROVE  Unanswered(a, step, target)'
<1> SUFFICES ASSUME NEW p \in posts', p.parent = target, p.author = a, p.at < step,
                    p.id <= knew'[step] \/ ReportedOk(p.at)'
             PROVE  Cardinality({r \in RepliesOf(a)' : p.id < r.id}) >= History
  BY DEF Unanswered
<1> DEFINE S == {r \in RepliesOf(a) : p.id < r.id}
           T == {r \in RepliesOf(a)' : p.id < r.id}
<1>1. p \in posts /\ (p.id <= knew[step] \/ ReportedOk(p.at))
  OBVIOUS
<1>2. Cardinality(S) >= History
  BY <1>1 DEF Unanswered
<1>3. S \in SUBSET posts /\ T \in SUBSET posts' /\ S \subseteq T
  BY DEF RepliesOf
<1> HIDE DEF S, T
<1>4. Cardinality(T) >= History
  BY <1>2, <1>3, MoreRows
<1> QED
  BY <1>4 DEF T

(* No post is of a later step than the last that has sent anything. *)
LEMMA PostsBehind ==
    ASSUME Typed, NothingAhead, NEW p \in posts
    PROVE  p.at <= LastSent /\ p.at <= at
<1>1. CASE p \in FixturePosts
  <2>1. p.at < 0
    BY <1>1, FixturesTyped DEF Typed, WorldTyped
  <2>2. LastSent >= 0
    BY KeyTypes, Numbers DEF LastSent, Steps
  <2> QED
    BY <2>1, <2>2, KeyTypes
<1>2. ASSUME NEW again \in BOOLEAN, <<p.at, again>> \in made
      PROVE  p.at <= LastSent /\ p.at <= at
  <2>1. <<p.at, again>>[1] = p.at
    OBVIOUS
  <2> QED
    BY <1>2, <2>1, KeyTypes DEF NothingAhead
<1> QED
  BY <1>1, <1>2 DEF NothingAhead

LEMMA InitReply == Init => ReplyInvariant /\ NoSecondReply
  BY DEF Init, ReplyInvariant, Writing, NoSecondReply, FixturePosts

(* What leaves the posts as they are leaves the pairs of replies as they are. *)
LEMMA SamePairs ==
    ASSUME NoSecondReply, posts' = posts,
           \A q \in posts : q.parent # None => knew'[q.at] = knew[q.at],
           \A p, q \in posts : p.at < q.at /\ ReportedOk(p.at)' => ReportedOk(p.at)
    PROVE  NoSecondReply'
<1> SUFFICES ASSUME NEW p \in posts, NEW q \in posts,
                    p.parent # None, p.parent = q.parent, p.author = q.author, p.at < q.at,
                    knew'[q.at] # 0, ~(knew'[q.at] < p.id /\ ~ReportedOk(p.at)')
             PROVE  Cardinality({r \in RepliesOf(p.author)' : p.id < r.id /\ r.id < q.id}) >= History
  BY DEF NoSecondReply
<1>1. knew[q.at] # 0 /\ ~(knew[q.at] < p.id /\ ~ReportedOk(p.at))
  OBVIOUS
<1>2. Cardinality({r \in RepliesOf(p.author) : p.id < r.id /\ r.id < q.id}) >= History
  BY <1>1 DEF NoSecondReply
<1>3. RepliesOf(p.author)' = RepliesOf(p.author)
  BY DEF RepliesOf
<1> QED
  BY <1>2, <1>3

LEMMA ClosesReply ==
    ASSUME Typed, Typed', EffectInvariant, ReplyInvariant, NoSecondReply, Closes
    PROVE  ReplyInvariant' /\ NoSecondReply'
<1>1. posts' = posts /\ knew' = knew /\ flight' \subseteq flight /\ ~Writing'
  BY DEF Closes, world, Writing
<1>2. ASSUME NEW step, ReportedOk(step)', step # at PROVE ReportedOk(step)
  <2>1. log' = log \/ log' = log \cup {[at |-> at, intent |-> plan.intent]}
    BY DEF Closes
  <2> QED
    BY <1>2, <2>1 DEF ReportedOk
<1>3. NoSecondReply'
  <2>1. \A p, q \in posts : p.at < q.at => p.at # at
    BY PostsBehind, KeyTypes DEF EffectInvariant
  <2> QED
    BY <1>1, <1>2, <2>1, SamePairs
<1>4. ASSUME NEW q \in flight', q.intent = "reply", knew'[q.at] # 0
      PROVE  Unanswered(q.by, q.at, q.target)'
  <2>1. Unanswered(q.by, q.at, q.target)
    BY <1>1, <1>4 DEF ReplyInvariant
  <2>2. \A p \in posts : p.at < q.at => p.at # at
    BY <1>1, KeyTypes DEF EffectInvariant, NothingAhead
  <2>3. \A p \in posts' : p.at < q.at /\ (p.id <= knew'[q.at] \/ ReportedOk(p.at)')
                             => p \in posts /\ (p.id <= knew[q.at] \/ ReportedOk(p.at))
    BY <1>1, <1>2, <2>2
  <2> QED
    BY <1>1, <2>1, <2>3, UnansweredKept
<1> QED
  BY <1>1, <1>3, <1>4 DEF ReplyInvariant

(* A reply that is planned is to a post the agent has not replied to, as far as   *)
(* its replies show.                                                         *)
LEMMA PlanReply ==
    ASSUME Typed, EffectInvariant, ReplyInvariant, NoSecondReply, PlansTurn
    PROVE  ReplyInvariant' /\ NoSecondReply'
<1>1. /\ posts' = posts /\ log' = log /\ flight' = flight /\ at' = at
      /\ Actor' = Actor
  BY DEF PlansTurn, world, Actor, Position, Step
<1>5. \A step \in Steps \ {at} : knew'[step] = knew[step]
  BY KeyTypes DEF PlansTurn, Typed, TrackerTyped
<1>6. LastSent = at - 1
  BY DEF PlansTurn, LastSent, Writing
<1>2. NoSecondReply'
  <2>1. ASSUME NEW q \in posts, q.parent # None PROVE q.at \in Steps \ {at}
    <3>1. q \notin FixturePosts
      BY <2>1, FixturesTyped DEF Typed, WorldTyped
    <3>2. q.at # at
      BY <1>6, PostsBehind, KeyTypes DEF EffectInvariant
    <3> QED
      BY <3>1, <3>2 DEF EffectInvariant, NothingAhead, Typed, WorldTyped
  <2> QED
    BY <1>1, <1>5, <2>1, SamePairs DEF ReportedOk
<1>3. ASSUME NEW q \in flight', q.intent = "reply", knew'[q.at] # 0
      PROVE  Unanswered(q.by, q.at, q.target)'
  <2>1. q.at \in Steps \ {at}
    BY <1>1, <1>6, KeyTypes DEF EffectInvariant, NothingAhead, Typed, FlightTyped, Requests
  <2>2. knew'[q.at] = knew[q.at]
    BY <1>5, <2>1
  <2> QED
    BY <1>1, <1>3, <2>2 DEF ReplyInvariant, Unanswered, ReportedOk, RepliesOf
<1>4. ASSUME plan'.intent = "reply", knew'[at] # 0
      PROVE  Unanswered(Actor, at, plan.target)'
  <2>1. /\ plan'.target[1] = "post"
        /\ RepliesOf(Actor) = {} \/ plan'.target \notin {r.parent : r \in Shown(Actor)}
    <3>1. [knew EXCEPT ![at] = 0][at] = 0
      BY DEF PlansTurn, Typed, TurnTyped, TrackerTyped
    <3> QED
      BY <1>4, <3>1 DEF PlansTurn
  <2>2. ASSUME NEW p \in posts, p.parent = plan'.target, p.author = Actor
        PROVE  Cardinality({r \in RepliesOf(Actor) : p.id < r.id}) >= History
    <3> DEFINE S == {r \in RepliesOf(Actor) : p.id < r.id}
    <3>1. p \in RepliesOf(Actor)
      BY <2>1, <2>2 DEF RepliesOf, None
    <3>2. p \notin Shown(Actor)
      BY <2>1, <2>2, <3>1
    <3>3. S = {r \in RepliesOf(Actor) : r.id > p.id} /\ S \in SUBSET posts
      BY KeyTypes DEF RepliesOf
    <3>4. ~(Cardinality(S) < History)
      BY <3>1, <3>2, <3>3 DEF Shown
    <3> HIDE DEF S
    <3>5. Cardinality(S) >= History
      BY <3>3, <3>4, FinitePart, Numbers
    <3> QED
      BY <3>5 DEF S
  <2> QED
    BY <1>1, <2>2 DEF Unanswered, RepliesOf
<1> QED
  BY <1>1, <1>2, <1>3, <1>4 DEF ReplyInvariant

LEMMA SendReply ==
    ASSUME Typed, EffectInvariant, ReplyInvariant, NoSecondReply, Send
    PROVE  ReplyInvariant' /\ NoSecondReply'
<1> DEFINE new == [key |-> Key, attempt |-> attempt, by |-> Actor, at |-> at,
                   intent |-> plan.intent, target |-> plan.target]
<1>1. /\ posts' = posts /\ log' = log /\ at' = at /\ knew' = knew /\ plan' = plan /\ Actor' = Actor
      /\ Writing
  BY DEF Send, world, Actor, Position, Step, Writing
<1>2. /\ flight' = flight \cup {new} /\ new.by = Actor /\ new.at = at /\ new.intent = plan.intent
      /\ new.target = plan.target
  BY DEF Send
<1>3. NoSecondReply'
  BY <1>1, SamePairs DEF ReportedOk
<1> HIDE DEF new
<1>4. \A q \in flight' : q.intent = "reply" /\ knew'[q.at] # 0 => Unanswered(q.by, q.at, q.target)
  BY <1>1, <1>2 DEF ReplyInvariant
<1>5. \A a, step, target : Unanswered(a, step, target)' <=> Unanswered(a, step, target)
  BY <1>1 DEF Unanswered, ReportedOk, RepliesOf
<1>6. \A q \in flight' : q.intent = "reply" /\ knew'[q.at] # 0 => Unanswered(q.by, q.at, q.target)'
  BY <1>4, <1>5
<1>7. plan'.intent = "reply" /\ knew'[at'] # 0 => Unanswered(Actor, at, plan.target)'
  BY <1>1 DEF ReplyInvariant, Unanswered, ReportedOk, RepliesOf
<1> QED
  BY <1>3, <1>6, <1>7 DEF ReplyInvariant

LEMMA ReplaceReply ==
    ASSUME Typed, EffectInvariant, ReplyInvariant, NoSecondReply, Replace
    PROVE  ReplyInvariant' /\ NoSecondReply'
<1>1. /\ posts' = posts /\ log' = log /\ flight' = flight /\ at' = at /\ knew' = knew /\ plan' = plan
      /\ Actor' = issued + 1
  BY SomeonesTurn DEF Replace, Actor, Position, Step, Typed, CohortTyped
<1>2. NoSecondReply'
  BY <1>1, SamePairs DEF ReportedOk
<1>3. \A q \in flight' : q.intent = "reply" /\ knew'[q.at] # 0 => Unanswered(q.by, q.at, q.target)'
  BY <1>1 DEF ReplyInvariant, Unanswered, ReportedOk, RepliesOf
<1>4. \A p \in posts : p.author # issued + 1
  BY KeyTypes
<1>5. Unanswered(Actor, at, plan.target)'
  BY <1>1, <1>4 DEF Unanswered
<1> QED
  BY <1>2, <1>3, <1>5 DEF ReplyInvariant

LEMMA ExecuteReply ==
    ASSUME Typed, Typed', EffectInvariant, DoneInvariant, ReplyInvariant, NoSecondReply, Execute
    PROVE  ReplyInvariant' /\ NoSecondReply'
<1>1. PICK q \in flight :
          /\ flight' = flight \ {q}
          /\ \/ UNCHANGED world
             \/ q.by \in alive /\ q.key \notin made /\ Exists(q.target) /\ Effect(q)
  BY ExecuteIs
<1> DEFINE new == [id |-> issued + 1, author |-> q.by, at |-> q.at,
                   parent |-> IF q.intent = "reply" THEN q.target ELSE None]
<1>2. /\ new.id = issued + 1 /\ new.author = q.by /\ new.at = q.at
      /\ new.parent = IF q.intent = "reply" THEN q.target ELSE None
      /\ \/ posts' = posts
         \/ posts' = posts \cup {new} /\ q.by \in alive /\ q.key \notin made
  BY <1>1 DEF Effect, world
<1> HIDE DEF new
<1>3. /\ log' = log /\ at' = at /\ knew' = knew /\ plan' = plan /\ Actor' = Actor
      /\ (Writing' <=> Writing) /\ flight' \subseteq flight
  BY <1>1 DEF Execute, Actor, Position, Step, Writing
<1>4. \A step : ReportedOk(step)' <=> ReportedOk(step)
  BY <1>3 DEF ReportedOk
<1>5. posts' # posts => ~ReportedOk(new.at)
  BY <1>2 DEF DoneInvariant
<1>6. /\ posts \subseteq posts'
      /\ \A p \in posts', step \in Steps :
            p.id <= knew'[step] \/ ReportedOk(p.at)' => p \in posts /\ (p.id <= knew[step] \/ ReportedOk(p.at))
  <2>1. \A step \in Steps : ~(issued + 1 <= knew[step])
    BY DEF Typed, TrackerTyped, WorldTyped
  <2> QED
    BY <1>2, <1>3, <1>4, <1>5, <2>1
<1>7. \A a, target : \A step \in Steps : Unanswered(a, step, target) => Unanswered(a, step, target)'
  BY <1>6, UnansweredKept
<1>11. at \in Steps /\ \A r \in flight : r.at \in Steps
  BY DEF Typed, TurnTyped, FlightTyped, Requests
<1>8. ReplyInvariant'
  <2>1. \A r \in flight' : r.intent = "reply" /\ knew'[r.at] # 0 => Unanswered(r.by, r.at, r.target)'
    BY <1>3, <1>7, <1>11 DEF ReplyInvariant
  <2>2. PICK a : a = Actor
    OBVIOUS
  <2>3. PICK step, target : step = at /\ target = plan.target
    OBVIOUS
  <2>4. ASSUME Writing', plan'.intent = "reply", knew'[at'] # 0
        PROVE  Unanswered(Actor, at, plan.target)'
    <3>1. Unanswered(a, step, target)
      BY <1>3, <2>2, <2>3, <2>4 DEF ReplyInvariant
    <3>2. Unanswered(a, step, target)'
      BY <1>7, <1>11, <2>3, <3>1
    <3> QED
      BY <1>3, <2>2, <2>3, <3>2 DEF Unanswered
  <2> QED
    BY <2>1, <2>4 DEF ReplyInvariant
<1>9. ASSUME NEW p \in posts', NEW r \in posts',
             p.parent # None, p.parent = r.parent, p.author = r.author, p.at < r.at,
             knew'[r.at] # 0, ~(knew'[r.at] < p.id /\ ~ReportedOk(p.at)')
      PROVE  Cardinality({s \in RepliesOf(p.author)' : p.id < s.id /\ s.id < r.id}) >= History
  <2> DEFINE T == {s \in RepliesOf(p.author)' : p.id < s.id /\ s.id < r.id}
  <2>0. r.at \in Steps /\ p.id \in Int /\ knew[r.at] \in Int
    <3>1. r \notin FixturePosts
      BY <1>9, FixturesTyped DEF Typed, WorldTyped
    <3>2. r.at \in Steps
      <4>1. CASE r \in posts
        <5>1. PICK again \in BOOLEAN : <<r.at, again>> \in made
          BY <3>1, <4>1 DEF EffectInvariant, NothingAhead
        <5> QED
          BY <5>1 DEF Typed, WorldTyped
      <4> QED
        BY <1>2, <1>11, <1>9, <4>1
    <3> QED
      BY <1>9, <3>2 DEF Typed, WorldTyped, TrackerTyped, Rows
  <2>1. /\ p \in posts /\ (p.id <= knew[r.at] \/ ReportedOk(p.at)) /\ knew[r.at] # 0
        /\ T \in SUBSET posts'
    BY <1>3, <1>6, <1>9, <2>0 DEF RepliesOf
  <2>2. CASE r \in posts
    <3> DEFINE S == {s \in RepliesOf(p.author) : p.id < s.id /\ s.id < r.id}
    <3>1. Cardinality(S) >= History
      BY <1>9, <2>0, <2>1, <2>2 DEF NoSecondReply
    <3>2. S \in SUBSET posts /\ S \subseteq T
      BY <1>6 DEF RepliesOf
    <3> HIDE DEF S, T
    <3>3. Cardinality(T) >= History
      BY <2>1, <3>1, <3>2, MoreRows
    <3> QED
      BY <3>3 DEF T
  <2>3. CASE r \notin posts
    <3> DEFINE S == {s \in RepliesOf(p.author) : p.id < s.id}
    <3>1. r = new /\ q.intent = "reply" /\ q.target = p.parent /\ q.by = p.author
      BY <1>2, <1>9, <2>3
    <3>2. Unanswered(q.by, q.at, q.target)
      BY <1>2, <2>1, <3>1 DEF ReplyInvariant
    <3>3. Cardinality(S) >= History
      BY <1>2, <1>9, <2>1, <3>1, <3>2 DEF Unanswered
    <3>4. S \in SUBSET posts /\ \A s \in S : s.id < r.id
      BY <1>2, <3>1, KeyTypes DEF RepliesOf
    <3>5. S \subseteq T
      BY <1>6, <3>4 DEF RepliesOf
    <3> HIDE DEF S, T
    <3>6. Cardinality(T) >= History
      BY <2>1, <3>3, <3>4, <3>5, MoreRows
    <3> QED
      BY <3>6 DEF T
  <2> QED
    BY <2>2, <2>3
<1>10. NoSecondReply'
  BY <1>9 DEF NoSecondReply
<1> QED
  BY <1>8, <1>10

LEMMA ResetReply ==
    ASSUME Typed, Reset
    PROVE  ReplyInvariant' /\ NoSecondReply'
<1>1. posts' = FixturePosts /\ flight' = flight /\ plan' = plan
  BY DEF Reset, request
<1>2. \A p \in FixturePosts : p.parent = None
  BY FixturesTyped DEF Typed, WorldTyped
<1>3. /\ \A q \in flight : q.intent = "reply" => q.target # None
      /\ plan.intent = "reply" => plan.target # None
  BY DEF Typed, FlightTyped, TurnTyped, SuitsPosts, OnPosts, Texts, None
<1> QED
  BY <1>1, <1>2, <1>3 DEF ReplyInvariant, NoSecondReply, Unanswered

LEMMA ReplyStep ==
    ASSUME Typed, Typed', EffectInvariant, DoneInvariant, ReplyInvariant, NoSecondReply, [Next]_vars
    PROVE  ReplyInvariant' /\ NoSecondReply'
<1>1. CASE GoesOn
  <2>1. /\ posts' = posts /\ log' = log /\ flight' \subseteq flight /\ at' = at /\ knew' = knew
        /\ plan' = plan /\ (Writing' <=> Writing) /\ (Writing' => Actor' = Actor)
    BY <1>1 DEF GoesOn, world, Writing, Actor, Position, Step
  <2>2. NoSecondReply'
    BY <2>1, SamePairs DEF ReportedOk
  <2>3. \A q \in flight' : q.intent = "reply" /\ knew'[q.at] # 0 => Unanswered(q.by, q.at, q.target)'
    BY <2>1 DEF ReplyInvariant, Unanswered, ReportedOk, RepliesOf
  <2>4. Writing' /\ plan'.intent = "reply" /\ knew'[at'] # 0 => Unanswered(Actor, at, plan.target)'
    BY <2>1 DEF ReplyInvariant, Unanswered, ReportedOk, RepliesOf
  <2> QED
    BY <2>2, <2>3, <2>4 DEF ReplyInvariant
<1> QED
  BY <1>1, StepKinds, ClosesReply, PlanReply, SendReply, ReplaceReply, ExecuteReply, ResetReply

(* A reply that is under way, or about to be sent, would be no second one, unless *)
(* the agent's replies could not be read or showed History newer ones.        *)
THEOREM ReplyInvariantHolds == Spec => [](ReplyInvariant /\ NoSecondReply)
  BY InitReply, ReplyStep, TypedHolds, EffectInvariantHolds, DoneInvariantHolds, PTL DEF Spec

(* Across runs, no agent replies again to a post it knows to have replied to,     *)
(* unless its replies show History newer ones or could not be read.             *)
THEOREM NoSecondReplyHolds == Spec => []NoSecondReply
  BY ReplyInvariantHolds, PTL
=============================================================================
