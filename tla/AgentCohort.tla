----------------------------- MODULE AgentCohort -----------------------------
(***************************************************************************)
(* The cohort of the AI activity runner: agents that sign up once and whose   *)
(* tokens, shown only then, are kept in a local state file from run to run.   *)
(*                                                                          *)
(* The cron wrapper lets one run go at a time (flock -n) and may kill it at    *)
(* any moment (timeout).  A run loads the file, signs up the agents it lacks,  *)
(* saves, and acts; an agent whose token the backend rejects is removed from   *)
(* the file and replaced.  The file is replaced by a rename, so it is old or   *)
(* new.  Between runs an operator may clear it, or it may become unreadable.   *)
(* A fixture reset of the backend, at any time, deletes every account.        *)
(*                                                                          *)
(* Signup is one request, never retried after an unclear answer.  A handle is  *)
(* the number of the record it is asked for, or one of the account's own: a    *)
(* uuid, or what a dynamic run makes of its run id.  The fields of a persona   *)
(* are left out.                                                            *)
(***************************************************************************)
EXTENDS Integers, Sequences, FiniteSets

CONSTANTS
    Modes,         \* the signup modes runs are configured with
    MostAgents,    \* the largest configured number of agents
    Rotation,      \* AI_ACTIVITY_STATE_ROTATION
    MaxDynamic,    \* the backend's cap on accounts
    MaxResets,     \* bound: resets of the backend
    Own            \* the handle of an account that has one of its own

Counts == 1..MostAgents
Handles == (0..MostAgents - 1) \cup {Own}
Account == [id : Nat \ {0}, handle : Handles]
None == [id |-> 0, handle |-> Own]

CohortAssumption ==
    /\ Modes \subseteq {"dynamic", "reuse_or_create", "reuse_only"}
    /\ MostAgents \in Nat \ {0} /\ MaxDynamic \in Nat \ {0} /\ MaxResets \in Nat
    /\ Rotation \in BOOLEAN /\ Own \notin 0..MostAgents
ASSUME CohortAssumption

VARIABLES
    accounts,    \* those the backend accepts the token of
    issued,      \* how many there have been
    resets,
    file,        \* the state file: [state, agents, cursor]
    pc,
    run,         \* the configuration of the run: [mode, count]
    records,     \* of the run: the agents it has read or signed up
    cursor,      \* of the run: the rotation cursor it read
    answer,      \* of the run: that to its signup
    made,        \* the account of that answer
    second,      \* of the run: it asks for the second time, with a handle of its own
    cohort,      \* the agents that act
    rejected,    \* which of them is being replaced, or 0
    forgiven     \* history: accounts whose token went with a file, a run or an answer that was lost

server == <<accounts, issued, resets>>
asking == <<answer, made, second>>
vars == <<server, file, pc, run, records, cursor, asking, cohort, rejected, forgiven>>

Members(s) == {s[i] : i \in DOMAIN s}
Saved == IF file.state = "good" THEN Members(file.agents) ELSE {}

(* The tokens that are only in the memory of the run. *)
InHand ==
    Members(records) \cup (IF answer = "made" THEN {made} ELSE {})
        \cup (IF run.mode = "dynamic" THEN Members(cohort) ELSE {})

Ended == {"idle", "ok", "blocked", "crashed", "killed"}
Absent == [state |-> "absent", agents |-> << >>, cursor |-> 0]
Good(agents, next) == [state |-> "good", agents |-> agents, cursor |-> next]

Init ==
    /\ accounts = {} /\ issued = 0 /\ resets = 0
    /\ file = Absent
    /\ pc = "idle"
    /\ run = [mode |-> "reuse_or_create", count |-> 1]
    /\ records = << >> /\ cursor = 0 /\ cohort = << >> /\ rejected = 0
    /\ answer = "none" /\ made = None /\ second = FALSE
    /\ forgiven = {}

(* The run is over, and with it what was only in its memory. *)
End(outcome) ==
    /\ pc' = outcome
    /\ forgiven' = forgiven \cup (InHand \ Saved)
    /\ records' = << >> /\ cohort' = << >> /\ rejected' = 0 /\ made' = None
    /\ second' = FALSE

-----------------------------------------------------------------------------
(* The operator and the machine *)

(* run_ai_activity_cron.sh: only when no other run holds the lock. *)
StartRun ==
    /\ pc \in Ended
    /\ \E mode \in Modes, count \in Counts :
          /\ run' = [mode |-> mode, count |-> count]
          /\ pc' = IF mode = "dynamic" THEN "ask" ELSE "load"
    /\ answer' = "none"
    /\ UNCHANGED <<server, file, records, cursor, made, second, cohort, rejected, forgiven>>

Kill ==
    /\ pc \notin Ended
    /\ End("killed")
    /\ UNCHANGED <<server, file, run, cursor, answer>>

LoseFile(state) ==
    /\ pc \in Ended
    /\ file' = [Absent EXCEPT !.state = state]
    /\ forgiven' = forgiven \cup Saved
    /\ UNCHANGED <<server, pc, run, records, cursor, asking, cohort, rejected>>

ClearState == LoseFile("absent")
Spoil == LoseFile("unreadable")

Reset ==
    /\ resets < MaxResets
    /\ resets' = resets + 1
    /\ accounts' = {}
    /\ forgiven' = {}
    /\ UNCHANGED <<issued, file, pc, run, records, cursor, asking, cohort, rejected>>

-----------------------------------------------------------------------------
(* _signup_one *)

(* Mutant: whatever agents in hand. *)
WishUnseen == IF second \/ run.mode = "dynamic" THEN Own ELSE Len(records)

(* The handle of the next record, unless an agent in hand has it. *)
Wish ==
    IF second \/ run.mode = "dynamic" \/ \E r \in Members(records) : r.handle = Len(records)
    THEN Own ELSE Len(records)

(* POST /agents/signup: AgentWorld has its statements.  A dynamic run derives   *)
(* the handle of its first request from its run id, which an earlier run may    *)
(* have had as well.                                                         *)
Ask ==
    /\ pc = "ask"
    /\ LET taken == Wish # Own /\ \E a \in accounts : a.handle = Wish
           new == [id |-> issued + 1, handle |-> Wish]
           derived == run.mode = "dynamic" /\ ~second /\ \E a \in accounts : a.handle = Own
       IN  \/ (taken \/ derived) /\ answer' = "taken" /\ UNCHANGED <<accounts, issued, made>>
           \/ /\ ~taken /\ Cardinality(accounts) >= MaxDynamic
              /\ answer' = "full" /\ UNCHANGED <<accounts, issued, made>>
           \/ /\ ~taken /\ Cardinality(accounts) < MaxDynamic
              /\ accounts' = accounts \cup {new} /\ issued' = issued + 1
              /\ answer' = "made" /\ made' = new
    /\ pc' = "hear"
    /\ UNCHANGED <<resets, file, run, records, cursor, second, cohort, rejected, forgiven>>

(* The request or its answer is lost. *)
Lose ==
    /\ pc \in {"ask", "hear"} /\ answer # "lost"
    /\ pc' = "hear"
    /\ answer' = "lost"
    /\ forgiven' = IF answer = "made" THEN forgiven \cup {made} ELSE forgiven
    /\ made' = None
    /\ UNCHANGED <<server, file, run, records, cursor, second, cohort, rejected>>

(* Where a signup that failed leaves the run: register_agents is called within *)
(* a try, replace_rejected_agent is not.                                     *)
Fail == End(IF rejected = 0 THEN "blocked" ELSE "crashed") /\ UNCHANGED <<server, file, run, cursor, answer>>

(* Mutant: a handle that is taken is not asked for again. *)
HearOnce ==
    /\ pc = "hear"
    /\ answer # "made"
    /\ Fail

Hear ==
    /\ pc = "hear"
    /\ answer # "made"
    /\ IF answer = "taken" /\ ~second
       THEN /\ second' = TRUE /\ pc' = "ask"
            /\ UNCHANGED <<server, file, run, records, cursor, answer, made, cohort, rejected, forgiven>>
       ELSE Fail

(* Another agent in hand. *)
Keep(next) ==
    /\ records' = Append(records, made)
    /\ answer' = "none" /\ made' = None /\ second' = FALSE
    /\ pc' = next

-----------------------------------------------------------------------------
(* register_agents *)

Load ==
    /\ pc = "load"
    /\ cursor' = file.cursor
    /\ IF run.mode = "reuse_only" /\ Len(file.agents) < run.count
       THEN End("blocked")
       ELSE /\ records' = file.agents
            /\ pc' = IF Len(file.agents) < run.count THEN "ask" ELSE "save"
            /\ UNCHANGED <<made, second, cohort, rejected, forgiven>>
    /\ UNCHANGED <<server, file, run, answer>>

SignedUp ==
    /\ pc = "hear" /\ answer = "made" /\ rejected = 0
    /\ Keep(IF Len(records) + 1 < run.count THEN "ask" ELSE "save")
    /\ UNCHANGED <<server, file, run, cursor, cohort, rejected, forgiven>>

(* select_rotating *)
Selected ==
    LET n == Len(records)
        start == IF n <= run.count \/ ~Rotation THEN 0 ELSE cursor % n
    IN  [i \in 1..run.count |-> records[((start + i - 1) % n) + 1]]

(* Mutant: the cursor stays where it is. *)
SaveCohortStill ==
    /\ pc = "save"
    /\ cohort' = Selected
    /\ file' = IF run.mode = "dynamic" THEN file ELSE Good(records, cursor)
    /\ records' = << >>
    /\ pc' = "acting"
    /\ UNCHANGED <<server, run, cursor, asking, rejected, forgiven>>

(* The file is written before anybody acts; in dynamic mode there is none. *)
SaveCohort ==
    /\ pc = "save"
    /\ cohort' = Selected
    /\ file' = IF run.mode = "dynamic" THEN file
               ELSE Good(records, (cursor + run.count) % Len(records))
    /\ records' = << >>
    /\ pc' = "acting"
    /\ UNCHANGED <<server, run, cursor, asking, rejected, forgiven>>

-----------------------------------------------------------------------------
(* The steps of a run, of which only those whose token is rejected matter *)

SameHandle(r, s) == r.handle = s.handle /\ (r.handle = Own => r = s)

(* remove_handles, of agents of which at most one has the handle. *)
Without(s, a) ==
    IF \E i \in DOMAIN s : SameHandle(s[i], a)
    THEN LET k == CHOOSE i \in DOMAIN s : SameHandle(s[i], a)
         IN  [i \in 1..Len(s) - 1 |-> IF i < k THEN s[i] ELSE s[i + 1]]
    ELSE s

(* replace_rejected_agent removes the agent first. *)
Reject ==
    /\ pc = "acting" /\ run.mode = "reuse_or_create"
    /\ \E i \in DOMAIN cohort :
          /\ cohort[i] \notin accounts
          /\ rejected' = i
          /\ records' = Without(file.agents, cohort[i])
    /\ file' = Good(records', 0)
    /\ pc' = "ask"
    /\ UNCHANGED <<server, run, cursor, asking, cohort, forgiven>>

(* Mutant: the replacement is saved by the next run only. *)
ReplacedUnsaved ==
    /\ pc = "hear" /\ answer = "made" /\ rejected # 0
    /\ cohort' = [cohort EXCEPT ![rejected] = made]
    /\ records' = << >>
    /\ answer' = "none" /\ made' = None /\ second' = FALSE /\ rejected' = 0
    /\ pc' = "acting"
    /\ UNCHANGED <<server, file, run, cursor, forgiven>>

Replaced ==
    /\ pc = "hear" /\ answer = "made" /\ rejected # 0
    /\ file' = Good(Append(records, made), 0)
    /\ cohort' = [cohort EXCEPT ![rejected] = made]
    /\ records' = << >>
    /\ answer' = "none" /\ made' = None /\ second' = FALSE /\ rejected' = 0
    /\ pc' = "acting"
    /\ UNCHANGED <<server, run, cursor, forgiven>>

Finish ==
    /\ pc = "acting"
    /\ End("ok")
    /\ UNCHANGED <<server, file, run, cursor, answer>>

-----------------------------------------------------------------------------
Next ==
    \/ StartRun \/ Kill \/ ClearState \/ Spoil \/ Reset
    \/ Load \/ Ask \/ Lose \/ Hear \/ SignedUp \/ SaveCohort
    \/ Reject \/ Replaced \/ Finish

Spec == Init /\ [][Next]_vars

-----------------------------------------------------------------------------
AreAgents(s) == s \in Seq(Account) /\ Len(s) <= MostAgents
OneEach(s) ==
    \A i, j \in DOMAIN s : i # j => s[i].id # s[j].id /\ (s[i].handle = s[j].handle => s[i].handle = Own)

(* Variables have their types, and neither the file nor a run ever holds two    *)
(* agents of one handle.                                                     *)
TypeOK ==
    /\ accounts \subseteq Account /\ issued \in Nat /\ resets \in 0..MaxResets
    /\ file.state \in {"absent", "unreadable", "good"} /\ file.cursor \in Nat
    /\ AreAgents(file.agents) /\ OneEach(file.agents)
    /\ pc \in {"load", "ask", "hear", "save", "acting"} \cup Ended
    /\ run \in [mode : Modes \cup {"reuse_or_create"}, count : Counts]
    /\ AreAgents(records) /\ OneEach(records)
    /\ cursor \in Nat
    /\ answer \in {"none", "made", "taken", "full", "lost"} /\ made \in Account \cup {None}
    /\ second \in BOOLEAN
    /\ AreAgents(cohort) /\ OneEach(cohort)
    /\ rejected \in 0..MostAgents
    /\ forgiven \subseteq Account

(* No token the backend still accepts is lost, unless the file, the run that    *)
(* had it, or the answer that held it was: not by loading and saving, by the    *)
(* rotation, or when others are replaced.  A run that saves its agents loses    *)
(* none by ending; a dynamic run saves none, and all of its tokens go with it.  *)
NoTokenLost == accounts \subseteq Saved \cup InHand \cup forgiven

(* What earlier runs left in the backend never blocks a run: it stops for the   *)
(* cap, a lost answer or too few agents to reuse.                             *)
LeftoversDoNotBlock == pc \in {"blocked", "crashed"} => answer # "taken"

(* Rotation gives every agent that stays in the file its turn, as long as runs  *)
(* get to choose their cohort.                                               *)
EveryAgentServes ==
    \A n \in 1..MaxDynamic * (MaxResets + 1) :
        /\ []<>(pc = "acting" /\ run.mode # "dynamic") /\ []<>(pc \in Ended)
        /\ <>[](\E a \in Saved : a.id = n)
        => []<>(\E a \in Members(cohort) : a.id = n)

-----------------------------------------------------------------------------
(* The inductive invariant behind TypeOK, NoTokenLost and LeftoversDoNotBlock  *)

(* What a run has in its memory at each of its places. *)
InMemory ==
    /\ pc \in Ended \cup {"load", "acting"} => records = << >>
    /\ cohort # << >> => pc = "acting" \/ rejected # 0
    /\ rejected # 0 => pc \in {"ask", "hear"}
    /\ pc # "hear" \/ answer # "made" => made = None
    /\ answer = "made" => pc = "hear" \/ pc \in Ended
    /\ pc = "load" => run.mode # "dynamic" /\ answer = "none"
    /\ pc = "hear" /\ second => answer # "taken"

(* A run asks for as many agents as it lacks. *)
Wanting ==
    /\ pc \in {"ask", "hear"} => Len(records) < IF rejected = 0 THEN run.count ELSE MostAgents
    /\ pc = "save" => /\ run.count <= Len(records)
                      /\ run.mode = "dynamic" => Len(records) = run.count

(* What the file has is also with the run that will write it. *)
FileHeld ==
    /\ run.mode # "dynamic" /\ pc \in {"ask", "hear", "save"} /\ rejected = 0
          => Saved \subseteq Members(records)
    /\ run.mode # "dynamic" /\ pc = "acting" => Members(cohort) \subseteq Saved
    /\ rejected # 0 =>
          /\ run.mode # "dynamic" /\ rejected \in DOMAIN cohort
          /\ file.state = "good" /\ file.agents = records
          /\ \A i \in DOMAIN cohort : i # rejected => cohort[i] \in Members(records)

(* The answer of a signup is an account nobody else has seen. *)
Known == Members(file.agents) \cup Members(records) \cup Members(cohort)
NewToAll ==
    /\ \A a \in accounts \cup Known : a.id <= issued
    /\ pc = "hear" /\ answer = "made" =>
          /\ made \in Account /\ made.id = issued
          /\ \A a \in Known : a.id < issued
          /\ \A a \in Members(records) : a.handle = made.handle => made.handle = Own

CohortInvariant ==
    /\ TypeOK /\ InMemory /\ Wanting /\ FileHeld /\ NewToAll
    /\ NoTokenLost /\ LeftoversDoNotBlock
=============================================================================
