-------------------------- MODULE IdempotencyStore --------------------------
(***************************************************************************)
(* The idempotency records of the backend and the life of a request that   *)
(* carries a client_request_id, from the first look at its record until    *)
(* its answer (app/services/idempotency.py).  The social mutations use it   *)
(* in the same way: they run begin_idempotent_request, do their own         *)
(* statements when it says "started", and end in record_idempotency_success.*)
(* A module that EXTENDS this one adds those statements between the         *)
(* labels "execute" and "fetch".                                            *)
(*                                                                          *)
(* One action is one SQL statement with the COMMIT that follows it, or one  *)
(* SELECT: the engine runs at READ COMMITTED, so the statements of          *)
(* concurrent requests interleave freely.                                   *)
(***************************************************************************)
EXTENDS Integers

CONSTANTS
    Requests,      \* HTTP requests; a retry is another request with the same key
    Keys,          \* unique scope keys: actor, operation, route, target, client id
    Fingerprints,  \* hashes of the normalised body
    Results,       \* what a response can refer to
    None,          \* absent row, absent client_request_id, no answer yet
    TTL,           \* v2_idempotency_ttl_seconds, in clock units
    MaxWaits,      \* iterations of the wait loop (20 in the code)
    MaxTime,       \* bound on the clock
    MaxResets,     \* bound on the number of fixture resets
    Prompt         \* TRUE: no handler is still running a whole TTL after it took its time

ASSUME StoreAssumption ==
    /\ TTL \in Nat \ {0}
    /\ MaxWaits \in Nat \ {0}
    /\ MaxTime \in Nat
    /\ MaxResets \in Nat
    /\ Prompt \in BOOLEAN
    /\ None \notin Keys \cup Fingerprints \cup Results

(* A row of idempotency_records, and the answer to a request. *)
RowSet == [fp : Fingerprints, state : {"in_flight", "completed"},
           expires : Nat, response : Results \cup {None}]
AnswerSet == [status : {"none", "created", "replayed", "deleted", "conflict",
                        "failed", "error", "lost"},
              result : Results \cup {None}]

ASSUME NoneIsNoRow == None \notin RowSet

VARIABLES
    clock,   \* datetime.now(UTC)
    world,   \* "seeded", or "cleared" between the two transactions of a reset
    resets,  \* resets so far
    rec,     \* the idempotency_records table: Keys -> row or None
    pc,      \* where the handler of each request is
    key,     \* scope key of the request, None when it has no client_request_id
    fp,      \* its request fingerprint
    now,     \* current_time of its latest begin_idempotent_request
    waits,   \* 0 in the first call, then the iteration of the wait loop
    result,  \* what its statements produced
    answer   \* the response the client got

requestVars == <<pc, key, fp, now, waits, result, answer>>
worldVars == <<clock, world, resets>>
storeVars == <<worldVars, rec, requestVars>>

Beginning == {"begin", "first_prune", "prune", "lookup", "purge", "insert",
              "reread", "repurge", "sleep"}
Working == {"execute", "write", "recover", "publish"}
Recording == {"fetch", "store", "confirm"}
Labels == {"new", "done"} \cup Beginning \cup Working \cup Recording

StoreTypeOK ==
    /\ clock \in 0..MaxTime
    /\ world \in {"seeded", "cleared"}
    /\ resets \in 0..MaxResets
    /\ rec \in [Keys -> RowSet \cup {None}]
    /\ pc \in [Requests -> Labels]
    /\ key \in [Requests -> Keys \cup {None}]
    /\ fp \in [Requests -> Fingerprints \cup {None}]
    /\ now \in [Requests -> Nat]
    /\ waits \in [Requests -> 0..MaxWaits]
    /\ result \in [Requests -> Results \cup {None}]
    /\ answer \in [Requests -> AnswerSet]
    /\ \A p \in Requests :
         /\ pc[p] \in Beginning \cup Recording => key[p] \in Keys
         /\ IF pc[p] = "new" THEN key[p] = None ELSE fp[p] \in Fingerprints

StoreInit ==
    /\ clock = 0
    /\ world = "seeded"
    /\ resets = 0
    /\ rec = [k \in Keys |-> None]
    /\ pc = [p \in Requests |-> "new"]
    /\ key = [p \in Requests |-> None]
    /\ fp = [p \in Requests |-> None]
    /\ now = [p \in Requests |-> 0]
    /\ waits = [p \in Requests |-> 0]
    /\ result = [p \in Requests |-> None]
    /\ answer = [p \in Requests |-> [status |-> "none", result |-> None]]

-----------------------------------------------------------------------------
(* Rows *)

(* Mutant: a record is taken for expired one unit early. *)
ExpiredEarly(row, time) == row # None /\ row.expires <= time + 1

Expired(row, time) == row # None /\ row.expires <= time

FreshRow(p) == [fp |-> fp[p], state |-> "in_flight",
                expires |-> now[p] + TTL, response |-> None]

(* Mutant: the fingerprint is never compared. *)
DecisionIgnoringBody(row, f) ==
    IF row.state = "completed" THEN "replay" ELSE "in_flight"

(* _decision_for_existing *)
Decision(row, f) ==
    CASE row.fp # f                                  -> "conflict"
      [] row.fp = f /\ row.state = "completed"       -> "replay"
      [] row.fp = f /\ row.state = "in_flight"       -> "in_flight"

-----------------------------------------------------------------------------
(* Moves of one handler *)

Goto(p, label) ==
    /\ pc' = [pc EXCEPT ![p] = label]
    /\ UNCHANGED <<key, fp, now, waits, result, answer>>

Reply(p, status, r) ==
    /\ pc' = [pc EXCEPT ![p] = "done"]
    /\ answer' = [answer EXCEPT ![p] = [status |-> status, result |-> r]]
    /\ UNCHANGED <<key, fp, now, waits, result>>

(* Mutant: the wait loop forgets to count its turns. *)
NextWaitUncounted(p) == Goto(p, "sleep")

(* Another turn of the wait loop, or the 409 when the turns are used up. *)
NextWait(p) ==
    \/ /\ waits[p] < MaxWaits
       /\ pc' = [pc EXCEPT ![p] = "sleep"]
       /\ waits' = [waits EXCEPT ![p] = @ + 1]
       /\ UNCHANGED <<key, fp, now, result, answer>>
    \/ /\ waits[p] = MaxWaits
       /\ Reply(p, "conflict", None)

(* What the caller of begin_idempotent_request does with its outcome.  The   *)
(* first call executes when it "started"; the wait loop takes only "replay"  *)
(* and "conflict" and polls again on anything else, "started" included.      *)
Act(p, outcome, row) ==
    \/ outcome = "replay" /\ Reply(p, "replayed", row.response)
    \/ outcome = "conflict" /\ Reply(p, "conflict", None)
    \/ outcome = "in_flight" /\ NextWait(p)
    \/ outcome = "started" /\ waits[p] = 0 /\ Goto(p, "execute")
    \/ outcome = "started" /\ waits[p] > 0 /\ NextWait(p)

-----------------------------------------------------------------------------
(* begin_idempotent_request *)

(* The request arrives authenticated: its token and agent rows exist. *)
Arrive(p) ==
    /\ pc[p] = "new"
    /\ world = "seeded"
    /\ \E f \in Fingerprints : fp' = [fp EXCEPT ![p] = f]
    /\ \/ \E k \in Keys : /\ key' = [key EXCEPT ![p] = k]
                          /\ pc' = [pc EXCEPT ![p] = "begin"]
       \/ /\ key' = key
          /\ pc' = [pc EXCEPT ![p] = "execute"]
    /\ UNCHANGED <<worldVars, rec, now, waits, result, answer>>

TakeTime(p) ==
    /\ pc[p] \in {"begin", "sleep"}
    /\ now' = [now EXCEPT ![p] = clock]
    /\ pc' = [pc EXCEPT ![p] = IF pc[p] = "begin" THEN "first_prune" ELSE "prune"]
    /\ UNCHANGED <<worldVars, rec, key, fp, waits, result, answer>>

(* _prune_expired_records.  The first COMMIT of a request also flushes       *)
(* last_used_at of its token: when a reset has deleted that row, the flush   *)
(* fails, the DELETE is rolled back and the handler dies with a 500.         *)
Prune(p) ==
    /\ pc[p] \in {"first_prune", "prune"}
    /\ \/ /\ pc[p] = "prune" \/ world = "seeded"
          /\ rec' = [k \in Keys |-> IF Expired(rec[k], now[p]) THEN None ELSE rec[k]]
          /\ Goto(p, "lookup")
       \/ /\ pc[p] = "first_prune" /\ world = "cleared"
          /\ Reply(p, "error", None)
          /\ UNCHANGED rec
    /\ UNCHANGED worldVars

(* The first _get_record. *)
Lookup(p) ==
    LET row == rec[key[p]] IN
    /\ pc[p] = "lookup"
    /\ \/ row = None /\ Goto(p, "insert")
       \/ Expired(row, now[p]) /\ Goto(p, "purge")
       \/ row # None /\ ~Expired(row, now[p]) /\ Act(p, Decision(row, fp[p]), row)
    /\ UNCHANGED <<worldVars, rec>>

(* db.delete(existing): a DELETE by primary key, and the primary key is a    *)
(* hash of the scope key, so it hits whatever row holds the key by now.      *)
Purge(p) ==
    /\ pc[p] \in {"purge", "repurge"}
    /\ rec' = [rec EXCEPT ![key[p]] = None]
    /\ Goto(p, IF pc[p] = "purge" THEN "insert" ELSE "prune")
    /\ UNCHANGED worldVars

(* Mutant: an upsert, as if the table had no unique constraint on the scope. *)
InsertOverwrites(p) ==
    /\ pc[p] = "insert"
    /\ rec' = [rec EXCEPT ![key[p]] = FreshRow(p)]
    /\ Act(p, "started", None)
    /\ UNCHANGED worldVars

(* The INSERT, arbitrated by uq_idempotency_records_scope_key. *)
Insert(p) ==
    /\ pc[p] = "insert"
    /\ \/ /\ rec[key[p]] = None
          /\ rec' = [rec EXCEPT ![key[p]] = FreshRow(p)]
          /\ Act(p, "started", None)
       \/ /\ rec[key[p]] # None
          /\ Goto(p, "reread")
          /\ UNCHANGED rec
    /\ UNCHANGED worldVars

(* The second _get_record, after the INSERT lost: the recursive calls keep   *)
(* the same current_time.                                                    *)
Reread(p) ==
    LET row == rec[key[p]] IN
    /\ pc[p] = "reread"
    /\ \/ row = None /\ Goto(p, "prune")
       \/ Expired(row, now[p]) /\ Goto(p, "repurge")
       \/ row # None /\ ~Expired(row, now[p]) /\ Act(p, Decision(row, fp[p]), row)
    /\ UNCHANGED <<worldVars, rec>>

-----------------------------------------------------------------------------
(* record_idempotency_success: db.get, the UPDATE, db.refresh *)

Fetch(p) ==
    /\ pc[p] = "fetch"
    /\ \/ rec[key[p]] # None /\ Goto(p, "store")
       \/ rec[key[p]] = None /\ Reply(p, "error", None)
    /\ UNCHANGED <<worldVars, rec>>

(* UPDATE ... WHERE id = :id names the row by its key only. *)
Store(p) ==
    /\ pc[p] = "store"
    /\ \/ /\ rec[key[p]] # None
          /\ rec' = [rec EXCEPT ![key[p]].state = "completed",
                                ![key[p]].response = result[p]]
          /\ Goto(p, "confirm")
       \/ /\ rec[key[p]] = None
          /\ Reply(p, "error", None)
          /\ UNCHANGED rec
    /\ UNCHANGED worldVars

Confirm(p) ==
    /\ pc[p] = "confirm"
    /\ \/ rec[key[p]] # None /\ Reply(p, "created", result[p])
       \/ rec[key[p]] = None /\ Reply(p, "error", None)
    /\ UNCHANGED <<worldVars, rec>>

StoreStep(p) ==
    \/ TakeTime(p) \/ Prune(p) \/ Lookup(p) \/ Purge(p) \/ Insert(p) \/ Reread(p)
    \/ Fetch(p) \/ Store(p) \/ Confirm(p)

-----------------------------------------------------------------------------
(* The environment *)

(* A keyed handler that has taken its time and not answered yet. *)
Running(p) == key[p] # None /\ pc[p] \notin {"new", "begin", "sleep", "done"}

Tick ==
    /\ clock < MaxTime
    /\ Prompt => \A p \in Requests : Running(p) => clock + 1 < now[p] + TTL
    /\ clock' = clock + 1
    /\ UNCHANGED <<world, resets, rec, requestVars>>

(* The worker process dies, or the connection does: nobody gets an answer    *)
(* and what is committed stays.                                              *)
Abandon(p) ==
    /\ pc[p] \notin {"new", "done"}
    /\ Reply(p, "lost", None)
    /\ UNCHANGED <<worldVars, rec>>

(* reset_used_car_world: the first transaction deletes every row, the second *)
(* seeds the fixture rows again; no seeded row has an idempotency key.       *)
ClearWorld ==
    /\ world = "seeded"
    /\ resets < MaxResets
    /\ world' = "cleared"
    /\ resets' = resets + 1
    /\ rec' = [k \in Keys |-> None]
    /\ UNCHANGED <<clock, requestVars>>

SeedWorld ==
    /\ world = "cleared"
    /\ world' = "seeded"
    /\ UNCHANGED <<clock, resets, rec, requestVars>>
=============================================================================
