---------------------------- MODULE Relationships ----------------------------
(***************************************************************************)
(* Likes, reposts and follows (app/services/relationships.py) on top of the *)
(* idempotency records.  The three kinds run the same code on tables of the *)
(* same shape, so the module is one of them: actors and posts for likes and *)
(* reposts, actors and actors for follows.                                  *)
(*                                                                          *)
(* A row is named by the request that inserted it, which tells a row from   *)
(* one that was deleted and made again; its id does not, since it is a hash *)
(* of the pair.                                                             *)
(***************************************************************************)
EXTENDS IdempotencyStore

CONSTANTS Actors, Targets, ClientIds

Pairs == Actors \X Targets

(* The scope of a key holds its actor and target; the fingerprint of a       *)
(* create covers nothing but the client_request_id.                          *)
RelationshipAssumption ==
    /\ Keys = Pairs \X ClientIds
    /\ Results = Requests
    /\ \A f, g \in Fingerprints : f = g
ASSUME RelationshipAssumption

VARIABLES
    rows,      \* the table: pair -> the request that inserted the row, or None
    op,        \* "create" or "delete"
    pair,      \* the actor and the target of the request
    inserted   \* the flag created of _insert_or_get_*: 201 rather than 200

relationVars == <<rows, op, pair, inserted>>
vars == <<storeVars, relationVars>>

TypeOK ==
    /\ StoreTypeOK
    /\ rows \in [Pairs -> Requests \cup {None}]
    /\ op \in [Requests -> {"create", "delete"}]
    /\ pair \in [Requests -> Pairs \cup {None}]
    /\ inserted \in [Requests -> BOOLEAN]
    /\ \A p \in Requests :
         /\ pc[p] # "new" => pair[p] \in Pairs
         /\ op[p] = "delete" => pc[p] # "new" /\ key[p] = None
         /\ key[p] # None => key[p][1] = pair[p]
         /\ pc[p] \in Recording => result[p] \in Requests

Init ==
    /\ StoreInit
    /\ rows = [r \in Pairs |-> None]
    /\ op = [p \in Requests |-> "create"]
    /\ pair = [p \in Requests |-> None]
    /\ inserted = [p \in Requests |-> FALSE]

-----------------------------------------------------------------------------
(* Arrivals: the actor comes from the token, the target from the path. *)

Create(p) ==
    /\ Arrive(p)
    /\ \E r \in Pairs :
         /\ r[1] # r[2]
         /\ key'[p] # None => key'[p][1] = r
         /\ pair' = [pair EXCEPT ![p] = r]
    /\ UNCHANGED <<rows, op, inserted>>

(* An agent that follows itself gets the 409 before any record is looked at. *)
FollowSelf(p) ==
    /\ pc[p] = "new"
    /\ world = "seeded"
    /\ \E a \in Actors \cap Targets : pair' = [pair EXCEPT ![p] = <<a, a>>]
    /\ \E f \in Fingerprints : fp' = [fp EXCEPT ![p] = f]
    /\ pc' = [pc EXCEPT ![p] = "done"]
    /\ answer' = [answer EXCEPT ![p] = [status |-> "conflict", result |-> None]]
    /\ UNCHANGED <<worldVars, rec, key, now, waits, result, rows, op, inserted>>

Delete(p) ==
    /\ Arrive(p)
    /\ key' = key
    /\ \E r \in Pairs : pair' = [pair EXCEPT ![p] = r]
    /\ op' = [op EXCEPT ![p] = "delete"]
    /\ UNCHANGED <<rows, inserted>>

-----------------------------------------------------------------------------
(* The handlers *)

(* Mutant: the record is completed for requests without a key as well. *)
ServeRecordsAll(p, q) ==
    /\ result' = [result EXCEPT ![p] = q]
    /\ pc' = [pc EXCEPT ![p] = "fetch"]
    /\ UNCHANGED <<key, fp, now, waits, answer>>

(* The response is row q, recorded first when the request has a key. *)
Serve(p, q) ==
    /\ result' = [result EXCEPT ![p] = q]
    /\ \/ /\ key[p] # None
          /\ pc' = [pc EXCEPT ![p] = "fetch"]
          /\ answer' = answer
       \/ /\ key[p] = None
          /\ pc' = [pc EXCEPT ![p] = "done"]
          /\ answer' = [answer EXCEPT ![p] = [status |-> "created", result |-> q]]
    /\ UNCHANGED <<key, fp, now, waits>>

(* The DELETE and its COMMIT; after a reset has deleted the token, the       *)
(* pending write of last_used_at fails instead.                              *)
Remove(p) ==
    /\ pc[p] = "execute" /\ op[p] = "delete"
    /\ \/ /\ world = "seeded"
          /\ rows' = [rows EXCEPT ![pair[p]] = None]
          /\ Reply(p, "deleted", None)
       \/ /\ world = "cleared"
          /\ Reply(p, "error", None)
          /\ UNCHANGED rows
    /\ UNCHANGED <<worldVars, rec, op, pair, inserted>>

(* The SELECT before the INSERT. *)
Find(p) ==
    /\ pc[p] = "execute" /\ op[p] = "create"
    /\ \/ rows[pair[p]] # None /\ Serve(p, rows[pair[p]])
       \/ rows[pair[p]] = None /\ Goto(p, "write")
    /\ UNCHANGED <<worldVars, rec, relationVars>>

(* Mutant: an upsert, as if the pair were not unique. *)
WriteOverwrites(p) ==
    /\ pc[p] = "write"
    /\ rows' = [rows EXCEPT ![pair[p]] = p]
    /\ inserted' = [inserted EXCEPT ![p] = TRUE]
    /\ Goto(p, "publish")
    /\ UNCHANGED <<worldVars, rec, op, pair>>

(* Mutant: no foreign key to the actor and the target. *)
WriteUnreferenced(p) ==
    /\ pc[p] = "write"
    /\ \/ /\ rows[pair[p]] = None
          /\ rows' = [rows EXCEPT ![pair[p]] = p]
          /\ inserted' = [inserted EXCEPT ![p] = TRUE]
          /\ Goto(p, "publish")
       \/ /\ rows[pair[p]] # None
          /\ Goto(p, "recover")
          /\ UNCHANGED <<rows, inserted>>
    /\ UNCHANGED <<worldVars, rec, op, pair>>

(* The INSERT and its COMMIT, under the unique constraint on the pair and    *)
(* the foreign keys.  Without a client_request_id this COMMIT is the one     *)
(* that writes last_used_at.                                                 *)
Write(p) ==
    /\ pc[p] = "write"
    /\ \/ /\ world = "seeded" /\ rows[pair[p]] = None
          /\ rows' = [rows EXCEPT ![pair[p]] = p]
          /\ inserted' = [inserted EXCEPT ![p] = TRUE]
          /\ Goto(p, "publish")
       \/ /\ world = "cleared" \/ rows[pair[p]] # None
          /\ Goto(p, "recover")
          /\ UNCHANGED <<rows, inserted>>
       \/ /\ world = "cleared" /\ key[p] = None
          /\ Reply(p, "error", None)
          /\ UNCHANGED <<rows, inserted>>
    /\ UNCHANGED <<worldVars, rec, op, pair>>

(* After the IntegrityError: the row that is there, or a conflict.  The      *)
(* rollback expired the actor, which is read again first.                    *)
Recover(p) ==
    /\ pc[p] = "recover"
    /\ \/ rows[pair[p]] # None /\ Serve(p, rows[pair[p]])
       \/ rows[pair[p]] = None /\ world = "seeded" /\ Reply(p, "conflict", None)
       \/ rows[pair[p]] = None /\ world = "cleared" /\ Reply(p, "error", None)
    /\ UNCHANGED <<worldVars, rec, relationVars>>

(* db.refresh reads the row with the id of the pair, whoever inserted it, and *)
(* raises when there is none.                                                 *)
Publish(p) ==
    /\ pc[p] = "publish"
    /\ \/ rows[pair[p]] # None /\ Serve(p, rows[pair[p]])
       \/ rows[pair[p]] = None /\ Reply(p, "error", None)
    /\ UNCHANGED <<worldVars, rec, relationVars>>

Step(p) ==
    \/ StoreStep(p) /\ UNCHANGED relationVars
    \/ Remove(p) \/ Find(p) \/ Write(p) \/ Recover(p) \/ Publish(p)

Next ==
    \/ \E p \in Requests : Create(p) \/ FollowSelf(p) \/ Delete(p) \/ Step(p)
    \/ \E p \in Requests : Abandon(p) /\ UNCHANGED relationVars
    \/ (Tick \/ SeedWorld) /\ UNCHANGED relationVars
    \/ /\ ClearWorld
       /\ rows' = [r \in Pairs |-> None]
       /\ UNCHANGED <<op, pair, inserted>>

Spec == Init /\ [][Next]_vars

-----------------------------------------------------------------------------
(* Properties *)

Succeeded(p) == pc[p] = "done" /\ answer[p].status \in {"created", "replayed", "deleted"}

(* Whatever runs, crashes and expires in between, each request is applied to *)
(* the set of pairs at most once and in one step; a 201 or 200 is never sent *)
(* unless this request or the one it repeats has had its effect.             *)
present == [r \in Pairs |-> rows[r] # None]
effect == [p \in Requests |->
              CASE inserted[p]                           -> "made"
                [] ~inserted[p] /\ result[p] # None      -> "found"
                [] answer[p].status = "deleted"          -> "removed"
                [] OTHER                                 -> "none"]
told == [p \in Requests |-> Succeeded(p)]
Set == INSTANCE RelationSet WITH wants <- pair, asked <- key
SetKept == Set!SetSpec

(* A retry does not bring back what was deleted since: while handlers are    *)
(* prompt and no fixture reset has run, a request inserts the row a second     *)
(* time under one key only when the retention window of the first insert is    *)
(* over.  (A request may have begun inside that window and insert after it.)   *)
OneInsertPerWindow ==
    [][resets = 0 => \A p, q \in Requests :
         /\ p # q /\ key[p] # None /\ key[p] = key[q]
         /\ inserted[q] /\ ~inserted[p] /\ inserted'[p]
         => now[q] + TTL <= clock]_vars

(* No row exists between the two transactions of a fixture reset.            *)
ClearedWorldHasNoRows == world = "cleared" => \A r \in Pairs : rows[r] = None

-----------------------------------------------------------------------------
(* The inductive invariant behind SetKept.                                   *)

(* What a request holds fits the place where its handler is. *)
HandsMatchPlace ==
    \A p \in Requests :
        /\ pc[p] = "new" => pair[p] = None
        /\ pc[p] # "done" => answer[p].status = "none"
        /\ inserted[p] => pc[p] \in {"publish", "done"} \cup Recording
        /\ pc[p] = "publish" => inserted[p]
        /\ result[p] # None => pc[p] \in {"done"} \cup Recording

(* A completed record was completed by a request that had its effect. *)
RecordsHaveEffect ==
    \A k \in Keys :
        rec[k] # None /\ rec[k].state = "completed"
            => \E q \in Requests : key[q] = k /\ effect[q] # "none"

SetInvariant == TypeOK /\ HandsMatchPlace /\ RecordsHaveEffect

(* The inductive invariant behind OneInsertPerWindow: before any reset,       *)
(* while handlers are prompt.                                                *)

Executing(p) == key[p] # None /\ pc[p] \in Working \cup Recording

Timely == \A p \in Requests : Running(p) => now[p] <= clock /\ clock < now[p] + TTL

(* What has been pruned is not there to be purged. *)
SeenFresh ==
    \A p \in Requests :
        /\ pc[p] \notin {"purge", "repurge"}
        /\ pc[p] \in {"lookup", "insert", "reread"} => ~Expired(rec[key[p]], now[p])

(* The record of the request that executes is there until its window closes. *)
Owned ==
    \A p \in Requests :
        Executing(p) => rec[key[p]] # None /\ rec[key[p]].expires = now[p] + TTL

SingleExecutor ==
    \A p, q \in Requests : Executing(p) /\ Executing(q) /\ key[p] = key[q] => p = q

(* And so is the record of a request that has inserted its row. *)
HeldForWindow ==
    \A q \in Requests :
        inserted[q] /\ key[q] # None /\ clock < now[q] + TTL
            => rec[key[q]] # None /\ rec[key[q]].expires = now[q] + TTL

(* Whoever executes after an insert under its key does so after its window. *)
Apart ==
    \A p, q \in Requests :
        p # q /\ Executing(p) /\ key[q] = key[p] /\ inserted[q] => now[q] + TTL <= clock

WindowInvariant ==
    /\ world = "seeded"
    /\ Timely /\ SeenFresh /\ Owned /\ SingleExecutor
    /\ HeldForWindow /\ Apart

OnceInvariant == TypeOK /\ HandsMatchPlace /\ (resets = 0 => WindowInvariant)

=============================================================================
