--------------------------- MODULE IdempotentPosts ---------------------------
(***************************************************************************)
(* POST /posts (app/services/posts.py) on top of the idempotency records.   *)
(* A post is named by the request that inserted it, so Results = Requests:  *)
(* key[q] and fp[q] are then the author's client_request_id and the body of *)
(* post q, and the posts table is a set of requests.                        *)
(***************************************************************************)
EXTENDS IdempotencyStore

CONSTANT Parent  \* the post that a body replies to or quotes, or None; the fixtures'
                 \* posts are there whenever the world is seeded, and left out

VARIABLE posts   \* the requests whose INSERT INTO posts is committed

vars == <<storeVars, posts>>

PostsAssumption == Results = Requests
ASSUME PostsAssumption
ParentAssumption == Parent \in [Fingerprints -> Requests \cup {None}]
ASSUME ParentAssumption

TypeOK ==
    /\ StoreTypeOK
    /\ posts \subseteq Requests
    /\ \A p \in Requests : pc[p] \in {"publish"} \cup Recording => result[p] \in Requests

Init == StoreInit /\ posts = {}

-----------------------------------------------------------------------------
ParentThere(p) == Parent[fp[p]] \in posts \cup {None}

(* Parent and quoted post are looked up before the INSERT: a missing one, or *)
(* a parent at MAX_REPLY_DEPTH, ends the request with a 404 or a 422.        *)
Resolve(p) ==
    /\ pc[p] = "execute"
    /\ \/ ParentThere(p) /\ Goto(p, "write")
       \/ Reply(p, "failed", None)
    /\ UNCHANGED <<worldVars, rec, posts>>

(* uq_posts_author_client_request_id *)
SamePost(p, q) == key[p] # None /\ key[q] = key[p]

(* Mutants: the table without its unique index, and without the foreign keys to *)
(* other posts.                                                             *)
RefusedByForeignKey(p) == world = "cleared" \/ ~ParentThere(p)
RefusedByIndex(p) == world = "cleared" \/ \E q \in posts : SamePost(p, q)

(* The foreign keys to the author and to the parent, and the unique index. *)
Refused(p) == world = "cleared" \/ ~ParentThere(p) \/ \E q \in posts : SamePost(p, q)

Write(p) ==
    /\ pc[p] = "write"
    /\ \/ /\ ~Refused(p)
          /\ posts' = posts \cup {p}
          /\ result' = [result EXCEPT ![p] = p]
          /\ pc' = [pc EXCEPT ![p] = "publish"]
          /\ UNCHANGED <<key, fp, now, waits, answer>>
       \/ /\ Refused(p)
          /\ Goto(p, "recover")
          /\ UNCHANGED posts
    /\ UNCHANGED <<worldVars, rec>>

(* After the IntegrityError: the post that holds the key, or the error again. *)
Recover(p) ==
    /\ pc[p] = "recover"
    /\ \/ \E q \in posts :
            /\ SamePost(p, q)
            /\ result' = [result EXCEPT ![p] = q]
            /\ pc' = [pc EXCEPT ![p] = "publish"]
            /\ UNCHANGED <<key, fp, now, waits, answer>>
       \/ /\ ~\E q \in posts : SamePost(p, q)
          /\ Reply(p, "error", None)
    /\ UNCHANGED <<worldVars, rec, posts>>

(* Mutant: the record is completed for requests without a key as well. *)
PublishRecordsAll(p) ==
    /\ pc[p] = "publish"
    /\ \/ result[p] \in posts /\ Goto(p, "fetch")
       \/ result[p] \notin posts /\ Reply(p, "error", None)
    /\ UNCHANGED <<worldVars, rec, posts>>

(* Mutant: the client is answered without completing the record. *)
PublishUnrecorded(p) ==
    /\ pc[p] = "publish"
    /\ \/ result[p] \in posts /\ Reply(p, "created", result[p])
       \/ result[p] \notin posts /\ Reply(p, "error", None)
    /\ UNCHANGED <<worldVars, rec, posts>>

(* db.refresh, resolve_public_post and post_dto read the post back. *)
Publish(p) ==
    /\ pc[p] = "publish"
    /\ \/ result[p] \in posts /\ key[p] # None /\ Goto(p, "fetch")
       \/ result[p] \in posts /\ key[p] = None /\ Reply(p, "created", result[p])
       \/ result[p] \notin posts /\ Reply(p, "error", None)
    /\ UNCHANGED <<worldVars, rec, posts>>

Step(p) ==
    \/ StoreStep(p) /\ UNCHANGED posts
    \/ Resolve(p) \/ Write(p) \/ Recover(p) \/ Publish(p)

Next ==
    \/ \E p \in Requests : Step(p)
    \/ \E p \in Requests : (Arrive(p) \/ Abandon(p)) /\ UNCHANGED posts
    \/ (Tick \/ SeedWorld) /\ UNCHANGED posts
    \/ ClearWorld /\ posts' = {}

Spec == Init /\ [][Next]_vars

(* Every handler runs in a thread of its own and no step of it blocks for    *)
(* ever; clients, crashes, resets and the clock are owed nothing.            *)
FairSpec == Spec /\ \A p \in Requests : WF_vars(Step(p))

-----------------------------------------------------------------------------
(* Properties *)

(* A request whose own record says "started" and that has not answered. *)
Executing(p) == key[p] # None /\ pc[p] \in Working \cup Recording

Succeeded(p) == pc[p] = "done" /\ answer[p].status \in {"created", "replayed"}

(* While no handler outlives the TTL and nobody resets the fixtures, the     *)
(* body of a keyed POST /posts is never run by two requests at a time, in    *)
(* spite of the window between the SELECT of the record and its INSERT.      *)
SingleExecutor ==
    \A p, q \in Requests : Executing(p) /\ Executing(q) /\ key[p] = key[q] => p = q

(* The INSERT of q was committed: only then does a request hold itself.      *)
Written(q) == result[q] = q

(* Retries of one operation all name one post: two successful answers for    *)
(* the same key name the same post, whatever crashed, expired or raced       *)
(* between them, unless a reset has taken the post of one of them.           *)
CanonicalReply ==
    \A p, q \in Requests :
        Succeeded(p) /\ Succeeded(q) /\ key[p] # None /\ key[p] = key[q]
            => \/ answer[p].result = answer[q].result
               \/ resets > 0 /\ ~({answer[p].result, answer[q].result} \subseteq posts)

(* A conflicting body is answered with the post of another body only after   *)
(* the retention window of the request that made the post has passed.        *)
BodyHeldForWindow ==
    \A p \in Requests :
        Succeeded(p) /\ key[p] # None /\ fp[answer[p].result] # fp[p]
            => clock >= now[answer[p].result] + TTL

(* A client that holds a 201 can retry safely until the window closes: the   *)
(* completed record is in the table and replays exactly that post.           *)
AnswerIsReplayable ==
    \A p \in Requests :
        pc[p] = "done" /\ key[p] # None /\ answer[p].status = "created" /\ clock < now[p] + TTL
            => rec[key[p]] = [fp |-> fp[p], state |-> "completed",
                              expires |-> now[p] + TTL, response |-> answer[p].result]

(* A completed record is immutable: it goes away when it expires, and no     *)
(* late handler rewrites it or sends it back to in_flight before that.       *)
CompletedIsFinal ==
    [][\A k \in Keys :
         rec[k] # None /\ rec[k].state = "completed" /\ rec'[k] # rec[k]
            => rec[k].expires <= clock]_vars

(* Every post has its author and its parent: no handler that resolved them    *)
(* before a fixture reset leaves a post between the two transactions of the   *)
(* reset, or a reply to a deleted post after it.                             *)
NoOrphanPost ==
    /\ world = "cleared" => posts = {}
    /\ \A q \in posts : ParentThere(q)

(* The detailed specification keeps the promise of KeyedCreation: a post is  *)
(* made under a key when its INSERT commits, a request is told of it when    *)
(* its success is sent, and a reset wipes it.                                *)
madeUnder == [k \in Keys |-> {q \in posts : key[q] = k}]
goneUnder == [k \in Keys |-> {q \in Requests : Written(q) /\ key[q] = k} \ posts]
toldOf == [p \in Requests |-> IF Succeeded(p) /\ key[p] # None
                              THEN answer[p].result ELSE None]
Promise == INSTANCE KeyedCreation WITH asked <- key, made <- madeUnder, gone <- goneUnder,
                                       told <- toldOf
PromiseKept == Promise!PromiseSpec

(* Every request that reaches the server is answered, or its client is gone: *)
(* losing the INSERT, recursing and waiting for another request all end.     *)
EveryRequestAnswered ==
    \A p \in Requests : pc[p] # "new" ~> pc[p] = "done"

-----------------------------------------------------------------------------
(* The inductive invariant behind SingleExecutor, AnswerIsReplayable,         *)
(* BodyHeldForWindow and CompletedIsFinal, for prompt handlers and no reset.  *)

NoReset == world = "seeded" /\ resets = 0

(* No handler is older than the TTL. *)
Timely == \A p \in Requests : Running(p) => now[p] <= clock /\ clock < now[p] + TTL

(* A post outlives only the statements that come after its INSERT. *)
MadeByNow == \A q \in posts : pc[q] \in {"publish", "done"} \cup Recording

(* What a handler pruned stays pruned: nobody inserts an expired record. *)
SeenFresh ==
    \A p \in Requests :
        /\ pc[p] \notin {"purge", "repurge"}
        /\ pc[p] \in {"lookup", "insert", "reread"} => ~Expired(rec[key[p]], now[p])

(* The record of an executing request stands for it until it is completed. *)
OwnRow(p) == [fp |-> fp[p],
              state |-> IF pc[p] = "confirm" THEN "completed" ELSE "in_flight",
              expires |-> now[p] + TTL,
              response |-> IF pc[p] = "confirm" THEN result[p] ELSE None]
Owned == \A p \in Requests : Executing(p) => rec[key[p]] = OwnRow(p)

(* The record that made a post lasts for its whole window. *)
WindowHeld ==
    \A q \in posts :
        key[q] # None /\ clock < now[q] + TTL
            => /\ rec[key[q]] # None
               /\ rec[key[q]].fp = fp[q]
               /\ rec[key[q]].expires = now[q] + TTL

(* A post that stands for a body other than its own is out of its window. *)
StandsFor(q, k, f) ==
    /\ q \in posts
    /\ key[q] = k
    /\ fp[q] = f \/ now[q] + TTL <= clock
ResultsStand ==
    /\ \A p \in Requests :
         Executing(p) /\ pc[p] \in {"publish"} \cup Recording => StandsFor(result[p], key[p], fp[p])
    /\ \A p \in Requests :
         Succeeded(p) /\ key[p] # None => StandsFor(answer[p].result, key[p], fp[p])
    /\ \A k \in Keys :
         rec[k] # None /\ rec[k].state = "completed" => StandsFor(rec[k].response, k, rec[k].fp)

WindowInvariant ==
    /\ TypeOK
    /\ NoReset
    /\ Timely
    /\ MadeByNow
    /\ SeenFresh
    /\ Owned
    /\ SingleExecutor
    /\ WindowHeld
    /\ ResultsStand
    /\ AnswerIsReplayable

(* The inductive invariant behind CanonicalReply and PromiseKept, for any     *)
(* handlers, late ones included, and any resets: posts are unique per key,    *)
(* and whatever a handler holds, a record keeps or a client was told is or    *)
(* was a post of its key.                                                     *)

PostOf(q, k) == q \in Requests /\ Written(q) /\ key[q] = k

OnePostPerKey == \A p, q \in posts : key[p] # None /\ key[p] = key[q] => p = q

(* A handler has no result before its INSERT or its recovery. *)
ResultsAreLate ==
    /\ \A q \in posts : Written(q)
    /\ \A p \in Requests : result[p] # None => pc[p] \in {"publish", "done"} \cup Recording

OnlyResetsTake ==
    resets = 0 => world = "seeded" /\ \A q \in Requests : Written(q) => q \in posts

AllNameTheirPost ==
    /\ \A p \in Requests :
         key[p] # None /\ pc[p] \in {"publish"} \cup Recording => PostOf(result[p], key[p])
    /\ \A p \in Requests : key[p] # None /\ Succeeded(p) => PostOf(answer[p].result, key[p])
    /\ \A k \in Keys : rec[k] # None /\ rec[k].state = "completed" => PostOf(rec[k].response, k)

KeyInvariant ==
    /\ TypeOK
    /\ OnePostPerKey
    /\ ResultsAreLate
    /\ OnlyResetsTake
    /\ AllNameTheirPost

-----------------------------------------------------------------------------
(* Statements of the documentation that the code does not keep *)

(* "Reusing a key with the same normalized operation should return the       *)
(* canonical previous result. Reusing a key with conflicting body or target  *)
(* data should fail with a generic conflict response." A success therefore   *)
(* names a post with the body of the request, whenever the key is reused.    *)
AnswerMatchesBody ==
    \A p \in Requests : Succeeded(p) => fp[answer[p].result] = fp[p]

(* The same sentence for a retry: when the post of this very operation is    *)
(* committed and its own request is over, a retry does not get a conflict.   *)
RetryReturnsPrevious ==
    [][\A p \in Requests, q \in posts :
         /\ pc[p] # "done" /\ pc'[p] = "done" /\ answer'[p].status = "conflict"
         /\ SamePost(p, q) /\ fp[q] = fp[p]
         => pc[q] # "done"]_vars

=============================================================================
