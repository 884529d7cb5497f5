----------------------- MODULE IdempotentPosts_proofs -----------------------
(* Theorems about IdempotentPosts for every value of its constants. *)
EXTENDS IdempotentPosts, TLAPS

USE StoreAssumption, PostsAssumption DEF PostsAssumption

-----------------------------------------------------------------------------
(* Type correctness *)

LEMMA DecisionRange ==
    ASSUME NEW row \in RowSet, NEW f
    PROVE  Decision(row, f) \in {"conflict", "replay", "in_flight"}
BY DEF Decision, RowSet

LEMMA InitType == Init => TypeOK
BY DEF Init, StoreInit, TypeOK, StoreTypeOK, AnswerSet, Labels, Beginning, Working, Recording

(* The moves of a handler keep the types of the request variables. *)
RequestTypeOK ==
    /\ pc \in [Requests -> Labels]
    /\ key \in [Requests -> Keys \cup {None}]
    /\ fp \in [Requests -> Fingerprints \cup {None}]
    /\ now \in [Requests -> Nat]
    /\ waits \in [Requests -> 0..MaxWaits]
    /\ result \in [Requests -> Results \cup {None}]
    /\ answer \in [Requests -> AnswerSet]
    /\ \A p \in Requests :
         /\ pc[p] \in Beginning \cup Recording => key[p] \in Keys
         /\ IF pc[p] = "new" THEN key[p] = None ELSE fp[p] \in Fingerprints
         /\ pc[p] \in {"publish"} \cup Recording => result[p] \in Requests

DatabaseTypeOK ==
    /\ clock \in 0..MaxTime
    /\ world \in {"seeded", "cleared"}
    /\ resets \in 0..MaxResets
    /\ rec \in [Keys -> RowSet \cup {None}]
    /\ posts \subseteq Requests

LEMMA TypeParts ==
    /\ TypeOK <=> RequestTypeOK /\ DatabaseTypeOK
    /\ TypeOK' <=> RequestTypeOK' /\ DatabaseTypeOK'
BY DEF TypeOK, StoreTypeOK, RequestTypeOK, DatabaseTypeOK

LEMMA GotoType ==
    ASSUME RequestTypeOK, NEW p \in Requests, NEW label \in Labels \ {"new", "done"},
           Goto(p, label), pc[p] # "new",
           label \in Beginning \cup Recording => key[p] \in Keys,
           label \in {"publish"} \cup Recording => result[p] \in Requests
    PROVE  RequestTypeOK'
BY DEF RequestTypeOK, Goto

LEMMA ReplyType ==
    ASSUME RequestTypeOK, NEW p \in Requests, pc[p] # "new",
           NEW status \in {"created", "replayed", "conflict", "failed", "error", "lost"},
           NEW r \in Results \cup {None}, Reply(p, status, r)
    PROVE  RequestTypeOK'
BY DEF RequestTypeOK, Reply, AnswerSet, Labels, Recording, Beginning, Working

LEMMA NextWaitType ==
    ASSUME RequestTypeOK, NEW p \in Requests, pc[p] \in Beginning, NextWait(p)
    PROVE  RequestTypeOK'
<1>1. CASE waits[p] = MaxWaits /\ Reply(p, "conflict", None)
  BY <1>1, ReplyType DEF Beginning
<1>2. CASE /\ waits[p] < MaxWaits
           /\ pc' = [pc EXCEPT ![p] = "sleep"]
           /\ waits' = [waits EXCEPT ![p] = @ + 1]
           /\ UNCHANGED <<key, fp, now, result, answer>>
  <2>1. waits[p] + 1 \in 0..MaxWaits
    BY <1>2 DEF RequestTypeOK
  <2> QED
    BY <1>2, <2>1 DEF RequestTypeOK, Beginning, Recording, Labels
<1> QED
  BY <1>1, <1>2 DEF NextWait

LEMMA ActType ==
    ASSUME RequestTypeOK, NEW p \in Requests, pc[p] \in Beginning,
           NEW outcome, NEW row,
           outcome = "replay" => row.response \in Results \cup {None},
           Act(p, outcome, row)
    PROVE  RequestTypeOK'
<1>0. pc[p] # "new" /\ "execute" \in Labels \ {"new", "done"}
  BY DEF Beginning, Labels, Working
<1>1. CASE outcome = "replay" /\ Reply(p, "replayed", row.response)
  BY <1>0, <1>1, ReplyType
<1>2. CASE Reply(p, "conflict", None)
  BY <1>0, <1>2, ReplyType
<1>3. CASE NextWait(p)
  BY <1>3, NextWaitType
<1>4. CASE Goto(p, "execute")
  BY <1>0, <1>4, GotoType DEF Beginning, Recording
<1> QED
  BY <1>1, <1>2, <1>3, <1>4 DEF Act

LEMMA BeginType ==
    ASSUME TypeOK, NEW p \in Requests,
           TakeTime(p) \/ Prune(p) \/ Lookup(p) \/ Purge(p) \/ Insert(p) \/ Reread(p),
           UNCHANGED posts
    PROVE  TypeOK'
<1>0. /\ RequestTypeOK /\ DatabaseTypeOK
      /\ pc[p] \in Beginning => key[p] \in Keys /\ pc[p] # "new" /\ fp[p] \in Fingerprints
      /\ {"lookup", "insert", "prune", "purge", "reread", "repurge"}
            \subseteq Labels \ {"new", "done"}
      /\ {"lookup", "insert", "prune", "purge", "reread", "repurge"} \subseteq Beginning
      /\ ({"publish"} \cup Recording) \cap Beginning = {}
      /\ TTL \in Nat
  BY TypeParts DEF Labels, RequestTypeOK, Beginning, Recording
<1>1. ASSUME NEW label \in {"lookup", "insert", "prune", "purge", "reread", "repurge"},
             pc[p] \in Beginning, Goto(p, label)
      PROVE  RequestTypeOK'
  BY <1>0, <1>1, GotoType
<1>2. SUFFICES RequestTypeOK' /\ DatabaseTypeOK'
  BY TypeParts
<1>3. CASE TakeTime(p)
  <2>1. clock \in Nat /\ pc[p] \in Beginning
    BY <1>0, <1>3 DEF TakeTime, DatabaseTypeOK, Beginning
  <2>2. RequestTypeOK'
    BY <1>0, <1>3, <2>1 DEF TakeTime, RequestTypeOK, Beginning, Labels, Recording
  <2> QED
    BY <1>0, <1>3, <2>2 DEF TakeTime, DatabaseTypeOK, worldVars
<1>4. CASE Prune(p)
  <2>1. pc[p] \in Beginning /\ DatabaseTypeOK'
    BY <1>0, <1>4 DEF Prune, DatabaseTypeOK, worldVars, Beginning
  <2>2. RequestTypeOK'
    BY <1>0, <1>1, <1>4, <2>1, ReplyType DEF Prune
  <2> QED
    BY <2>1, <2>2
<1>5. CASE Lookup(p) \/ Reread(p)
  <2>1. pc[p] \in Beginning /\ DatabaseTypeOK'
    BY <1>0, <1>5 DEF Lookup, Reread, DatabaseTypeOK, worldVars, Beginning
  <2>2. rec[key[p]] # None => rec[key[p]].response \in Results \cup {None}
    BY <1>0, <2>1 DEF DatabaseTypeOK, RowSet
  <2>3. RequestTypeOK'
    BY <1>0, <1>1, <1>5, <2>1, <2>2, ActType DEF Lookup, Reread
  <2> QED
    BY <2>1, <2>3
<1>6. CASE Purge(p)
  <2>1. pc[p] \in Beginning /\ DatabaseTypeOK'
    BY <1>0, <1>6 DEF Purge, DatabaseTypeOK, worldVars, Beginning
  <2> QED
    BY <1>0, <1>1, <1>6, <2>1 DEF Purge
<1>7. CASE Insert(p)
  <2>1. pc[p] \in Beginning /\ now[p] + TTL \in Nat
    BY <1>0, <1>7 DEF Insert, RequestTypeOK, Beginning
  <2>2. FreshRow(p) \in RowSet
    BY <1>0, <2>1 DEF FreshRow, RowSet
  <2>3. DatabaseTypeOK'
    BY <1>0, <1>7, <2>1, <2>2 DEF Insert, DatabaseTypeOK, worldVars
  <2>4. RequestTypeOK'
    BY <1>0, <1>1, <1>7, <2>1, ActType DEF Insert
  <2> QED
    BY <2>3, <2>4
<1> QED
  BY <1>3, <1>4, <1>5, <1>6, <1>7

LEMMA RecordType ==
    ASSUME TypeOK, NEW p \in Requests,
           Fetch(p) \/ Store(p) \/ Confirm(p), UNCHANGED posts
    PROVE  TypeOK'
<1>0. /\ RequestTypeOK /\ DatabaseTypeOK
      /\ pc[p] \in Recording => key[p] \in Keys /\ pc[p] # "new" /\ result[p] \in Requests
      /\ {"store", "confirm"} \subseteq Labels \ {"new", "done"}
  BY TypeParts DEF Labels, RequestTypeOK, Recording
<1>1. pc[p] \in Recording
  BY DEF Fetch, Store, Confirm, Recording
<1>2. SUFFICES RequestTypeOK' /\ DatabaseTypeOK'
  BY TypeParts
<1>3. RequestTypeOK'
  BY <1>0, <1>1, GotoType, ReplyType DEF Fetch, Store, Confirm
<1>4. CASE Fetch(p) \/ Confirm(p)
  BY <1>0, <1>3, <1>4 DEF Fetch, Confirm, DatabaseTypeOK, worldVars
<1>5. CASE Store(p)
  <2>1. rec[key[p]] # None => [rec[key[p]] EXCEPT !.state = "completed", !.response = result[p]] \in RowSet
    BY <1>0, <1>1 DEF DatabaseTypeOK, RowSet
  <2> QED
    BY <1>0, <1>1, <1>3, <1>5, <2>1 DEF Store, DatabaseTypeOK, worldVars
<1> QED
  BY <1>4, <1>5

LEMMA PostType ==
    ASSUME TypeOK, NEW p \in Requests,
           Resolve(p) \/ Write(p) \/ Recover(p) \/ Publish(p)
    PROVE  TypeOK'
<1>0. /\ RequestTypeOK /\ DatabaseTypeOK
      /\ {"write", "recover", "fetch"} \subseteq Labels \ {"new", "done"}
      /\ {"write", "recover"} \cap (Beginning \cup Recording \cup {"publish"}) = {}
      /\ pc[p] = "publish" => result[p] \in Requests
  BY TypeParts DEF Labels, Working, RequestTypeOK, Recording, Beginning
<1>1. SUFFICES RequestTypeOK' /\ DatabaseTypeOK'
  BY TypeParts
<1>2. DatabaseTypeOK'
  BY <1>0 DEF Resolve, Write, Recover, Publish, DatabaseTypeOK, worldVars
<1>3. CASE Resolve(p)
  BY <1>0, <1>2, <1>3, GotoType, ReplyType DEF Resolve
<1>4. ASSUME NEW q \in Requests, pc[p] # "new",
             result' = [result EXCEPT ![p] = q],
             pc' = [pc EXCEPT ![p] = "publish"],
             UNCHANGED <<key, fp, now, waits, answer>>
      PROVE  RequestTypeOK'
  BY <1>0, <1>4 DEF RequestTypeOK, Labels, Working, Recording, Beginning
<1>5. CASE Write(p)
  BY <1>0, <1>2, <1>4, <1>5, GotoType DEF Write
<1>6. CASE Recover(p)
  <2>1. posts \subseteq Requests
    BY <1>0 DEF DatabaseTypeOK
  <2> QED
    BY <1>2, <1>4, <1>6, <2>1, <1>0, ReplyType DEF Recover
<1>7. CASE Publish(p)
  <2>1. pc[p] = "publish" /\ (key[p] # None => key[p] \in Keys)
    BY <1>0, <1>7 DEF Publish, RequestTypeOK
  <2> QED
    BY <1>0, <1>2, <1>7, <2>1, GotoType, ReplyType DEF Publish
<1> QED
  BY <1>3, <1>5, <1>6, <1>7

LEMMA OutsideType ==
    ASSUME TypeOK,
           \/ \E p \in Requests : (Arrive(p) \/ Abandon(p)) /\ UNCHANGED posts
           \/ (Tick \/ SeedWorld) /\ UNCHANGED posts
           \/ ClearWorld /\ posts' = {}
    PROVE  TypeOK'
<1>0. RequestTypeOK /\ DatabaseTypeOK
  BY TypeParts
<1>1. SUFFICES RequestTypeOK' /\ DatabaseTypeOK'
  BY TypeParts
<1>2. ASSUME NEW p \in Requests, Arrive(p), UNCHANGED posts
      PROVE  RequestTypeOK' /\ DatabaseTypeOK'
  <2>1. DatabaseTypeOK'
    BY <1>0, <1>2 DEF Arrive, DatabaseTypeOK, worldVars
  <2>2. RequestTypeOK'
    BY <1>0, <1>2 DEF Arrive, RequestTypeOK, Labels, Beginning, Working, Recording
  <2> QED
    BY <2>1, <2>2
<1>3. ASSUME NEW p \in Requests, Abandon(p), UNCHANGED posts
      PROVE  RequestTypeOK' /\ DatabaseTypeOK'
  BY <1>0, <1>3, ReplyType DEF Abandon, DatabaseTypeOK, worldVars
<1>4. CASE (Tick \/ SeedWorld) /\ UNCHANGED posts
  BY <1>0, <1>4 DEF Tick, SeedWorld, requestVars, DatabaseTypeOK, RequestTypeOK
<1>5. CASE ClearWorld /\ posts' = {}
  BY <1>0, <1>5 DEF ClearWorld, requestVars, DatabaseTypeOK, RequestTypeOK
<1> QED
  BY <1>2, <1>3, <1>4, <1>5

LEMMA NextType == TypeOK /\ [Next]_vars => TypeOK'
<1> SUFFICES ASSUME TypeOK, [Next]_vars PROVE TypeOK'
  OBVIOUS
<1>1. CASE UNCHANGED vars
  BY <1>1 DEF vars, storeVars, worldVars, requestVars, TypeOK, StoreTypeOK
<1>2. CASE Next
  BY <1>2, BeginType, RecordType, PostType, OutsideType DEF Next, Step, StoreStep
<1> QED
  BY <1>1, <1>2

(* The state of POST /posts and of the idempotency records always has the    *)
(* expected type: in particular no handler completes a record it has no key  *)
(* for, or without the post that it stands for, and no wait loop overruns.   *)
THEOREM TypeCorrect == Spec => []TypeOK
BY InitType, NextType, PTL DEF Spec

-----------------------------------------------------------------------------
(* The window invariant *)

LEMMA InitWindow == Init => WindowInvariant
<1> SUFFICES ASSUME Init PROVE WindowInvariant
  OBVIOUS
<1>1. TypeOK
  BY InitType
<1>2. /\ \A p \in Requests : pc[p] = "new" /\ key[p] = None
      /\ \A k \in Keys : rec[k] = None
      /\ posts = {} /\ world = "seeded" /\ resets = 0
  BY DEF Init, StoreInit
<1> QED
  BY <1>1, <1>2 DEF WindowInvariant, NoReset, Timely, Running, MadeByNow, SeenFresh,
     Owned, Executing, SingleExecutor, WindowHeld, ResultsStand, Succeeded,
     AnswerIsReplayable

(* A step of one handler that leaves both tables, the clock and the identity *)
(* of the request alone preserves the invariant when the new state of that   *)
(* handler fits it.                                                          *)
Moved(p) ==
    /\ pc' = [pc EXCEPT ![p] = pc'[p]]
    /\ result' = [result EXCEPT ![p] = result'[p]]
    /\ answer' = [answer EXCEPT ![p] = answer'[p]]
    /\ UNCHANGED <<key, fp, now, rec, posts, worldVars>>

Fits(p) ==
    /\ Running(p)' => Running(p)
    /\ p \in posts => pc'[p] \in {"publish", "done"} \cup Recording
    /\ pc'[p] \notin {"purge", "repurge"}
    /\ pc'[p] \in {"lookup", "insert", "reread"} => ~Expired(rec[key[p]], now[p])
    /\ Executing(p)' => Executing(p) /\ rec[key[p]] = OwnRow(p)'
    /\ Executing(p)' /\ pc'[p] \in {"publish"} \cup Recording
          => StandsFor(result'[p], key[p], fp[p])
    /\ Succeeded(p)' /\ key[p] # None => StandsFor(answer'[p].result, key[p], fp[p])
    /\ pc'[p] = "done" /\ key[p] # None /\ answer'[p].status = "created" /\ clock < now[p] + TTL
          => rec[key[p]] = [fp |-> fp[p], state |-> "completed",
                            expires |-> now[p] + TTL, response |-> answer'[p].result]

LEMMA MoveStep ==
    ASSUME WindowInvariant, TypeOK', NEW p \in Requests, Moved(p), Fits(p)
    PROVE  WindowInvariant'
<1> USE DEF Moved
<1>0. /\ clock' = clock /\ world' = world /\ resets' = resets
      /\ \A q \in Requests \ {p} : pc'[q] = pc[q] /\ result'[q] = result[q] /\ answer'[q] = answer[q]
  BY DEF worldVars, WindowInvariant, TypeOK, StoreTypeOK
<1>1. \A q, k, f : StandsFor(q, k, f) => StandsFor(q, k, f)'
  BY <1>0 DEF StandsFor
<1>2. NoReset'
  BY <1>0 DEF WindowInvariant, NoReset
<1>3. Timely'
  BY <1>0 DEF WindowInvariant, Timely, Running, Fits
<1>4. MadeByNow'
  BY <1>0 DEF WindowInvariant, MadeByNow, Fits, TypeOK
<1>5. SeenFresh'
  BY <1>0 DEF WindowInvariant, SeenFresh, Fits, Expired
<1>6. Owned'
  <2> SUFFICES ASSUME NEW q \in Requests, Executing(q)' PROVE rec'[key'[q]] = OwnRow(q)'
    BY DEF Owned
  <2>1. CASE q = p
    BY <2>1 DEF Fits
  <2>2. CASE q # p
    <3>1. Executing(q) /\ OwnRow(q)' = OwnRow(q)
      BY <1>0, <2>2 DEF Executing, OwnRow
    <3> QED
      BY <3>1 DEF WindowInvariant, Owned
  <2> QED
    BY <2>1, <2>2
<1>7. SingleExecutor'
  <2>1. \A q \in Requests : Executing(q)' => Executing(q)
    BY <1>0 DEF Executing, Fits
  <2> QED
    BY <2>1 DEF WindowInvariant, SingleExecutor
<1>8. WindowHeld'
  BY <1>0 DEF WindowInvariant, WindowHeld
<1>9. ResultsStand'
  <2>1. ASSUME NEW q \in Requests, Executing(q)', pc'[q] \in {"publish"} \cup Recording
        PROVE  StandsFor(result'[q], key[q], fp[q])
    BY <1>0, <2>1 DEF WindowInvariant, ResultsStand, Executing, Fits
  <2>2. ASSUME NEW q \in Requests, Succeeded(q)', key[q] # None
        PROVE  StandsFor(answer'[q].result, key[q], fp[q])
    BY <1>0, <2>2 DEF WindowInvariant, ResultsStand, Succeeded, Fits
  <2>3. ASSUME NEW k \in Keys, rec[k] # None, rec[k].state = "completed"
        PROVE  StandsFor(rec[k].response, k, rec[k].fp)
    BY <2>3 DEF WindowInvariant, ResultsStand
  <2>4. \A q \in Requests :
           Executing(q)' /\ pc'[q] \in {"publish"} \cup Recording => StandsFor(result[q], key[q], fp[q])'
    BY <1>0, <1>1, <2>1
  <2>5. \A q \in Requests :
           Succeeded(q)' /\ key'[q] # None => StandsFor(answer[q].result, key[q], fp[q])'
    BY <1>0, <1>1, <2>2
  <2>6. \A k \in Keys :
           rec'[k] # None /\ rec'[k].state = "completed" => StandsFor(rec[k].response, k, rec[k].fp)'
    BY <1>0, <1>1, <2>3
  <2> QED
    BY <2>4, <2>5, <2>6 DEF ResultsStand
<1>10. AnswerIsReplayable'
  BY <1>0 DEF WindowInvariant, AnswerIsReplayable, Fits
<1> QED
  BY <1>2, <1>3, <1>4, <1>5, <1>6, <1>7, <1>8, <1>9, <1>10 DEF WindowInvariant

(* Goto and Reply are moves; the rest of this section shows that they fit.    *)
LEMMA GotoMoves ==
    ASSUME TypeOK, NEW p \in Requests, NEW label, Goto(p, label), UNCHANGED <<rec, posts, worldVars>>
    PROVE  Moved(p) /\ pc'[p] = label /\ result'[p] = result[p] /\ answer'[p] = answer[p]
BY DEF TypeOK, StoreTypeOK, Goto, Moved

LEMMA ReplyMoves ==
    ASSUME TypeOK, NEW p \in Requests, NEW status, NEW r, Reply(p, status, r),
           UNCHANGED <<rec, posts, worldVars>>
    PROVE  /\ Moved(p) /\ pc'[p] = "done"
           /\ answer'[p].status = status /\ answer'[p].result = r
BY DEF TypeOK, StoreTypeOK, Reply, Moved

(* A handler that has not executed anything may poll, lose or give up.        *)
LEMMA IdleGoto ==
    ASSUME WindowInvariant, TypeOK', NEW p \in Requests, pc[p] \in Beginning \ {"begin", "sleep"},
           NEW label \in {"prune", "lookup", "insert", "reread"},
           label # "prune" => ~Expired(rec[key[p]], now[p]),
           Goto(p, label), UNCHANGED <<rec, posts, worldVars>>
    PROVE  WindowInvariant'
<1>1. TypeOK /\ Moved(p) /\ pc'[p] = label
  BY GotoMoves DEF WindowInvariant
<1>2. key' = key /\ p \notin posts
  BY DEF Goto, WindowInvariant, MadeByNow, Beginning, Recording
<1>3. Fits(p)
  BY <1>1, <1>2 DEF Fits, Running, Executing, Succeeded, Beginning, Working, Recording
<1> QED
  BY <1>1, <1>3, MoveStep

LEMMA IdleReply ==
    ASSUME WindowInvariant, TypeOK', NEW p \in Requests, NEW r,
           NEW status \in {"conflict", "failed", "error", "lost"},
           Reply(p, status, r), UNCHANGED <<rec, posts, worldVars>>
    PROVE  WindowInvariant'
<1>1. TypeOK /\ Moved(p) /\ pc'[p] = "done" /\ answer'[p].status = status
  BY ReplyMoves DEF WindowInvariant
<1>2. Fits(p)
  BY <1>1 DEF Fits, Running, Executing, Succeeded, Working, Recording
<1> QED
  BY <1>1, <1>2, MoveStep

LEMMA WaitWindow ==
    ASSUME WindowInvariant, TypeOK', NEW p \in Requests, pc[p] \in Beginning,
           NextWait(p), UNCHANGED <<rec, posts, worldVars>>
    PROVE  WindowInvariant'
<1>1. CASE Reply(p, "conflict", None)
  BY <1>1, IdleReply
<1>2. CASE /\ pc' = [pc EXCEPT ![p] = "sleep"]
           /\ UNCHANGED <<key, fp, now, result, answer>>
  <2>1. TypeOK /\ Moved(p) /\ pc'[p] = "sleep"
    BY <1>2 DEF WindowInvariant, TypeOK, StoreTypeOK, Moved
  <2>2. p \notin posts
    BY DEF WindowInvariant, MadeByNow, Beginning, Recording
  <2>3. Fits(p)
    BY <2>1, <2>2 DEF Fits, Running, Executing, Succeeded, Working, Recording
  <2> QED
    BY <2>1, <2>3, MoveStep
<1> QED
  BY <1>1, <1>2 DEF NextWait

LEMMA RereadWindow ==
    ASSUME WindowInvariant, TypeOK', NEW p \in Requests,
           Lookup(p) \/ Reread(p), UNCHANGED posts
    PROVE  WindowInvariant'
<1> DEFINE row == rec[key[p]]
<1>0. /\ UNCHANGED <<rec, posts, worldVars>>
      /\ pc[p] \in Beginning \ {"begin", "sleep"} /\ key[p] \in Keys
      /\ ~Expired(row, now[p])
  BY DEF Lookup, Reread, Beginning, WindowInvariant, SeenFresh, TypeOK, StoreTypeOK
<1>1. CASE Goto(p, "insert") \/ Goto(p, "prune")
  BY <1>0, <1>1, IdleGoto
<1>2. CASE row # None /\ Act(p, Decision(row, fp[p]), row)
  <2>1. row \in RowSet
    BY <1>0, <1>2 DEF WindowInvariant, TypeOK, StoreTypeOK
  <2>2. CASE Reply(p, "conflict", None)
    BY <1>0, <2>2, IdleReply
  <2>3. CASE NextWait(p)
    BY <1>0, <2>3, WaitWindow
  <2>4. CASE Decision(row, fp[p]) = "replay" /\ Reply(p, "replayed", row.response)
    <3>1. row.fp = fp[p] /\ row.state = "completed"
      BY <2>1, <2>4 DEF Decision, RowSet
    <3>2. StandsFor(row.response, key[p], fp[p])
      BY <1>0, <1>2, <3>1 DEF WindowInvariant, ResultsStand
    <3>3. /\ TypeOK /\ Moved(p) /\ pc'[p] = "done"
          /\ answer'[p].status = "replayed" /\ answer'[p].result = row.response
      BY <1>0, <2>4, ReplyMoves DEF WindowInvariant
    <3>4. Fits(p)
      BY <3>2, <3>3 DEF Fits, Running, Executing, Succeeded, Working, Recording
    <3> QED
      BY <3>3, <3>4, MoveStep
  <2> QED
    BY <1>2, <2>1, <2>2, <2>3, <2>4, DecisionRange DEF Act
<1> QED
  BY <1>0, <1>1, <1>2 DEF Lookup, Reread

(* The rows that the invariant speaks of are rows. *)
LEMMA RowsPresent ==
    ASSUME WindowInvariant
    PROVE  /\ \A q \in Requests : Executing(q) => rec[key[q]] # None
           /\ \A q \in Requests :
                pc[q] = "done" /\ key[q] # None /\ answer[q].status = "created" /\ clock < now[q] + TTL
                  => rec[key[q]] # None
<1> USE DEF WindowInvariant, TypeOK, StoreTypeOK
<1>1. ASSUME NEW q \in Requests, Executing(q) PROVE rec[key[q]] # None
  <2>1. now[q] + TTL \in Nat
    OBVIOUS
  <2>2. pc[q] = "confirm" => result[q] \in Results
    BY DEF Recording
  <2>3. fp[q] \in Fingerprints
    BY <1>1 DEF Executing, Working, Recording
  <2>4. OwnRow(q) \in RowSet
    BY <2>1, <2>2, <2>3 DEF OwnRow, RowSet
  <2> QED
    BY <1>1, <2>4, NoneIsNoRow DEF Owned
<1>2. ASSUME NEW q \in Requests, pc[q] = "done", key[q] # None,
             answer[q].status = "created", clock < now[q] + TTL
      PROVE  rec[key[q]] # None
  <2>1. now[q] + TTL \in Nat /\ fp[q] \in Fingerprints
    BY <1>2
  <2>2. answer[q].result \in Results \cup {None}
    BY DEF AnswerSet
  <2>3. [fp |-> fp[q], state |-> "completed", expires |-> now[q] + TTL,
         response |-> answer[q].result] \in RowSet
    BY <2>1, <2>2 DEF RowSet
  <2> QED
    BY <1>2, <2>3, NoneIsNoRow DEF AnswerIsReplayable
<1> QED
  BY <1>1, <1>2

LEMMA InsertWindow ==
    ASSUME WindowInvariant, TypeOK', NEW p \in Requests, Insert(p), UNCHANGED posts
    PROVE  WindowInvariant'
<1>0. TypeOK /\ pc[p] = "insert" /\ key[p] \in Keys /\ p \notin posts /\ UNCHANGED worldVars
  BY DEF Insert, WindowInvariant, TypeOK, StoreTypeOK, MadeByNow, Beginning, Recording
<1>1. CASE rec[key[p]] # None /\ Goto(p, "reread") /\ UNCHANGED rec
  <2>1. ~Expired(rec[key[p]], now[p])
    BY <1>0 DEF WindowInvariant, SeenFresh
  <2> QED
    BY <1>0, <1>1, <2>1, IdleGoto DEF Beginning
<1>2. CASE /\ rec[key[p]] = None
           /\ rec' = [rec EXCEPT ![key[p]] = FreshRow(p)]
           /\ Act(p, "started", None)
  <2>1. /\ \A q \in Requests \ {p} : pc'[q] = pc[q] /\ result'[q] = result[q] /\ answer'[q] = answer[q]
        /\ pc'[p] \in {"execute", "sleep", "done"}
        /\ pc'[p] = "done" => answer'[p].status = "conflict"
        /\ UNCHANGED <<key, fp, now, clock, world, resets, posts>>
    BY <1>0, <1>2 DEF Act, NextWait, Goto, Reply, TypeOK, StoreTypeOK, worldVars
  <2>2. rec'[key[p]] = FreshRow(p) /\ \A k \in Keys \ {key[p]} : rec'[k] = rec[k]
    BY <1>0, <1>2 DEF TypeOK, StoreTypeOK
  <2>3. \A q \in Requests : key[q] = key[p] => ~Executing(q)
    BY <1>2, RowsPresent
  <2>4. \A q \in Requests : Executing(q) => Executing(q)' /\ key[q] \in Keys \ {key[p]} /\ q # p
    BY <1>0, <2>1, <2>3 DEF Executing, TypeOK, StoreTypeOK
  <2>5. \A q \in Requests : Executing(q)' => Executing(q) \/ (q = p /\ pc'[p] = "execute")
    BY <2>1 DEF Executing, Working, Recording
  <2>6. \A q, k, f : StandsFor(q, k, f) => StandsFor(q, k, f)'
    BY <2>1 DEF StandsFor
  <2>7. NoReset' /\ Timely' /\ MadeByNow'
    <3>1. Running(p)
      BY <1>0 DEF Running, TypeOK, StoreTypeOK
    <3> QED
      BY <1>0, <2>1, <3>1 DEF WindowInvariant, NoReset, Timely, Running, MadeByNow, TypeOK
  <2>8. SeenFresh'
    <3> SUFFICES ASSUME NEW q \in Requests
                 PROVE  /\ pc'[q] \notin {"purge", "repurge"}
                        /\ pc'[q] \in {"lookup", "insert", "reread"} => ~Expired(rec'[key[q]], now[q])
      BY <2>1 DEF SeenFresh, Expired
    <3>1. CASE q = p
      BY <2>1, <3>1
    <3>2. CASE q # p /\ pc[q] \in {"lookup", "insert", "reread"} /\ key[q] = key[p]
      <4>1. key[q] # None
        BY <1>0, <3>2 DEF TypeOK, StoreTypeOK
      <4>2. now[q] <= clock /\ clock < now[p] + TTL
        BY <1>0, <3>2, <4>1 DEF WindowInvariant, Timely, Running
      <4>3. FreshRow(p).expires = now[p] + TTL /\ now[p] \in Nat /\ now[q] \in Nat /\ clock \in Nat
        BY <1>0 DEF FreshRow, TypeOK, StoreTypeOK
      <4> QED
        BY <2>1, <2>2, <3>2, <4>2, <4>3 DEF Expired
    <3>3. CASE q # p /\ (pc[q] \in {"lookup", "insert", "reread"} => key[q] # key[p])
      <4>1. pc[q] \in {"lookup", "insert", "reread"} => key[q] \in Keys
        BY DEF WindowInvariant, TypeOK, StoreTypeOK, Beginning
      <4> QED
        BY <2>1, <2>2, <3>3, <4>1 DEF WindowInvariant, SeenFresh
    <3> QED
      BY <3>1, <3>2, <3>3
  <2>9. Owned'
    <3> SUFFICES ASSUME NEW q \in Requests, Executing(q)' PROVE rec'[key[q]] = OwnRow(q)'
      BY <2>1 DEF Owned
    <3>1. CASE Executing(q)
      <4>1. OwnRow(q)' = OwnRow(q)
        BY <2>1, <2>4, <3>1 DEF OwnRow
      <4> QED
        BY <2>2, <2>4, <3>1, <4>1 DEF WindowInvariant, Owned
    <3>2. CASE q = p /\ pc'[p] = "execute"
      BY <2>1, <2>2, <3>2 DEF OwnRow, FreshRow
    <3> QED
      BY <2>5, <3>1, <3>2
  <2>10. SingleExecutor'
    BY <2>1, <2>3, <2>5 DEF WindowInvariant, SingleExecutor
  <2>11. WindowHeld'
    <3> SUFFICES ASSUME NEW q \in posts, key[q] # None, clock < now[q] + TTL
                 PROVE  /\ rec'[key[q]] # None
                        /\ rec'[key[q]].fp = fp[q]
                        /\ rec'[key[q]].expires = now[q] + TTL
      BY <2>1 DEF WindowHeld
    <3>1. rec[key[q]] # None /\ key[q] \in Keys
      BY <1>0 DEF WindowInvariant, WindowHeld, TypeOK, StoreTypeOK
    <3> QED
      BY <1>2, <2>2, <3>1 DEF WindowInvariant, WindowHeld
  <2>12. ResultsStand'
    <3>1. \A q \in Requests :
            Executing(q)' /\ pc'[q] \in {"publish"} \cup Recording => StandsFor(result[q], key[q], fp[q])'
      BY <2>1, <2>4, <2>5, <2>6 DEF WindowInvariant, ResultsStand, Recording
    <3>2. \A q \in Requests :
            Succeeded(q)' /\ key'[q] # None => StandsFor(answer[q].result, key[q], fp[q])'
      BY <2>1, <2>6 DEF WindowInvariant, ResultsStand, Succeeded
    <3>3. FreshRow(p).state = "in_flight"
      BY DEF FreshRow
    <3>4. \A k \in Keys :
            rec'[k] # None /\ rec'[k].state = "completed" => StandsFor(rec[k].response, k, rec[k].fp)'
      BY <2>1, <2>2, <2>6, <3>3 DEF WindowInvariant, ResultsStand
    <3> QED
      BY <3>1, <3>2, <3>4 DEF ResultsStand
  <2>13. AnswerIsReplayable'
    <3> SUFFICES ASSUME NEW q \in Requests, pc'[q] = "done", key[q] # None,
                        answer'[q].status = "created", clock < now[q] + TTL
                 PROVE  rec'[key[q]] = [fp |-> fp[q], state |-> "completed",
                                        expires |-> now[q] + TTL, response |-> answer'[q].result]
      BY <2>1 DEF AnswerIsReplayable
    <3>1. q # p /\ pc[q] = "done" /\ answer'[q] = answer[q]
      BY <2>1
    <3>2. rec[key[q]] # None /\ key[q] \in Keys
      BY <1>0, <3>1, RowsPresent DEF TypeOK, StoreTypeOK
    <3> QED
      BY <1>2, <2>2, <3>1, <3>2 DEF WindowInvariant, AnswerIsReplayable
  <2> QED
    BY <2>7, <2>8, <2>9, <2>10, <2>11, <2>12, <2>13 DEF WindowInvariant
<1> QED
  BY <1>1, <1>2 DEF Insert

LEMMA TakeTimeWindow ==
    ASSUME WindowInvariant, TypeOK', NEW p \in Requests, TakeTime(p), UNCHANGED posts
    PROVE  WindowInvariant'
<1>0. /\ TypeOK /\ pc[p] \in {"begin", "sleep"} /\ p \notin posts
      /\ pc'[p] \in {"first_prune", "prune"} /\ now'[p] = clock
      /\ \A q \in Requests \ {p} : pc'[q] = pc[q] /\ now'[q] = now[q]
      /\ UNCHANGED <<key, fp, result, answer, rec, posts, clock, world, resets>>
  BY DEF TakeTime, WindowInvariant, TypeOK, StoreTypeOK, MadeByNow, Recording, worldVars
<1>1. \A q, k, f : StandsFor(q, k, f) => StandsFor(q, k, f)'
  BY <1>0 DEF StandsFor, TypeOK
<1>2. \A q \in Requests : Executing(q)' => Executing(q) /\ q # p
  BY <1>0 DEF Executing, Working, Recording
<1>3. NoReset' /\ Timely' /\ MadeByNow' /\ SeenFresh'
  <2>1. clock \in Nat /\ TTL \in Nat \ {0}
    BY <1>0 DEF TypeOK, StoreTypeOK
  <2>2. Timely'
    BY <1>0, <2>1 DEF WindowInvariant, Timely, Running
  <2>3. NoReset' /\ MadeByNow'
    BY <1>0 DEF WindowInvariant, NoReset, MadeByNow, TypeOK
  <2>4. SeenFresh'
    BY <1>0 DEF WindowInvariant, SeenFresh, Expired
  <2> QED
    BY <2>2, <2>3, <2>4
<1>4. Owned'
  BY <1>0, <1>2 DEF WindowInvariant, Owned, OwnRow
<1>5. SingleExecutor'
  BY <1>0, <1>2 DEF WindowInvariant, SingleExecutor
<1>6. WindowHeld'
  BY <1>0 DEF WindowInvariant, WindowHeld, TypeOK
<1>7. ResultsStand'
  <2>1. \A q \in Requests :
          Executing(q)' /\ pc'[q] \in {"publish"} \cup Recording => StandsFor(result[q], key[q], fp[q])'
    BY <1>0, <1>1, <1>2 DEF WindowInvariant, ResultsStand
  <2>2. \A q \in Requests :
          Succeeded(q)' /\ key'[q] # None => StandsFor(answer[q].result, key[q], fp[q])'
    BY <1>0, <1>1 DEF WindowInvariant, ResultsStand, Succeeded
  <2>3. \A k \in Keys :
          rec'[k] # None /\ rec'[k].state = "completed" => StandsFor(rec[k].response, k, rec[k].fp)'
    BY <1>0, <1>1 DEF WindowInvariant, ResultsStand
  <2> QED
    BY <2>1, <2>2, <2>3 DEF ResultsStand
<1>8. AnswerIsReplayable'
  BY <1>0 DEF WindowInvariant, AnswerIsReplayable
<1> QED
  BY <1>3, <1>4, <1>5, <1>6, <1>7, <1>8 DEF WindowInvariant

(* Pruning by a handler that is not late deletes no row the invariant needs. *)
LEMMA PruneWindow ==
    ASSUME WindowInvariant, TypeOK', NEW p \in Requests, Prune(p), UNCHANGED posts
    PROVE  WindowInvariant'
<1>0. /\ TypeOK /\ pc[p] \in {"first_prune", "prune"} /\ p \notin posts /\ key[p] \in Keys
      /\ pc'[p] = "lookup"
      /\ rec' = [k \in Keys |-> IF Expired(rec[k], now[p]) THEN None ELSE rec[k]]
      /\ \A q \in Requests \ {p} : pc'[q] = pc[q]
      /\ UNCHANGED <<key, fp, now, result, answer, posts, clock, world, resets>>
  BY DEF Prune, Goto, WindowInvariant, NoReset, TypeOK, StoreTypeOK, MadeByNow, Beginning,
         Recording, worldVars
<1>1. now[p] <= clock /\ now[p] \in Nat /\ clock \in Nat
  BY <1>0 DEF WindowInvariant, Timely, Running, TypeOK, StoreTypeOK
<1>2. \A k \in Keys : rec'[k] = rec[k] \/ rec'[k] = None
  BY <1>0
<1>3. \A k \in Keys : rec[k] # None /\ clock < rec[k].expires => rec'[k] = rec[k]
  BY <1>0, <1>1 DEF Expired, TypeOK, StoreTypeOK, RowSet
<1>4. \A q \in Requests : Executing(q)' => Executing(q) /\ q # p
  BY <1>0 DEF Executing, Working, Recording
<1>5. \A q, k, f : StandsFor(q, k, f) => StandsFor(q, k, f)'
  BY <1>0 DEF StandsFor
<1>6. NoReset' /\ Timely' /\ MadeByNow'
  BY <1>0 DEF WindowInvariant, NoReset, Timely, Running, MadeByNow, TypeOK
<1>7. SeenFresh'
  <2>1. ~Expired(rec'[key[p]], now[p])
    BY <1>0 DEF Expired
  <2>2. \A q \in Requests : pc[q] \in {"lookup", "insert", "reread"} => key[q] \in Keys
    BY <1>0 DEF TypeOK, StoreTypeOK, Beginning
  <2>3. \A q \in Requests : pc[q] \in {"lookup", "insert", "reread"} => ~Expired(rec'[key[q]], now[q])
    BY <1>2, <2>2 DEF WindowInvariant, SeenFresh, Expired
  <2> QED
    BY <1>0, <2>1, <2>3 DEF WindowInvariant, SeenFresh, Expired
<1>8. Owned'
  <2> SUFFICES ASSUME NEW q \in Requests, Executing(q)' PROVE rec'[key[q]] = OwnRow(q)'
    BY <1>0 DEF Owned
  <2>1. Executing(q) /\ OwnRow(q)' = OwnRow(q) /\ rec[key[q]] = OwnRow(q) /\ key[q] \in Keys
    BY <1>0, <1>4 DEF Executing, OwnRow, WindowInvariant, Owned, TypeOK, StoreTypeOK
  <2>2. clock < OwnRow(q).expires
    BY <2>1 DEF WindowInvariant, Timely, Running, OwnRow, Executing, Working, Recording
  <2> QED
    BY <1>3, <2>1, <2>2, RowsPresent
<1>9. SingleExecutor'
  BY <1>0, <1>4 DEF WindowInvariant, SingleExecutor
<1>10. WindowHeld'
  <2> SUFFICES ASSUME NEW q \in posts, key[q] # None, clock < now[q] + TTL
               PROVE  rec'[key[q]] = rec[key[q]]
    BY <1>0 DEF WindowInvariant, WindowHeld
  <2> QED
    BY <1>0, <1>3 DEF WindowInvariant, WindowHeld, TypeOK, StoreTypeOK
<1>11. ResultsStand'
  <2>1. \A q \in Requests :
          Executing(q)' /\ pc'[q] \in {"publish"} \cup Recording => StandsFor(result[q], key[q], fp[q])'
    BY <1>0, <1>4, <1>5 DEF WindowInvariant, ResultsStand
  <2>2. \A q \in Requests :
          Succeeded(q)' /\ key'[q] # None => StandsFor(answer[q].result, key[q], fp[q])'
    BY <1>0, <1>5 DEF WindowInvariant, ResultsStand, Succeeded
  <2>3. \A k \in Keys :
          rec'[k] # None /\ rec'[k].state = "completed" => StandsFor(rec[k].response, k, rec[k].fp)'
    BY <1>0, <1>2, <1>5 DEF WindowInvariant, ResultsStand
  <2> QED
    BY <2>1, <2>2, <2>3 DEF ResultsStand
<1>12. AnswerIsReplayable'
  <2> SUFFICES ASSUME NEW q \in Requests, pc[q] = "done", key[q] # None,
                      answer[q].status = "created", clock < now[q] + TTL
               PROVE  rec'[key[q]] = rec[key[q]]
    <3>1. \A q \in Requests : pc'[q] = "done" => pc[q] = "done"
      BY <1>0
    <3> QED
      BY <1>0, <3>1 DEF WindowInvariant, AnswerIsReplayable
  <2>1. key[q] \in Keys /\ rec[key[q]] # None
    BY <1>0, RowsPresent DEF TypeOK, StoreTypeOK
  <2>2. rec[key[q]].expires = now[q] + TTL
    <3>1. rec[key[q]] = [fp |-> fp[q], state |-> "completed",
                         expires |-> now[q] + TTL, response |-> answer[q].result]
      BY DEF WindowInvariant, AnswerIsReplayable
    <3> QED
      BY <3>1
  <2> QED
    BY <1>3, <2>1, <2>2
<1> QED
  BY <1>6, <1>7, <1>8, <1>9, <1>10, <1>11, <1>12 DEF WindowInvariant

LEMMA FetchWindow ==
    ASSUME WindowInvariant, TypeOK', NEW p \in Requests, Fetch(p) \/ Confirm(p), UNCHANGED posts
    PROVE  WindowInvariant'
<1>0. /\ TypeOK /\ pc[p] \in {"fetch", "confirm"} /\ key[p] \in Keys /\ UNCHANGED <<rec, posts, worldVars>>
      /\ pc[p] = "fetch" => Fetch(p)
      /\ pc[p] = "confirm" => Confirm(p)
  BY DEF Fetch, Confirm, WindowInvariant, TypeOK, StoreTypeOK, Recording
<1>1. Executing(p) /\ Running(p) /\ rec[key[p]] = OwnRow(p) /\ StandsFor(result[p], key[p], fp[p])
  BY <1>0 DEF WindowInvariant, Owned, ResultsStand, Executing, Running, Recording, TypeOK, StoreTypeOK
<1>2. rec[key[p]] # None
  BY <1>1, RowsPresent
<1>3. CASE pc[p] = "fetch"
  <2>1. Goto(p, "store")
    BY <1>0, <1>2, <1>3 DEF Fetch
  <2>2. Moved(p) /\ pc'[p] = "store" /\ result'[p] = result[p] /\ UNCHANGED <<key, fp, now>>
    BY <1>0, <2>1, GotoMoves DEF Goto
  <2>3. OwnRow(p)' = OwnRow(p)
    BY <1>3, <2>2 DEF OwnRow
  <2>4. Fits(p)
    BY <1>0, <1>1, <2>2, <2>3 DEF Fits, Succeeded, Recording
  <2> QED
    BY <2>2, <2>4, MoveStep
<1>4. CASE pc[p] = "confirm"
  <2>1. Reply(p, "created", result[p])
    BY <1>0, <1>2, <1>4 DEF Confirm
  <2>2. Moved(p) /\ pc'[p] = "done" /\ answer'[p].result = result[p]
    BY <1>0, <2>1, ReplyMoves
  <2>3. rec[key[p]] = [fp |-> fp[p], state |-> "completed", expires |-> now[p] + TTL,
                       response |-> result[p]]
    BY <1>1, <1>4 DEF OwnRow
  <2>4. Fits(p)
    BY <1>0, <1>1, <2>2, <2>3 DEF Fits, Running, Executing, Succeeded, Working, Recording
  <2> QED
    BY <2>2, <2>4, MoveStep
<1> QED
  BY <1>0, <1>3, <1>4

LEMMA StoreWindow ==
    ASSUME WindowInvariant, TypeOK', NEW p \in Requests, Store(p), UNCHANGED posts
    PROVE  WindowInvariant'
<1>0. TypeOK /\ pc[p] = "store" /\ key[p] \in Keys
  BY DEF Store, WindowInvariant, TypeOK, StoreTypeOK, Recording
<1>1. Executing(p) /\ Running(p) /\ rec[key[p]] = OwnRow(p) /\ StandsFor(result[p], key[p], fp[p])
  BY <1>0 DEF WindowInvariant, Owned, ResultsStand, Executing, Running, Recording, TypeOK, StoreTypeOK
<1>2. rec[key[p]] # None
  BY <1>1, RowsPresent
<1>3. /\ rec' = [rec EXCEPT ![key[p]].state = "completed", ![key[p]].response = result[p]]
      /\ pc' = [pc EXCEPT ![p] = "confirm"]
      /\ UNCHANGED <<key, fp, now, result, answer, posts, clock, world, resets>>
  BY <1>0, <1>2 DEF Store, Goto, worldVars
<1>4. /\ rec'[key[p]] = [fp |-> fp[p], state |-> "completed", expires |-> now[p] + TTL,
                         response |-> result[p]]
      /\ rec'[key[p]] = OwnRow(p)'
      /\ \A k \in Keys \ {key[p]} : rec'[k] = rec[k]
  <2>1. rec[key[p]] = [fp |-> fp[p], state |-> "in_flight", expires |-> now[p] + TTL, response |-> None]
    BY <1>0, <1>1 DEF OwnRow
  <2>2. /\ rec'[key[p]] = [rec[key[p]] EXCEPT !.state = "completed", !.response = result[p]]
        /\ \A k \in Keys \ {key[p]} : rec'[k] = rec[k]
    BY <1>0, <1>3 DEF TypeOK, StoreTypeOK
  <2>3. rec'[key[p]] = [fp |-> fp[p], state |-> "completed", expires |-> now[p] + TTL,
                        response |-> result[p]]
    <3>1. [rec[key[p]] EXCEPT !.state = "completed"]
            = [fp |-> fp[p], state |-> "completed", expires |-> now[p] + TTL, response |-> None]
      BY <2>1
    <3> QED
      BY <2>2, <3>1
  <2>4. pc'[p] = "confirm"
    BY <1>0, <1>3 DEF TypeOK, StoreTypeOK
  <2> QED
    BY <1>3, <2>2, <2>3, <2>4 DEF OwnRow
<1>5. /\ rec'[key[p]] # None
      /\ rec'[key[p]].fp = fp[p] /\ rec'[key[p]].expires = now[p] + TTL
      /\ rec'[key[p]].response = result[p]
      /\ rec[key[p]].fp = fp[p] /\ rec[key[p]].expires = now[p] + TTL
      /\ rec[key[p]].state = "in_flight"
  <2>1. rec'[key[p]] \in RowSet \/ rec'[key[p]] = None
    BY <1>0 DEF TypeOK, StoreTypeOK
  <2>2. rec[key[p]] \in RowSet
    BY <1>0, <1>2 DEF TypeOK, StoreTypeOK
  <2>3. rec[key[p]] = [fp |-> fp[p], state |-> "in_flight", expires |-> now[p] + TTL, response |-> None]
    BY <1>0, <1>1 DEF OwnRow
  <2>4. /\ rec'[key[p]] = [rec[key[p]] EXCEPT !.state = "completed", !.response = result[p]]
        /\ result[p] \in Results
    BY <1>0, <1>3 DEF TypeOK, StoreTypeOK, Recording
  <2>5. rec'[key[p]] \in RowSet
    BY <2>2, <2>4 DEF RowSet
  <2> QED
    BY <1>4, <2>3, <2>5, NoneIsNoRow
<1>6. \A q \in Requests \ {p} : pc'[q] = pc[q] /\ (Executing(q) => key[q] \in Keys \ {key[p]})
  BY <1>0, <1>1, <1>3 DEF WindowInvariant, SingleExecutor, TypeOK, StoreTypeOK, Executing
<1>7. \A q \in Requests : Executing(q)' => Executing(q)
  BY <1>0, <1>3 DEF Executing, Recording, TypeOK, StoreTypeOK
<1>8. \A q, k, f : StandsFor(q, k, f) => StandsFor(q, k, f)'
  BY <1>3 DEF StandsFor
<1>9. NoReset' /\ Timely' /\ MadeByNow'
  BY <1>0, <1>1, <1>3 DEF WindowInvariant, NoReset, Timely, Running, MadeByNow, TypeOK, StoreTypeOK, Recording
<1>10. SeenFresh'
  <2> SUFFICES ASSUME NEW q \in Requests
               PROVE  /\ pc'[q] \notin {"purge", "repurge"}
                      /\ pc'[q] \in {"lookup", "insert", "reread"} => ~Expired(rec'[key[q]], now[q])
    BY <1>3 DEF SeenFresh, Expired
  <2>1. pc'[q] \in {"lookup", "insert", "reread"} => pc[q] = pc'[q] /\ key[q] \in Keys
    BY <1>0, <1>3 DEF TypeOK, StoreTypeOK, Beginning
  <2>2. pc'[q] \in {"lookup", "insert", "reread"} => ~Expired(rec[key[q]], now[q])
    BY <2>1 DEF WindowInvariant, SeenFresh
  <2>3. pc'[q] \notin {"purge", "repurge"}
    BY <1>0, <1>3 DEF WindowInvariant, SeenFresh, TypeOK, StoreTypeOK
  <2> QED
    BY <1>2, <1>4, <1>5, <2>1, <2>2, <2>3 DEF Expired
<1>11. Owned'
  <2> SUFFICES ASSUME NEW q \in Requests, Executing(q)', q # p PROVE rec'[key[q]] = OwnRow(q)'
    BY <1>3, <1>4 DEF Owned
  <2>1. Executing(q) /\ OwnRow(q)' = OwnRow(q)
    BY <1>3, <1>6, <1>7 DEF OwnRow
  <2> QED
    BY <1>4, <1>6, <2>1 DEF WindowInvariant, Owned
<1>12. SingleExecutor'
  BY <1>3, <1>7 DEF WindowInvariant, SingleExecutor
<1>13. WindowHeld'
  <2> SUFFICES ASSUME NEW q \in posts, key[q] # None, clock < now[q] + TTL
               PROVE  /\ rec'[key[q]] # None
                      /\ rec'[key[q]].fp = fp[q]
                      /\ rec'[key[q]].expires = now[q] + TTL
    BY <1>3 DEF WindowHeld
  <2>1. /\ key[q] \in Keys /\ rec[key[q]] # None
        /\ rec[key[q]].fp = fp[q] /\ rec[key[q]].expires = now[q] + TTL
    BY <1>0 DEF WindowInvariant, WindowHeld, TypeOK, StoreTypeOK
  <2> QED
    BY <1>4, <1>5, <2>1
<1>14. ResultsStand'
  <2>1. \A q \in Requests :
          Executing(q)' /\ pc'[q] \in {"publish"} \cup Recording => StandsFor(result[q], key[q], fp[q])'
    BY <1>1, <1>3, <1>6, <1>7, <1>8 DEF WindowInvariant, ResultsStand
  <2>2. \A q \in Requests :
          Succeeded(q)' /\ key'[q] # None => StandsFor(answer[q].result, key[q], fp[q])'
    BY <1>0, <1>3, <1>8 DEF WindowInvariant, ResultsStand, Succeeded, TypeOK, StoreTypeOK
  <2>3. \A k \in Keys :
          rec'[k] # None /\ rec'[k].state = "completed" => StandsFor(rec[k].response, k, rec[k].fp)'
    BY <1>1, <1>4, <1>5, <1>8 DEF WindowInvariant, ResultsStand
  <2> QED
    BY <2>1, <2>2, <2>3 DEF ResultsStand
<1>15. AnswerIsReplayable'
  <2> SUFFICES ASSUME NEW q \in Requests, pc'[q] = "done", key[q] # None,
                      answer[q].status = "created", clock < now[q] + TTL
               PROVE  rec'[key[q]] = [fp |-> fp[q], state |-> "completed",
                                      expires |-> now[q] + TTL, response |-> answer[q].result]
    BY <1>3 DEF AnswerIsReplayable
  <2>1. pc[q] = "done" /\ key[q] \in Keys
    BY <1>0, <1>3 DEF TypeOK, StoreTypeOK
  <2>2. rec[key[q]] = [fp |-> fp[q], state |-> "completed",
                       expires |-> now[q] + TTL, response |-> answer[q].result]
    BY <2>1 DEF WindowInvariant, AnswerIsReplayable
  <2>3. rec[key[q]].state = "completed"
    BY <2>2
  <2> QED
    BY <1>4, <1>5, <2>1, <2>2, <2>3
<1> QED
  BY <1>9, <1>10, <1>11, <1>12, <1>13, <1>14, <1>15 DEF WindowInvariant

LEMMA ResolveWindow ==
    ASSUME WindowInvariant, TypeOK', NEW p \in Requests, Resolve(p)
    PROVE  WindowInvariant'
<1>0. TypeOK /\ pc[p] = "execute" /\ UNCHANGED <<rec, posts, worldVars>>
  BY DEF Resolve, WindowInvariant
<1>1. CASE Goto(p, "write")
  <2>1. Moved(p) /\ pc'[p] = "write" /\ UNCHANGED <<key, fp, now, result>>
    BY <1>0, <1>1, GotoMoves DEF Goto
  <2>2. OwnRow(p)' = OwnRow(p)
    BY <1>0, <2>1 DEF OwnRow
  <2>3. Fits(p)
    BY <1>0, <2>1, <2>2 DEF Fits, WindowInvariant, Owned, MadeByNow, Running, Executing,
       Succeeded, Working, Recording
  <2> QED
    BY <2>1, <2>3, MoveStep
<1>2. CASE Reply(p, "failed", None)
  BY <1>0, <1>2, IdleReply
<1> QED
  BY <1>1, <1>2 DEF Resolve

(* After a refused INSERT the request adopts a post that fits its record.     *)
LEMMA RecoverWindow ==
    ASSUME WindowInvariant, TypeOK', NEW p \in Requests, Recover(p)
    PROVE  WindowInvariant'
<1>0. TypeOK /\ pc[p] = "recover" /\ UNCHANGED <<rec, posts, worldVars>> /\ posts \subseteq Requests
  BY DEF Recover, WindowInvariant, TypeOK
<1>1. CASE Reply(p, "error", None)
  BY <1>0, <1>1, IdleReply
<1>2. ASSUME NEW q \in posts, SamePost(p, q),
             result' = [result EXCEPT ![p] = q],
             pc' = [pc EXCEPT ![p] = "publish"],
             UNCHANGED <<key, fp, now, waits, answer>>
      PROVE  WindowInvariant'
  <2>1. Moved(p) /\ pc'[p] = "publish" /\ result'[p] = q
    BY <1>0, <1>2 DEF Moved, TypeOK, StoreTypeOK
  <2>2. Executing(p) /\ key[q] = key[p] /\ key[q] # None /\ rec[key[p]] = OwnRow(p)
    BY <1>0, <1>2 DEF SamePost, Executing, Working, WindowInvariant, Owned
  <2>3. rec[key[p]].fp = fp[p]
    BY <2>2 DEF OwnRow
  <2>4. now[q] + TTL \in Nat /\ clock \in Nat
    BY <1>0 DEF TypeOK, StoreTypeOK
  <2>5. fp[q] = fp[p] \/ now[q] + TTL <= clock
    BY <2>2, <2>3, <2>4 DEF WindowInvariant, WindowHeld
  <2>6. StandsFor(q, key[p], fp[p])
    BY <2>2, <2>5 DEF StandsFor
  <2>7. OwnRow(p)' = OwnRow(p)
    BY <1>0, <1>2, <2>1 DEF OwnRow
  <2>8. Fits(p)
    BY <1>0, <2>1, <2>2, <2>6, <2>7 DEF Fits, Running, Succeeded, Recording
  <2> QED
    BY <2>1, <2>8, MoveStep
<1> QED
  BY <1>1, <1>2 DEF Recover

LEMMA PublishWindow ==
    ASSUME WindowInvariant, TypeOK', NEW p \in Requests, Publish(p)
    PROVE  WindowInvariant'
<1>0. TypeOK /\ pc[p] = "publish" /\ UNCHANGED <<rec, posts, worldVars>>
  BY DEF Publish, WindowInvariant
<1>1. CASE key[p] # None /\ Goto(p, "fetch")
  <2>1. Moved(p) /\ pc'[p] = "fetch" /\ result'[p] = result[p] /\ UNCHANGED <<key, fp, now, result>>
    BY <1>0, <1>1, GotoMoves DEF Goto
  <2>2. Executing(p) /\ StandsFor(result[p], key[p], fp[p]) /\ rec[key[p]] = OwnRow(p)
    BY <1>0, <1>1 DEF Executing, Working, WindowInvariant, Owned, ResultsStand
  <2>3. OwnRow(p)' = OwnRow(p)
    BY <1>0, <2>1 DEF OwnRow
  <2>4. Fits(p)
    BY <1>0, <2>1, <2>2, <2>3 DEF Fits, Running, Succeeded, Recording
  <2> QED
    BY <2>1, <2>4, MoveStep
<1>2. CASE key[p] = None /\ Reply(p, "created", result[p])
  <2>1. Moved(p) /\ pc'[p] = "done" /\ key' = key
    BY <1>0, <1>2, ReplyMoves DEF Reply
  <2>2. Fits(p)
    BY <1>2, <2>1 DEF Fits, Running, Executing, Succeeded, Working, Recording
  <2> QED
    BY <2>1, <2>2, MoveStep
<1>3. CASE Reply(p, "error", None)
  BY <1>0, <1>3, IdleReply
<1> QED
  BY <1>1, <1>2, <1>3 DEF Publish

LEMMA WriteWindow ==
    ASSUME WindowInvariant, TypeOK', NEW p \in Requests, Write(p)
    PROVE  WindowInvariant'
<1>0. TypeOK /\ pc[p] = "write" /\ UNCHANGED <<rec, worldVars>>
  BY DEF Write, WindowInvariant
<1>1. CASE Goto(p, "recover") /\ UNCHANGED posts
  <2>1. Moved(p) /\ pc'[p] = "recover" /\ UNCHANGED <<key, fp, now, result>>
    BY <1>0, <1>1, GotoMoves DEF Goto
  <2>2. OwnRow(p)' = OwnRow(p)
    BY <1>0, <2>1 DEF OwnRow
  <2>3. Fits(p)
    BY <1>0, <2>1, <2>2 DEF Fits, WindowInvariant, Owned, MadeByNow, Running, Executing,
       Succeeded, Working, Recording
  <2> QED
    BY <1>1, <2>1, <2>3, MoveStep
<1>2. CASE /\ posts' = posts \cup {p}
           /\ result' = [result EXCEPT ![p] = p]
           /\ pc' = [pc EXCEPT ![p] = "publish"]
           /\ UNCHANGED <<key, fp, now, waits, answer>>
  <2>1. /\ pc'[p] = "publish" /\ result'[p] = p
        /\ \A q \in Requests \ {p} : pc'[q] = pc[q] /\ result'[q] = result[q]
        /\ UNCHANGED <<key, fp, now, answer, rec, clock, world, resets>>
        /\ posts' = posts \cup {p} /\ posts \subseteq Requests
    BY <1>0, <1>2 DEF TypeOK, StoreTypeOK, worldVars
  <2>2. \A q \in Requests : Executing(q)' <=> Executing(q)
    BY <1>0, <2>1 DEF Executing, Working
  <2>3. \A q \in Requests : Executing(q) => OwnRow(q)' = OwnRow(q)
    BY <1>0, <2>1 DEF OwnRow
  <2>4. \A q, k, f : StandsFor(q, k, f) => StandsFor(q, k, f)'
    BY <2>1 DEF StandsFor
  <2>5. NoReset' /\ Timely' /\ MadeByNow'
    BY <1>0, <2>1 DEF WindowInvariant, NoReset, Timely, Running, MadeByNow
  <2>6. SeenFresh'
    BY <2>1 DEF WindowInvariant, SeenFresh, Expired
  <2>7. Owned' /\ SingleExecutor'
    BY <2>1, <2>2, <2>3 DEF WindowInvariant, Owned, SingleExecutor
  <2>8. WindowHeld'
    <3> SUFFICES ASSUME NEW q \in posts', key[q] # None, clock < now[q] + TTL
                 PROVE  /\ rec[key[q]] # None
                        /\ rec[key[q]].fp = fp[q]
                        /\ rec[key[q]].expires = now[q] + TTL
      BY <2>1 DEF WindowHeld
    <3>1. CASE q \in posts
      BY <3>1 DEF WindowInvariant, WindowHeld
    <3>2. CASE q = p
      <4>1. Executing(p) /\ rec[key[p]] = OwnRow(p)
        BY <1>0, <3>2 DEF Executing, Working, WindowInvariant, Owned
      <4> QED
        BY <3>2, <4>1, RowsPresent DEF OwnRow
    <3> QED
      BY <2>1, <3>1, <3>2
  <2>9. ResultsStand'
    <3>1. StandsFor(p, key[p], fp[p])'
      BY <2>1 DEF StandsFor
    <3>2. \A q \in Requests :
            Executing(q)' /\ pc'[q] \in {"publish"} \cup Recording => StandsFor(result[q], key[q], fp[q])'
      BY <2>1, <2>2, <2>4, <3>1 DEF WindowInvariant, ResultsStand
    <3>3. \A q \in Requests :
            Succeeded(q)' /\ key'[q] # None => StandsFor(answer[q].result, key[q], fp[q])'
      BY <2>1, <2>4 DEF WindowInvariant, ResultsStand, Succeeded
    <3>4. \A k \in Keys :
            rec'[k] # None /\ rec'[k].state = "completed" => StandsFor(rec[k].response, k, rec[k].fp)'
      BY <2>1, <2>4 DEF WindowInvariant, ResultsStand
    <3> QED
      BY <3>2, <3>3, <3>4 DEF ResultsStand
  <2>10. AnswerIsReplayable'
    BY <2>1 DEF WindowInvariant, AnswerIsReplayable
  <2> QED
    BY <2>5, <2>6, <2>7, <2>8, <2>9, <2>10 DEF WindowInvariant
<1> QED
  BY <1>1, <1>2 DEF Write

LEMMA ArriveWindow ==
    ASSUME WindowInvariant, TypeOK', NEW p \in Requests, Arrive(p), UNCHANGED posts
    PROVE  WindowInvariant'
<1>0. /\ TypeOK /\ pc[p] = "new" /\ p \notin posts
      /\ \/ pc'[p] = "begin"
         \/ pc'[p] = "execute" /\ key'[p] = None
      /\ \A q \in Requests \ {p} : pc'[q] = pc[q] /\ key'[q] = key[q] /\ fp'[q] = fp[q]
      /\ UNCHANGED <<now, result, answer, rec, posts, clock, world, resets>>
  <2>1. pc[p] = "new" /\ p \notin posts
    BY DEF Arrive, WindowInvariant, MadeByNow, Recording
  <2>2. key[p] = None
    BY <2>1 DEF WindowInvariant, TypeOK, StoreTypeOK
  <2> QED
    BY <2>1, <2>2 DEF Arrive, WindowInvariant, TypeOK, StoreTypeOK, worldVars
<1>1. \A q, k, f : StandsFor(q, k, f) => StandsFor(q, k, f)'
  BY <1>0 DEF StandsFor, TypeOK
<1>2. \A q \in Requests : Executing(q)' => Executing(q) /\ q # p
  BY <1>0 DEF Executing, Working, Recording
<1>3. NoReset' /\ Timely'
  BY <1>0 DEF WindowInvariant, NoReset, Timely, Running
<1>4. MadeByNow' /\ SeenFresh'
  BY <1>0 DEF WindowInvariant, MadeByNow, SeenFresh, Expired, TypeOK
<1>5. Owned'
  BY <1>0, <1>2 DEF WindowInvariant, Owned, OwnRow
<1>6. SingleExecutor'
  BY <1>0, <1>2 DEF WindowInvariant, SingleExecutor
<1>7. WindowHeld'
  BY <1>0 DEF WindowInvariant, WindowHeld, TypeOK
<1>8. ResultsStand'
  <2>1. \A q \in Requests :
          Executing(q)' /\ pc'[q] \in {"publish"} \cup Recording => StandsFor(result[q], key[q], fp[q])'
    BY <1>0, <1>1, <1>2 DEF WindowInvariant, ResultsStand
  <2>2. \A q \in Requests :
          Succeeded(q)' /\ key'[q] # None => StandsFor(answer[q].result, key[q], fp[q])'
    BY <1>0, <1>1 DEF WindowInvariant, ResultsStand, Succeeded
  <2>3. \A k \in Keys :
          rec'[k] # None /\ rec'[k].state = "completed" => StandsFor(rec[k].response, k, rec[k].fp)'
    BY <1>0, <1>1 DEF WindowInvariant, ResultsStand
  <2> QED
    BY <2>1, <2>2, <2>3 DEF ResultsStand
<1>9. AnswerIsReplayable'
  BY <1>0 DEF WindowInvariant, AnswerIsReplayable
<1> QED
  BY <1>3, <1>4, <1>5, <1>6, <1>7, <1>8, <1>9 DEF WindowInvariant

LEMMA TickWindow ==
    ASSUME WindowInvariant, TypeOK', Prompt, Tick, UNCHANGED posts
    PROVE  WindowInvariant'
<1>0. /\ TypeOK /\ clock' = clock + 1 /\ clock \in Nat
      /\ \A q \in Requests : Running(q) => clock' < now[q] + TTL
      /\ UNCHANGED <<pc, key, fp, now, result, answer, rec, posts, world, resets>>
  BY DEF Tick, requestVars, WindowInvariant, TypeOK, StoreTypeOK
<1>1. \A q \in Requests : now[q] + TTL \in Nat
  BY <1>0 DEF TypeOK, StoreTypeOK
<1>2. \A q, k, f : StandsFor(q, k, f) => StandsFor(q, k, f)'
  BY <1>0, <1>1 DEF StandsFor, TypeOK
<1>3. NoReset' /\ MadeByNow' /\ SeenFresh' /\ SingleExecutor'
  BY <1>0 DEF WindowInvariant, NoReset, MadeByNow, SeenFresh, Expired,
     SingleExecutor, Executing
<1>4. Timely'
  BY <1>0 DEF WindowInvariant, Timely, Running, TypeOK, StoreTypeOK
<1>5. Owned'
  BY <1>0 DEF WindowInvariant, Owned, OwnRow, Executing
<1>6. WindowHeld'
  BY <1>0, <1>1 DEF WindowInvariant, WindowHeld, TypeOK
<1>7. ResultsStand'
  BY <1>0, <1>2 DEF WindowInvariant, ResultsStand, Executing, Succeeded
<1>8. AnswerIsReplayable'
  BY <1>0, <1>1 DEF WindowInvariant, AnswerIsReplayable
<1> QED
  BY <1>3, <1>4, <1>5, <1>6, <1>7, <1>8 DEF WindowInvariant

LEMMA NextWindow ==
    ASSUME Prompt, MaxResets = 0, WindowInvariant, [Next]_vars
    PROVE  WindowInvariant'
<1>0. TypeOK'
  BY NextType DEF WindowInvariant
<1>1. CASE UNCHANGED vars
  <2> USE <1>1 DEF vars, storeVars, worldVars, requestVars
  <2>1. \A q, k, f : StandsFor(q, k, f) => StandsFor(q, k, f)'
    BY DEF StandsFor
  <2>2. ResultsStand'
    BY <2>1 DEF WindowInvariant, ResultsStand, Executing, Succeeded
  <2>3. Owned' /\ AnswerIsReplayable'
    BY DEF WindowInvariant, Owned, OwnRow, Executing, AnswerIsReplayable
  <2> QED
    BY <1>0, <2>2, <2>3 DEF WindowInvariant, NoReset, Timely, Running, MadeByNow,
       SeenFresh, Expired, SingleExecutor, Executing, WindowHeld
<1>2. ASSUME NEW p \in Requests, Step(p) PROVE WindowInvariant'
  <2>1. ~Purge(p)
    BY DEF Purge, WindowInvariant, SeenFresh
  <2>2. CASE StoreStep(p) /\ UNCHANGED posts
    BY <1>0, <2>1, <2>2, TakeTimeWindow, PruneWindow, RereadWindow, InsertWindow,
       FetchWindow, StoreWindow DEF StoreStep
  <2> QED
    BY <1>0, <1>2, <2>2, ResolveWindow, WriteWindow, RecoverWindow, PublishWindow DEF Step
<1>3. ASSUME NEW p \in Requests, Abandon(p), UNCHANGED posts PROVE WindowInvariant'
  BY <1>0, <1>3, IdleReply DEF Abandon
<1>4. ~ClearWorld /\ ~SeedWorld
  BY DEF ClearWorld, SeedWorld, WindowInvariant, NoReset
<1> QED
  BY <1>0, <1>1, <1>2, <1>3, <1>4, ArriveWindow, TickWindow DEF Next

(* Every property of the retention window rests on this invariant: as long   *)
(* as no handler outlives the TTL and the fixtures are not reset, records    *)
(* and posts are in step in every reachable state.                           *)
THEOREM WindowInvariantHolds ==
    ASSUME Prompt, MaxResets = 0
    PROVE  Spec => []WindowInvariant
<1>1. Init => WindowInvariant
  BY InitWindow
<1>2. WindowInvariant /\ [Next]_vars => WindowInvariant'
  BY NextWindow
<1> QED
  BY <1>1, <1>2, PTL DEF Spec

(* Two requests never run the body of POST /posts under one key at a time.   *)
THEOREM ExecutorIsSingle ==
    ASSUME Prompt, MaxResets = 0
    PROVE  Spec => []SingleExecutor
<1>1. WindowInvariant => SingleExecutor
  BY DEF WindowInvariant
<1> QED
  BY <1>1, WindowInvariantHolds, PTL

(* A 201 can be replayed, unchanged, until its window closes.                *)
THEOREM RetriesAreSafe ==
    ASSUME Prompt, MaxResets = 0
    PROVE  Spec => []AnswerIsReplayable
<1>1. WindowInvariant => AnswerIsReplayable
  BY DEF WindowInvariant
<1> QED
  BY <1>1, WindowInvariantHolds, PTL

(* Within the window a success never names the post of another body.         *)
THEOREM BodyIsHeld ==
    ASSUME Prompt, MaxResets = 0
    PROVE  Spec => []BodyHeldForWindow
<1>1. WindowInvariant => BodyHeldForWindow
  <2> SUFFICES ASSUME WindowInvariant, NEW p \in Requests, Succeeded(p), key[p] # None,
                      fp[answer[p].result] # fp[p]
               PROVE  clock >= now[answer[p].result] + TTL
    BY DEF BodyHeldForWindow
  <2>1. StandsFor(answer[p].result, key[p], fp[p])
    BY DEF WindowInvariant, ResultsStand
  <2>2. now[answer[p].result] \in Nat /\ clock \in Nat
    BY <2>1 DEF StandsFor, WindowInvariant, TypeOK, StoreTypeOK
  <2> QED
    BY <2>1, <2>2 DEF StandsFor
<1> QED
  BY <1>1, WindowInvariantHolds, PTL

(* No late handler rewrites or removes a completed record that is not        *)
(* expired.                                                                  *)
THEOREM CompletedStays ==
    ASSUME Prompt, MaxResets = 0
    PROVE  Spec => CompletedIsFinal
<1> DEFINE Final == \A k \in Keys :
                      rec[k] # None /\ rec[k].state = "completed" /\ rec'[k] # rec[k]
                         => rec[k].expires <= clock
<1>1. WindowInvariant /\ [Next]_vars => [Final]_vars
  <2> SUFFICES ASSUME WindowInvariant, Next, NEW k \in Keys,
                      rec[k] # None, rec[k].state = "completed", rec'[k] # rec[k]
               PROVE  rec[k].expires <= clock
    OBVIOUS
  <2>0. TypeOK
    BY DEF WindowInvariant
  <2>1. ~ClearWorld
    BY DEF ClearWorld, WindowInvariant, NoReset
  <2>2. ASSUME NEW p \in Requests, Step(p) PROVE rec[k].expires <= clock
    <3>1. CASE Prune(p)
      <4>1. Expired(rec[k], now[p])
        BY <2>0, <3>1 DEF Prune, TypeOK, StoreTypeOK
      <4>2. pc[p] \in {"first_prune", "prune"} /\ key[p] # None
        BY <2>0, <3>1 DEF Prune, Beginning, TypeOK, StoreTypeOK
      <4>3. now[p] <= clock /\ now[p] \in Nat /\ clock \in Nat /\ rec[k].expires \in Nat
        BY <2>0, <4>2 DEF WindowInvariant, Timely, Running, TypeOK, StoreTypeOK, RowSet
      <4> QED
        BY <4>1, <4>3 DEF Expired
    <3>2. ~Purge(p)
      BY DEF Purge, WindowInvariant, SeenFresh
    <3>3. CASE Insert(p)
      <4>1. key[p] \in Keys
        BY <2>0, <3>3 DEF Insert, TypeOK, StoreTypeOK, Beginning
      <4> QED
        BY <2>0, <3>3, <4>1 DEF Insert, TypeOK, StoreTypeOK
    <3>4. CASE Store(p)
      <4>1. pc[p] = "store" /\ key[p] \in Keys /\ Executing(p)
        BY <2>0, <3>4 DEF Store, TypeOK, StoreTypeOK, Recording, Executing
      <4>2. rec[key[p]] = OwnRow(p)
        BY <4>1 DEF WindowInvariant, Owned
      <4>3. rec[key[p]].state = "in_flight"
        BY <4>1, <4>2 DEF OwnRow
      <4>4. k # key[p]
        BY <4>3
      <4> QED
        BY <2>0, <3>4, <4>1, <4>4 DEF Store, TypeOK, StoreTypeOK
    <3> QED
      BY <2>2, <3>1, <3>2, <3>3, <3>4 DEF Step, StoreStep, TakeTime, Lookup, Reread, Fetch,
         Confirm, Resolve, Write, Recover, Publish
  <2> QED
    BY <2>1, <2>2 DEF Next, Arrive, Abandon, Tick, SeedWorld
<1> QED
  BY <1>1, WindowInvariantHolds, PTL DEF Spec, CompletedIsFinal

-----------------------------------------------------------------------------
(* POST /posts implements KeyedCreation, for handlers of any age and any     *)
(* resets.  First: what a handler holds, a record keeps and a client knows   *)
(* is, or was, the post of the key.                                          *)

LEMMA NoneIsNoRequest == None \notin Requests
BY StoreAssumption, PostsAssumption

LEMMA InitKey == Init => KeyInvariant
<1> SUFFICES ASSUME Init PROVE KeyInvariant
  OBVIOUS
<1>1. TypeOK
  BY InitType
<1> QED
  BY <1>1, NoneIsNoRequest DEF Init, StoreInit, KeyInvariant, OnePostPerKey, ResultsAreLate,
     OnlyResetsTake, AllNameTheirPost, Written, Succeeded

(* What the step of one handler may do without endangering the invariant.    *)
KeepsKeys(p) ==
    /\ UNCHANGED <<key, world, resets>>
    /\ \A q \in Requests \ {p} : pc'[q] = pc[q] /\ result'[q] = result[q] /\ answer'[q] = answer[q]
    /\ pc'[p] # "new"

(* It inserts no post, and holds a result only where a handler has one. *)
WritesNone(p) ==
    /\ Written(p)' <=> Written(p)
    /\ result'[p] # None => pc'[p] \in {"publish", "done"} \cup Recording

LEMMA WrittenStays ==
    ASSUME NEW p \in Requests, KeepsKeys(p), WritesNone(p)
    PROVE  /\ \A q \in Requests : Written(q)' <=> Written(q)
           /\ \A q, k : PostOf(q, k)' <=> PostOf(q, k)
<1>1. \A q \in Requests : Written(q)' <=> Written(q)
  BY DEF KeepsKeys, WritesNone, Written
<1> QED
  BY <1>1 DEF PostOf, KeepsKeys

LEMMA PartsStay ==
    ASSUME KeyInvariant, NEW p \in Requests, KeepsKeys(p), WritesNone(p), UNCHANGED posts
    PROVE  OnePostPerKey' /\ ResultsAreLate' /\ OnlyResetsTake'
<1>1. OnePostPerKey'
  BY DEF KeyInvariant, KeepsKeys, OnePostPerKey
<1>2. ResultsAreLate'
  <2>1. \A q \in posts' : Written(q)'
    BY WrittenStays DEF KeyInvariant, ResultsAreLate, TypeOK
  <2>2. ASSUME NEW q \in Requests, result'[q] # None
        PROVE  pc'[q] \in {"publish", "done"} \cup Recording
    BY <2>2 DEF KeyInvariant, ResultsAreLate, KeepsKeys, WritesNone
  <2> QED
    BY <2>1, <2>2 DEF ResultsAreLate
<1>3. OnlyResetsTake'
  BY WrittenStays DEF KeyInvariant, KeepsKeys, OnlyResetsTake
<1> QED
  BY <1>1, <1>2, <1>3

LEMMA KeepStep ==
    ASSUME KeyInvariant, TypeOK', NEW p \in Requests, KeepsKeys(p), UNCHANGED <<rec, posts>>,
           WritesNone(p),
           key[p] # None /\ pc'[p] \in {"publish"} \cup Recording => PostOf(result'[p], key[p]),
           key[p] # None /\ Succeeded(p)' => PostOf(answer'[p].result, key[p])
    PROVE  KeyInvariant'
<1>1. OnePostPerKey' /\ ResultsAreLate' /\ OnlyResetsTake'
  BY PartsStay
<1>2. \A q, k : PostOf(q, k) => PostOf(q, k)'
  BY WrittenStays
<1>3. ASSUME NEW q \in Requests, key'[q] # None
      PROVE  /\ pc'[q] \in {"publish"} \cup Recording => PostOf(result[q], key[q])'
             /\ Succeeded(q)' => PostOf(answer[q].result, key[q])'
  <2>1. key'[q] = key[q]
    BY DEF KeepsKeys
  <2>2. pc'[q] \in {"publish"} \cup Recording => PostOf(result'[q], key[q])
    BY <1>3, <2>1 DEF KeyInvariant, AllNameTheirPost, KeepsKeys
  <2>3. Succeeded(q)' => PostOf(answer'[q].result, key[q])
    BY <1>3, <2>1 DEF KeyInvariant, AllNameTheirPost, KeepsKeys, Succeeded
  <2> QED
    BY <1>2, <2>1, <2>2, <2>3
<1>4. \A k \in Keys : rec'[k] # None /\ rec'[k].state = "completed" => PostOf(rec[k].response, k)'
  BY <1>2 DEF KeyInvariant, AllNameTheirPost
<1> QED
  BY <1>1, <1>3, <1>4 DEF KeyInvariant, AllNameTheirPost

(* Rows may go, come in flight, or be completed with the post of their key.  *)
LEMMA RowStep ==
    ASSUME KeyInvariant, TypeOK', NEW p \in Requests, KeepsKeys(p), UNCHANGED posts,
           WritesNone(p),
           \A k \in Keys : \/ rec'[k] = rec[k]
                           \/ rec'[k] = None
                           \/ rec'[k].state = "in_flight"
                           \/ PostOf(rec'[k].response, k),
           pc'[p] \notin {"publish"} \cup Recording \/ (pc[p] \in Recording /\ result'[p] = result[p]),
           ~Succeeded(p)'
    PROVE  KeyInvariant'
<1>1. OnePostPerKey' /\ ResultsAreLate' /\ OnlyResetsTake'
  BY PartsStay
<1>2. \A q, k : PostOf(q, k) => PostOf(q, k)'
  BY WrittenStays
<1>3. ASSUME NEW q \in Requests, key'[q] # None
      PROVE  /\ pc'[q] \in {"publish"} \cup Recording => PostOf(result[q], key[q])'
             /\ Succeeded(q)' => PostOf(answer[q].result, key[q])'
  <2>1. key'[q] = key[q]
    BY DEF KeepsKeys
  <2>2. pc'[q] \in {"publish"} \cup Recording => PostOf(result'[q], key[q])
    BY <1>3, <2>1 DEF KeyInvariant, AllNameTheirPost, KeepsKeys
  <2>3. Succeeded(q)' => PostOf(answer'[q].result, key[q])
    BY <1>3, <2>1 DEF KeyInvariant, AllNameTheirPost, KeepsKeys, Succeeded
  <2> QED
    BY <1>2, <2>1, <2>2, <2>3
<1>4. ASSUME NEW k \in Keys, rec'[k] # None, rec'[k].state = "completed"
      PROVE  PostOf(rec[k].response, k)'
  <2>1. PostOf(rec'[k].response, k)
    BY <1>4 DEF KeyInvariant, AllNameTheirPost
  <2> QED
    BY <1>2, <2>1
<1> QED
  BY <1>1, <1>3, <1>4 DEF KeyInvariant, AllNameTheirPost

LEMMA GotoKeeps ==
    ASSUME TypeOK, NEW p \in Requests, NEW label \in Labels \ {"new"}, Goto(p, label), UNCHANGED worldVars
    PROVE  /\ KeepsKeys(p) /\ pc'[p] = label /\ UNCHANGED <<result, answer>>
           /\ label # "done" => ~Succeeded(p)'
           /\ Written(p)' <=> Written(p)
BY DEF TypeOK, StoreTypeOK, Goto, KeepsKeys, worldVars, Succeeded, Written

LEMMA ReplyKeeps ==
    ASSUME TypeOK, NEW p \in Requests, NEW status, NEW r, Reply(p, status, r), UNCHANGED worldVars
    PROVE  /\ KeepsKeys(p) /\ pc'[p] = "done" /\ result' = result
           /\ answer'[p].status = status /\ answer'[p].result = r
           /\ pc'[p] \notin {"publish"} \cup Recording
           /\ status \notin {"created", "replayed"} => ~Succeeded(p)'
           /\ WritesNone(p)
BY DEF TypeOK, StoreTypeOK, Reply, KeepsKeys, WritesNone, Written, worldVars, Succeeded, Recording

(* Outcomes other than a replay leave the handler with nothing in its hands. *)
LEMMA ActKeeps ==
    ASSUME TypeOK, NEW p \in Requests, NEW outcome, NEW row, outcome # "replay",
           Act(p, outcome, row), UNCHANGED worldVars
    PROVE  KeepsKeys(p) /\ ~Succeeded(p)' /\ pc'[p] \notin {"publish"} \cup Recording /\ result' = result
<1>1. CASE Reply(p, "conflict", None)
  BY <1>1, ReplyKeeps
<1>2. CASE Goto(p, "execute")
  BY <1>2, GotoKeeps DEF Labels, Working, Recording
<1>3. CASE /\ pc' = [pc EXCEPT ![p] = "sleep"]
           /\ UNCHANGED <<key, fp, now, result, answer>>
  BY <1>3 DEF TypeOK, StoreTypeOK, KeepsKeys, worldVars, Succeeded, Recording
<1> QED
  BY <1>1, <1>2, <1>3 DEF Act, NextWait

(* Until its INSERT or its recovery a handler has nothing. *)
LEMMA EmptyHanded ==
    ASSUME KeyInvariant, NEW p \in Requests, pc[p] \notin {"publish", "done"} \cup Recording
    PROVE  /\ result[p] = None
           /\ ~Written(p)
           /\ result' = result => WritesNone(p)
BY NoneIsNoRequest DEF KeyInvariant, ResultsAreLate, Written, WritesNone

LEMMA QuietReply ==
    ASSUME KeyInvariant, TypeOK', NEW p \in Requests, NEW r,
           NEW status \in {"conflict", "failed", "error", "lost"},
           Reply(p, status, r), UNCHANGED <<rec, posts, worldVars>>
    PROVE  KeyInvariant'
BY ReplyKeeps, KeepStep DEF KeyInvariant

LEMMA QuietGoto ==
    ASSUME KeyInvariant, TypeOK', NEW p \in Requests,
           NEW label \in Labels \ ({"new", "done", "publish"} \cup Recording),
           pc[p] \notin {"publish", "done"} \cup Recording, Goto(p, label), UNCHANGED <<rec, posts, worldVars>>
    PROVE  KeyInvariant'
BY GotoKeeps, EmptyHanded, KeepStep DEF KeyInvariant

LEMMA BeginKey ==
    ASSUME KeyInvariant, TypeOK', NEW p \in Requests,
           TakeTime(p) \/ Prune(p) \/ Lookup(p) \/ Purge(p) \/ Insert(p) \/ Reread(p),
           UNCHANGED posts
    PROVE  KeyInvariant'
<1>0. /\ TypeOK
      /\ {"lookup", "insert", "prune", "purge", "reread", "repurge"}
            \subseteq Labels \ ({"new", "done", "publish"} \cup Recording)
      /\ pc[p] \notin {"publish", "done"} \cup Recording
  BY DEF KeyInvariant, Labels, Beginning, Recording, TakeTime, Prune, Lookup, Purge, Insert, Reread
<1>h. result' = result => WritesNone(p)
  BY <1>0, EmptyHanded
<1>1. CASE TakeTime(p)
  <2>1. /\ KeepsKeys(p) /\ UNCHANGED <<rec, posts>> /\ pc'[p] \in {"first_prune", "prune"}
        /\ result' = result
    BY <1>0, <1>1 DEF TakeTime, KeepsKeys, worldVars, TypeOK, StoreTypeOK
  <2> QED
    BY <1>h, <2>1, KeepStep DEF Succeeded, Recording
<1>2. CASE Prune(p)
  <2>1. CASE Goto(p, "lookup") /\ rec' = [k \in Keys |-> IF Expired(rec[k], now[p]) THEN None ELSE rec[k]]
    <3>1. KeepsKeys(p) /\ pc'[p] = "lookup" /\ ~Succeeded(p)' /\ result' = result
      BY <1>0, <1>2, <2>1, GotoKeeps DEF Prune
    <3>2. \A k \in Keys : rec'[k] = rec[k] \/ rec'[k] = None
      BY <2>1
    <3> QED
      BY <1>h, <3>1, <3>2, RowStep DEF Recording
  <2>2. CASE Reply(p, "error", None) /\ UNCHANGED rec
    BY <1>2, <2>2, QuietReply DEF Prune
  <2> QED
    BY <1>2, <2>1, <2>2 DEF Prune
<1>3. CASE Lookup(p) \/ Reread(p)
  <2> DEFINE row == rec[key[p]]
  <2>0. UNCHANGED <<rec, posts, worldVars>> /\ key[p] \in Keys
    BY <1>0, <1>3 DEF Lookup, Reread, TypeOK, StoreTypeOK, Beginning
  <2>1. CASE \E label \in {"insert", "purge", "prune", "repurge"} : Goto(p, label)
    BY <1>0, <2>0, <2>1, QuietGoto
  <2>2. CASE row # None /\ Act(p, Decision(row, fp[p]), row) /\ Decision(row, fp[p]) # "replay"
    <3>1. KeepsKeys(p) /\ ~Succeeded(p)' /\ pc'[p] \notin {"publish"} \cup Recording /\ result' = result
      BY <1>0, <2>0, <2>2, ActKeeps
    <3> QED
      BY <1>h, <2>0, <3>1, KeepStep
  <2>3. CASE row # None /\ Decision(row, fp[p]) = "replay" /\ Reply(p, "replayed", row.response)
    <3>1. row \in RowSet
      BY <1>0, <2>0, <2>3 DEF TypeOK, StoreTypeOK
    <3>2. row.state = "completed"
      BY <2>3, <3>1 DEF Decision, RowSet
    <3>3. PostOf(row.response, key[p])
      BY <2>0, <2>3, <3>2 DEF KeyInvariant, AllNameTheirPost
    <3>4. /\ KeepsKeys(p) /\ answer'[p].result = row.response /\ pc'[p] \notin {"publish"} \cup Recording
          /\ WritesNone(p)
      BY <1>0, <2>0, <2>3, ReplyKeeps
    <3> QED
      BY <2>0, <3>3, <3>4, KeepStep
  <2> QED
    BY <1>3, <2>1, <2>2, <2>3 DEF Lookup, Reread, Act
<1>4. CASE Purge(p)
  <2>1. KeepsKeys(p) /\ ~Succeeded(p)' /\ pc'[p] \notin {"publish"} \cup Recording /\ WritesNone(p)
    BY <1>0, <1>4, <1>h, GotoKeeps DEF Purge
  <2>2. \A k \in Keys : rec'[k] = rec[k] \/ rec'[k] = None
    BY <1>0, <1>4 DEF Purge, TypeOK, StoreTypeOK
  <2> QED
    BY <2>1, <2>2, RowStep
<1>5. CASE Insert(p)
  <2>1. CASE Goto(p, "reread") /\ UNCHANGED rec
    BY <1>0, <1>5, <2>1, QuietGoto DEF Insert
  <2>2. CASE rec' = [rec EXCEPT ![key[p]] = FreshRow(p)] /\ Act(p, "started", None)
    <3>1. KeepsKeys(p) /\ ~Succeeded(p)' /\ pc'[p] \notin {"publish"} \cup Recording /\ WritesNone(p)
      BY <1>0, <1>5, <1>h, <2>2, ActKeeps DEF Insert
    <3>2. \A k \in Keys : rec'[k] = rec[k] \/ rec'[k] = FreshRow(p)
      BY <1>0, <2>2 DEF TypeOK, StoreTypeOK
    <3>3. FreshRow(p).state = "in_flight"
      BY DEF FreshRow
    <3> QED
      BY <3>1, <3>2, <3>3, RowStep
  <2> QED
    BY <1>5, <2>1, <2>2 DEF Insert
<1> QED
  BY <1>1, <1>2, <1>3, <1>4, <1>5

LEMMA RecordKey ==
    ASSUME KeyInvariant, TypeOK', NEW p \in Requests, Fetch(p) \/ Store(p) \/ Confirm(p),
           UNCHANGED posts
    PROVE  KeyInvariant'
<1>0. /\ TypeOK /\ pc[p] \in Recording /\ key[p] \in Keys /\ UNCHANGED worldVars
      /\ {"store", "confirm"} \subseteq Labels \ {"new", "done"}
  BY DEF KeyInvariant, TypeOK, StoreTypeOK, Fetch, Store, Confirm, Recording, Labels
<1>1. PostOf(result[p], key[p])
  BY <1>0 DEF KeyInvariant, AllNameTheirPost, TypeOK, StoreTypeOK
<1>2. ASSUME NEW label \in {"store", "confirm"}, Goto(p, label), UNCHANGED rec PROVE KeyInvariant'
  <2>1. KeepsKeys(p) /\ ~Succeeded(p)' /\ result'[p] = result[p] /\ WritesNone(p)
    BY <1>0, <1>2, GotoKeeps DEF WritesNone, Recording
  <2> QED
    BY <1>1, <1>2, <2>1, KeepStep
<1>3. CASE Reply(p, "created", result[p]) /\ UNCHANGED rec
  <2>1. /\ KeepsKeys(p) /\ answer'[p].result = result[p] /\ pc'[p] \notin {"publish"} \cup Recording
        /\ WritesNone(p)
    BY <1>0, <1>3, ReplyKeeps
  <2> QED
    BY <1>1, <1>3, <2>1, KeepStep
<1>4. CASE Reply(p, "error", None) /\ UNCHANGED rec
  BY <1>0, <1>4, QuietReply
<1>5. CASE /\ rec[key[p]] # None
           /\ rec' = [rec EXCEPT ![key[p]].state = "completed", ![key[p]].response = result[p]]
           /\ Goto(p, "confirm")
  <2>1. KeepsKeys(p) /\ ~Succeeded(p)' /\ result'[p] = result[p] /\ WritesNone(p)
    BY <1>0, <1>5, GotoKeeps DEF WritesNone, Recording
  <2>2. rec[key[p]] \in RowSet
    BY <1>0, <1>5 DEF TypeOK, StoreTypeOK
  <2>3. rec'[key[p]] = [rec[key[p]] EXCEPT !.state = "completed", !.response = result[p]]
    BY <1>0, <1>5 DEF TypeOK, StoreTypeOK
  <2>4. rec'[key[p]].response = result[p]
    BY <2>2, <2>3 DEF RowSet
  <2>5. \A k \in Keys : rec'[k] = rec[k] \/ k = key[p]
    BY <1>0, <1>5 DEF TypeOK, StoreTypeOK
  <2>6. \A k \in Keys : rec'[k] = rec[k] \/ PostOf(rec'[k].response, k)
    BY <1>1, <2>4, <2>5
  <2> QED
    BY <1>0, <2>1, <2>6, RowStep
<1> QED
  BY <1>2, <1>3, <1>4, <1>5 DEF Fetch, Store, Confirm

LEMMA PostKey ==
    ASSUME KeyInvariant, TypeOK', NEW p \in Requests,
           Resolve(p) \/ Write(p) \/ Recover(p) \/ Publish(p)
    PROVE  KeyInvariant'
<1>0. /\ TypeOK /\ UNCHANGED <<worldVars, rec>>
      /\ {"write", "recover"} \subseteq Labels \ ({"new", "done", "publish"} \cup Recording)
      /\ "fetch" \in Labels \ {"new", "done"}
      /\ pc[p] \in {"execute", "write", "recover"} => pc[p] \notin {"publish", "done"} \cup Recording
  BY DEF KeyInvariant, Resolve, Write, Recover, Publish, Labels, Working, Recording
<1>1. CASE Resolve(p)
  BY <1>0, <1>1, QuietGoto, QuietReply DEF Resolve
<1>2. CASE Write(p)
  <2>1. CASE Refused(p)
    BY <1>0, <1>2, <2>1, QuietGoto DEF Write
  <2>2. CASE ~Refused(p)
    <3>0. result[p] = None /\ ~Written(p)
      BY <1>0, <1>2, EmptyHanded DEF Write
    <3>1. /\ posts' = posts \cup {p} /\ KeepsKeys(p)
          /\ pc'[p] = "publish" /\ result'[p] = p /\ ~Succeeded(p)'
      BY <1>0, <1>2, <2>2 DEF Write, KeepsKeys, worldVars, TypeOK, StoreTypeOK, Succeeded
    <3>2. \A q \in Requests : Written(q)' <=> Written(q) \/ q = p
      BY <3>1 DEF KeepsKeys, Written
    <3>3. OnePostPerKey'
      <4>1. key[p] # None => \A q \in posts : key[q] # key[p]
        BY <2>2 DEF Refused, SamePost
      <4> QED
        BY <3>1, <4>1 DEF KeepsKeys, KeyInvariant, OnePostPerKey
    <3>4. ResultsAreLate' /\ OnlyResetsTake'
      <4>1. \A q \in posts' : Written(q)'
        BY <1>0, <3>1, <3>2 DEF KeyInvariant, ResultsAreLate, TypeOK
      <4>2. \A q \in Requests : result'[q] # None => pc'[q] \in {"publish", "done"} \cup Recording
        BY <3>1 DEF KeyInvariant, ResultsAreLate, KeepsKeys
      <4>3. OnlyResetsTake'
        BY <3>1, <3>2 DEF KeyInvariant, OnlyResetsTake, KeepsKeys
      <4> QED
        BY <4>1, <4>2, <4>3 DEF ResultsAreLate
    <3>5. \A q, k : PostOf(q, k) => PostOf(q, k)'
      BY <3>1, <3>2 DEF PostOf, KeepsKeys
    <3>6. PostOf(p, key[p])'
      BY <3>1, <3>2 DEF PostOf
    <3>7. ASSUME NEW q \in Requests, key'[q] # None
          PROVE  /\ pc'[q] \in {"publish"} \cup Recording => PostOf(result[q], key[q])'
                 /\ Succeeded(q)' => PostOf(answer[q].result, key[q])'
      <4>1. CASE q = p
        BY <3>1, <3>6, <4>1
      <4>2. CASE q # p
        <5>1. pc'[q] = pc[q] /\ result'[q] = result[q] /\ answer'[q] = answer[q] /\ key'[q] = key[q]
          BY <3>1, <4>2 DEF KeepsKeys
        <5>2. /\ pc'[q] \in {"publish"} \cup Recording => PostOf(result[q], key[q])
              /\ Succeeded(q)' => PostOf(answer[q].result, key[q])
          BY <3>7, <5>1 DEF KeyInvariant, AllNameTheirPost, Succeeded
        <5> QED
          BY <3>5, <5>1, <5>2
      <4> QED
        BY <4>1, <4>2
    <3>8. \A k \in Keys : rec'[k] # None /\ rec'[k].state = "completed" => PostOf(rec[k].response, k)'
      BY <1>0, <3>5 DEF KeyInvariant, AllNameTheirPost
    <3> QED
      BY <3>3, <3>4, <3>7, <3>8 DEF KeyInvariant, AllNameTheirPost
  <2> QED
    BY <2>1, <2>2
<1>3. CASE Recover(p)
  <2>1. CASE Reply(p, "error", None)
    BY <1>0, <1>3, <2>1, QuietReply DEF Recover
  <2>2. ASSUME NEW q \in posts, SamePost(p, q), result' = [result EXCEPT ![p] = q],
               pc' = [pc EXCEPT ![p] = "publish"], UNCHANGED <<key, fp, now, waits, answer>>
        PROVE  KeyInvariant'
    <3>1. KeepsKeys(p) /\ ~Succeeded(p)' /\ result'[p] = q /\ pc'[p] = "publish"
      BY <1>0, <2>2 DEF KeepsKeys, worldVars, TypeOK, StoreTypeOK, Succeeded
    <3>2. PostOf(q, key[p])
      BY <1>0, <2>2 DEF SamePost, PostOf, KeyInvariant, ResultsAreLate, TypeOK
    <3>3. ~Written(p) /\ q # p
      BY <1>0, <1>3, <3>2, EmptyHanded DEF Recover, PostOf
    <3>4. WritesNone(p)
      BY <3>1, <3>3 DEF WritesNone, Written
    <3> QED
      BY <1>0, <1>3, <3>1, <3>2, <3>4, KeepStep DEF Recover
  <2> QED
    BY <1>3, <2>1, <2>2 DEF Recover
<1>4. CASE Publish(p)
  <2>1. pc[p] = "publish" /\ UNCHANGED posts
    BY <1>4 DEF Publish
  <2>2. CASE key[p] # None /\ Goto(p, "fetch")
    <3>1. KeepsKeys(p) /\ ~Succeeded(p)' /\ result'[p] = result[p] /\ WritesNone(p)
      BY <1>0, <2>2, GotoKeeps DEF WritesNone, Recording
    <3>2. PostOf(result[p], key[p])
      BY <2>1, <2>2 DEF KeyInvariant, AllNameTheirPost
    <3> QED
      BY <1>0, <2>1, <3>1, <3>2, KeepStep
  <2>3. CASE key[p] = None /\ Reply(p, "created", result[p])
    <3>1. KeepsKeys(p) /\ WritesNone(p)
      BY <1>0, <2>3, ReplyKeeps
    <3> QED
      BY <1>0, <2>1, <2>3, <3>1, KeepStep
  <2>4. CASE Reply(p, "error", None)
    BY <1>0, <2>1, <2>4, QuietReply
  <2> QED
    BY <1>4, <2>2, <2>3, <2>4 DEF Publish
<1> QED
  BY <1>1, <1>2, <1>3, <1>4

(* A reset takes every post and record; handlers and clients keep what they hold. *)
LEMMA ResetKey ==
    ASSUME KeyInvariant, TypeOK', (ClearWorld /\ posts' = {}) \/ (SeedWorld /\ UNCHANGED posts)
    PROVE  KeyInvariant'
<1>1. UNCHANGED requestVars /\ \A q, k : PostOf(q, k)' <=> PostOf(q, k)
  BY DEF ClearWorld, SeedWorld, requestVars, PostOf, Written
<1>2. OnePostPerKey' /\ ResultsAreLate'
  BY <1>1 DEF ClearWorld, SeedWorld, requestVars, KeyInvariant, OnePostPerKey, ResultsAreLate, Written
<1>3. OnlyResetsTake'
  <2>1. CASE ClearWorld
    <3>1. resets \in Nat /\ resets' = resets + 1
      BY <2>1, StoreAssumption DEF ClearWorld, KeyInvariant, TypeOK, StoreTypeOK
    <3> QED
      BY <3>1 DEF OnlyResetsTake
  <2>2. CASE SeedWorld
    BY <2>2 DEF SeedWorld, KeyInvariant, OnlyResetsTake
  <2> QED
    BY <2>1, <2>2
<1>4. \A q \in Requests : Succeeded(q)' <=> Succeeded(q)
  BY <1>1 DEF requestVars, Succeeded
<1>5. \A k \in Keys : rec'[k] = None \/ rec'[k] = rec[k]
  BY DEF ClearWorld, SeedWorld
<1>6. AllNameTheirPost'
  BY <1>1, <1>4, <1>5 DEF requestVars, KeyInvariant, AllNameTheirPost
<1> QED
  BY <1>2, <1>3, <1>6 DEF KeyInvariant

LEMMA NextKey ==
    ASSUME KeyInvariant, [Next]_vars
    PROVE  KeyInvariant'
<1>0. TypeOK'
  BY NextType DEF KeyInvariant
<1>1. CASE UNCHANGED vars
  BY <1>0, <1>1 DEF vars, storeVars, worldVars, requestVars, KeyInvariant, OnePostPerKey,
     ResultsAreLate, OnlyResetsTake, AllNameTheirPost, PostOf, Written, Succeeded
<1>2. ASSUME NEW p \in Requests, Step(p) PROVE KeyInvariant'
  BY <1>0, <1>2, BeginKey, RecordKey, PostKey DEF Step, StoreStep
<1>3. ASSUME NEW p \in Requests, Abandon(p), UNCHANGED posts PROVE KeyInvariant'
  BY <1>0, <1>3, QuietReply DEF Abandon
<1>4. ASSUME NEW p \in Requests, Arrive(p), UNCHANGED posts PROVE KeyInvariant'
  <2>1. /\ pc'[p] \in {"begin", "execute"}
        /\ \A q \in Requests \ {p} : key'[q] = key[q] /\ pc'[q] = pc[q]
        /\ UNCHANGED <<result, answer, rec, posts, world, resets>>
        /\ result[p] = None /\ ~Written(p)
    BY <1>4, EmptyHanded DEF Arrive, KeyInvariant, TypeOK, StoreTypeOK, worldVars, Recording
  <2>2. \A q, k : PostOf(q, k) => PostOf(q, k)'
    BY <2>1 DEF PostOf, Written
  <2>3. OnePostPerKey' /\ ResultsAreLate' /\ OnlyResetsTake'
    <3>1. p \notin posts
      BY <2>1 DEF KeyInvariant, ResultsAreLate
    <3> QED
      BY <2>1, <3>1 DEF KeyInvariant, OnePostPerKey, ResultsAreLate, OnlyResetsTake, Written, TypeOK
  <2>4. ASSUME NEW q \in Requests, key'[q] # None
        PROVE  /\ pc'[q] \in {"publish"} \cup Recording => PostOf(result[q], key[q])'
               /\ Succeeded(q)' => PostOf(answer[q].result, key[q])'
    <3>1. CASE q = p
      BY <2>1, <3>1 DEF Succeeded, Recording
    <3>2. CASE q # p
      BY <2>1, <2>2, <2>4, <3>2 DEF KeyInvariant, AllNameTheirPost, Succeeded
    <3> QED
      BY <3>1, <3>2
  <2>5. \A k \in Keys : rec'[k] # None /\ rec'[k].state = "completed" => PostOf(rec[k].response, k)'
    BY <2>1, <2>2 DEF KeyInvariant, AllNameTheirPost
  <2> QED
    BY <1>0, <2>3, <2>4, <2>5 DEF KeyInvariant, AllNameTheirPost
<1>5. CASE Tick /\ UNCHANGED posts
  BY <1>0, <1>5 DEF Tick, requestVars, KeyInvariant, OnePostPerKey, ResultsAreLate, OnlyResetsTake,
     AllNameTheirPost, PostOf, Written, Succeeded
<1>6. CASE (ClearWorld /\ posts' = {}) \/ (SeedWorld /\ UNCHANGED posts)
  BY <1>0, <1>6, ResetKey
<1> QED
  BY <1>1, <1>2, <1>3, <1>4, <1>5, <1>6 DEF Next

(* Posts are unique per key and every handler, record and answer names the   *)
(* post of its key, or one that a reset has taken, however late the handler  *)
(* is and whatever is reset under it.                                        *)
THEOREM KeyInvariantHolds == Spec => []KeyInvariant
BY InitKey, NextKey, PTL DEF Spec

(* A handler that resolved its author and the parent before a reset cannot     *)
(* leave a post without them, whatever the resets have deleted since: the      *)
(* foreign keys refuse it.                                                   *)
THEOREM ResetLeavesNoOrphan == Spec => []NoOrphanPost
<1>1. Init => NoOrphanPost
  BY DEF Init, StoreInit, NoOrphanPost
<1>2. KeyInvariant /\ NoOrphanPost /\ [Next]_vars => NoOrphanPost'
  <2> SUFFICES ASSUME KeyInvariant, NoOrphanPost, [Next]_vars PROVE NoOrphanPost'
    OBVIOUS
  <2>1. /\ posts \subseteq Requests /\ fp \in [Requests -> Fingerprints \cup {None}]
        /\ \A q \in posts : pc[q] # "new"
    BY NoneIsNoRequest DEF KeyInvariant, TypeOK, StoreTypeOK, ResultsAreLate, Written, Recording
  <2>2. ASSUME posts' = posts, \A q \in posts : fp'[q] = fp[q], world' = "cleared" => world = "cleared"
        PROVE  NoOrphanPost'
    BY <2>2 DEF NoOrphanPost, ParentThere
  <2>3. CASE UNCHANGED vars
    BY <2>2, <2>3 DEF vars, storeVars, worldVars, requestVars
  <2>4. ASSUME NEW p \in Requests, Step(p) PROVE NoOrphanPost'
    <3>1. world' = world /\ fp' = fp
      BY <2>4 DEF Step, StoreStep, TakeTime, Prune, Lookup, Purge, Insert, Reread, Fetch, Store,
         Confirm, Resolve, Write, Recover, Publish, worldVars, Goto, Reply, NextWait, Act
    <3>2. CASE UNCHANGED posts
      BY <2>2, <3>1, <3>2
    <3>3. CASE ~Refused(p) /\ posts' = posts \cup {p}
      BY <3>1, <3>3 DEF Refused, NoOrphanPost, ParentThere
    <3> QED
      BY <2>4, <3>2, <3>3 DEF Step, Resolve, Write, Recover, Publish
  <2>5. ASSUME NEW p \in Requests, Arrive(p) \/ Abandon(p), UNCHANGED posts PROVE NoOrphanPost'
    <3>1. world' = world
      BY <2>5 DEF Arrive, Abandon, worldVars
    <3>2. \A q \in posts : fp'[q] = fp[q]
      BY <2>1, <2>5 DEF Arrive, Abandon, Reply
    <3> QED
      BY <2>2, <2>5, <3>1, <3>2
  <2>6. CASE (Tick \/ SeedWorld) /\ UNCHANGED posts
    BY <2>2, <2>6 DEF Tick, SeedWorld, requestVars
  <2>7. CASE ClearWorld /\ posts' = {}
    BY <2>7 DEF NoOrphanPost
  <2> QED
    BY <2>3, <2>4, <2>5, <2>6, <2>7 DEF Next
<1> QED
  BY <1>1, <1>2, KeyInvariantHolds, PTL DEF Spec

(* All the successful answers to requests with one key name one post, unless *)
(* a reset came and the post of one of them is gone.                         *)
THEOREM RepliesAreCanonical == Spec => []CanonicalReply
<1>1. KeyInvariant => CanonicalReply
  <2> SUFFICES ASSUME KeyInvariant, NEW p \in Requests, NEW q \in Requests,
                      Succeeded(p), Succeeded(q), key[p] # None, key[p] = key[q]
               PROVE  \/ answer[p].result = answer[q].result
                      \/ resets > 0 /\ ~({answer[p].result, answer[q].result} \subseteq posts)
    BY DEF CanonicalReply
  <2>1. PostOf(answer[p].result, key[p]) /\ PostOf(answer[q].result, key[p])
    BY DEF KeyInvariant, AllNameTheirPost
  <2>2. CASE {answer[p].result, answer[q].result} \subseteq posts
    BY <2>1, <2>2 DEF KeyInvariant, OnePostPerKey, PostOf
  <2>3. CASE ~({answer[p].result, answer[q].result} \subseteq posts)
    <3>1. resets # 0
      BY <2>1, <2>3 DEF KeyInvariant, OnlyResetsTake, PostOf
    <3>2. resets \in Nat
      BY StoreAssumption DEF KeyInvariant, TypeOK, StoreTypeOK
    <3> QED
      BY <2>3, <3>1, <3>2
  <2> QED
    BY <2>2, <2>3
<1> QED
  BY <1>1, KeyInvariantHolds, PTL

-----------------------------------------------------------------------------
(* The refinement *)

(* The step of a handler that learns nothing new for its client, or works    *)
(* for a client without a key, is a stutter of the promise.                  *)
LEMMA SilentStep ==
    ASSUME KeyInvariant, NEW p \in Requests, KeepsKeys(p), WritesNone(p), UNCHANGED posts,
           pc[p] # "done", key[p] = None \/ ~Succeeded(p)'
    PROVE  UNCHANGED Promise!promiseVars
<1>1. madeUnder' = madeUnder /\ goneUnder' = goneUnder
  BY WrittenStays DEF madeUnder, goneUnder, KeepsKeys
<1>2. ASSUME NEW q \in Requests PROVE Succeeded(q)' /\ key[q] # None <=> Succeeded(q) /\ key[q] # None
  BY DEF KeepsKeys, Succeeded
<1>3. \A q \in Requests : Succeeded(q) /\ key[q] # None => answer'[q] = answer[q]
  BY DEF KeepsKeys, Succeeded
<1>4. toldOf' = toldOf
  BY <1>2, <1>3 DEF toldOf, KeepsKeys
<1> QED
  BY <1>1, <1>4 DEF Promise!promiseVars, KeepsKeys

LEMMA TellStep ==
    ASSUME KeyInvariant, KeyInvariant', NEW p \in Requests, KeepsKeys(p), WritesNone(p),
           UNCHANGED posts, pc[p] # "done", key[p] # None, Succeeded(p)'
    PROVE  Promise!Tell(p)
<1>1. madeUnder' = madeUnder /\ goneUnder' = goneUnder /\ key' = key
  BY WrittenStays DEF madeUnder, goneUnder, KeepsKeys
<1>2. key[p] \in Keys
  BY DEF KeyInvariant, TypeOK, StoreTypeOK
<1>3. PostOf(answer'[p].result, key[p])
  BY <1>1, WrittenStays DEF KeyInvariant, AllNameTheirPost
<1>4. answer'[p].result \in madeUnder[key[p]] \cup goneUnder[key[p]]
  BY <1>2, <1>3 DEF madeUnder, goneUnder, PostOf
<1>5. toldOf[p] = None
  BY DEF toldOf, Succeeded
<1>6. toldOf' = [toldOf EXCEPT ![p] = answer'[p].result]
  <2>1. ASSUME NEW q \in Requests \ {p} PROVE toldOf'[q] = toldOf[q]
    BY <1>1 DEF toldOf, Succeeded, KeepsKeys
  <2>2. toldOf'[p] = answer'[p].result
    BY <1>1 DEF toldOf
  <2>3. toldOf' = [q \in Requests |-> toldOf'[q]] /\ toldOf = [q \in Requests |-> toldOf[q]]
    BY DEF toldOf
  <2> QED
    BY <2>1, <2>2, <2>3
<1> QED
  BY <1>1, <1>2, <1>4, <1>5, <1>6 DEF Promise!Tell

LEMMA HandlerStep ==
    ASSUME KeyInvariant, KeyInvariant', NEW p \in Requests, KeepsKeys(p), WritesNone(p), UNCHANGED posts,
           pc[p] # "done"
    PROVE  Promise!Tell(p) \/ UNCHANGED Promise!promiseVars
BY SilentStep, TellStep

(* Handlers change their own variables only. *)
LEMMA HandlerKeeps ==
    ASSUME KeyInvariant, NEW p \in Requests,
           \/ Step(p)
           \/ Abandon(p) /\ UNCHANGED posts
    PROVE  KeepsKeys(p) /\ pc[p] # "done" /\ (UNCHANGED posts => WritesNone(p))
<1>0. TypeOK
  BY DEF KeyInvariant
<1>1. pc[p] # "done"
  BY DEF Abandon, Step, StoreStep, TakeTime, Prune, Lookup, Purge, Insert, Reread, Fetch, Store,
         Confirm, Resolve, Write, Recover, Publish
<1>2. UNCHANGED worldVars
  BY DEF Abandon, Step, StoreStep, TakeTime, Prune, Lookup, Purge, Insert, Reread, Fetch, Store,
         Confirm, Resolve, Write, Recover, Publish
<1>3. \/ Prune(p) \/ Lookup(p) \/ Purge(p) \/ Insert(p) \/ Reread(p) \/ Fetch(p) \/ Store(p)
      \/ Confirm(p) \/ Resolve(p) \/ Publish(p) \/ Abandon(p)
      => KeepsKeys(p)
  <2>1. \A label \in Labels \ {"new"} : Goto(p, label) => KeepsKeys(p)
    BY <1>0, <1>2, GotoKeeps
  <2>2. \A status, r : Reply(p, status, r) => KeepsKeys(p)
    BY <1>0, <1>2, ReplyKeeps
  <2>3. {"lookup", "insert", "prune", "purge", "reread", "repurge", "store", "confirm", "write",
         "recover", "fetch", "execute"} \subseteq Labels \ {"new"}
    BY DEF Labels, Beginning, Working, Recording
  <2>4. NextWait(p) => KeepsKeys(p)
    BY <1>0, <1>2, <2>2 DEF NextWait, KeepsKeys, TypeOK, StoreTypeOK, worldVars
  <2>5. \A outcome, row : Act(p, outcome, row) => KeepsKeys(p)
    BY <2>1, <2>2, <2>3, <2>4 DEF Act
  <2> QED
    BY <2>1, <2>2, <2>3, <2>5 DEF Prune, Lookup, Purge, Insert, Reread, Fetch, Store, Confirm,
       Resolve, Publish, Abandon
<1>4. TakeTime(p) => KeepsKeys(p)
  BY <1>0, <1>2 DEF TakeTime, KeepsKeys, TypeOK, StoreTypeOK, worldVars
<1>5. Write(p) \/ Recover(p) => KeepsKeys(p)
  BY <1>0, <1>2, GotoKeeps, ReplyKeeps DEF Write, Recover, Goto, Reply, KeepsKeys, TypeOK,
     StoreTypeOK, worldVars
<1>6. UNCHANGED posts => WritesNone(p)
  <2> SUFFICES ASSUME UNCHANGED posts PROVE WritesNone(p)
    OBVIOUS
  <2>1. CASE pc[p] \notin {"publish", "done", "recover"} \cup Recording
    <3>1. ~Written(p) /\ (result' = result => WritesNone(p))
      BY <2>1, EmptyHanded
    <3>2. Write(p) => result' = result
      BY <3>1 DEF Write, Goto, KeyInvariant, ResultsAreLate
    <3>3. Resolve(p) \/ StoreStep(p) \/ Abandon(p) => result' = result
      BY DEF Resolve, StoreStep, Abandon, TakeTime, Prune, Lookup, Purge, Insert, Reread, Fetch,
             Store, Confirm, Act, NextWait, Goto, Reply
    <3>4. ~Recover(p) /\ ~Publish(p)
      BY <2>1 DEF Recover, Publish
    <3> QED
      BY <3>1, <3>2, <3>3, <3>4 DEF Step
  <2>2. CASE pc[p] \in {"publish"} \cup Recording
    <3>1. \A r, status : Reply(p, status, r) => WritesNone(p)
      BY <1>0, <1>2, ReplyKeeps
    <3>2. \A label \in Recording : Goto(p, label) => WritesNone(p)
      BY <1>0 DEF Goto, WritesNone, Written, TypeOK, StoreTypeOK
    <3>3. Fetch(p) \/ Store(p) \/ Confirm(p) \/ Publish(p) \/ Abandon(p)
      BY <2>2 DEF Recording, Step, StoreStep, TakeTime, Prune, Lookup, Purge, Insert, Reread,
             Resolve, Write, Recover
    <3> QED
      BY <3>1, <3>2, <3>3 DEF Fetch, Store, Confirm, Publish, Abandon, Recording
  <2>3. CASE pc[p] = "recover"
    <3>1. result[p] = None /\ ~Written(p)
      BY <2>3, EmptyHanded DEF Recording
    <3>2. \A r, status : Reply(p, status, r) => WritesNone(p)
      BY <1>0, <1>2, ReplyKeeps
    <3>3. ASSUME NEW q \in posts, result' = [result EXCEPT ![p] = q],
                 pc' = [pc EXCEPT ![p] = "publish"]
          PROVE  WritesNone(p)
      BY <1>0, <3>1, <3>3 DEF WritesNone, Written, KeyInvariant, ResultsAreLate, TypeOK, StoreTypeOK
    <3>4. Recover(p) \/ Abandon(p)
      BY <2>3 DEF Step, StoreStep, TakeTime, Prune, Lookup, Purge, Insert, Reread, Fetch, Store,
             Confirm, Resolve, Write, Publish
    <3> QED
      BY <3>2, <3>3, <3>4 DEF Recover, Abandon
  <2> QED
    BY <1>1, <2>1, <2>2, <2>3
<1> QED
  BY <1>1, <1>3, <1>4, <1>5, <1>6 DEF Step, StoreStep

LEMMA NextPromise ==
    ASSUME KeyInvariant, KeyInvariant', [Next]_vars
    PROVE  [Promise!PromiseNext]_(Promise!promiseVars)
<1>0. TypeOK /\ TypeOK'
  BY DEF KeyInvariant
<1>1. CASE UNCHANGED vars
  BY <1>1 DEF vars, storeVars, worldVars, requestVars, Promise!promiseVars, madeUnder, goneUnder,
     toldOf, Written, Succeeded
<1>2. ASSUME NEW p \in Requests, Step(p) \/ Abandon(p), UNCHANGED posts
      PROVE  Promise!Tell(p) \/ UNCHANGED Promise!promiseVars
  BY <1>2, HandlerKeeps, HandlerStep
<1>3. ASSUME NEW p \in Requests, Write(p), posts' # posts
      PROVE  Promise!Make(p) \/ UNCHANGED Promise!promiseVars
  <2>1. KeepsKeys(p) /\ key' = key
    BY <1>3, HandlerKeeps DEF Step, KeepsKeys
  <2>2. /\ posts' = posts \cup {p} /\ pc[p] = "write" /\ pc'[p] = "publish" /\ answer' = answer
        /\ result' = [result EXCEPT ![p] = p]
        /\ key[p] # None => \A q \in posts : key[q] # key[p]
    BY <1>0, <1>3 DEF Write, Refused, SamePost, TypeOK, StoreTypeOK
  <2>3. toldOf' = toldOf /\ toldOf[p] = None
    BY <2>1, <2>2 DEF toldOf, Succeeded, KeepsKeys
  <2>4. ~Written(p)
    BY <2>2, EmptyHanded DEF Recording
  <2>5. \A q \in Requests : Written(q)' <=> Written(q) \/ q = p
    BY <1>0, <2>2 DEF Written, TypeOK, StoreTypeOK
  <2>6. goneUnder' = goneUnder
    <3>1. ASSUME NEW k \in Keys PROVE goneUnder'[k] = goneUnder[k]
      BY <1>0, <2>1, <2>2, <2>4, <2>5 DEF goneUnder
    <3> QED
      BY <3>1 DEF goneUnder
  <2>7. CASE key[p] = None
    <3>1. \A k \in Keys : k # key[p]
      BY <2>7, StoreAssumption
    <3>2. madeUnder' = madeUnder
      BY <2>1, <2>2, <3>1 DEF madeUnder
    <3> QED
      BY <2>1, <2>3, <2>6, <3>2 DEF Promise!promiseVars
  <2>8. CASE key[p] # None
    <3>1. key[p] \in Keys
      BY <1>0, <2>8 DEF TypeOK, StoreTypeOK
    <3>2. madeUnder[key[p]] = {}
      BY <2>2, <2>8, <3>1 DEF madeUnder
    <3>3. madeUnder' = [madeUnder EXCEPT ![key[p]] = {p}]
      <4>1. madeUnder'[key[p]] = {p}
        BY <2>1, <2>2, <2>8, <3>1 DEF madeUnder
      <4>2. ASSUME NEW k \in Keys \ {key[p]} PROVE madeUnder'[k] = madeUnder[k]
        BY <2>1, <2>2 DEF madeUnder
      <4>3. madeUnder' = [k \in Keys |-> madeUnder'[k]] /\ madeUnder = [k \in Keys |-> madeUnder[k]]
        BY DEF madeUnder
      <4> QED
        BY <4>1, <4>2, <4>3
    <3>4. p \in Results /\ \A k \in Keys : p \notin madeUnder[k] \cup goneUnder[k]
      BY <2>4, PostsAssumption DEF madeUnder, goneUnder, KeyInvariant, ResultsAreLate
    <3> QED
      BY <2>1, <2>3, <2>6, <3>1, <3>2, <3>3, <3>4 DEF Promise!Make
  <2> QED
    BY <2>7, <2>8
<1>4. ASSUME NEW p \in Requests, Arrive(p), UNCHANGED posts
      PROVE  Promise!Ask(p) \/ UNCHANGED Promise!promiseVars
  <2>0. ~Written(p) /\ p \notin posts
    BY <1>4, EmptyHanded DEF Arrive, Recording, KeyInvariant, ResultsAreLate
  <2>1. /\ key[p] = None /\ pc[p] = "new" /\ pc'[p] \in {"begin", "execute"}
        /\ \A q \in Requests \ {p} : key'[q] = key[q] /\ pc'[q] = pc[q]
        /\ answer' = answer /\ result' = result
        /\ key' = key \/ \E k \in Keys : key' = [key EXCEPT ![p] = k]
    BY <1>0, <1>4 DEF Arrive, TypeOK, StoreTypeOK
  <2>2. madeUnder' = madeUnder /\ goneUnder' = goneUnder
    <3>1. ASSUME NEW k \in Keys PROVE madeUnder'[k] = madeUnder[k]
      BY <1>0, <1>4, <2>0, <2>1 DEF madeUnder, TypeOK
    <3>2. ASSUME NEW k \in Keys PROVE goneUnder'[k] = goneUnder[k]
      BY <1>4, <2>0, <2>1 DEF goneUnder, Written
    <3> QED
      BY <3>1, <3>2 DEF madeUnder, goneUnder
  <2>3. toldOf' = toldOf
    <3>1. ASSUME NEW q \in Requests PROVE toldOf'[q] = toldOf[q]
      BY <2>1 DEF toldOf, Succeeded
    <3> QED
      BY <3>1 DEF toldOf
  <2> QED
    BY <2>1, <2>2, <2>3 DEF Promise!Ask, Promise!promiseVars
<1>5. CASE (Tick \/ SeedWorld) /\ UNCHANGED posts
  BY <1>5 DEF Tick, SeedWorld, requestVars, Promise!promiseVars, madeUnder, goneUnder, toldOf,
     Written, Succeeded
<1>6. CASE ClearWorld /\ posts' = {}
  <2>1. UNCHANGED <<key, pc, answer, result>>
    BY <1>6 DEF ClearWorld, requestVars
  <2>2. toldOf' = toldOf
    BY <2>1 DEF toldOf, Succeeded
  <2>3. madeUnder' = [k \in Keys |-> {}]
    BY <1>6 DEF madeUnder
  <2>4. goneUnder' = [k \in Keys |-> goneUnder[k] \cup madeUnder[k]]
    <3>1. ASSUME NEW k \in Keys PROVE goneUnder'[k] = goneUnder[k] \cup madeUnder[k]
      BY <1>0, <1>6, <2>1 DEF goneUnder, madeUnder, Written, KeyInvariant, ResultsAreLate, TypeOK
    <3>2. goneUnder' = [k \in Keys |-> goneUnder'[k]]
      BY DEF goneUnder
    <3> QED
      BY <3>1, <3>2
  <2> QED
    BY <2>1, <2>2, <2>3, <2>4 DEF Promise!Wipe, Promise!PromiseNext
<1>7. \A p \in Requests : Step(p) => UNCHANGED posts \/ Write(p)
  BY DEF Step, Resolve, Recover, Publish
<1>8. \/ UNCHANGED vars
      \/ \E p \in Requests : (Step(p) \/ Abandon(p)) /\ UNCHANGED posts
      \/ \E p \in Requests : Write(p) /\ posts' # posts
      \/ \E p \in Requests : Arrive(p) /\ UNCHANGED posts
      \/ (Tick \/ SeedWorld) /\ UNCHANGED posts
      \/ ClearWorld /\ posts' = {}
  BY <1>7 DEF Next
<1> QED
  BY <1>1, <1>2, <1>3, <1>4, <1>5, <1>6, <1>8 DEF Promise!PromiseNext

(* POST /posts keeps the promise of KeyedCreation, whatever crashes, expires *)
(* and races, and however often the fixtures are reset under it.             *)
THEOREM PostsKeepThePromise == Spec => PromiseKept
<1>1. Init => Promise!PromiseInit
  <2> SUFFICES ASSUME Init PROVE Promise!PromiseInit
    OBVIOUS
  <2>1. \A q \in Requests : ~Written(q)
    BY NoneIsNoRequest DEF Init, StoreInit, Written
  <2>2. goneUnder = [k \in Keys |-> {}]
    BY <2>1 DEF goneUnder
  <2> QED
    BY <2>2 DEF Init, StoreInit, Promise!PromiseInit, madeUnder, toldOf, Succeeded
<1>2. KeyInvariant /\ KeyInvariant' /\ [Next]_vars => [Promise!PromiseNext]_(Promise!promiseVars)
  BY NextPromise
<1> QED
  BY <1>1, <1>2, KeyInvariantHolds, PTL DEF Spec, PromiseKept, Promise!PromiseSpec
=============================================================================
