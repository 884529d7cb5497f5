------------------------ MODULE Relationships_proofs ------------------------
(* Theorems about Relationships for every value of its constants. *)
EXTENDS Relationships, TLAPS

USE StoreAssumption, RelationshipAssumption

-----------------------------------------------------------------------------
(* Type correctness *)

RequestTypeOK ==
    /\ pc \in [Requests -> Labels]
    /\ key \in [Requests -> Keys \cup {None}]
    /\ fp \in [Requests -> Fingerprints \cup {None}]
    /\ now \in [Requests -> Nat]
    /\ waits \in [Requests -> 0..MaxWaits]
    /\ result \in [Requests -> Requests \cup {None}]
    /\ answer \in [Requests -> AnswerSet]
    /\ \A p \in Requests :
         /\ pc[p] \in Beginning \cup Recording => key[p] \in Keys
         /\ IF pc[p] = "new" THEN key[p] = None ELSE fp[p] \in Fingerprints
         /\ pc[p] \in Recording => result[p] \in Requests

RelationTypeOK ==
    /\ rows \in [Pairs -> Requests \cup {None}]
    /\ op \in [Requests -> {"create", "delete"}]
    /\ pair \in [Requests -> Pairs \cup {None}]
    /\ inserted \in [Requests -> BOOLEAN]
    /\ \A p \in Requests :
         /\ pc[p] # "new" => pair[p] \in Pairs
         /\ op[p] = "delete" => pc[p] # "new" /\ key[p] = None
         /\ key[p] # None => key[p][1] = pair[p]

DatabaseTypeOK ==
    /\ clock \in 0..MaxTime
    /\ world \in {"seeded", "cleared"}
    /\ resets \in 0..MaxResets
    /\ rec \in [Keys -> RowSet \cup {None}]

LEMMA TypeParts ==
    /\ TypeOK <=> RequestTypeOK /\ RelationTypeOK /\ DatabaseTypeOK
    /\ TypeOK' <=> RequestTypeOK' /\ RelationTypeOK' /\ DatabaseTypeOK'
BY DEF TypeOK, StoreTypeOK, RequestTypeOK, RelationTypeOK, DatabaseTypeOK, RelationshipAssumption

LEMMA InitType == Init => TypeOK
BY DEF Init, StoreInit, TypeOK, StoreTypeOK, AnswerSet, Labels, Beginning, Working, Recording,
   RelationshipAssumption

LEMMA DecisionRange ==
    ASSUME NEW row \in RowSet, NEW f
    PROVE  Decision(row, f) \in {"conflict", "replay", "in_flight"}
BY DEF Decision, RowSet

(* The moves of a handler keep the types of the request variables. *)
LEMMA GotoType ==
    ASSUME RequestTypeOK, NEW p \in Requests, NEW label \in Labels \ {"new", "done"},
           Goto(p, label), pc[p] # "new",
           label \in Beginning \cup Recording => key[p] \in Keys,
           label \in Recording => result[p] \in Requests
    PROVE  RequestTypeOK'
BY DEF RequestTypeOK, Goto

LEMMA ReplyType ==
    ASSUME RequestTypeOK, NEW p \in Requests, pc[p] # "new",
           NEW status \in {"created", "replayed", "deleted", "conflict", "failed", "error", "lost"},
           NEW r \in Requests \cup {None}, Reply(p, status, r)
    PROVE  RequestTypeOK'
BY DEF RequestTypeOK, Reply, AnswerSet, Labels, Recording, Beginning, Working, RelationshipAssumption

LEMMA NextWaitType ==
    ASSUME RequestTypeOK, NEW p \in Requests, pc[p] \in Beginning, NextWait(p)
    PROVE  RequestTypeOK'
<1>1. CASE waits[p] = MaxWaits /\ Reply(p, "conflict", None)
  BY <1>1, ReplyType DEF Beginning
<1>2. CASE /\ waits[p] < MaxWaits
           /\ pc' = [pc EXCEPT ![p] = "sleep"]
           /\ waits' = [waits EXCEPT ![p] = @ + 1]
           /\ UNCHANGED <<key, fp, now, result, answer>>
  <2>1. waits[p] + 1 \in 0..MaxWaits
    BY <1>2 DEF RequestTypeOK
  <2> QED
    BY <1>2, <2>1 DEF RequestTypeOK, Beginning, Recording, Labels
<1> QED
  BY <1>1, <1>2 DEF NextWait

LEMMA ActType ==
    ASSUME RequestTypeOK, NEW p \in Requests, pc[p] \in Beginning,
           NEW outcome, NEW row,
           outcome = "replay" => row.response \in Requests \cup {None},
           Act(p, outcome, row)
    PROVE  RequestTypeOK'
<1>0. pc[p] # "new" /\ "execute" \in Labels \ {"new", "done"}
  BY DEF Beginning, Labels, Working
<1>1. CASE outcome = "replay" /\ Reply(p, "replayed", row.response)
  BY <1>0, <1>1, ReplyType
<1>2. CASE Reply(p, "conflict", None)
  BY <1>0, <1>2, ReplyType
<1>3. CASE NextWait(p)
  BY <1>3, NextWaitType
<1>4. CASE Goto(p, "execute")
  BY <1>0, <1>4, GotoType DEF Beginning, Recording
<1> QED
  BY <1>1, <1>2, <1>3, <1>4 DEF Act

(* A row, whoever reads it, is a request that has inserted it. *)
LEMMA ServeType ==
    ASSUME RequestTypeOK, NEW p \in Requests, NEW q \in Requests, pc[p] # "new", Serve(p, q)
    PROVE  RequestTypeOK'
<1>1. CASE key[p] # None /\ pc' = [pc EXCEPT ![p] = "fetch"] /\ answer' = answer
  BY <1>1 DEF Serve, RequestTypeOK, Labels, Recording, Beginning
<1>2. CASE /\ key[p] = None
           /\ pc' = [pc EXCEPT ![p] = "done"]
           /\ answer' = [answer EXCEPT ![p] = [status |-> "created", result |-> q]]
  <2>1. [status |-> "created", result |-> q] \in AnswerSet
    BY DEF AnswerSet, RelationshipAssumption
  <2> QED
    BY <1>2, <2>1 DEF Serve, RequestTypeOK, Labels, Recording, Beginning
<1> QED
  BY <1>1, <1>2 DEF Serve

(* Nothing but an arrival matters to the types of the relationships. *)
LEMMA RelationTypeKept ==
    ASSUME RelationTypeOK, UNCHANGED <<rows, op, pair, inserted, key>>,
           \A q \in Requests : pc'[q] = "new" <=> pc[q] = "new"
    PROVE  RelationTypeOK'
BY DEF RelationTypeOK

LEMMA BeginType ==
    ASSUME TypeOK, NEW p \in Requests,
           TakeTime(p) \/ Prune(p) \/ Lookup(p) \/ Purge(p) \/ Insert(p) \/ Reread(p)
    PROVE  RequestTypeOK' /\ DatabaseTypeOK'
<1>0. /\ RequestTypeOK /\ DatabaseTypeOK
      /\ pc[p] \in Beginning => key[p] \in Keys /\ pc[p] # "new" /\ fp[p] \in Fingerprints
      /\ {"lookup", "insert", "prune", "purge", "reread", "repurge"}
            \subseteq Labels \ {"new", "done"}
      /\ {"lookup", "insert", "prune", "purge", "reread", "repurge"} \subseteq Beginning
      /\ Recording \cap Beginning = {}
      /\ TTL \in Nat
  BY TypeParts DEF Labels, RequestTypeOK, Beginning, Recording
<1>1. ASSUME NEW label \in {"lookup", "insert", "prune", "purge", "reread", "repurge"},
             pc[p] \in Beginning, Goto(p, label)
      PROVE  RequestTypeOK'
  BY <1>0, <1>1, GotoType
<1>3. CASE TakeTime(p)
  <2>1. clock \in Nat /\ pc[p] \in Beginning
    BY <1>0, <1>3 DEF TakeTime, DatabaseTypeOK, Beginning
  <2>2. RequestTypeOK'
    BY <1>0, <1>3, <2>1 DEF TakeTime, RequestTypeOK, Beginning, Labels, Recording
  <2> QED
    BY <1>0, <1>3, <2>2 DEF TakeTime, DatabaseTypeOK, worldVars
<1>4. CASE Prune(p)
  <2>1. pc[p] \in Beginning /\ DatabaseTypeOK'
    BY <1>0, <1>4 DEF Prune, DatabaseTypeOK, worldVars, Beginning
  <2>2. RequestTypeOK'
    BY <1>0, <1>1, <1>4, <2>1, ReplyType DEF Prune
  <2> QED
    BY <2>1, <2>2
<1>5. CASE Lookup(p) \/ Reread(p)
  <2>1. pc[p] \in Beginning /\ DatabaseTypeOK'
    BY <1>0, <1>5 DEF Lookup, Reread, DatabaseTypeOK, worldVars, Beginning
  <2>2. rec[key[p]] # None => rec[key[p]].response \in Requests \cup {None}
    BY <1>0, <2>1 DEF DatabaseTypeOK, RowSet, RelationshipAssumption
  <2>3. RequestTypeOK'
    BY <1>0, <1>1, <1>5, <2>1, <2>2, ActType DEF Lookup, Reread
  <2> QED
    BY <2>1, <2>3
<1>6. CASE Purge(p)
  <2>1. pc[p] \in Beginning /\ DatabaseTypeOK'
    BY <1>0, <1>6 DEF Purge, DatabaseTypeOK, worldVars, Beginning
  <2> QED
    BY <1>0, <1>1, <1>6, <2>1 DEF Purge
<1>7. CASE Insert(p)
  <2>1. pc[p] \in Beginning /\ now[p] + TTL \in Nat
    BY <1>0, <1>7 DEF Insert, RequestTypeOK, Beginning
  <2>2. FreshRow(p) \in RowSet
    BY <1>0, <2>1 DEF FreshRow, RowSet
  <2>3. DatabaseTypeOK'
    BY <1>0, <1>7, <2>1, <2>2 DEF Insert, DatabaseTypeOK, worldVars
  <2>4. RequestTypeOK'
    BY <1>0, <1>1, <1>7, <2>1, ActType DEF Insert
  <2> QED
    BY <2>3, <2>4
<1> QED
  BY <1>3, <1>4, <1>5, <1>6, <1>7

LEMMA RecordType ==
    ASSUME TypeOK, NEW p \in Requests, Fetch(p) \/ Store(p) \/ Confirm(p)
    PROVE  RequestTypeOK' /\ DatabaseTypeOK'
<1>0. /\ RequestTypeOK /\ DatabaseTypeOK
      /\ pc[p] \in Recording => key[p] \in Keys /\ pc[p] # "new" /\ result[p] \in Requests
      /\ {"store", "confirm"} \subseteq Labels \ {"new", "done"}
  BY TypeParts DEF Labels, RequestTypeOK, Recording
<1>1. pc[p] \in Recording
  BY DEF Fetch, Store, Confirm, Recording
<1>3. RequestTypeOK'
  BY <1>0, <1>1, GotoType, ReplyType DEF Fetch, Store, Confirm
<1>4. CASE Fetch(p) \/ Confirm(p)
  BY <1>0, <1>3, <1>4 DEF Fetch, Confirm, DatabaseTypeOK, worldVars
<1>5. CASE Store(p)
  <2>1. rec[key[p]] # None => [rec[key[p]] EXCEPT !.state = "completed", !.response = result[p]] \in RowSet
    BY <1>0, <1>1 DEF DatabaseTypeOK, RowSet, RelationshipAssumption
  <2> QED
    BY <1>0, <1>1, <1>3, <1>5, <2>1 DEF Store, DatabaseTypeOK, worldVars
<1> QED
  BY <1>4, <1>5

(* Handlers change no key, and none of them returns to "new". *)
LEMMA HandlerKeeps ==
    ASSUME RequestTypeOK, NEW p \in Requests, Step(p) \/ Abandon(p)
    PROVE  /\ UNCHANGED key /\ pc[p] \notin {"new", "done"} /\ pc'[p] # "new"
           /\ UNCHANGED worldVars
           /\ \A q \in Requests \ {p} : pc'[q] = pc[q]
<1> USE DEF RequestTypeOK
<1>1. pc[p] \notin {"new", "done"} /\ UNCHANGED worldVars
  BY DEF Abandon, Step, StoreStep, TakeTime, Prune, Lookup, Purge, Insert, Reread, Fetch, Store,
         Confirm, Remove, Find, Write, Recover, Publish
<1> DEFINE Kept == UNCHANGED key /\ pc'[p] # "new" /\ \A q \in Requests \ {p} : pc'[q] = pc[q]
<1>2. \A label : label # "new" /\ Goto(p, label) => Kept
  BY DEF Goto
<1>3. \A status, r : Reply(p, status, r) => Kept
  BY DEF Reply
<1>4. \A q : Serve(p, q) => Kept
  BY DEF Serve
<1>5. NextWait(p) => Kept
  BY <1>3 DEF NextWait
<1>6. TakeTime(p) => Kept
  BY DEF TakeTime
<1>7. Kept
  <2> HIDE DEF Kept
  <2>1. \A outcome, row : Act(p, outcome, row) => Kept
    BY <1>2, <1>3, <1>5 DEF Act
  <2> QED
    BY <1>2, <1>3, <1>4, <1>6, <2>1 DEF Abandon, Step, StoreStep, Prune, Lookup, Purge, Insert,
       Reread, Fetch, Store, Confirm, Remove, Find, Write, Recover, Publish
<1> QED
  BY <1>1, <1>7

LEMMA RelationStepType ==
    ASSUME TypeOK, NEW p \in Requests,
           Remove(p) \/ Find(p) \/ Write(p) \/ Recover(p) \/ Publish(p)
    PROVE  TypeOK'
<1>0. /\ RequestTypeOK /\ RelationTypeOK /\ DatabaseTypeOK
      /\ {"write", "recover", "publish"} \subseteq Labels \ {"new", "done"}
      /\ {"write", "recover", "publish"} \cap (Beginning \cup Recording) = {}
  BY TypeParts DEF Labels, Working, Recording, Beginning
<1>1. pc[p] # "new" /\ UNCHANGED <<key, op, pair>> /\ \A q \in Requests \ {p} : pc'[q] = pc[q]
  BY <1>0, HandlerKeeps DEF Step, Remove, Find, Write, Recover, Publish, relationVars
<1>2. DatabaseTypeOK'
  BY <1>0 DEF Remove, Find, Write, Recover, Publish, DatabaseTypeOK, worldVars
<1>3. pair[p] \in Pairs /\ (rows[pair[p]] # None => rows[pair[p]] \in Requests)
  BY <1>0, <1>1 DEF RelationTypeOK
<1>4. RequestTypeOK'
  BY <1>0, <1>1, <1>3, GotoType, ReplyType, ServeType DEF Remove, Find, Write, Recover, Publish
<1>5. RelationTypeOK'
  <2>0. rows \in [Pairs -> Requests \cup {None}] /\ inserted \in [Requests -> BOOLEAN]
    BY <1>0 DEF RelationTypeOK
  <2>1. rows' \in [Pairs -> Requests \cup {None}] /\ inserted' \in [Requests -> BOOLEAN]
    BY <1>3, <2>0 DEF Remove, Find, Write, Recover, Publish, relationVars
  <2>2. \A q \in Requests : pc'[q] = "new" <=> pc[q] = "new"
    BY <1>0, <1>1, HandlerKeeps DEF Step
  <2> QED
    BY <1>0, <1>1, <2>1, <2>2 DEF RelationTypeOK
<1> QED
  BY <1>2, <1>4, <1>5, TypeParts

LEMMA ArriveType ==
    ASSUME RequestTypeOK, NEW p \in Requests, Arrive(p)
    PROVE  RequestTypeOK'
BY DEF Arrive, RequestTypeOK, Labels, Beginning, Working, Recording

LEMMA CreateType ==
    ASSUME TypeOK, NEW p \in Requests, Create(p) \/ Delete(p)
    PROVE  TypeOK'
<1>0. RequestTypeOK /\ RelationTypeOK /\ DatabaseTypeOK
  BY TypeParts
<1>1. RequestTypeOK' /\ DatabaseTypeOK'
  BY <1>0, ArriveType DEF Create, Delete, Arrive, DatabaseTypeOK, worldVars
<1>2. key[p] = None /\ (key' = key \/ \E k \in Keys : key' = [key EXCEPT ![p] = k])
  BY <1>0 DEF Create, Delete, Arrive, RequestTypeOK
<1>3. \A q \in Requests \ {p} : pc'[q] = pc[q] /\ key'[q] = key[q]
  BY <1>0, <1>2 DEF Create, Delete, Arrive, RequestTypeOK
<1>4. CASE Create(p)
  <2>1. PICK r \in Pairs : pair' = [pair EXCEPT ![p] = r] /\ (key'[p] # None => key'[p][1] = r)
    BY <1>4 DEF Create
  <2>2. op[p] = "create" /\ op' = op /\ rows' = rows /\ inserted' = inserted /\ pc[p] = "new"
    BY <1>0, <1>4 DEF Create, Arrive, RelationTypeOK
  <2>3. \A q \in Requests \ {p} : pair'[q] = pair[q]
    BY <1>0, <2>1 DEF RelationTypeOK
  <2>4. pair' \in [Requests -> Pairs \cup {None}] /\ pair'[p] = r
    BY <1>0, <2>1 DEF RelationTypeOK
  <2> QED
    BY <1>0, <1>1, <1>3, <2>1, <2>2, <2>3, <2>4, TypeParts DEF RelationTypeOK
<1>5. CASE Delete(p)
  <2>1. PICK r \in Pairs : pair' = [pair EXCEPT ![p] = r]
    BY <1>5 DEF Delete
  <2>2. /\ key' = key /\ rows' = rows /\ inserted' = inserted
        /\ op' = [op EXCEPT ![p] = "delete"]
        /\ pc'[p] # "new" /\ key[p] = None
    BY <1>0, <1>2, <1>5 DEF Delete, Arrive, RequestTypeOK
  <2>3. \A q \in Requests \ {p} : pair'[q] = pair[q] /\ op'[q] = op[q]
    BY <1>0, <2>1, <2>2 DEF RelationTypeOK
  <2>4. /\ pair' \in [Requests -> Pairs \cup {None}] /\ pair'[p] = r
        /\ op' \in [Requests -> {"create", "delete"}]
    BY <1>0, <2>1, <2>2 DEF RelationTypeOK
  <2> QED
    BY <1>0, <1>1, <1>3, <2>1, <2>2, <2>3, <2>4, TypeParts DEF RelationTypeOK
<1> QED
  BY <1>4, <1>5

LEMMA NextType == TypeOK /\ [Next]_vars => TypeOK'
<1> SUFFICES ASSUME TypeOK, [Next]_vars PROVE TypeOK'
  OBVIOUS
<1>0. RequestTypeOK /\ RelationTypeOK /\ DatabaseTypeOK
  BY TypeParts
<1>1. CASE UNCHANGED vars
  BY <1>1 DEF vars, storeVars, worldVars, requestVars, relationVars, TypeOK, StoreTypeOK
<1>2. ASSUME NEW p \in Requests, StoreStep(p), UNCHANGED relationVars PROVE TypeOK'
  <2>1. RequestTypeOK' /\ DatabaseTypeOK'
    BY <1>2, BeginType, RecordType DEF StoreStep
  <2>2. RelationTypeOK'
    BY <1>0, <1>2, HandlerKeeps, RelationTypeKept DEF Step, relationVars
  <2> QED
    BY <2>1, <2>2, TypeParts
<1>3. ASSUME NEW p \in Requests, Abandon(p), UNCHANGED relationVars PROVE TypeOK'
  <2>1. RequestTypeOK' /\ DatabaseTypeOK'
    BY <1>0, <1>3, ReplyType DEF Abandon, DatabaseTypeOK, worldVars
  <2>2. RelationTypeOK'
    BY <1>0, <1>3, HandlerKeeps, RelationTypeKept DEF relationVars
  <2> QED
    BY <2>1, <2>2, TypeParts
<1>4. ASSUME NEW p \in Requests, FollowSelf(p) PROVE TypeOK'
  <2>1. PICK a \in Actors \cap Targets : pair' = [pair EXCEPT ![p] = <<a, a>>]
    BY <1>4 DEF FollowSelf
  <2>2. <<a, a>> \in Pairs
    BY DEF Pairs
  <2>3. [status |-> "conflict", result |-> None] \in AnswerSet
    BY DEF AnswerSet
  <2>4. RequestTypeOK' /\ DatabaseTypeOK'
    BY <1>0, <1>4, <2>3 DEF FollowSelf, RequestTypeOK, DatabaseTypeOK, worldVars, Labels,
       Beginning, Recording
  <2>5. RelationTypeOK'
    BY <1>0, <1>4, <2>1, <2>2 DEF FollowSelf, RelationTypeOK, RequestTypeOK
  <2> QED
    BY <2>4, <2>5, TypeParts
<1>5. CASE (Tick \/ SeedWorld) /\ UNCHANGED relationVars
  BY <1>0, <1>5, TypeParts DEF Tick, SeedWorld, requestVars, relationVars, DatabaseTypeOK,
     RequestTypeOK, RelationTypeOK
<1>6. CASE ClearWorld /\ rows' = [r \in Pairs |-> None] /\ UNCHANGED <<op, pair, inserted>>
  BY <1>0, <1>6, TypeParts DEF ClearWorld, requestVars, DatabaseTypeOK, RequestTypeOK, RelationTypeOK
<1> QED
  BY <1>1, <1>2, <1>3, <1>4, <1>5, <1>6, CreateType, RelationStepType DEF Next, Step

(* The state of likes, reposts and follows and of their records always has    *)
(* the expected type: a key always stands for the pair in its scope, and no   *)
(* handler completes a record without a row to answer with.                  *)
THEOREM TypeCorrect == Spec => []TypeOK
BY InitType, NextType, PTL DEF Spec

-----------------------------------------------------------------------------
(* Resets *)

(* A handler that resolved its actor and target before a reset cannot leave   *)
(* a row in the world that the reset has cleared.                            *)
THEOREM ResetLeavesNoRow == Spec => []ClearedWorldHasNoRows
<1>1. Init => ClearedWorldHasNoRows
  BY DEF Init, StoreInit, ClearedWorldHasNoRows
<1>2. TypeOK /\ ClearedWorldHasNoRows /\ [Next]_vars => ClearedWorldHasNoRows'
  <2> SUFFICES ASSUME TypeOK, ClearedWorldHasNoRows, [Next]_vars, world' = "cleared", NEW r \in Pairs
               PROVE  rows'[r] = None
    BY DEF ClearedWorldHasNoRows
  <2>1. CASE UNCHANGED vars
    BY <2>1 DEF vars, storeVars, worldVars, relationVars, ClearedWorldHasNoRows
  <2>2. ASSUME NEW p \in Requests, Step(p) PROVE rows'[r] = None
    <3>1. world = "cleared"
      BY <2>2, TypeParts, HandlerKeeps DEF worldVars
    <3>2. UNCHANGED rows
      BY <2>2, <3>1 DEF Step, Remove, Find, Write, Recover, Publish, relationVars
    <3> QED
      BY <3>1, <3>2 DEF ClearedWorldHasNoRows
  <2>3. ASSUME NEW p \in Requests, Create(p) \/ Delete(p) \/ FollowSelf(p) PROVE rows'[r] = None
    BY <2>3 DEF Create, Delete, FollowSelf, Arrive, worldVars
  <2>4. ASSUME NEW p \in Requests, Abandon(p), UNCHANGED relationVars PROVE rows'[r] = None
    BY <2>4 DEF Abandon, worldVars, relationVars, ClearedWorldHasNoRows
  <2>5. CASE (Tick \/ SeedWorld) /\ UNCHANGED relationVars
    BY <2>5 DEF Tick, SeedWorld, relationVars, ClearedWorldHasNoRows
  <2> QED
    BY <2>1, <2>2, <2>3, <2>4, <2>5 DEF Next
<1> QED
  BY <1>1, <1>2, TypeCorrect, PTL DEF Spec

-----------------------------------------------------------------------------
(* Effects *)

LEMMA EffectMeans ==
    ASSUME NEW q \in Requests
    PROVE  /\ effect[q] # "none" <=> inserted[q] \/ result[q] # None \/ answer[q].status = "deleted"
           /\ (effect[q] # "none")'
                <=> inserted'[q] \/ result'[q] # None \/ answer'[q].status = "deleted"
BY DEF effect

(* Handlers change their own variables only. *)
OthersKept(p) ==
    /\ UNCHANGED <<key, pair>>
    /\ \A q \in Requests \ {p} :
         pc'[q] = pc[q] /\ result'[q] = result[q] /\ answer'[q] = answer[q] /\ inserted'[q] = inserted[q]

LEMMA HandlerOthers ==
    ASSUME TypeOK, NEW p \in Requests, Step(p) \/ (Abandon(p) /\ UNCHANGED relationVars)
    PROVE  OthersKept(p)
<1> USE DEF TypeOK, StoreTypeOK
<1>1. /\ UNCHANGED pair
      /\ \A q \in Requests \ {p} : inserted'[q] = inserted[q]
  BY DEF Step, Remove, Find, Write, Recover, Publish, relationVars
<1> DEFINE Kept == /\ UNCHANGED key
                   /\ \A q \in Requests \ {p} :
                         pc'[q] = pc[q] /\ result'[q] = result[q] /\ answer'[q] = answer[q]
<1>2. \A label : Goto(p, label) => Kept
  BY DEF Goto
<1>3. \A status, r : Reply(p, status, r) => Kept
  BY DEF Reply
<1>4. \A q : Serve(p, q) => Kept
  BY DEF Serve
<1>5. NextWait(p) => Kept
  BY <1>3 DEF NextWait
<1>6. TakeTime(p) => Kept
  BY DEF TakeTime
<1>7. Kept
  <2> HIDE DEF Kept
  <2>1. \A outcome, row : Act(p, outcome, row) => Kept
    BY <1>2, <1>3, <1>5 DEF Act
  <2> QED
    BY <1>2, <1>3, <1>4, <1>6, <2>1 DEF Abandon, Step, StoreStep, Prune, Lookup, Purge, Insert,
       Reread, Fetch, Store, Confirm, Remove, Find, Write, Recover, Publish
<1> QED
  BY <1>1, <1>7 DEF OthersKept

(* What is true of the handler whose turn it was. *)
HandFits(p) ==
    /\ pc[p] # "new"
    /\ pc[p] # "done" => answer[p].status = "none"
    /\ inserted[p] => pc[p] \in {"publish", "done"} \cup Recording
    /\ pc[p] = "publish" => inserted[p]
    /\ result[p] # None => pc[p] \in {"done"} \cup Recording

RecFits(p) ==
    \A k \in Keys : \/ rec'[k] = rec[k]
                    \/ rec'[k] = None
                    \/ rec'[k].state = "in_flight"
                    \/ k = key[p] /\ effect[p] # "none"

LEMMA SetInvariantStep ==
    ASSUME SetInvariant, TypeOK', NEW p \in Requests, pc[p] \notin {"new", "done"}, OthersKept(p),
           HandFits(p)', RecFits(p),
           inserted[p] => inserted'[p],
           result[p] # None => result'[p] # None
    PROVE  SetInvariant'
<1>1. HandsMatchPlace'
  BY DEF SetInvariant, HandsMatchPlace, HandFits, OthersKept
<1>2. ASSUME NEW q \in Requests, effect[q] # "none" PROVE effect'[q] # "none"
  <2>1. CASE q = p
    BY <1>2, <2>1, EffectMeans DEF SetInvariant, HandsMatchPlace
  <2>2. CASE q # p
    BY <1>2, <2>2, EffectMeans DEF OthersKept
  <2> QED
    BY <2>1, <2>2
<1>3. RecordsHaveEffect'
  <2> SUFFICES ASSUME NEW k \in Keys, rec'[k] # None, rec'[k].state = "completed"
               PROVE  \E q \in Requests : key[q] = k /\ effect'[q] # "none"
    BY DEF RecordsHaveEffect, OthersKept
  <2>1. CASE rec'[k] = rec[k]
    BY <1>2, <2>1 DEF SetInvariant, RecordsHaveEffect
  <2>2. CASE k = key[p] /\ effect[p] # "none"
    BY <1>2, <2>2
  <2> QED
    BY <2>1, <2>2 DEF RecFits
<1> QED
  BY <1>1, <1>3 DEF SetInvariant

(* A step after which nobody knows of more, and nothing has changed in the    *)
(* set, is a stutter of RelationSet.                                         *)
LEMMA SilentStep ==
    ASSUME SetInvariant, NEW p \in Requests, pc[p] # "done", OthersKept(p),
           UNCHANGED <<rows, result, inserted>>,
           answer'[p].status # "deleted", ~Succeeded(p)'
    PROVE  UNCHANGED Set!setVars
<1>1. present' = present
  BY DEF present
<1>2. ASSUME NEW q \in Requests PROVE effect'[q] = effect[q] /\ told'[q] = told[q]
  <2>1. CASE q = p
    BY <2>1 DEF effect, told, Succeeded, SetInvariant, HandsMatchPlace
  <2>2. CASE q # p
    BY <2>2 DEF effect, told, Succeeded, OthersKept
  <2> QED
    BY <2>1, <2>2
<1>3. effect' = effect /\ told' = told
  BY <1>2 DEF effect, told
<1> QED
  BY <1>1, <1>3 DEF Set!setVars, OthersKept

(* An answer that repeats what has been done already. *)
LEMMA TellStep ==
    ASSUME SetInvariant, NEW p \in Requests, pc[p] # "done", OthersKept(p),
           UNCHANGED <<rows, inserted>>, result'[p] = result[p],
           answer'[p].status # "deleted", Succeeded(p)',
           \/ effect[p] # "none"
           \/ \E q \in Requests : key[p] # None /\ key[q] = key[p] /\ effect[q] # "none"
    PROVE  Set!Tell(p)
<1>1. present' = present
  BY DEF present
<1>2. ASSUME NEW q \in Requests PROVE effect'[q] = effect[q]
  <2>1. CASE q = p
    BY <2>1 DEF effect, SetInvariant, HandsMatchPlace
  <2>2. CASE q # p
    BY <2>2 DEF effect, OthersKept
  <2> QED
    BY <2>1, <2>2
<1>3. effect' = effect
  BY <1>2 DEF effect
<1>4. ~told[p] /\ told'[p] /\ \A q \in Requests \ {p} : told'[q] = told[q]
  BY DEF told, Succeeded, OthersKept
<1>5. told' = [told EXCEPT ![p] = TRUE]
  BY <1>4 DEF told
<1> QED
  BY <1>1, <1>3, <1>4, <1>5 DEF Set!Tell, OthersKept

(* A step in which a request takes its effect. *)
LEMMA TakeStep ==
    ASSUME SetInvariant, NEW p \in Requests, pc[p] # "done", OthersKept(p), pair[p] \in Pairs,
           effect[p] = "none", NEW e, effect'[p] = e
    PROVE  Set!Take(p, e)
<1>1. \A q \in Requests \ {p} : effect'[q] = effect[q] /\ told'[q] = told[q]
  BY DEF effect, told, Succeeded, OthersKept
<1>2. effect' = [effect EXCEPT ![p] = e]
  <2>1. effect' = [q \in Requests |-> effect'[q]] /\ effect = [q \in Requests |-> effect[q]]
    BY DEF effect
  <2> QED
    BY <1>1, <2>1
<1>3. told' = [told EXCEPT ![p] = told'[p]] /\ told'[p] \in BOOLEAN
  <2>1. told' = [q \in Requests |-> told'[q]] /\ told = [q \in Requests |-> told[q]]
    BY DEF told
  <2>2. told'[p] \in BOOLEAN
    BY DEF told, Succeeded
  <2> QED
    BY <1>1, <2>1, <2>2
<1>4. ~told[p]
  BY DEF told, Succeeded
<1> QED
  BY <1>2, <1>3, <1>4 DEF Set!Take, OthersKept

-----------------------------------------------------------------------------
(* The moves of a handler, as steps of RelationSet.                          *)

LEMMA GotoSteps ==
    ASSUME SetInvariant, TypeOK', NEW p \in Requests, pc[p] \notin {"new", "done"}, OthersKept(p),
           NEW label \in Labels \ {"new", "done", "publish"}, Goto(p, label),
           pc[p] \in {"publish"} \cup Recording => label \in Recording,
           UNCHANGED relationVars, RecFits(p)
    PROVE  SetInvariant' /\ UNCHANGED Set!setVars
<1>0. TypeOK /\ pc'[p] = label /\ UNCHANGED <<result, answer, rows, inserted>>
  BY DEF SetInvariant, TypeOK, StoreTypeOK, Goto, relationVars
<1>1. answer[p].status = "none"
  BY DEF SetInvariant, HandsMatchPlace
<1>2. HandFits(p)'
  BY <1>0, <1>1 DEF HandFits, SetInvariant, HandsMatchPlace
<1>3. SetInvariant'
  BY <1>0, <1>2, SetInvariantStep
<1>4. UNCHANGED Set!setVars
  BY <1>0, <1>1, SilentStep DEF Succeeded
<1> QED
  BY <1>3, <1>4

LEMMA ReplyFacts ==
    ASSUME SetInvariant, TypeOK', NEW p \in Requests, pc[p] \notin {"new", "done"}, OthersKept(p),
           NEW status, NEW r, Reply(p, status, r), UNCHANGED inserted, RecFits(p)
    PROVE  /\ SetInvariant' /\ UNCHANGED result
           /\ pc'[p] = "done" /\ answer'[p].status = status
<1>0. /\ pc'[p] = "done" /\ UNCHANGED <<result, inserted>>
      /\ answer'[p].status = status
  BY DEF SetInvariant, TypeOK, StoreTypeOK, Reply
<1>1. HandFits(p)'
  BY <1>0 DEF HandFits, Recording
<1> QED
  BY <1>0, <1>1, SetInvariantStep

LEMMA QuietReply ==
    ASSUME SetInvariant, TypeOK', NEW p \in Requests, pc[p] \notin {"new", "done"}, OthersKept(p),
           NEW status \in {"conflict", "error", "lost"}, NEW r, Reply(p, status, r),
           UNCHANGED <<rows, inserted>>, RecFits(p)
    PROVE  SetInvariant' /\ UNCHANGED Set!setVars
<1>1. SetInvariant' /\ UNCHANGED result /\ answer'[p].status = status
  BY ReplyFacts
<1>2. UNCHANGED Set!setVars
  BY <1>1, SilentStep DEF Succeeded
<1> QED
  BY <1>1, <1>2

LEMMA ToldReply ==
    ASSUME SetInvariant, TypeOK', NEW p \in Requests, pc[p] \notin {"new", "done"}, OthersKept(p),
           NEW status \in {"created", "replayed"}, NEW r, Reply(p, status, r),
           UNCHANGED <<rows, inserted, rec>>,
           \/ effect[p] # "none"
           \/ \E q \in Requests : key[p] # None /\ key[q] = key[p] /\ effect[q] # "none"
    PROVE  SetInvariant' /\ Set!Tell(p)
<1>0. RecFits(p)
  BY DEF RecFits
<1>1. SetInvariant' /\ UNCHANGED result /\ pc'[p] = "done" /\ answer'[p].status = status
  BY <1>0, ReplyFacts
<1>2. Set!Tell(p)
  BY <1>1, TellStep DEF Succeeded
<1> QED
  BY <1>1, <1>2

LEMMA WaitSteps ==
    ASSUME SetInvariant, TypeOK', NEW p \in Requests, pc[p] \in Beginning, OthersKept(p),
           NextWait(p), UNCHANGED relationVars, RecFits(p)
    PROVE  SetInvariant' /\ UNCHANGED Set!setVars
<1>0. pc[p] \notin {"new", "done", "publish"} \cup Recording
  BY DEF Beginning, Recording
<1>1. CASE Reply(p, "conflict", None)
  BY <1>0, <1>1, QuietReply DEF relationVars
<1>2. CASE /\ pc' = [pc EXCEPT ![p] = "sleep"]
           /\ UNCHANGED <<key, fp, now, result, answer>>
  <2>1. pc'[p] = "sleep" /\ UNCHANGED <<result, answer, rows, inserted>>
    BY <1>2 DEF SetInvariant, TypeOK, StoreTypeOK, relationVars
  <2>2. answer[p].status = "none"
    BY <1>0 DEF SetInvariant, HandsMatchPlace
  <2>3. HandFits(p)'
    BY <1>0, <2>1, <2>2 DEF HandFits, SetInvariant, HandsMatchPlace
  <2> QED
    BY <1>0, <2>1, <2>2, <2>3, SetInvariantStep, SilentStep DEF Succeeded
<1> QED
  BY <1>1, <1>2 DEF NextWait

LEMMA ActSteps ==
    ASSUME SetInvariant, TypeOK', NEW p \in Requests, pc[p] \in Beginning, OthersKept(p),
           NEW outcome, NEW row, outcome # "replay", Act(p, outcome, row),
           UNCHANGED relationVars, RecFits(p)
    PROVE  SetInvariant' /\ UNCHANGED Set!setVars
<1>0. pc[p] \notin {"new", "done", "publish"} \cup Recording
  BY DEF Beginning, Recording
<1>1. CASE Reply(p, "conflict", None)
  BY <1>0, <1>1, QuietReply DEF relationVars
<1>2. CASE NextWait(p)
  BY <1>2, WaitSteps
<1>3. CASE Goto(p, "execute")
  <2>1. "execute" \in Labels \ {"new", "done", "publish"}
    BY DEF Labels, Working
  <2> QED
    BY <1>0, <1>3, <2>1, GotoSteps
<1> QED
  BY <1>1, <1>2, <1>3 DEF Act

LEMMA BeginSteps ==
    ASSUME SetInvariant, TypeOK', NEW p \in Requests,
           TakeTime(p) \/ Prune(p) \/ Lookup(p) \/ Purge(p) \/ Insert(p) \/ Reread(p),
           UNCHANGED relationVars
    PROVE  SetInvariant' /\ (Set!Tell(p) \/ UNCHANGED Set!setVars)
<1>0. /\ TypeOK /\ OthersKept(p) /\ pc[p] \in Beginning /\ key[p] \in Keys
      /\ pc[p] \notin {"new", "done", "publish"} \cup Recording
      /\ {"lookup", "insert", "prune", "purge", "reread", "repurge"} \subseteq Labels \ {"new", "done", "publish"}
  <2>1. TypeOK /\ OthersKept(p)
    BY HandlerOthers DEF SetInvariant, Step, StoreStep
  <2>2. pc[p] \in Beginning
    BY DEF TakeTime, Prune, Lookup, Purge, Insert, Reread, Beginning
  <2> QED
    BY <2>1, <2>2 DEF TypeOK, StoreTypeOK, Beginning, Recording, Labels
<1>1. CASE TakeTime(p)
  <2>1. /\ pc'[p] \in {"first_prune", "prune"} /\ UNCHANGED <<result, answer, rows, inserted, rec>>
        /\ answer[p].status = "none"
    BY <1>0, <1>1 DEF TakeTime, TypeOK, StoreTypeOK, relationVars, SetInvariant, HandsMatchPlace
  <2>2. HandFits(p)' /\ RecFits(p)
    BY <1>0, <2>1 DEF HandFits, RecFits, SetInvariant, HandsMatchPlace
  <2> QED
    BY <1>0, <2>1, <2>2, SetInvariantStep, SilentStep DEF Succeeded
<1>2. CASE Prune(p)
  <2>1. RecFits(p)
    BY <1>2 DEF Prune, RecFits
  <2> QED
    BY <1>0, <1>2, <2>1, GotoSteps, QuietReply DEF Prune, relationVars
<1>3. CASE Lookup(p) \/ Reread(p)
  <2> DEFINE row == rec[key[p]]
  <2>1. UNCHANGED rec /\ RecFits(p)
    BY <1>3 DEF Lookup, Reread, RecFits
  <2>2. CASE \E label \in {"insert", "purge", "prune", "repurge"} : Goto(p, label)
    BY <1>0, <2>1, <2>2, GotoSteps
  <2>3. CASE Act(p, Decision(row, fp[p]), row) /\ Decision(row, fp[p]) # "replay"
    BY <1>0, <2>1, <2>3, ActSteps
  <2>4. CASE row # None /\ Decision(row, fp[p]) = "replay" /\ Reply(p, "replayed", row.response)
    <3>1. row \in RowSet
      BY <1>0, <2>4 DEF TypeOK, StoreTypeOK
    <3>2. row.state = "completed"
      BY <2>4, <3>1 DEF Decision, RowSet
    <3>3. \E q \in Requests : key[p] # None /\ key[q] = key[p] /\ effect[q] # "none"
      BY <1>0, <2>4, <3>2 DEF SetInvariant, RecordsHaveEffect, StoreAssumption
    <3> QED
      BY <1>0, <2>1, <2>4, <3>3, ToldReply DEF relationVars
  <2> QED
    BY <1>3, <2>2, <2>3, <2>4 DEF Lookup, Reread, Act
<1>4. CASE Purge(p)
  <2>1. RecFits(p)
    BY <1>0, <1>4 DEF Purge, RecFits, TypeOK, StoreTypeOK
  <2> QED
    BY <1>0, <1>4, <2>1, GotoSteps DEF Purge
<1>5. CASE Insert(p)
  <2>1. RecFits(p)
    <3>1. FreshRow(p).state = "in_flight"
      BY DEF FreshRow
    <3> QED
      BY <1>0, <1>5, <3>1 DEF Insert, RecFits, TypeOK, StoreTypeOK
  <2> QED
    BY <1>0, <1>5, <2>1, GotoSteps, ActSteps DEF Insert
<1> QED
  BY <1>1, <1>2, <1>3, <1>4, <1>5

LEMMA RecordSteps ==
    ASSUME SetInvariant, TypeOK', NEW p \in Requests, Fetch(p) \/ Store(p) \/ Confirm(p),
           UNCHANGED relationVars
    PROVE  SetInvariant' /\ (Set!Tell(p) \/ UNCHANGED Set!setVars)
<1>0. /\ TypeOK /\ OthersKept(p) /\ pc[p] \in Recording /\ key[p] \in Keys
      /\ pc[p] \notin {"new", "done"} /\ UNCHANGED <<rows, inserted>>
      /\ {"store", "confirm"} \subseteq Labels \ {"new", "done", "publish"}
      /\ {"store", "confirm"} \subseteq Recording
  <2>1. TypeOK /\ OthersKept(p)
    BY HandlerOthers DEF SetInvariant, Step, StoreStep
  <2>2. pc[p] \in Recording
    BY DEF Fetch, Store, Confirm, Recording
  <2> QED
    BY <2>1, <2>2 DEF TypeOK, StoreTypeOK, Recording, Labels, relationVars
<1>1. result[p] # None /\ effect[p] # "none"
  BY <1>0, EffectMeans DEF TypeOK, StoreAssumption, RelationshipAssumption
<1>2. RecFits(p)
  BY <1>0, <1>1 DEF Fetch, Store, Confirm, RecFits, TypeOK, StoreTypeOK
<1>3. CASE Goto(p, "store") \/ Goto(p, "confirm")
  BY <1>0, <1>2, <1>3, GotoSteps
<1>4. CASE Reply(p, "error", None)
  BY <1>0, <1>2, <1>4, QuietReply
<1>5. CASE Reply(p, "created", result[p]) /\ UNCHANGED rec
  BY <1>0, <1>1, <1>5, ToldReply
<1> QED
  BY <1>3, <1>4, <1>5 DEF Fetch, Store, Confirm

(* Answering with row q, or recording it first. *)
LEMMA ServeFacts ==
    ASSUME SetInvariant, TypeOK', NEW p \in Requests, pc[p] \notin {"new", "done"}, OthersKept(p),
           NEW q \in Requests, Serve(p, q), UNCHANGED <<rec, inserted>>
    PROVE  /\ SetInvariant' /\ result'[p] = q /\ answer'[p].status # "deleted"
           /\ Succeeded(p)' <=> key[p] = None
           /\ ~Succeeded(p)' => answer'[p].status = "none"
<1>0. TypeOK /\ answer[p].status = "none"
  BY DEF SetInvariant, HandsMatchPlace
<1>1. /\ result'[p] = q /\ q # None
      /\ \/ key[p] # None /\ pc'[p] = "fetch" /\ answer'[p].status = "none"
         \/ key[p] = None /\ pc'[p] = "done" /\ answer'[p].status = "created"
  BY <1>0 DEF Serve, TypeOK, StoreTypeOK, StoreAssumption, RelationshipAssumption
<1>2. HandFits(p)' /\ RecFits(p)
  BY <1>1 DEF HandFits, RecFits, Recording
<1>3. SetInvariant'
  BY <1>1, <1>2, SetInvariantStep
<1> QED
  BY <1>1, <1>3 DEF Succeeded

(* The handler that finds its row takes it for its effect. *)
LEMMA FoundStep ==
    ASSUME SetInvariant, TypeOK', NEW p \in Requests, pc[p] \in {"execute", "recover"}, OthersKept(p),
           rows[pair[p]] # None, Serve(p, rows[pair[p]]), UNCHANGED <<rec, rows, inserted>>
    PROVE  SetInvariant' /\ Set!Find(p)
<1>0. /\ TypeOK /\ pair[p] \in Pairs /\ rows[pair[p]] \in Requests /\ pc[p] \notin {"new", "done"}
      /\ ~inserted[p] /\ result[p] = None /\ answer[p].status = "none"
  BY DEF SetInvariant, HandsMatchPlace, TypeOK, Recording
<1>1. SetInvariant' /\ result'[p] # None /\ answer'[p].status # "deleted"
  BY <1>0, ServeFacts DEF StoreAssumption, RelationshipAssumption
<1>2. effect[p] = "none"
  BY <1>0 DEF effect
<1>3. effect'[p] = "found"
  <2>1. ~inserted'[p]
    BY <1>0
  <2> QED
    BY <1>1, <2>1 DEF effect
<1>4. Set!Take(p, "found")
  BY <1>0, <1>2, <1>3, TakeStep
<1>5. present[pair[p]] /\ present' = present
  BY <1>0 DEF present
<1> QED
  BY <1>1, <1>4, <1>5 DEF Set!Find

LEMMA RemoveSteps ==
    ASSUME SetInvariant, TypeOK', NEW p \in Requests, Remove(p)
    PROVE  SetInvariant' /\ (Set!Remove(p) \/ UNCHANGED Set!setVars)
<1>0. /\ TypeOK /\ OthersKept(p) /\ pc[p] = "execute" /\ UNCHANGED <<rec, inserted>> /\ RecFits(p)
      /\ pair[p] \in Pairs
      /\ ~inserted[p] /\ result[p] = None /\ answer[p].status = "none"
  <2>1. TypeOK /\ OthersKept(p)
    BY HandlerOthers DEF SetInvariant, Step
  <2> QED
    BY <2>1 DEF Remove, RecFits, TypeOK, SetInvariant, HandsMatchPlace, Recording
<1>1. CASE rows' = [rows EXCEPT ![pair[p]] = None] /\ Reply(p, "deleted", None)
  <2>1. SetInvariant' /\ UNCHANGED result /\ answer'[p].status = "deleted"
    BY <1>0, <1>1, ReplyFacts
  <2>2. effect[p] = "none" /\ effect'[p] = "removed"
    BY <1>0, <2>1 DEF effect
  <2>3. Set!Take(p, "removed")
    BY <1>0, <2>2, TakeStep
  <2>4. present' = [present EXCEPT ![pair[p]] = FALSE]
    <3>1. \A r \in Pairs \ {pair[p]} : rows'[r] = rows[r]
      BY <1>0, <1>1 DEF TypeOK
    <3>2. rows'[pair[p]] = None
      BY <1>0, <1>1 DEF TypeOK
    <3> QED
      BY <1>0, <3>1, <3>2 DEF present
  <2> QED
    BY <2>1, <2>3, <2>4 DEF Set!Remove
<1>2. CASE Reply(p, "error", None) /\ UNCHANGED rows
  BY <1>0, <1>2, QuietReply
<1> QED
  BY <1>1, <1>2 DEF Remove

LEMMA FindSteps ==
    ASSUME SetInvariant, TypeOK', NEW p \in Requests, Find(p) \/ Recover(p)
    PROVE  SetInvariant' /\ (Set!Find(p) \/ UNCHANGED Set!setVars)
<1>0. /\ OthersKept(p) /\ pc[p] \in {"execute", "recover"} /\ UNCHANGED <<rec, relationVars>>
      /\ RecFits(p) /\ "write" \in Labels \ {"new", "done", "publish"}
      /\ pc[p] \notin {"new", "done", "publish"} \cup Recording
  <2>1. OthersKept(p)
    BY HandlerOthers DEF SetInvariant, Step
  <2> QED
    BY <2>1 DEF Find, Recover, RecFits, Labels, Working, Recording
<1>1. CASE rows[pair[p]] # None /\ Serve(p, rows[pair[p]])
  BY <1>0, <1>1, FoundStep DEF relationVars
<1>2. CASE Goto(p, "write")
  BY <1>0, <1>2, GotoSteps
<1>3. CASE Reply(p, "conflict", None) \/ Reply(p, "error", None)
  BY <1>0, <1>3, QuietReply DEF relationVars
<1> QED
  BY <1>1, <1>2, <1>3 DEF Find, Recover

LEMMA WriteSteps ==
    ASSUME SetInvariant, TypeOK', NEW p \in Requests, Write(p)
    PROVE  SetInvariant' /\ (Set!Make(p) \/ UNCHANGED Set!setVars)
<1>0. /\ TypeOK /\ OthersKept(p) /\ pc[p] = "write" /\ RecFits(p) /\ pair[p] \in Pairs
      /\ ~inserted[p] /\ result[p] = None /\ answer[p].status = "none"
      /\ pc[p] \notin {"publish"} \cup Recording
      /\ "recover" \in Labels \ {"new", "done", "publish"}
  <2>1. TypeOK /\ OthersKept(p) /\ pc[p] = "write"
    BY HandlerOthers DEF SetInvariant, Step, Write
  <2> QED
    BY <2>1 DEF Write, RecFits, TypeOK, SetInvariant, HandsMatchPlace, Recording, Labels, Working
<1>1. CASE /\ rows[pair[p]] = None
           /\ rows' = [rows EXCEPT ![pair[p]] = p]
           /\ inserted' = [inserted EXCEPT ![p] = TRUE]
           /\ Goto(p, "publish")
  <2>1. /\ pc'[p] = "publish" /\ inserted'[p] /\ UNCHANGED <<result, answer>>
    BY <1>0, <1>1 DEF Goto, TypeOK, StoreTypeOK
  <2>2. HandFits(p)'
    BY <1>0, <2>1 DEF HandFits
  <2>3. SetInvariant'
    BY <1>0, <2>1, <2>2, SetInvariantStep
  <2>4. effect[p] = "none" /\ effect'[p] = "made"
    BY <1>0, <2>1 DEF effect
  <2>5. Set!Take(p, "made")
    BY <1>0, <2>4, TakeStep
  <2>6. ~present[pair[p]] /\ present' = [present EXCEPT ![pair[p]] = TRUE]
    <3>1. \A r \in Pairs \ {pair[p]} : rows'[r] = rows[r]
      BY <1>0, <1>1 DEF TypeOK
    <3>2. rows'[pair[p]] # None
      BY <1>0, <1>1 DEF TypeOK, StoreAssumption, RelationshipAssumption
    <3> QED
      BY <1>0, <1>1, <3>1, <3>2 DEF present
  <2> QED
    BY <2>3, <2>5, <2>6 DEF Set!Make
<1>2. CASE Goto(p, "recover") /\ UNCHANGED <<rows, inserted>>
  BY <1>0, <1>2, GotoSteps DEF Write, relationVars
<1>3. CASE Reply(p, "error", None) /\ UNCHANGED <<rows, inserted>>
  BY <1>0, <1>3, QuietReply
<1> QED
  BY <1>1, <1>2, <1>3 DEF Write

LEMMA PublishSteps ==
    ASSUME SetInvariant, TypeOK', NEW p \in Requests, Publish(p)
    PROVE  SetInvariant' /\ (Set!Tell(p) \/ UNCHANGED Set!setVars)
<1>0. /\ TypeOK /\ OthersKept(p) /\ pc[p] = "publish" /\ RecFits(p) /\ pair[p] \in Pairs
      /\ inserted[p] /\ UNCHANGED <<rec, rows, inserted>> /\ answer[p].status = "none"
      /\ result[p] = None
  <2>1. TypeOK /\ OthersKept(p) /\ pc[p] = "publish"
    BY HandlerOthers DEF SetInvariant, Step, Publish
  <2> QED
    BY <2>1 DEF Publish, RecFits, TypeOK, SetInvariant, HandsMatchPlace, relationVars, Recording
<1>1. CASE rows[pair[p]] # None /\ Serve(p, rows[pair[p]])
  <2>1. SetInvariant' /\ answer'[p].status # "deleted" /\ (~Succeeded(p)' => answer'[p].status = "none")
    <3>1. rows[pair[p]] \in Requests
      BY <1>0, <1>1 DEF TypeOK
    <3> QED
      BY <1>0, <1>1, <3>1, ServeFacts
  <2>2. effect' = effect
    <3>1. ASSUME NEW q \in Requests PROVE effect'[q] = effect[q]
      BY <1>0 DEF effect, OthersKept
    <3> QED
      BY <3>1 DEF effect
  <2>3. effect[p] # "none" /\ present' = present
    BY <1>0 DEF effect, present
  <2>4. ~told[p] /\ \A q \in Requests \ {p} : told'[q] = told[q]
    BY <1>0 DEF told, Succeeded, OthersKept
  <2>5. CASE Succeeded(p)'
    <3>1. told'[p]
      BY <2>5 DEF told
    <3>2. told' = [told EXCEPT ![p] = TRUE]
      BY <2>4, <3>1 DEF told
    <3> QED
      BY <1>0, <2>1, <2>2, <2>3, <2>4, <3>2 DEF Set!Tell, OthersKept
  <2>6. CASE ~Succeeded(p)'
    <3>1. ASSUME NEW q \in Requests PROVE told'[q] = told[q]
      BY <1>0, <2>6 DEF told, Succeeded, OthersKept
    <3>2. told' = told
      BY <3>1 DEF told
    <3> QED
      BY <1>0, <2>1, <2>2, <2>3, <3>2 DEF Set!setVars, OthersKept
  <2> QED
    BY <2>1, <2>5, <2>6
<1>2. CASE Reply(p, "error", None)
  BY <1>0, <1>2, QuietReply
<1> QED
  BY <1>1, <1>2 DEF Publish

(* What arrives has no effect yet. *)
LEMMA ArriveSteps ==
    ASSUME SetInvariant, TypeOK', NEW p \in Requests, Create(p) \/ FollowSelf(p) \/ Delete(p)
    PROVE  SetInvariant' /\ Set!Ask(p)
<1>0. TypeOK
  BY DEF SetInvariant
<1>1. /\ pc[p] = "new" /\ pair[p] = None /\ key[p] = None /\ answer[p].status = "none"
      /\ pc'[p] # "new" /\ pc'[p] \in {"begin", "execute", "done"}
      /\ pc'[p] # "done" => answer'[p].status = "none"
      /\ answer'[p].status \in {"none", "conflict"}
      /\ \A q \in Requests \ {p} : pc'[q] = pc[q] /\ answer'[q] = answer[q] /\ key'[q] = key[q]
      /\ UNCHANGED <<rec, rows, result, inserted>>
  BY <1>0 DEF Create, FollowSelf, Delete, Arrive, TypeOK, StoreTypeOK, SetInvariant, HandsMatchPlace
<1>2. PICK r \in Pairs : pair' = [pair EXCEPT ![p] = r]
  BY DEF Create, FollowSelf, Delete, Pairs
<1>3. \A q \in Requests \ {p} : pair'[q] = pair[q]
  BY <1>0, <1>2 DEF TypeOK
<1>4. key' = key \/ \E k \in Keys : key' = [key EXCEPT ![p] = k]
  BY DEF Create, FollowSelf, Delete, Arrive
<1>5. \E k \in Keys \cup {None} : key' = [key EXCEPT ![p] = k]
  <2>1. key = [key EXCEPT ![p] = None]
    BY <1>0, <1>1 DEF TypeOK, StoreTypeOK
  <2> QED
    BY <1>4, <2>1
<1>6. effect' = effect
  <2>1. ASSUME NEW q \in Requests PROVE effect'[q] = effect[q]
    BY <1>1 DEF effect
  <2> QED
    BY <2>1 DEF effect
<1>7. told' = told
  <2>1. ASSUME NEW q \in Requests PROVE told'[q] = told[q]
    BY <1>1 DEF told, Succeeded
  <2> QED
    BY <2>1 DEF told
<1>8. present' = present
  BY <1>1 DEF present
<1>9. HandsMatchPlace'
  <2>1. ASSUME NEW q \in Requests PROVE HandFits(q)' \/ (pc'[q] = "new" /\ q # p)
    BY <1>1, <2>1 DEF HandFits, SetInvariant, HandsMatchPlace, Recording
  <2>2. ASSUME NEW q \in Requests, pc'[q] = "new"
        PROVE  /\ pair'[q] = None /\ answer'[q].status = "none" /\ ~inserted'[q]
               /\ result'[q] = None
    BY <1>1, <1>3, <2>2 DEF SetInvariant, HandsMatchPlace, Recording
  <2> QED
    BY <2>1, <2>2 DEF HandFits, HandsMatchPlace
<1>10. RecordsHaveEffect'
  <2> SUFFICES ASSUME NEW k \in Keys, rec[k] # None, rec[k].state = "completed"
               PROVE  \E q \in Requests : key'[q] = k /\ effect[q] # "none"
    BY <1>1, <1>6 DEF RecordsHaveEffect
  <2>1. PICK q \in Requests : key[q] = k /\ effect[q] # "none"
    BY DEF SetInvariant, RecordsHaveEffect
  <2>2. q # p
    BY <1>1, <2>1 DEF StoreAssumption
  <2> QED
    BY <1>1, <2>1, <2>2
<1> QED
  BY <1>1, <1>2, <1>5, <1>6, <1>7, <1>8, <1>9, <1>10 DEF SetInvariant, Set!Ask

LEMMA SetStutter ==
    ASSUME UNCHANGED <<pc, key, result, answer, pair, inserted>>
    PROVE  /\ effect' = effect /\ told' = told
           /\ HandsMatchPlace => HandsMatchPlace'
<1>1. effect' = effect
  BY DEF effect
<1>2. told' = told
  BY DEF told, Succeeded
<1>3. HandsMatchPlace => HandsMatchPlace'
  BY DEF HandsMatchPlace
<1> QED
  BY <1>1, <1>2, <1>3

LEMMA NextSet ==
    ASSUME SetInvariant, [Next]_vars
    PROVE  SetInvariant' /\ [Set!SetNext]_(Set!setVars)
<1>0. TypeOK /\ TypeOK'
  BY NextType DEF SetInvariant
<1>1. CASE UNCHANGED vars \/ ((Tick \/ SeedWorld) /\ UNCHANGED relationVars)
  <2>1. UNCHANGED <<pc, key, result, answer, rec, relationVars>>
    BY <1>1 DEF vars, storeVars, requestVars, Tick, SeedWorld
  <2>2. UNCHANGED <<effect, told>> /\ HandsMatchPlace'
    BY <2>1, SetStutter DEF relationVars, SetInvariant
  <2>3. UNCHANGED present
    BY <2>1 DEF present, relationVars
  <2>4. RecordsHaveEffect'
    BY <2>1, <2>2 DEF RecordsHaveEffect, SetInvariant
  <2> QED
    BY <1>0, <2>1, <2>2, <2>3, <2>4 DEF SetInvariant, Set!setVars, relationVars
<1>2. ASSUME NEW p \in Requests, Step(p)
      PROVE  SetInvariant' /\ (UNCHANGED Set!setVars \/ Set!Make(p) \/ Set!Find(p) \/ Set!Remove(p) \/ Set!Tell(p))
  BY <1>0, <1>2, BeginSteps, RecordSteps, RemoveSteps, FindSteps, WriteSteps, PublishSteps
     DEF Step, StoreStep
<1>3. ASSUME NEW p \in Requests, Abandon(p), UNCHANGED relationVars
      PROVE  SetInvariant' /\ UNCHANGED Set!setVars
  <2>1. OthersKept(p) /\ RecFits(p)
    BY <1>0, <1>3, HandlerOthers DEF Abandon, RecFits
  <2> QED
    BY <1>0, <1>3, <2>1, QuietReply DEF Abandon, relationVars
<1>4. ASSUME NEW p \in Requests, Create(p) \/ FollowSelf(p) \/ Delete(p)
      PROVE  SetInvariant' /\ Set!Ask(p)
  BY <1>0, <1>4, ArriveSteps
<1>5. CASE ClearWorld /\ rows' = [r \in Pairs |-> None] /\ UNCHANGED <<op, pair, inserted>>
  <2>1. UNCHANGED <<pc, key, result, answer, pair, inserted>> /\ \A k \in Keys : rec'[k] = None
    BY <1>5 DEF ClearWorld, requestVars
  <2>2. UNCHANGED <<effect, told>> /\ HandsMatchPlace'
    BY <2>1, SetStutter DEF SetInvariant
  <2>3. RecordsHaveEffect'
    BY <2>1 DEF RecordsHaveEffect
  <2>4. present' = [r \in Pairs |-> FALSE]
    BY <1>5 DEF present
  <2> QED
    BY <1>0, <2>1, <2>2, <2>3, <2>4 DEF SetInvariant, Set!SetNext, Set!Wipe
<1> QED
  BY <1>1, <1>2, <1>3, <1>4, <1>5 DEF Next, Set!SetNext

(* What a handler holds, a record keeps and a client was told goes back to a  *)
(* request that had its effect, however late handlers are and whatever is     *)
(* reset.                                                                    *)
THEOREM SetInvariantHolds == Spec => []SetInvariant
<1>1. Init => SetInvariant
  <2> SUFFICES ASSUME Init PROVE SetInvariant
    OBVIOUS
  <2>1. TypeOK
    BY InitType
  <2> QED
    BY <2>1 DEF Init, StoreInit, SetInvariant, HandsMatchPlace, RecordsHaveEffect
<1>2. SetInvariant /\ [Next]_vars => SetInvariant'
  BY NextSet
<1> QED
  BY <1>1, <1>2, PTL DEF Spec

(* Likes, reposts and follows are a set to which each request is applied at   *)
(* most once and in one step.                                                *)
THEOREM RelationsKeepTheSet == Spec => SetKept
<1>1. Init => Set!SetInit
  <2> SUFFICES ASSUME Init PROVE Set!SetInit
    OBVIOUS
  <2>1. ASSUME NEW p \in Requests PROVE effect[p] = "none" /\ told[p] = FALSE
    BY DEF Init, StoreInit, effect, told, Succeeded
  <2>2. effect = [p \in Requests |-> "none"] /\ told = [p \in Requests |-> FALSE]
    BY <2>1 DEF effect, told
  <2>3. present = [r \in Pairs |-> FALSE]
    BY DEF Init, present
  <2> QED
    BY <2>2, <2>3 DEF Init, StoreInit, Set!SetInit
<1>2. SetInvariant /\ [Next]_vars => [Set!SetNext]_(Set!setVars)
  BY NextSet
<1> QED
  BY <1>1, <1>2, SetInvariantHolds, PTL DEF Spec, SetKept, Set!SetSpec

-----------------------------------------------------------------------------
(* The window invariant *)

(* A step of one handler that leaves the records, the rows and the clock      *)
(* alone.                                                                    *)
Moved(p) ==
    /\ pc' = [pc EXCEPT ![p] = pc'[p]]
    /\ UNCHANGED <<key, now, rec, inserted, worldVars>>

Fits(p) ==
    /\ Running(p)' => Running(p)
    /\ Executing(p)' => Executing(p)
    /\ pc'[p] \notin {"purge", "repurge"}
    /\ pc'[p] \in {"lookup", "insert", "reread"} => ~Expired(rec[key[p]], now[p])

LEMMA MoveStep ==
    ASSUME TypeOK, WindowInvariant, NEW p \in Requests, Moved(p), Fits(p)
    PROVE  WindowInvariant'
<1>0. /\ UNCHANGED <<key, now, rec, inserted, clock, world, resets>>
      /\ \A q \in Requests \ {p} : pc'[q] = pc[q]
  BY DEF Moved, worldVars, TypeOK, StoreTypeOK
<1>1. \A q \in Requests : (Running(q)' => Running(q)) /\ (Executing(q)' => Executing(q))
  BY <1>0 DEF Running, Executing, Fits
<1>2. Timely'
  BY <1>0, <1>1 DEF Timely, WindowInvariant
<1>3. SeenFresh'
  BY <1>0 DEF SeenFresh, WindowInvariant, Fits, Expired
<1>4. Owned'
  BY <1>0, <1>1 DEF Owned, WindowInvariant
<1>5. SingleExecutor' /\ Apart'
  BY <1>0, <1>1 DEF SingleExecutor, Apart, WindowInvariant
<1>6. HeldForWindow'
  BY <1>0 DEF HeldForWindow, WindowInvariant
<1> QED
  BY <1>0, <1>2, <1>3, <1>4, <1>5, <1>6 DEF WindowInvariant

LEMMA GotoMoves ==
    ASSUME TypeOK, NEW p \in Requests, NEW label, Goto(p, label), UNCHANGED <<rec, inserted, worldVars>>
    PROVE  Moved(p) /\ pc'[p] = label
BY DEF TypeOK, StoreTypeOK, Goto, Moved

LEMMA DoneMoves ==
    ASSUME TypeOK, WindowInvariant, NEW p \in Requests, NEW status, NEW r, Reply(p, status, r),
           UNCHANGED <<rec, inserted, worldVars>>
    PROVE  WindowInvariant'
<1>1. Moved(p) /\ pc'[p] = "done"
  BY DEF TypeOK, StoreTypeOK, Reply, Moved
<1>2. Fits(p)
  BY <1>1 DEF Fits, Running, Executing, Working, Recording
<1> QED
  BY <1>1, <1>2, MoveStep

(* A handler that has not executed anything may poll or lose. *)
LEMMA IdleGoto ==
    ASSUME TypeOK, WindowInvariant, NEW p \in Requests, pc[p] \in Beginning \ {"begin", "sleep"},
           NEW label \in {"prune", "lookup", "insert", "reread", "sleep"},
           label \in {"lookup", "insert", "reread"} => ~Expired(rec[key[p]], now[p]),
           pc' = [pc EXCEPT ![p] = label], UNCHANGED <<key, now, rec, inserted, worldVars>>
    PROVE  WindowInvariant'
<1>1. Moved(p) /\ pc'[p] = label
  BY DEF TypeOK, StoreTypeOK, Moved
<1>2. Fits(p)
  BY <1>1 DEF Fits, Running, Executing, Beginning, Working, Recording, Moved
<1> QED
  BY <1>1, <1>2, MoveStep

LEMMA LookupWindow ==
    ASSUME TypeOK, WindowInvariant, NEW p \in Requests, Lookup(p) \/ Reread(p), UNCHANGED inserted
    PROVE  WindowInvariant'
<1> DEFINE row == rec[key[p]]
<1>0. /\ UNCHANGED <<rec, worldVars>> /\ key[p] \in Keys
      /\ pc[p] \in Beginning \ {"begin", "sleep"} /\ ~Expired(row, now[p])
  BY DEF Lookup, Reread, Beginning, WindowInvariant, SeenFresh, TypeOK, StoreTypeOK
<1>1. CASE Goto(p, "insert") \/ Goto(p, "prune")
  BY <1>0, <1>1, IdleGoto DEF Goto
<1>2. CASE row # None /\ Act(p, Decision(row, fp[p]), row)
  <2>1. row \in RowSet
    BY <1>0, <1>2 DEF TypeOK, StoreTypeOK
  <2>2. CASE \E status, r : Reply(p, status, r)
    BY <1>0, <2>2, DoneMoves
  <2>3. CASE NextWait(p)
    BY <1>0, <2>2, <2>3, IdleGoto DEF NextWait
  <2> QED
    BY <1>2, <2>1, <2>2, <2>3, DecisionRange DEF Act
<1> QED
  BY <1>0, <1>1, <1>2 DEF Lookup, Reread

(* A record is inserted only when there is none, so nobody executes under its *)
(* key and all windows of that key are over.                                 *)
LEMMA InsertWindow ==
    ASSUME TypeOK, HandsMatchPlace, WindowInvariant, NEW p \in Requests, Insert(p), UNCHANGED inserted
    PROVE  WindowInvariant'
<1>0. pc[p] = "insert" /\ key[p] \in Keys /\ UNCHANGED worldVars /\ key[p] # None
  BY DEF Insert, TypeOK, StoreTypeOK, Beginning, StoreAssumption
<1>1. CASE Goto(p, "reread") /\ UNCHANGED rec
  <2>1. ~Expired(rec[key[p]], now[p])
    BY <1>0 DEF WindowInvariant, SeenFresh
  <2> QED
    BY <1>0, <1>1, <2>1, IdleGoto DEF Goto, Beginning
<1>2. CASE /\ rec[key[p]] = None
           /\ rec' = [rec EXCEPT ![key[p]] = FreshRow(p)]
           /\ Act(p, "started", None)
  <2>1. /\ \A q \in Requests \ {p} : pc'[q] = pc[q]
        /\ pc'[p] \in {"execute", "sleep", "done"}
        /\ UNCHANGED <<key, now, inserted, clock, world, resets>>
    BY <1>0, <1>2 DEF Act, NextWait, Goto, Reply, TypeOK, StoreTypeOK, worldVars
  <2>2. /\ rec'[key[p]] = FreshRow(p) /\ FreshRow(p).expires = now[p] + TTL
        /\ FreshRow(p) # None
        /\ \A k \in Keys \ {key[p]} : rec'[k] = rec[k]
    <3>1. FreshRow(p) \in RowSet
      <4>1. fp[p] \in Fingerprints /\ now[p] + TTL \in Nat
        BY <1>0 DEF TypeOK, StoreTypeOK, StoreAssumption
      <4> QED
        BY <4>1 DEF FreshRow, RowSet
    <3> QED
      BY <1>0, <1>2, <3>1, NoneIsNoRow DEF FreshRow, TypeOK, StoreTypeOK
  <2>3. \A q \in Requests : Executing(q) => key[q] \in Keys \ {key[p]} /\ q # p
    BY <1>0, <1>2 DEF WindowInvariant, Owned, Executing, TypeOK, StoreTypeOK, Working, Recording
  <2>4. \A q \in Requests : Executing(q)' => Executing(q) \/ (q = p /\ pc'[p] = "execute")
    BY <2>1 DEF Executing, Working, Recording
  <2>5. Running(p) /\ \A q \in Requests : Running(q)' => Running(q)
    BY <1>0, <2>1 DEF Running
  <2>6. \A q \in Requests : now[q] \in Nat /\ clock \in Nat /\ TTL \in Nat
    BY DEF TypeOK, StoreTypeOK, StoreAssumption
  <2>7. Timely'
    BY <2>1, <2>5 DEF Timely, WindowInvariant
  <2>8. SeenFresh'
    <3> SUFFICES ASSUME NEW q \in Requests
                 PROVE  /\ pc'[q] \notin {"purge", "repurge"}
                        /\ pc'[q] \in {"lookup", "insert", "reread"} => ~Expired(rec'[key[q]], now[q])
      BY <2>1 DEF SeenFresh, Expired
    <3>1. CASE q = p
      BY <2>1, <3>1
    <3>2. CASE q # p /\ pc[q] \in {"lookup", "insert", "reread"} /\ key[q] = key[p]
      <4>1. now[q] <= clock /\ clock < now[p] + TTL
        BY <1>0, <2>5, <3>2 DEF WindowInvariant, Timely, Running
      <4> QED
        BY <2>1, <2>2, <2>6, <3>2, <4>1 DEF Expired
    <3>3. CASE q # p /\ (pc[q] \in {"lookup", "insert", "reread"} => key[q] # key[p])
      <4>1. pc[q] \in {"lookup", "insert", "reread"} => key[q] \in Keys
        BY DEF TypeOK, StoreTypeOK, Beginning
      <4> QED
        BY <2>1, <2>2, <3>3, <4>1 DEF WindowInvariant, SeenFresh
    <3> QED
      BY <3>1, <3>2, <3>3
  <2>9. Owned'
    BY <2>1, <2>2, <2>3, <2>4 DEF Owned, WindowInvariant
  <2>10. SingleExecutor'
    BY <2>1, <2>3, <2>4 DEF SingleExecutor, WindowInvariant
  <2>11. HeldForWindow'
    <3> SUFFICES ASSUME NEW q \in Requests, inserted[q], key[q] # None, clock < now[q] + TTL
                 PROVE  rec'[key[q]] # None /\ rec'[key[q]].expires = now[q] + TTL
      BY <2>1 DEF HeldForWindow
    <3>1. rec[key[q]] # None /\ rec[key[q]].expires = now[q] + TTL /\ key[q] \in Keys
      BY DEF WindowInvariant, HeldForWindow, TypeOK, StoreTypeOK
    <3> QED
      BY <1>2, <2>2, <3>1
  <2>12. Apart'
    <3> SUFFICES ASSUME NEW a \in Requests, NEW b \in Requests, a # b, Executing(a)',
                        key[b] = key[a], inserted[b]
                 PROVE  now[b] + TTL <= clock
      BY <2>1 DEF Apart
    <3>1. CASE Executing(a)
      BY <3>1 DEF WindowInvariant, Apart
    <3>2. CASE a = p
      BY <1>0, <1>2, <2>6, <3>2 DEF WindowInvariant, HeldForWindow
    <3> QED
      BY <2>4, <3>1, <3>2
  <2> QED
    BY <2>1, <2>7, <2>8, <2>9, <2>10, <2>11, <2>12 DEF WindowInvariant
<1> QED
  BY <1>1, <1>2 DEF Insert

LEMMA TakeTimeWindow ==
    ASSUME TypeOK, HandsMatchPlace, WindowInvariant, NEW p \in Requests, TakeTime(p), UNCHANGED inserted
    PROVE  WindowInvariant'
<1>0. /\ pc[p] \in {"begin", "sleep"} /\ ~inserted[p]
      /\ pc'[p] \in {"first_prune", "prune"} /\ now'[p] = clock
      /\ \A q \in Requests \ {p} : pc'[q] = pc[q] /\ now'[q] = now[q]
      /\ UNCHANGED <<key, rec, inserted, clock, world>>
  BY DEF TakeTime, TypeOK, StoreTypeOK, worldVars, HandsMatchPlace, Recording
<1>1. \A q \in Requests : Executing(q)' => Executing(q) /\ q # p
  BY <1>0 DEF Executing, Working, Recording
<1>2. clock \in Nat /\ TTL \in Nat \ {0}
  BY DEF TypeOK, StoreTypeOK, StoreAssumption
<1>3. Timely'
  BY <1>0, <1>2 DEF WindowInvariant, Timely, Running
<1>4. SeenFresh'
  BY <1>0 DEF WindowInvariant, SeenFresh, Expired
<1>5. Owned' /\ SingleExecutor'
  BY <1>0, <1>1 DEF WindowInvariant, Owned, SingleExecutor
<1>6. HeldForWindow'
  BY <1>0 DEF WindowInvariant, HeldForWindow
<1>7. Apart'
  BY <1>0, <1>1 DEF WindowInvariant, Apart
<1> QED
  BY <1>0, <1>3, <1>4, <1>5, <1>6, <1>7 DEF WindowInvariant

(* Pruning by a handler that is not late deletes no record that still counts. *)
LEMMA PruneWindow ==
    ASSUME TypeOK, WindowInvariant, NEW p \in Requests, Prune(p), UNCHANGED inserted
    PROVE  WindowInvariant'
<1>0. /\ pc[p] \in {"first_prune", "prune"} /\ key[p] \in Keys /\ key[p] # None
      /\ pc'[p] = "lookup"
      /\ rec' = [k \in Keys |-> IF Expired(rec[k], now[p]) THEN None ELSE rec[k]]
      /\ \A q \in Requests \ {p} : pc'[q] = pc[q]
      /\ UNCHANGED <<key, now, inserted, clock, world>>
  BY DEF Prune, Goto, WindowInvariant, TypeOK, StoreTypeOK, Beginning, worldVars, StoreAssumption
<1>1. now[p] <= clock /\ now[p] \in Nat /\ clock \in Nat
  BY <1>0 DEF WindowInvariant, Timely, Running, TypeOK, StoreTypeOK
<1>2. \A k \in Keys : rec'[k] = rec[k] \/ rec'[k] = None
  BY <1>0
<1>3. \A k \in Keys : rec[k] # None /\ clock < rec[k].expires => rec'[k] = rec[k]
  BY <1>0, <1>1 DEF Expired, TypeOK, StoreTypeOK, RowSet
<1>4. \A q \in Requests : Executing(q)' => Executing(q) /\ q # p
  BY <1>0 DEF Executing, Working, Recording
<1>5. Timely'
  BY <1>0 DEF WindowInvariant, Timely, Running
<1>6. SeenFresh'
  <2>1. ~Expired(rec'[key[p]], now[p])
    BY <1>0 DEF Expired
  <2>2. \A q \in Requests : pc[q] \in {"lookup", "insert", "reread"} => key[q] \in Keys
    BY DEF TypeOK, StoreTypeOK, Beginning
  <2>3. \A q \in Requests : pc[q] \in {"lookup", "insert", "reread"} => ~Expired(rec'[key[q]], now[q])
    BY <1>2, <2>2 DEF WindowInvariant, SeenFresh, Expired
  <2> QED
    BY <1>0, <2>1, <2>3 DEF WindowInvariant, SeenFresh, Expired
<1>7. Owned'
  <2> SUFFICES ASSUME NEW q \in Requests, Executing(q)'
               PROVE  rec'[key[q]] # None /\ rec'[key[q]].expires = now[q] + TTL
    BY <1>0 DEF Owned
  <2>1. /\ Executing(q) /\ rec[key[q]] # None /\ rec[key[q]].expires = now[q] + TTL
        /\ key[q] \in Keys
    BY <1>4 DEF Executing, WindowInvariant, Owned, TypeOK, StoreTypeOK
  <2>2. clock < now[q] + TTL
    BY <2>1 DEF WindowInvariant, Timely, Running, Executing, Working, Recording
  <2> QED
    BY <1>3, <2>1, <2>2
<1>8. SingleExecutor' /\ Apart'
  BY <1>0, <1>4 DEF WindowInvariant, SingleExecutor, Apart
<1>9. HeldForWindow'
  <2> SUFFICES ASSUME NEW q \in Requests, inserted[q], key[q] # None, clock < now[q] + TTL
               PROVE  rec'[key[q]] = rec[key[q]]
    BY <1>0 DEF WindowInvariant, HeldForWindow
  <2> QED
    BY <1>3 DEF WindowInvariant, HeldForWindow, TypeOK, StoreTypeOK
<1> QED
  BY <1>0, <1>5, <1>6, <1>7, <1>8, <1>9 DEF WindowInvariant

(* Recording the success keeps the expiry of the record. *)
LEMMA RecordWindow ==
    ASSUME TypeOK, WindowInvariant, NEW p \in Requests, Fetch(p) \/ Store(p) \/ Confirm(p),
           UNCHANGED inserted
    PROVE  WindowInvariant'
<1>0. /\ pc[p] \in Recording /\ key[p] \in Keys /\ key[p] # None /\ UNCHANGED worldVars
      /\ Executing(p) /\ Running(p) /\ rec[key[p]] # None
  <2>1. pc[p] \in Recording /\ key[p] \in Keys /\ key[p] # None /\ UNCHANGED worldVars
    BY DEF Fetch, Store, Confirm, Recording, TypeOK, StoreTypeOK, StoreAssumption
  <2>2. Executing(p) /\ Running(p)
    BY <2>1 DEF Executing, Running, Recording
  <2> QED
    BY <2>1, <2>2 DEF WindowInvariant, Owned
<1>1. CASE UNCHANGED rec /\ Goto(p, "store")
  <2>1. Moved(p) /\ pc'[p] = "store"
    BY <1>0, <1>1, GotoMoves
  <2>2. Fits(p)
    BY <1>0, <2>1 DEF Fits
  <2> QED
    BY <2>1, <2>2, MoveStep
<1>2. CASE UNCHANGED rec /\ \E status, r : Reply(p, status, r)
  BY <1>0, <1>2, DoneMoves
<1>3. CASE Store(p)
  <2>1. /\ rec' = [rec EXCEPT ![key[p]].state = "completed", ![key[p]].response = result[p]]
        /\ pc'[p] = "confirm" /\ \A q \in Requests \ {p} : pc'[q] = pc[q]
        /\ UNCHANGED <<key, now, inserted, clock, world>>
    BY <1>0, <1>3 DEF Store, Goto, worldVars, TypeOK, StoreTypeOK
  <2>2. rec[key[p]] \in RowSet
    BY <1>0 DEF TypeOK, StoreTypeOK
  <2>3. rec'[key[p]] = [rec[key[p]] EXCEPT !.state = "completed", !.response = result[p]]
    BY <1>0, <2>1 DEF TypeOK, StoreTypeOK
  <2>4. rec'[key[p]].expires = rec[key[p]].expires /\ rec'[key[p]] # None
    <3>1. rec'[key[p]] \in RowSet
      BY <1>0, <2>2, <2>3 DEF RowSet, TypeOK, RelationshipAssumption
    <3> QED
      BY <2>2, <2>3, <3>1, NoneIsNoRow DEF RowSet
  <2>5. \A k \in Keys \ {key[p]} : rec'[k] = rec[k]
    BY <1>0, <2>1 DEF TypeOK, StoreTypeOK
  <2>6. \A k \in Keys : rec[k] # None => rec'[k] # None /\ rec'[k].expires = rec[k].expires
    BY <2>4, <2>5
  <2>7. \A q \in Requests : (Executing(q)' => Executing(q)) /\ (Running(q)' => Running(q))
    BY <1>0, <2>1 DEF Executing, Running, Working, Recording
  <2>8. \A q \in Requests : key[q] # None => key[q] \in Keys
    BY DEF TypeOK, StoreTypeOK
  <2>9. Timely' /\ SingleExecutor' /\ Apart'
    BY <2>1, <2>7 DEF WindowInvariant, Timely, SingleExecutor, Apart
  <2>10. Owned' /\ HeldForWindow'
    <3>1. Owned'
      BY <2>1, <2>6, <2>7, <2>8 DEF WindowInvariant, Owned, Executing
    <3>2. HeldForWindow'
      BY <2>1, <2>6, <2>8 DEF WindowInvariant, HeldForWindow
    <3> QED
      BY <3>1, <3>2
  <2>11. SeenFresh'
    <3> SUFFICES ASSUME NEW q \in Requests
                 PROVE  /\ pc'[q] \notin {"purge", "repurge"}
                        /\ pc'[q] \in {"lookup", "insert", "reread"} => ~Expired(rec'[key[q]], now[q])
      BY <2>1 DEF SeenFresh, Expired
    <3>1. CASE q = p
      BY <2>1, <3>1
    <3>2. CASE q # p
      <4>1. /\ pc'[q] = pc[q] /\ pc[q] \notin {"purge", "repurge"}
            /\ pc[q] \in {"lookup", "insert", "reread"} => key[q] \in Keys /\ ~Expired(rec[key[q]], now[q])
        BY <2>1, <3>2 DEF WindowInvariant, SeenFresh, TypeOK, StoreTypeOK, Beginning
      <4>2. \A k \in Keys : ~Expired(rec[k], now[q]) => ~Expired(rec'[k], now[q])
        BY <1>0, <2>4, <2>5 DEF Expired
      <4> QED
        BY <4>1, <4>2
    <3> QED
      BY <3>1, <3>2
  <2> QED
    BY <2>1, <2>9, <2>10, <2>11 DEF WindowInvariant
<1> QED
  BY <1>0, <1>1, <1>2, <1>3 DEF Fetch, Confirm

(* The first insert under a key starts its window; by Apart there is no other *)
(* under way.                                                               *)
LEMMA WorkWindow ==
    ASSUME TypeOK, WindowInvariant, NEW p \in Requests,
           Remove(p) \/ Find(p) \/ Write(p) \/ Recover(p) \/ Publish(p)
    PROVE  WindowInvariant'
<1>0. pc[p] \in Working /\ UNCHANGED <<rec, worldVars>>
  BY DEF Remove, Find, Write, Recover, Publish, Working
<1>1. ASSUME NEW label \in {"write", "recover", "publish", "fetch"}, UNCHANGED inserted,
             pc' = [pc EXCEPT ![p] = label], UNCHANGED <<key, now>>
      PROVE  WindowInvariant'
  <2>1. Moved(p) /\ pc'[p] = label
    BY <1>0, <1>1 DEF Moved, TypeOK, StoreTypeOK
  <2>2. Fits(p)
    BY <1>0, <1>1, <2>1 DEF Fits, Executing, Running, Working, Recording
  <2> QED
    BY <2>1, <2>2, MoveStep
<1>2. CASE UNCHANGED inserted /\ \E status, r : Reply(p, status, r)
  BY <1>0, <1>2, DoneMoves
<1>3. CASE UNCHANGED inserted /\ \E q : Serve(p, q)
  <2>1. PICK q : Serve(p, q)
    BY <1>3
  <2>2. CASE pc' = [pc EXCEPT ![p] = "fetch"]
    BY <1>1, <1>3, <2>1, <2>2 DEF Serve
  <2>3. CASE pc' = [pc EXCEPT ![p] = "done"] /\ key[p] = None
    <3>1. Moved(p) /\ pc'[p] = "done"
      BY <1>0, <1>3, <2>1, <2>3 DEF Serve, Moved, TypeOK, StoreTypeOK
    <3>2. Fits(p)
      BY <3>1 DEF Fits, Running, Executing, Working, Recording
    <3> QED
      BY <3>1, <3>2, MoveStep
  <2> QED
    BY <2>1, <2>2, <2>3 DEF Serve
<1>4. CASE /\ inserted' = [inserted EXCEPT ![p] = TRUE]
           /\ pc[p] = "write" /\ Goto(p, "publish")
  <2>1. /\ pc'[p] = "publish" /\ inserted'[p]
        /\ \A q \in Requests \ {p} : pc'[q] = pc[q] /\ inserted'[q] = inserted[q]
        /\ UNCHANGED <<key, now, rec, clock, world>>
    BY <1>0, <1>4 DEF Goto, TypeOK, StoreTypeOK, worldVars
  <2>2. \A q \in Requests : (Executing(q)' <=> Executing(q)) /\ (Running(q)' <=> Running(q))
    BY <1>4, <2>1 DEF Executing, Running, Working
  <2>3. Timely' /\ SeenFresh' /\ Owned' /\ SingleExecutor'
    BY <2>1, <2>2 DEF WindowInvariant, Timely, SeenFresh, Expired, Owned, SingleExecutor
  <2>4. HeldForWindow'
    <3>1. key[p] # None => rec[key[p]] # None /\ rec[key[p]].expires = now[p] + TTL
      BY <1>0 DEF WindowInvariant, Owned, Executing
    <3> QED
      BY <2>1, <3>1 DEF WindowInvariant, HeldForWindow
  <2>5. Apart'
    <3>1. Executing(p) \/ key[p] = None
      BY <1>0 DEF Executing
    <3>2. \A a \in Requests \ {p} : Executing(a) => key[a] # key[p]
      BY <3>1 DEF WindowInvariant, SingleExecutor, Executing
    <3> QED
      BY <2>1, <2>2, <3>2 DEF WindowInvariant, Apart
  <2> QED
    BY <2>1, <2>3, <2>4, <2>5 DEF WindowInvariant
<1> QED
  BY <1>1, <1>2, <1>3, <1>4 DEF Remove, Find, Write, Recover, Publish, Goto, relationVars

LEMMA ArriveWindow ==
    ASSUME TypeOK, HandsMatchPlace, WindowInvariant, NEW p \in Requests,
           Create(p) \/ FollowSelf(p) \/ Delete(p)
    PROVE  WindowInvariant'
<1>0. /\ ~inserted[p] /\ UNCHANGED <<now, rec, inserted, clock, world>>
      /\ pc'[p] = "begin" \/ (pc'[p] \in {"execute", "done"} /\ key'[p] = None)
      /\ \A q \in Requests \ {p} : pc'[q] = pc[q] /\ key'[q] = key[q]
  BY DEF Create, FollowSelf, Delete, Arrive, TypeOK, StoreTypeOK, HandsMatchPlace, worldVars, Recording
<1>1. \A q \in Requests : (Executing(q)' => Executing(q) /\ q # p) /\ (Running(q)' => Running(q) /\ q # p)
  BY <1>0 DEF Executing, Running, Working, Recording
<1>2. Timely' /\ SeenFresh'
  BY <1>0, <1>1 DEF WindowInvariant, Timely, SeenFresh, Expired
<1>3. Owned' /\ SingleExecutor' /\ HeldForWindow' /\ Apart'
  BY <1>0, <1>1 DEF WindowInvariant, Owned, SingleExecutor, HeldForWindow, Apart
<1> QED
  BY <1>0, <1>2, <1>3 DEF WindowInvariant

LEMMA TickWindow ==
    ASSUME TypeOK, WindowInvariant, Prompt, Tick, UNCHANGED relationVars
    PROVE  WindowInvariant'
<1>0. /\ clock' = clock + 1 /\ clock \in Nat
      /\ \A q \in Requests : Running(q) => clock' < now[q] + TTL
      /\ UNCHANGED <<pc, key, now, rec, world, inserted>>
  BY DEF Tick, requestVars, relationVars, TypeOK, StoreTypeOK
<1>1. \A q \in Requests : now[q] \in Nat /\ now[q] + TTL \in Nat
  BY DEF TypeOK, StoreTypeOK, StoreAssumption
<1>2. Timely' /\ SeenFresh'
  BY <1>0, <1>1 DEF WindowInvariant, Timely, Running, SeenFresh, Expired
<1>3. Owned' /\ SingleExecutor'
  BY <1>0 DEF WindowInvariant, Owned, SingleExecutor, Executing
<1>4. HeldForWindow' /\ Apart'
  BY <1>0, <1>1 DEF WindowInvariant, HeldForWindow, Apart, Executing
<1> QED
  BY <1>0, <1>2, <1>3, <1>4 DEF WindowInvariant

LEMMA NextOnce ==
    ASSUME Prompt, OnceInvariant, SetInvariant, [Next]_vars
    PROVE  OnceInvariant'
<1>0. TypeOK /\ HandsMatchPlace /\ TypeOK' /\ HandsMatchPlace'
  BY NextSet DEF SetInvariant
<1> SUFFICES ASSUME resets' = 0 PROVE WindowInvariant'
  BY <1>0 DEF OnceInvariant
<1>1. resets \in Nat /\ ~ClearWorld
  BY <1>0 DEF TypeOK, StoreTypeOK, ClearWorld, StoreAssumption
<1>2. CASE UNCHANGED vars
  BY <1>2 DEF vars, storeVars, worldVars, requestVars, relationVars, OnceInvariant, WindowInvariant,
     Timely, Running, SeenFresh, Expired, Owned, SingleExecutor, Executing, HeldForWindow, Apart
<1>3. ASSUME NEW p \in Requests, Step(p) PROVE WindowInvariant'
  <2>1. WindowInvariant
    BY <1>0, <1>3, TypeParts, HandlerKeeps DEF worldVars, OnceInvariant
  <2>2. ~Purge(p)
    BY <2>1 DEF Purge, WindowInvariant, SeenFresh
  <2> QED
    BY <1>0, <1>3, <2>1, <2>2, TakeTimeWindow, PruneWindow, LookupWindow, InsertWindow, RecordWindow,
       WorkWindow DEF Step, StoreStep, relationVars
<1>4. ASSUME NEW p \in Requests, Abandon(p), UNCHANGED relationVars PROVE WindowInvariant'
  BY <1>0, <1>4, DoneMoves DEF Abandon, worldVars, relationVars, OnceInvariant
<1>5. ASSUME NEW p \in Requests, Create(p) \/ FollowSelf(p) \/ Delete(p) PROVE WindowInvariant'
  BY <1>0, <1>5, ArriveWindow DEF Create, FollowSelf, Delete, Arrive, worldVars, OnceInvariant
<1>6. CASE Tick /\ UNCHANGED relationVars
  BY <1>0, <1>6, TickWindow DEF Tick, OnceInvariant
<1>7. ~SeedWorld
  BY DEF SeedWorld, OnceInvariant, WindowInvariant
<1> QED
  BY <1>1, <1>2, <1>3, <1>4, <1>5, <1>6, <1>7 DEF Next

(* As long as handlers are prompt, and until the first reset, whoever runs a  *)
(* create has its record in the table and runs after the windows of the       *)
(* creates before it.                                                        *)
THEOREM OnceInvariantHolds ==
    ASSUME Prompt
    PROVE  Spec => []OnceInvariant
<1>1. Init => OnceInvariant
  <2> SUFFICES ASSUME Init PROVE OnceInvariant
    OBVIOUS
  <2>1. /\ TypeOK /\ world = "seeded"
        /\ \A p \in Requests : /\ pc[p] = "new" /\ key[p] = None /\ ~inserted[p]
                               /\ pair[p] = None /\ result[p] = None /\ answer[p].status = "none"
    BY InitType DEF Init, StoreInit
  <2> QED
    BY <2>1 DEF OnceInvariant, HandsMatchPlace, WindowInvariant, Timely, Running, SeenFresh,
       Owned, Executing, SingleExecutor, HeldForWindow, Apart
<1>2. OnceInvariant /\ SetInvariant /\ [Next]_vars => OnceInvariant'
  BY NextOnce
<1> QED
  BY <1>1, <1>2, SetInvariantHolds, PTL DEF Spec

(* Two requests with one key insert the row only in disjoint windows, so a    *)
(* retry never brings back what was deleted since.                           *)
THEOREM InsertsAreOncePerWindow ==
    ASSUME Prompt
    PROVE  Spec => OneInsertPerWindow
<1> DEFINE Once == resets = 0 => \A p, q \in Requests :
                     /\ p # q /\ key[p] # None /\ key[p] = key[q]
                     /\ inserted[q] /\ ~inserted[p] /\ inserted'[p]
                     => now[q] + TTL <= clock
<1>1. OnceInvariant /\ [Next]_vars => [Once]_vars
  <2> SUFFICES ASSUME OnceInvariant, Next, resets = 0, NEW p \in Requests, NEW q \in Requests,
                      p # q, key[p] # None, key[p] = key[q], inserted[q], ~inserted[p], inserted'[p]
               PROVE  now[q] + TTL <= clock
    OBVIOUS
  <2>1. Write(p)
    BY DEF Next, Step, Create, FollowSelf, Delete, Remove, Find, Write, Recover, Publish, relationVars,
       OnceInvariant, TypeOK
  <2>2. Executing(p)
    BY <2>1 DEF Write, Executing, Working
  <2> QED
    BY <2>2 DEF OnceInvariant, WindowInvariant, Apart
<1> QED
  BY <1>1, OnceInvariantHolds, PTL DEF Spec, OneInsertPerWindow
=============================================================================
