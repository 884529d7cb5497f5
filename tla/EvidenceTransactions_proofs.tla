---------------------- MODULE EvidenceTransactions_proofs ----------------------
(***************************************************************************)
(* Proofs about EvidenceTransactions, for any requests and fixtures.         *)
(***************************************************************************)
EXTENDS EvidenceTransactions, TLAPS

(* What a reset is about to wipe leaves no child without its run. *)
WipeIsClean ==
    \A p \in Resets : \A x \in evidence : x \in gone[p].rows \/ x.run \notin gone[p].runs

(* The run under which a row is about to be committed is there and stays. *)
ParentIsLocked ==
    \A w \in Writers : pc[w] = "commit" /\ asked[w].kind \in Kinds =>
        run[w] \in runs /\ \A p \in Resets : run[w] \notin gone[p].runs

(* A reset that seeds has nothing pending. *)
SeedIsAlone == \A p \in Resets : pc[p] = "seed" => gone[p] = Nothing

(* The inductive invariant of TypeOK. *)
EvidenceInvariant == TypeOK /\ WipeIsClean /\ ParentIsLocked /\ SeedIsAlone

LEMMA FixtureRowsType == FixtureRows \subseteq {x \in Row : x.run \in FixtureRuns}
  BY EvidenceAssumption DEF EvidenceAssumption, FixtureRows, Row, Items, Runs

LEMMA NothingType == Nothing \in [rows : SUBSET Row, runs : SUBSET Runs, token : BOOLEAN]
  BY DEF Nothing

LEMMA NoneApart == None \notin Runs
  BY EvidenceAssumption DEF EvidenceAssumption, Runs, Requests

LEMMA InitInvariant == Init => EvidenceInvariant
  BY FixtureRowsType, NothingType DEF Init, EvidenceInvariant, TypeOK, WipeIsClean,
     ParentIsLocked, SeedIsAlone, Nothing, Labels, Runs, Requests

(* The label of p alone changes. *)
LEMMA GotoType ==
    ASSUME TypeOK, NEW p \in Requests, NEW label \in Labels, Goto(p, label)
    PROVE  /\ pc' \in [Requests -> Labels]
           /\ pc'[p] = label
           /\ \A q \in Requests \ {p} : pc'[q] = pc[q]
  BY DEF TypeOK, Goto, Labels

(* Each step writes the history. *)
LEMMA HistoryType ==
    ASSUME TypeOK, NEW p \in Requests, History(p)
    PROVE  /\ before' \in [Readers \cup Resets -> SUBSET Writers]
           /\ crossed' \in [Readers -> BOOLEAN]
           /\ asked' = asked
  BY DEF TypeOK, History, Requests

-----------------------------------------------------------------------------
(* Steps that neither write the database nor delete: the label they go to is   *)
(* neither that of a commit nor that of the seed.                            *)
LEMMA QuietKeeps ==
    ASSUME EvidenceInvariant, NEW p \in Requests, NEW label \in Labels \ {"commit", "seed"},
           Goto(p, label), History(p), UNCHANGED database, gone' = gone,
           \A q \in Writers \ {p} : run'[q] = run[q],
           run' \in [Requests -> Runs \cup {None}],
           kind' \in [Readers -> Kinds \cup {None}],
           todo' \in [Readers -> SUBSET Runs],
           shown' \in [Readers -> SUBSET Row],
           target' \in [Resets -> SUBSET Runs]
    PROVE  EvidenceInvariant'
  <1> USE DEF EvidenceInvariant
  <1>1. /\ pc' \in [Requests -> Labels] /\ pc'[p] = label
        /\ \A q \in Requests \ {p} : pc'[q] = pc[q]
    BY GotoType
  <1>2. /\ before' \in [Readers \cup Resets -> SUBSET Writers]
        /\ crossed' \in [Readers -> BOOLEAN]
        /\ asked' = asked
    BY HistoryType
  <1>3. TypeOK'
    BY <1>1, <1>2 DEF TypeOK, database
  <1>4. WipeIsClean'
    BY DEF WipeIsClean, database
  <1>5. ParentIsLocked'
    <2>1. \A w \in Writers : pc'[w] = "commit" => w # p /\ pc[w] = "commit"
      BY <1>1 DEF Requests
    <2> QED
      BY <2>1, <1>2 DEF ParentIsLocked, database
  <1>6. SeedIsAlone'
    BY <1>1 DEF SeedIsAlone, Requests
  <1> QED
    BY <1>3, <1>4, <1>5, <1>6

LEMMA ArriveKeeps ==
    ASSUME EvidenceInvariant, NEW p \in Requests, NEW next \in {"token", "find", "select", "events"},
           Arrive(p, next), History(p)
    PROVE  EvidenceInvariant'
  <1> DEFINE label == IF token THEN next ELSE "unauthorized"
  <1>1. label \in Labels \ {"commit", "seed"} /\ Goto(p, label)
    BY DEF Arrive, Labels, Ended
  <1> HIDE DEF label
  <1> QED
    BY <1>1, QuietKeeps DEF Arrive, locals, EvidenceInvariant, TypeOK

LEMMA NamedType == ASSUME TypeOK, NEW name PROVE Named(name) \subseteq Runs
  BY DEF TypeOK, Named

LEMMA FindRunKeeps ==
    ASSUME EvidenceInvariant, NEW w \in Writers, FindRun(w), History(w)
    PROVE  EvidenceInvariant'
  <1>1. w \in Requests
    BY DEF Requests
  <1>2. PICK label \in {"token", "not_found"} : Goto(w, label)
    BY DEF FindRun
  <1>3. label \in Labels \ {"commit", "seed"}
    BY DEF Labels, Ended
  <1>4. run' \in [Requests -> Runs \cup {None}] /\ \A q \in Writers \ {w} : run'[q] = run[q]
    BY NamedType DEF FindRun, EvidenceInvariant, TypeOK, Requests
  <1> QED
    BY <1>1, <1>2, <1>3, <1>4, QuietKeeps DEF FindRun, EvidenceInvariant, TypeOK

LEMMA ReadKeeps ==
    ASSUME EvidenceInvariant, NEW p \in Readers,
           SelectRuns(p) \/ NextRun(p) \/ SelectRows(p), History(p)
    PROVE  EvidenceInvariant'
  <1>1. p \in Requests /\ p \notin Writers
    BY EvidenceAssumption DEF EvidenceAssumption, Requests
  <1>2. CASE SelectRuns(p)
    <2>1. PICK label \in {"next", "not_found"} : Goto(p, label)
      BY <1>2 DEF SelectRuns
    <2>2. label \in Labels \ {"commit", "seed"}
      BY DEF Labels, Ended
    <2>3. Scope(p) \subseteq Runs
      BY NamedType DEF Scope, EvidenceInvariant, TypeOK
    <2>4. todo' \in [Readers -> SUBSET Runs]
      BY <1>2, <2>3 DEF SelectRuns, EvidenceInvariant, TypeOK
    <2> QED
      BY <1>1, <1>2, <2>1, <2>2, <2>4, QuietKeeps DEF SelectRuns, EvidenceInvariant, TypeOK
  <1>3. CASE NextRun(p)
    <2>1. PICK label \in {"read", "rows"} : Goto(p, label)
      BY <1>3 DEF NextRun
    <2>2. label \in Labels \ {"commit", "seed"}
      BY DEF Labels, Ended
    <2>3. /\ run' \in [Requests -> Runs \cup {None}]
          /\ \A q \in Writers \ {p} : run'[q] = run[q]
          /\ kind' \in [Readers -> Kinds \cup {None}]
          /\ todo' \in [Readers -> SUBSET Runs]
      BY <1>1, <1>3 DEF NextRun, EvidenceInvariant, TypeOK, FirstKind, Kinds, Requests
    <2> QED
      BY <1>1, <1>3, <2>1, <2>2, <2>3, QuietKeeps DEF NextRun, EvidenceInvariant, TypeOK
  <1>4. CASE SelectRows(p)
    <2>1. PICK label \in {"rows", "next"} : Goto(p, label)
      BY <1>4 DEF SelectRows, Goto, EvidenceInvariant, TypeOK, Requests
    <2>2. label \in Labels \ {"commit", "seed"}
      BY DEF Labels, Ended
    <2>3. /\ kind' \in [Readers -> Kinds \cup {None}]
          /\ shown' \in [Readers -> SUBSET Row]
      BY <1>4 DEF SelectRows, EvidenceInvariant, TypeOK, Kinds
    <2> QED
      BY <1>1, <1>4, <2>1, <2>2, <2>3, QuietKeeps DEF SelectRows, EvidenceInvariant, TypeOK
  <1> QED
    BY <1>2, <1>3, <1>4

(* A rollback takes back what a reset was about to wipe. *)
LEMMA RollbackKeeps ==
    ASSUME EvidenceInvariant, NEW p \in Requests, NEW label \in {"failed", "dead"},
           Goto(p, label), Rollback(p), History(p)
    PROVE  EvidenceInvariant'
  <1> USE DEF EvidenceInvariant
  <1>1. label \in Labels
    BY DEF Labels, Ended
  <1>2. /\ pc' \in [Requests -> Labels] /\ pc'[p] = label
        /\ \A q \in Requests \ {p} : pc'[q] = pc[q]
    BY <1>1, GotoType
  <1>3. /\ before' \in [Readers \cup Resets -> SUBSET Writers]
        /\ crossed' \in [Readers -> BOOLEAN]
        /\ asked' = asked
    BY HistoryType
  <1>4. /\ gone' \in [Resets -> [rows : SUBSET Row, runs : SUBSET Runs, token : BOOLEAN]]
        /\ target' \in [Resets -> SUBSET Runs]
        /\ \A q \in Resets : gone'[q] = gone[q] \/ gone'[q] = Nothing
    BY NothingType DEF Rollback, TypeOK
  <1>5. TypeOK'
    BY <1>2, <1>3, <1>4 DEF TypeOK, Rollback, database
  <1>6. WipeIsClean' /\ ParentIsLocked' /\ SeedIsAlone'
    <2>1. \A q \in Requests : pc'[q] \in {"commit", "seed"} => q # p /\ pc[q] = pc'[q]
      BY <1>2
    <2>2. WipeIsClean'
      BY <1>4 DEF WipeIsClean, Rollback, database, Nothing
    <2>3. ParentIsLocked'
      BY <2>1, <1>3, <1>4 DEF ParentIsLocked, Rollback, database, Nothing, Requests
    <2>4. SeedIsAlone'
      BY <2>1, <1>4 DEF SeedIsAlone, Requests
    <2> QED
      BY <2>2, <2>3, <2>4
  <1> QED
    BY <1>5, <1>6

-----------------------------------------------------------------------------
(* The writers *)

LEMMA ResetsApart == \A p \in Resets : p \in Requests /\ p \notin Writers /\ p \notin Readers
  BY EvidenceAssumption DEF EvidenceAssumption, Requests

LEMMA WriteTokenKeeps ==
    ASSUME EvidenceInvariant, NEW w \in Writers, WriteToken(w), History(w)
    PROVE  EvidenceInvariant'
  <1>1. w \in Requests /\ "row" \in Labels \ {"commit", "seed"}
    BY DEF Requests, Labels, Ended
  <1>2. CASE Goto(w, "row") /\ UNCHANGED <<database, locals>>
    BY <1>1, <1>2, QuietKeeps DEF locals, EvidenceInvariant, TypeOK
  <1>3. CASE Fail(w)
    BY <1>1, <1>3, RollbackKeeps DEF Fail
  <1> QED
    BY <1>2, <1>3 DEF WriteToken

(* The lock on the parent is taken when no reset has deleted it. *)
LEMMA InsertRowKeeps ==
    ASSUME EvidenceInvariant, NEW w \in Writers, InsertRow(w), History(w)
    PROVE  EvidenceInvariant'
  <1> USE DEF EvidenceInvariant
  <1>1. w \in Requests /\ "commit" \in Labels
    BY DEF Requests, Labels, Ended
  <1>2. CASE Fail(w)
    BY <1>1, <1>2, RollbackKeeps DEF Fail
  <1>3. CASE /\ asked[w].kind = "run" \/ run[w] \in runs
             /\ Goto(w, "commit") /\ UNCHANGED <<database, locals>>
    <2>1. /\ pc' \in [Requests -> Labels] /\ pc'[w] = "commit"
          /\ \A q \in Requests \ {w} : pc'[q] = pc[q]
      BY <1>1, <1>3, GotoType
    <2>2. /\ before' \in [Readers \cup Resets -> SUBSET Writers]
          /\ crossed' \in [Readers -> BOOLEAN]
          /\ asked' = asked
      BY <1>1, HistoryType
    <2>3. TypeOK'
      BY <1>3, <2>1, <2>2 DEF TypeOK, database, locals
    <2>4. WipeIsClean'
      BY <1>3 DEF WipeIsClean, database, locals
    <2>5. SeedIsAlone'
      BY <1>3, <2>1, ResetsApart DEF SeedIsAlone, locals
    <2>6. ParentIsLocked'
      <3>1. \A q \in Resets : run[w] \notin gone[q].runs
        <4>1. pc[w] = "row" /\ Waits(w) = {}
          BY DEF InsertRow
        <4>2. w \notin Resets
          BY ResetsApart
        <4>3. Waits(w) = WaitsForRun(w)
          BY <4>1, <4>2 DEF Waits
        <4> QED
          BY <4>1, <4>3 DEF WaitsForRun
      <3>2. asked[w].kind \in Kinds => run[w] \in runs
        BY <1>3 DEF Kinds
      <3> QED
        BY <1>3, <2>1, <2>2, <3>1, <3>2 DEF ParentIsLocked, database, locals, Requests
    <2> QED
      BY <2>3, <2>4, <2>5, <2>6
  <1> QED
    BY <1>2, <1>3 DEF InsertRow

LEMMA CommitKeeps ==
    ASSUME EvidenceInvariant, NEW w \in Writers, Commit(w), History(w)
    PROVE  EvidenceInvariant'
  <1> USE DEF EvidenceInvariant
  <1>1. w \in Requests /\ "refresh" \in Labels
    BY DEF Requests, Labels, Ended
  <1>2. /\ pc' \in [Requests -> Labels] /\ pc'[w] = "refresh"
        /\ \A q \in Requests \ {w} : pc'[q] = pc[q]
    BY <1>1, GotoType DEF Commit
  <1>3. /\ before' \in [Readers \cup Resets -> SUBSET Writers]
        /\ crossed' \in [Readers -> BOOLEAN]
        /\ asked' = asked
    BY <1>1, HistoryType
  <1>4. /\ asked[w].kind = "run" => runs' = runs \cup {w} /\ evidence' = evidence
        /\ asked[w].kind # "run" => runs' = runs /\ evidence' = evidence \cup {NewRow(w)}
        /\ gone' = gone /\ run' = run /\ token' = token
    BY DEF Commit, locals
  <1>5. asked[w].kind # "run" =>
          /\ NewRow(w) \in Row /\ NewRow(w).run \in runs
          /\ \A p \in Resets : NewRow(w).run \notin gone[p].runs
    <2>1. ASSUME asked[w].kind # "run"
          PROVE  /\ run[w] \in runs /\ asked[w].kind \in Kinds
                 /\ \A p \in Resets : run[w] \notin gone[p].runs
      <3>1. asked[w] \in Creates
        BY DEF TypeOK, Askings
      <3>2. asked[w].kind \in Kinds
        BY <2>1, <3>1, EvidenceAssumption DEF EvidenceAssumption
      <3> QED
        BY <3>2 DEF ParentIsLocked, Commit
    <2> QED
      BY <2>1 DEF NewRow, Row, Items, TypeOK
  <1>6. TypeOK'
    <2>1. runs' \subseteq Runs /\ runs \subseteq runs'
      BY <1>4 DEF TypeOK, Runs
    <2>2. evidence' \subseteq {x \in Row : x.run \in runs'}
      BY <1>4, <1>5, <2>1 DEF TypeOK
    <2> QED
      BY <1>2, <1>3, <1>4, <2>1, <2>2 DEF TypeOK, Commit, locals
  <1>7. WipeIsClean'
    BY <1>4, <1>5 DEF WipeIsClean
  <1>8. ParentIsLocked'
    BY <1>2, <1>3, <1>4 DEF ParentIsLocked, Requests
  <1>9. SeedIsAlone'
    BY <1>2, <1>4, ResetsApart DEF SeedIsAlone
  <1> QED
    BY <1>6, <1>7, <1>8, <1>9

LEMMA RefreshKeeps ==
    ASSUME EvidenceInvariant, NEW w \in Writers, Refresh(w), History(w)
    PROVE  EvidenceInvariant'
  <1>1. w \in Requests
    BY DEF Requests
  <1>2. PICK label \in {"created", "failed"} : Goto(w, label)
    BY DEF Refresh
  <1>3. label \in Labels \ {"commit", "seed"}
    BY DEF Labels, Ended
  <1> QED
    BY <1>1, <1>2, <1>3, QuietKeeps DEF Refresh, locals, EvidenceInvariant, TypeOK

-----------------------------------------------------------------------------
(* The reset *)

(* What a step of the reset p changes in what it is about to wipe. *)
LEMMA PendingKeeps ==
    ASSUME EvidenceInvariant, NEW p \in Resets, NEW label \in Labels \ {"commit", "seed"},
           NEW mine \in [rows : SUBSET Row, runs : SUBSET Runs, token : BOOLEAN],
           Goto(p, label), History(p), gone' = [gone EXCEPT ![p] = mine],
           UNCHANGED <<database, run, kind, todo, shown>>,
           target' \in [Resets -> SUBSET Runs],
           \A x \in evidence : x \in mine.rows \/ x.run \notin mine.runs,
           \A w \in Writers : pc[w] = "commit" /\ asked[w].kind \in Kinds => run[w] \notin mine.runs
    PROVE  EvidenceInvariant'
  <1> USE DEF EvidenceInvariant
  <1>1. /\ pc' \in [Requests -> Labels] /\ pc'[p] = label
        /\ \A q \in Requests \ {p} : pc'[q] = pc[q]
    BY ResetsApart, GotoType
  <1>2. /\ before' \in [Readers \cup Resets -> SUBSET Writers]
        /\ crossed' \in [Readers -> BOOLEAN]
        /\ asked' = asked
    BY ResetsApart, HistoryType
  <1>3. gone'[p] = mine /\ \A q \in Resets \ {p} : gone'[q] = gone[q]
    BY DEF TypeOK
  <1>4. TypeOK'
    BY <1>1, <1>2 DEF TypeOK, database
  <1>5. WipeIsClean'
    BY <1>3 DEF WipeIsClean, database
  <1>6. ParentIsLocked'
    BY <1>1, <1>2, <1>3, ResetsApart DEF ParentIsLocked, database, Requests
  <1>7. SeedIsAlone'
    BY <1>1, <1>3, ResetsApart DEF SeedIsAlone
  <1> QED
    BY <1>4, <1>5, <1>6, <1>7

LEMMA DeleteRowsKeeps ==
    ASSUME EvidenceInvariant, NEW p \in Resets, NEW k \in Kinds, NEW label \in {"findings", "see_runs"},
           DeleteRows(p, k, label), History(p)
    PROVE  EvidenceInvariant'
  <1> DEFINE mine == [gone[p] EXCEPT !.rows = @ \cup Seen(k)]
  <1>1. label \in Labels \ {"commit", "seed"}
    BY DEF Labels, Ended
  <1>2. gone[p] \in [rows : SUBSET Row, runs : SUBSET Runs, token : BOOLEAN]
    BY DEF EvidenceInvariant, TypeOK
  <1>3. Seen(k) \subseteq Row
    BY DEF Seen, EvidenceInvariant, TypeOK
  <1>4. mine \in [rows : SUBSET Row, runs : SUBSET Runs, token : BOOLEAN]
        /\ mine.runs = gone[p].runs /\ gone[p].rows \subseteq mine.rows
    BY <1>2, <1>3
  <1>5. gone' = [gone EXCEPT ![p] = mine]
    BY DEF DeleteRows, EvidenceInvariant, TypeOK
  <1> HIDE DEF mine
  <1>6. \A x \in evidence : x \in mine.rows \/ x.run \notin mine.runs
    BY <1>4 DEF EvidenceInvariant, WipeIsClean
  <1>7. \A w \in Writers : pc[w] = "commit" /\ asked[w].kind \in Kinds => run[w] \notin mine.runs
    BY <1>4 DEF EvidenceInvariant, ParentIsLocked
  <1> QED
    BY <1>1, <1>4, <1>5, <1>6, <1>7, PendingKeeps DEF DeleteRows, EvidenceInvariant, TypeOK

LEMMA SeeRunsKeeps ==
    ASSUME EvidenceInvariant, NEW p \in Resets, SeeRuns(p), History(p)
    PROVE  EvidenceInvariant'
  <1>1. p \in Requests /\ "runs" \in Labels \ {"commit", "seed"}
    BY ResetsApart DEF Labels, Ended
  <1>2. target' \in [Resets -> SUBSET Runs]
    BY DEF SeeRuns, EvidenceInvariant, TypeOK
  <1> QED
    BY <1>1, <1>2, QuietKeeps DEF SeeRuns, EvidenceInvariant, TypeOK

(* No row is left under the runs, and none is about to be committed. *)
LEMMA DeleteRunsKeeps ==
    ASSUME EvidenceInvariant, NEW p \in Resets, DeleteRuns(p), History(p)
    PROVE  EvidenceInvariant'
  <1>1. p \in Requests /\ "token" \in Labels \ {"commit", "seed"}
    BY ResetsApart DEF Labels, Ended
  <1>2. CASE Fail(p)
    BY <1>1, <1>2, RollbackKeeps DEF Fail
  <1>3. CASE /\ Childless(p)
             /\ gone' = [gone EXCEPT ![p].runs = target[p] \cap runs]
             /\ target' = [target EXCEPT ![p] = {}]
             /\ Goto(p, "token")
             /\ UNCHANGED <<database, run, kind, todo, shown>>
    <2> DEFINE mine == [gone[p] EXCEPT !.runs = target[p] \cap runs]
    <2>1. gone[p] \in [rows : SUBSET Row, runs : SUBSET Runs, token : BOOLEAN]
          /\ target[p] \cap runs \subseteq Runs
      BY DEF EvidenceInvariant, TypeOK
    <2>2. mine \in [rows : SUBSET Row, runs : SUBSET Runs, token : BOOLEAN]
          /\ mine.runs \subseteq target[p] /\ mine.rows = gone[p].rows
      BY <2>1
    <2>3. gone' = [gone EXCEPT ![p] = mine]
      BY <1>3 DEF EvidenceInvariant, TypeOK
    <2> HIDE DEF mine
    <2>4. \A x \in evidence : x \in mine.rows \/ x.run \notin mine.runs
      BY <1>3, <2>2 DEF Childless
    <2>5. \A w \in Writers : pc[w] = "commit" /\ asked[w].kind \in Kinds => run[w] \notin mine.runs
      <3>1. pc[p] = "runs" /\ Waits(p) = {} /\ p \notin Writers
        BY ResetsApart DEF DeleteRuns
      <3>2. WaitsForRuns(p) = {}
        BY <3>1 DEF Waits
      <3> QED
        BY <2>2, <3>2 DEF WaitsForRuns, HoldsRun
    <2>6. target' \in [Resets -> SUBSET Runs]
      BY <1>3 DEF EvidenceInvariant, TypeOK
    <2> QED
      BY <1>1, <1>3, <2>2, <2>3, <2>4, <2>5, <2>6, PendingKeeps
  <1> QED
    BY <1>2, <1>3 DEF DeleteRuns

LEMMA DeleteTokenKeeps ==
    ASSUME EvidenceInvariant, NEW p \in Resets, DeleteToken(p), History(p)
    PROVE  EvidenceInvariant'
  <1> DEFINE mine == [gone[p] EXCEPT !.token = TRUE]
  <1>1. p \in Requests /\ "wipe" \in Labels \ {"commit", "seed"}
    BY ResetsApart DEF Labels, Ended
  <1>2. gone[p] \in [rows : SUBSET Row, runs : SUBSET Runs, token : BOOLEAN]
    BY DEF EvidenceInvariant, TypeOK
  <1>3. mine \in [rows : SUBSET Row, runs : SUBSET Runs, token : BOOLEAN]
        /\ mine.runs = gone[p].runs /\ mine.rows = gone[p].rows
    BY <1>2
  <1>4. gone' = [gone EXCEPT ![p] = mine]
    BY DEF DeleteToken, EvidenceInvariant, TypeOK
  <1> HIDE DEF mine
  <1>5. \A x \in evidence : x \in mine.rows \/ x.run \notin mine.runs
    BY <1>3 DEF EvidenceInvariant, WipeIsClean
  <1>6. \A w \in Writers : pc[w] = "commit" /\ asked[w].kind \in Kinds => run[w] \notin mine.runs
    BY <1>3 DEF EvidenceInvariant, ParentIsLocked
  <1> QED
    BY <1>1, <1>3, <1>4, <1>5, <1>6, PendingKeeps DEF DeleteToken, EvidenceInvariant, TypeOK

LEMMA WipeKeeps ==
    ASSUME EvidenceInvariant, NEW p \in Resets, Wipe(p), History(p)
    PROVE  EvidenceInvariant'
  <1> USE DEF EvidenceInvariant
  <1>1. p \in Requests /\ "seed" \in Labels
    BY ResetsApart DEF Labels, Ended
  <1>2. /\ pc' \in [Requests -> Labels] /\ pc'[p] = "seed"
        /\ \A q \in Requests \ {p} : pc'[q] = pc[q]
    BY <1>1, GotoType DEF Wipe
  <1>3. /\ before' \in [Readers \cup Resets -> SUBSET Writers]
        /\ crossed' \in [Readers -> BOOLEAN]
        /\ asked' = asked
    BY <1>1, HistoryType
  <1>4. /\ gone' \in [Resets -> [rows : SUBSET Row, runs : SUBSET Runs, token : BOOLEAN]]
        /\ gone'[p] = Nothing
        /\ \A q \in Resets : q = p
    BY NothingType, EvidenceAssumption DEF EvidenceAssumption, Wipe, TypeOK
  <1>5. TypeOK'
    <2>1. evidence' \subseteq {x \in Row : x.run \in runs'}
      BY DEF Wipe, TypeOK, WipeIsClean
    <2> QED
      BY <1>2, <1>3, <1>4, <2>1 DEF Wipe, TypeOK
  <1>6. WipeIsClean'
    BY <1>4 DEF WipeIsClean, Nothing
  <1>7. ParentIsLocked'
    BY <1>2, <1>3, <1>4, ResetsApart DEF ParentIsLocked, Wipe, Nothing, Requests
  <1>8. SeedIsAlone'
    BY <1>4 DEF SeedIsAlone
  <1> QED
    BY <1>5, <1>6, <1>7, <1>8

LEMMA SeedKeeps ==
    ASSUME EvidenceInvariant, NEW p \in Resets, Seed(p), History(p)
    PROVE  EvidenceInvariant'
  <1> USE DEF EvidenceInvariant
  <1>1. p \in Requests /\ "reset" \in Labels
    BY ResetsApart DEF Labels, Ended
  <1>2. /\ pc' \in [Requests -> Labels] /\ pc'[p] = "reset"
        /\ \A q \in Requests \ {p} : pc'[q] = pc[q]
    BY <1>1, GotoType DEF Seed
  <1>3. /\ before' \in [Readers \cup Resets -> SUBSET Writers]
        /\ crossed' \in [Readers -> BOOLEAN]
        /\ asked' = asked
    BY <1>1, HistoryType
  <1>4. gone' = gone /\ run' = run /\ \A q \in Resets : q = p /\ gone[q] = Nothing
    BY EvidenceAssumption DEF EvidenceAssumption, Seed, SeedIsAlone, locals
  <1>5. TypeOK'
    BY <1>2, <1>3, FixtureRowsType DEF Seed, TypeOK, locals, Runs
  <1>6. WipeIsClean' /\ SeedIsAlone'
    BY <1>4 DEF WipeIsClean, SeedIsAlone, Nothing
  <1>7. ParentIsLocked'
    BY <1>2, <1>3, <1>4, ResetsApart DEF ParentIsLocked, Seed, Nothing, Requests
  <1> QED
    BY <1>5, <1>6, <1>7

LEMMA Inductive == EvidenceInvariant /\ [Next]_vars => EvidenceInvariant'
  <1> SUFFICES ASSUME EvidenceInvariant, [Next]_vars PROVE EvidenceInvariant'
    OBVIOUS
  <1>1. ASSUME NEW p \in Requests, Step(p), History(p) PROVE EvidenceInvariant'
    <2>1. CASE p \in Writers /\ Write(p)
      BY <1>1, <2>1, ArriveKeeps, FindRunKeeps, WriteTokenKeeps, InsertRowKeeps, CommitKeeps, RefreshKeeps
         DEF Write
    <2>2. CASE p \in Readers /\ Read(p)
      BY <1>1, <2>2, ArriveKeeps, ReadKeeps DEF Read
    <2>3. CASE p \in Resets /\ Reset(p)
      BY <1>1, <2>3, ArriveKeeps, DeleteRowsKeeps, SeeRunsKeeps, DeleteRunsKeeps, DeleteTokenKeeps,
         WipeKeeps, SeedKeeps DEF Reset, Kinds
    <2>4. CASE BreakDeadlock(p)
      BY <1>1, <2>4, RollbackKeeps DEF BreakDeadlock, Fail
    <2> QED
      BY <1>1, <2>1, <2>2, <2>3, <2>4 DEF Step
  <1>2. ASSUME NEW p \in Requests, Die(p), History(p) PROVE EvidenceInvariant'
    BY <1>2, RollbackKeeps DEF Die
  <1>3. CASE UNCHANGED vars
    BY <1>3 DEF vars, database, locals, EvidenceInvariant, TypeOK, WipeIsClean, ParentIsLocked, SeedIsAlone
  <1> QED
    BY <1>1, <1>2, <1>3 DEF Next

(* Locks, pending rows and readers' answers: the inductive invariant.          *)
THEOREM InvariantHolds == Spec => []EvidenceInvariant
  BY InitInvariant, Inductive, PTL DEF Spec

(* No event or finding is ever without its run: the child that is inserted      *)
(* while a reset deletes its parent (fixtures.py:263) fails, or the reset does. *)
THEOREM TypeCorrect == Spec => []TypeOK
  <1>1. EvidenceInvariant => TypeOK
    BY DEF EvidenceInvariant
  <1> QED
    BY <1>1, InvariantHolds, PTL

-----------------------------------------------------------------------------
(* What a failed request leaves, and what a reset leaves                      *)

(* Before its commit, and when it ended without one, a request has no row.     *)
NotYet == {"arrive", "find", "token", "row", "commit", "unauthorized", "not_found", "failed"}
NotYetWritten == \A w \in Writers : pc[w] \in NotYet => ~Written(w)

(* The fixtures are nobody's.                                                *)
LEMMA FixturesAreNotWritten ==
    /\ \A w \in Writers : w \notin FixtureRuns
    /\ \A w \in Writers : \A x \in FixtureRows : x.id # w
  BY EvidenceAssumption DEF EvidenceAssumption, FixtureRows

(* A step adds only the row of a request at its commit, and the fixtures.       *)
LEMMA Adds ==
    ASSUME EvidenceInvariant, NEW p \in Requests, Step(p) \/ Die(p),
           NEW w \in Writers, p # w \/ pc[w] # "commit"
    PROVE  /\ w \in runs' => w \in runs
           /\ \A x \in evidence' : x.id = w => x \in evidence
  <1>1. CASE runs' \subseteq runs /\ evidence' \subseteq evidence
    BY <1>1
  <1>2. CASE p \in Writers /\ Commit(p)
    BY <1>2 DEF Commit, NewRow
  <1>3. CASE p \in Resets /\ Seed(p)
    BY <1>3, FixturesAreNotWritten DEF Seed
  <1>4. \/ runs' \subseteq runs /\ evidence' \subseteq evidence
        \/ p \in Writers /\ Commit(p)
        \/ p \in Resets /\ Seed(p)
    BY DEF Step, Write, Read, Reset, BreakDeadlock, Die, Fail, Rollback, Arrive, FindRun, WriteToken,
           InsertRow, Refresh, SelectRuns, NextRun, SelectRows, DeleteRows, SeeRuns, DeleteRuns,
           DeleteToken, Wipe, database
  <1> QED
    BY <1>1, <1>2, <1>3, <1>4

(* A step of p moves no other request. *)
LEMMA OthersStay ==
    ASSUME EvidenceInvariant, NEW p \in Requests, Step(p) \/ Die(p), NEW q \in Requests \ {p}
    PROVE  pc'[q] = pc[q]
  BY DEF Step, Write, Read, Reset, BreakDeadlock, Die, Fail, Rollback, Arrive, FindRun, WriteToken,
         InsertRow, Commit, Refresh, SelectRuns, NextRun, SelectRows, DeleteRows, SeeRuns, DeleteRuns,
         DeleteToken, Wipe, Seed, Goto, EvidenceInvariant, TypeOK

(* What a writer does once it has committed. *)
LEMMA AfterCommit ==
    ASSUME EvidenceInvariant, NEW w \in Writers, Step(w) \/ Die(w), pc[w] \notin NotYet
    PROVE  /\ pc[w] # "created"
           /\ pc'[w] \in NotYet => ~Written(w)
  <1>1. w \in Requests /\ w \notin Readers /\ w \notin Resets
    BY EvidenceAssumption DEF EvidenceAssumption, Requests
  <1>2. CASE Write(w)
    BY <1>1, <1>2 DEF Write, Arrive, FindRun, WriteToken, InsertRow, Commit, Refresh, Goto, NotYet,
                      EvidenceInvariant, TypeOK
  <1>3. CASE BreakDeadlock(w)
    BY <1>1, <1>3 DEF BreakDeadlock, Waits, NotYet
  <1>4. CASE Die(w)
    BY <1>1, <1>4 DEF Die, Goto, NotYet, Ended, EvidenceInvariant, TypeOK
  <1> QED
    BY <1>1, <1>2, <1>3, <1>4 DEF Step

LEMMA CreatedStays ==
    ASSUME EvidenceInvariant, NEW p \in Requests, Step(p) \/ Die(p), NEW w \in Writers, pc[w] = "created"
    PROVE  p # w /\ pc'[w] = "created"
  <1>1. p # w
    BY AfterCommit DEF NotYet
  <1> QED
    BY <1>1, OthersStay DEF Requests

LEMMA NotYetKeeps == EvidenceInvariant /\ NotYetWritten /\ [Next]_vars => NotYetWritten'
  <1> SUFFICES ASSUME EvidenceInvariant, NotYetWritten, [Next]_vars,
                      NEW w \in Writers, pc'[w] \in NotYet
               PROVE  ~Written(w)'
    BY DEF NotYetWritten
  <1>1. CASE UNCHANGED vars
    BY <1>1 DEF vars, database, NotYetWritten, Written
  <1>2. ASSUME NEW p \in Requests, Step(p) \/ Die(p) PROVE ~Written(w)'
    <2>1. CASE p = w /\ pc[w] = "commit"
      <3>1. Write(w) \/ BreakDeadlock(w) \/ Die(w)
        BY <1>2, <2>1, EvidenceAssumption DEF EvidenceAssumption, Step
      <3>2. ~BreakDeadlock(w)
        BY <2>1, EvidenceAssumption DEF EvidenceAssumption, BreakDeadlock, Waits
      <3>3. ~Write(w)
        BY <2>1 DEF Write, Arrive, FindRun, WriteToken, InsertRow, Commit, Refresh, Goto, NotYet,
                    EvidenceInvariant, TypeOK, Requests
      <3> QED
        BY <2>1, <3>1, <3>2, <3>3 DEF Die, Rollback, database, NotYetWritten, NotYet, Written
    <2>2. CASE p # w \/ pc[w] # "commit"
      <3>1. Written(w)' => Written(w)
        BY <1>2, <2>2, Adds DEF Written
      <3>2. CASE pc[w] \in NotYet
        BY <3>1, <3>2 DEF NotYetWritten
      <3>3. CASE pc[w] \notin NotYet
        BY <1>2, <3>1, <3>3, AfterCommit, OthersStay DEF Requests
      <3> QED
        BY <3>2, <3>3
    <2> QED
      BY <2>1, <2>2
  <1> QED
    BY <1>1, <1>2 DEF Next

(* A failed request left no row behind: it rolled back, or found its row wiped  *)
(* when it read it again (validation_runs.py:144).                            *)
THEOREM FailuresWriteNothing == Spec => []FailedWroteNothing
  <1>1. Init => NotYetWritten
    BY FixturesAreNotWritten DEF Init, NotYetWritten, Written
  <1>2. NotYetWritten => FailedWroteNothing
    BY DEF NotYetWritten, NotYet, FailedWroteNothing
  <1> QED
    BY <1>1, <1>2, InvariantHolds, NotYetKeeps, PTL DEF Spec

-----------------------------------------------------------------------------
(* What was acknowledged when a reset began is in what its DELETEs saw.        *)
Swept(p, w) ==
    /\ pc[w] = "created"
    /\ pc[p] \in {"findings", "see_runs", "runs", "token", "wipe"} =>
          \A x \in evidence : x.id = w /\ x.kind = "event" => x \in gone[p].rows
    /\ pc[p] \in {"see_runs", "runs", "token", "wipe"} =>
          \A x \in evidence : x.id = w /\ x.kind = "finding" => x \in gone[p].rows
    /\ pc[p] = "runs" /\ w \in runs => w \in target[p]
    /\ pc[p] \in {"token", "wipe"} /\ w \in runs => w \in gone[p].runs
    /\ pc[p] \in {"seed", "reset"} => ~Written(w)

AllSwept == \A p \in Resets : \A w \in before[p] : Swept(p, w)

LEMMA BeforeIsOfReset ==
    ASSUME EvidenceInvariant, NEW q \in Requests, Step(q) \/ Die(q), History(q),
           NEW p \in Readers \cup Resets, NEW w \in before'[p]
    PROVE  /\ w \in Writers
           /\ \/ w \in before[p] /\ (q = p => pc[p] # "arrive")
              \/ q = p /\ pc[p] = "arrive" /\ pc[w] = "created"
  BY EvidenceAssumption DEF EvidenceAssumption, History, EvidenceInvariant, TypeOK

LEMMA AllSweptKeeps == EvidenceInvariant /\ AllSwept /\ [Next]_vars => AllSwept'
  <1> SUFFICES ASSUME EvidenceInvariant, AllSwept, [Next]_vars, NEW p \in Resets, NEW w \in before'[p]
               PROVE  Swept(p, w)'
    BY DEF AllSwept
  <1>1. CASE UNCHANGED vars
    BY <1>1 DEF vars, database, locals, AllSwept, Swept, Written
  <1>2. ASSUME NEW q \in Requests, Step(q) \/ Die(q), History(q) PROVE Swept(p, w)'
    <2>1. w \in Writers
      BY <1>2, BeforeIsOfReset
    <2>2. p \in Requests /\ p \notin Writers /\ p \notin Readers /\ w \notin Resets /\ w \notin Readers
      BY <2>1, ResetsApart, EvidenceAssumption DEF EvidenceAssumption
    <2>3. pc[w] = "created"
      BY <1>2, BeforeIsOfReset DEF AllSwept, Swept
    <2>4. q # w /\ pc'[w] = "created"
      BY <1>2, <2>1, <2>3, CreatedStays
    <2>5. /\ w \in runs' => w \in runs
          /\ \A x \in evidence' : x.id = w => x \in evidence
      BY <1>2, <2>1, <2>4, Adds
    <2>6. CASE q = p /\ pc[p] = "arrive"
      <3>1. pc'[p] \in {"events", "unauthorized", "dead"}
        BY <1>2, <2>2, <2>6 DEF Step, Reset, Arrive, SeeRuns, DeleteRuns, DeleteToken, Wipe, Seed,
             BreakDeadlock, Waits, Die, Goto, EvidenceInvariant, TypeOK
      <3> QED
        BY <2>4, <3>1 DEF Swept
    <2>7. CASE q # p
      <3>1. w \in before[p] /\ pc'[p] = pc[p]
        BY <1>2, <2>2, <2>7, BeforeIsOfReset, OthersStay
      <3>2. target'[p] = target[p] /\ gone'[p] = gone[p]
        <4>1. q \notin Resets
          BY <2>7, EvidenceAssumption DEF EvidenceAssumption
        <4> QED
          BY <1>2, <4>1 DEF Step, Write, Read, BreakDeadlock, Die, Fail, Rollback, Arrive, FindRun,
             WriteToken, InsertRow, Commit, Refresh, SelectRuns, NextRun, SelectRows, locals
      <3> QED
        BY <2>4, <2>5, <3>1, <3>2 DEF AllSwept, Swept, Written
    <2>8. CASE q = p /\ pc[p] # "arrive"
      <3>1. w \in before[p]
        BY <1>2, <2>8, BeforeIsOfReset
      <3>2. Swept(p, w)
        BY <3>1 DEF AllSwept
      <3> USE <2>4, <2>5, <3>2 DEF Swept, Goto, EvidenceInvariant, TypeOK, Written
      <3>3. CASE pc[p] = "events" /\ DeleteRows(p, "event", "findings")
        BY <3>3, <2>2 DEF DeleteRows, Seen, database
      <3>4. CASE pc[p] = "findings" /\ DeleteRows(p, "finding", "see_runs")
        BY <3>4, <2>2 DEF DeleteRows, Seen, database
      <3>5. CASE SeeRuns(p)
        BY <3>5, <2>2 DEF SeeRuns, database
      <3>6. CASE DeleteRuns(p)
        BY <3>6, <2>2 DEF DeleteRuns, Fail, Rollback, database
      <3>7. CASE DeleteToken(p)
        BY <3>7, <2>2 DEF DeleteToken, database
      <3>8. CASE Wipe(p)
        <4>1. \A x \in evidence : x.kind \in {"event", "finding"}
          BY DEF Row, Kinds
        <4> QED
          BY <3>8, <2>2, <4>1 DEF Wipe
      <3>9. CASE Seed(p)
        BY <3>9, <2>1, <2>2, FixturesAreNotWritten DEF Seed
      <3>10. CASE BreakDeadlock(p) \/ Die(p)
        BY <3>10, <2>2 DEF BreakDeadlock, Die, Fail, Rollback, database
      <3> QED
        BY <1>2, <2>2, <2>8, <3>3, <3>4, <3>5, <3>6, <3>7, <3>8, <3>9, <3>10 DEF Step, Reset, Arrive
    <2> QED
      BY <2>6, <2>7, <2>8
  <1> QED
    BY <1>1, <1>2 DEF Next

(* What was acknowledged before a reset began is gone when it has succeeded,    *)
(* whatever was written between its DELETEs (fixtures.py:263).                 *)
THEOREM ResetsWipe == Spec => []ResetWipesEvidence
  <1>1. Init => AllSwept
    BY DEF Init, AllSwept
  <1>2. AllSwept => ResetWipesEvidence
    BY DEF AllSwept, Swept, ResetWipesEvidence
  <1> QED
    BY <1>1, <1>2, InvariantHolds, AllSweptKeeps, PTL DEF Spec

-----------------------------------------------------------------------------
(* A row that was acknowledged when a reader began is shown, or still to be read. *)
Accounted(p, x) ==
    \/ x \in shown[p]
    \/ x.run \in todo[p]
    \/ pc[p] = "rows" /\ x.run = run[p] /\ kind[p] \in {"event", x.kind}

Bracketed(p) ==
    /\ \A w \in before[p] : pc[w] = "created"
    /\ pc[p] = "arrive" => shown[p] = {}
    /\ pc[p] = "select" => shown[p] = {}
    /\ ~crossed[p] => shown[p] \subseteq evidence
    /\ ~crossed[p] /\ pc[p] \in {"next", "rows", "read"} =>
          \A x \in evidence : x.id \in before[p] /\ InScope(p, x) => Accounted(p, x)
    /\ pc[p] = "read" => todo[p] = {}

AllBracketed == \A p \in Readers : Bracketed(p)

(* The runs that a reader starts with are all those of the rows in its scope. *)
LEMMA ScopeIsComplete ==
    ASSUME EvidenceInvariant, NEW p \in Readers, NEW x \in evidence, InScope(p, x)
    PROVE  x.run \in Scope(p)
  BY DEF InScope, Scope, Named, EvidenceInvariant, TypeOK

(* Outside a wipe no row goes. *)
LEMMA OnlyWipesDelete ==
    ASSUME EvidenceInvariant, NEW q \in Requests, Step(q) \/ Die(q), History(q), NEW p \in Readers
    PROVE  /\ ~crossed'[p] => ~crossed[p]
           /\ ~crossed'[p] /\ pc[p] # "arrive" => evidence \subseteq evidence'
  <1>1. ~crossed'[p] => ~crossed[p]
    BY DEF History
  <1>2. CASE q \in Resets /\ Wipe(q)
    <2>1. pc[q] = "wipe" /\ pc'[q] = "seed"
      BY <1>2 DEF Wipe, Goto, EvidenceInvariant, TypeOK
    <2> QED
      BY <1>2, <2>1 DEF History
  <1>3. evidence \subseteq evidence' \/ (q \in Resets /\ Wipe(q))
    BY DEF Step, Write, Read, Reset, BreakDeadlock, Die, Fail, Rollback, Arrive, FindRun, WriteToken,
           InsertRow, Commit, Refresh, SelectRuns, NextRun, SelectRows, DeleteRows, SeeRuns, DeleteRuns,
           DeleteToken, Seed, database
  <1> QED
    BY <1>1, <1>2, <1>3

LEMMA AllBracketedKeeps == EvidenceInvariant /\ AllBracketed /\ [Next]_vars => AllBracketed'
  <1> SUFFICES ASSUME EvidenceInvariant, AllBracketed, [Next]_vars, NEW p \in Readers
               PROVE  Bracketed(p)'
    BY DEF AllBracketed
  <1>1. CASE UNCHANGED vars
    BY <1>1 DEF vars, database, locals, AllBracketed, Bracketed, Accounted, InScope
  <1>2. ASSUME NEW q \in Requests, Step(q) \/ Die(q), History(q) PROVE Bracketed(p)'
    <2>1. p \in Requests /\ p \notin Writers /\ p \notin Resets /\ Bracketed(p)
      BY EvidenceAssumption DEF EvidenceAssumption, Requests, AllBracketed
    <2>2. /\ ~crossed'[p] => ~crossed[p]
          /\ ~crossed'[p] /\ pc[p] # "arrive" => evidence \subseteq evidence'
      BY <1>2, OnlyWipesDelete
    <2>3. \A w \in before'[p] : w \in Writers /\ pc[w] = "created" /\ pc'[w] = "created" /\ q # w
      BY <1>2, <2>1, BeforeIsOfReset, CreatedStays DEF Bracketed
    <2>4. \A x \in evidence' : x.id \in before'[p] => x \in evidence
      BY <1>2, <2>3, Adds
    <2>5. \A x : InScope(p, x)' <=> InScope(p, x)
      BY <1>2 DEF History, InScope
    <2>6. CASE q # p
      <3>1. before'[p] = before[p] /\ pc'[p] = pc[p]
        BY <1>2, <2>1, <2>6, OthersStay DEF History, EvidenceInvariant, TypeOK
      <3>2. shown'[p] = shown[p] /\ todo'[p] = todo[p] /\ kind'[p] = kind[p] /\ run'[p] = run[p]
        BY <1>2, <2>1, <2>6 DEF Step, Write, Read, Reset, BreakDeadlock, Die, Fail, Rollback, Arrive, FindRun,
           WriteToken, InsertRow, Commit, Refresh, SelectRuns, NextRun, SelectRows, DeleteRows, SeeRuns,
           DeleteRuns, DeleteToken, Wipe, Seed, locals, EvidenceInvariant, TypeOK
      <3> QED
        BY <2>1, <2>2, <2>3, <2>4, <2>5, <3>1, <3>2 DEF Bracketed, Accounted
    <2>7. CASE q = p
      <3>1. Read(p) \/ Die(p)
        BY <1>2, <2>1, <2>7 DEF Step, BreakDeadlock, Waits
      <3>2. evidence' = evidence
        BY <3>1 DEF Read, Arrive, SelectRuns, NextRun, SelectRows, Die, Rollback, database
      <3>3. pc[p] # "arrive" => before'[p] = before[p]
        BY <1>2, <2>1, <2>7 DEF History, EvidenceInvariant, TypeOK
      <3> USE DEF Goto, EvidenceInvariant, TypeOK
      <3>4. CASE Arrive(p, "select") \/ Die(p)
        BY <2>1, <2>2, <2>3, <3>2, <3>4 DEF Arrive, Die, Rollback, locals, Bracketed
      <3>5. CASE SelectRuns(p)
        <4>1. pc'[p] \in {"not_found", "next"} /\ (pc'[p] = "next" => todo'[p] = Scope(p)) /\ shown' = shown
          BY <2>1, <3>5 DEF SelectRuns
        <4>2. pc'[p] = "next" => \A x \in evidence : InScope(p, x) => x.run \in todo'[p]
          BY <4>1, ScopeIsComplete
        <4> QED
          BY <2>1, <2>2, <2>3, <2>5, <3>2, <3>3, <3>5, <4>1, <4>2 DEF SelectRuns, Bracketed, Accounted
      <3>6. CASE NextRun(p)
        <4>1. CASE todo[p] = {} /\ Goto(p, "read") /\ UNCHANGED <<todo, shown>>
          BY <2>1, <2>2, <2>3, <2>5, <3>2, <3>3, <3>6, <4>1 DEF NextRun, Bracketed, Accounted
        <4>2. ASSUME NEW r \in todo[p],
                     run'[p] = r, kind'[p] = FirstKind(p), todo'[p] = todo[p] \ {r}, Goto(p, "rows"), shown' = shown
              PROVE  Bracketed(p)'
          <5>1. \A x \in evidence : InScope(p, x) => kind'[p] \in {"event", x.kind}
            BY <4>2 DEF InScope, FirstKind, Row, Kinds
          <5> QED
            BY <2>1, <2>2, <2>3, <2>5, <3>2, <3>3, <3>6, <4>2, <5>1 DEF NextRun, Bracketed, Accounted
        <4> QED
          BY <2>1, <3>6, <4>1, <4>2 DEF NextRun, Requests
      <3>7. CASE SelectRows(p)
        <4>1. \A x \in evidence : InScope(p, x) => x.kind \in asked[p].kinds /\ x.kind \in Kinds
          BY DEF InScope, Row
        <4> QED
          BY <2>1, <2>2, <2>3, <2>5, <3>2, <3>3, <3>7, <4>1 DEF SelectRows, Bracketed, Accounted, Kinds
      <3> QED
        BY <3>1, <3>4, <3>5, <3>6, <3>7 DEF Read
    <2> QED
      BY <2>6, <2>7
  <1> QED
    BY <1>1, <1>2 DEF Next

(* An export or a list that no reset crossed shows what was acknowledged before *)
(* it began and nothing that is not there (evidence_exports.py:112).            *)
THEOREM AnswersAreBracketed == Spec => []AnswersBracketed
  <1>1. Init => AllBracketed
    BY DEF Init, AllBracketed, Bracketed
  <1>2. AllBracketed => AnswersBracketed
    BY DEF AllBracketed, Bracketed, Accounted, AnswersBracketed
  <1> QED
    BY <1>1, <1>2, InvariantHolds, AllBracketedKeeps, PTL DEF Spec
=============================================================================
