------------------------ MODULE SchemaMigrations_proofs ------------------------
(***************************************************************************)
(* Proofs about SchemaMigrations, for any V1 rows, fixtures and commands.    *)
(***************************************************************************)
EXTENDS SchemaMigrations, FiniteSetTheorems, TLAPS

(* What the foreign keys of posts keep true at every revision. *)
PostsRefer ==
    \A p \in Present(posts) :
        /\ posts[p].parent \in Present(posts) \cup {Null}
        /\ posts[p].run \in Scenarios

(* What the constraints of 0002 keep true from the upgrade on, until V1 writes *)
(* again.                                                                    *)
Clean ==
    revision = "head" \/ (revision = "v1" /\ returned) =>
        /\ \A a, b \in agents : SameHandle(a, b) => a = b
        /\ \A p \in Long : posts[p] = None

(* Without tables there are no rows. *)
Dropped ==
    revision = "base" =>
        /\ agents = {} /\ authFixtures = {} /\ scenarioRuns = {}
        /\ posts = Empty(Posts)
        /\ events = Empty(V1Events)
        /\ findings = Empty(Findings)

(* The inductive invariant. *)
SchemaInvariant == TypeOK /\ PostsRefer /\ Clean /\ Dropped

-----------------------------------------------------------------------------
(* Ids of copied runs *)

LEMMA CopiedRun ==
    ASSUME NEW r \in ScenarioRuns
    PROVE  /\ ValidationRunId(r) \in ValidationRuns
           /\ ValidationRunId(r) \notin DynamicRuns
           /\ ValidationRunId(r) # None /\ ValidationRunId(r) # Null
  BY SchemaAssumption DEF SchemaAssumption, ValidationRuns, CopiedRuns

LEMMA RunIdInjective ==
    ASSUME NEW r, NEW q
    PROVE  ValidationRunId(r) = ValidationRunId(q) => r = q
  BY DEF ValidationRunId

LEMMA NoneApart ==
    /\ None # Null
    /\ None \notin Posts /\ Null \notin Posts
    /\ None \notin ScenarioRuns /\ Null \notin ScenarioRuns
    /\ None \notin ValidationRuns /\ Null \notin ValidationRuns
  BY SchemaAssumption DEF SchemaAssumption

(* A validation run for each scenario run in S, the others as before. *)
LEMMA CopyRuns ==
    ASSUME NEW S \in SUBSET ScenarioRuns, NEW other, NEW table,
           table = [v \in ValidationRuns |->
                      IF \E r \in S : v = ValidationRunId(r)
                      THEN CHOOSE r \in S : v = ValidationRunId(r) ELSE other[v]]
    PROVE  /\ \A r \in S : table[ValidationRunId(r)] = r
           /\ \A v \in ValidationRuns :
                 (\A r \in S : v # ValidationRunId(r)) => table[v] = other[v]
  <1>1. ASSUME NEW r \in S PROVE table[ValidationRunId(r)] = r
    <2>1. ValidationRunId(r) \in ValidationRuns
      BY CopiedRun
    <2>2. \A q \in S : ValidationRunId(r) = ValidationRunId(q) => q = r
      BY RunIdInjective
    <2>3. (CHOOSE q \in S : ValidationRunId(r) = ValidationRunId(q)) = r
      BY <2>2
    <2> QED
      BY <2>1, <2>3
  <1> QED
    BY <1>1

-----------------------------------------------------------------------------
(* Threads *)

Thread == [root : Posts, depth : 0..MaxReplyDepth]

LEMMA RowType ==
    ASSUME NEW parent \in Posts \cup {Null}, NEW run \in ScenarioRuns \cup {Null},
           NEW thread \in [root : Posts \cup {Null}, depth : 0..MaxReplyDepth]
    PROVE  /\ Row(parent, run, thread) \in PostRows
           /\ Row(parent, run, thread) # None
  <1>1. None \notin PostRows
    BY SchemaAssumption DEF SchemaAssumption
  <1> QED
    BY <1>1 DEF Row, PostRows

LEMMA AboveType ==
    ASSUME TypeOK, PostsRefer, NEW p \in Present(posts) \cup {Null}
    PROVE  Above(posts, p) \in Present(posts) \cup {Null}
  BY DEF PostsRefer, Above

(* The query returns one of its rows: an ancestor and its distance, whatever   *)
(* the table it is asked of.                                                 *)
LEMMA ResolvedCases ==
    ASSUME NEW table, NEW p, p # Null,
           NEW a, NEW b, NEW c, NEW d,
           a = Above(table, p), b = Above(table, a), c = Above(table, b), d = Above(table, c)
    PROVE  /\ a = Null => Resolved(table, p) = [root |-> p, depth |-> 0]
           /\ a # Null /\ b = Null => Resolved(table, p) = [root |-> a, depth |-> 1]
           /\ a # Null /\ b # Null /\ c = Null => Resolved(table, p) = [root |-> b, depth |-> 2]
           /\ a # Null /\ b # Null /\ c # Null /\ d = Null
                 => Resolved(table, p) = [root |-> c, depth |-> 3]
           /\ a # Null /\ b # Null /\ c # Null /\ d # Null
                 => Resolved(table, p) = [root |-> d, depth |-> 4]
  <1>1. /\ a = Null => b = Null
        /\ b = Null => c = Null
        /\ c = Null => d = Null
    BY DEF Above
  <1> DEFINE up == Ancestry(table, p)
             Deepest(n) == up[n + 1] # Null /\ (n = MaxReplyDepth \/ up[n + 2] = Null)
             depth == CHOOSE n \in 0..MaxReplyDepth : Deepest(n)
  <1>2. up[1] = p /\ up[2] = a /\ up[3] = b /\ up[4] = c /\ up[5] = d
    BY DEF Ancestry
  <1>3. Resolved(table, p) = [root |-> up[depth + 1], depth |-> depth]
    BY DEF Resolved
  <1>4. /\ Deepest(0) <=> a = Null
        /\ Deepest(1) <=> a # Null /\ b = Null
        /\ Deepest(2) <=> b # Null /\ c = Null
        /\ Deepest(3) <=> c # Null /\ d = Null
        /\ Deepest(4) <=> d # Null
    BY <1>2 DEF MaxReplyDepth
  <1>5. 0..MaxReplyDepth = {0, 1, 2, 3, 4}
    BY DEF MaxReplyDepth
  <1> HIDE DEF up, Deepest
  <1>6. /\ a = Null => depth = 0
        /\ a # Null /\ b = Null => depth = 1
        /\ b # Null /\ c = Null => depth = 2
        /\ c # Null /\ d = Null => depth = 3
        /\ d # Null => depth = 4
    BY <1>1, <1>4, <1>5
  <1> HIDE DEF depth
  <1> QED
    BY <1>1, <1>2, <1>3, <1>6

(* Of the table of posts, all of them are there. *)
LEMMA ResolvedDef ==
    ASSUME TypeOK, PostsRefer, NEW p \in Present(posts),
           NEW a, NEW b, NEW c, NEW d,
           a = Above(posts, p), b = Above(posts, a), c = Above(posts, b), d = Above(posts, c)
    PROVE  /\ {a, b, c, d} \subseteq Present(posts) \cup {Null}
           /\ a = Null => Resolved(posts, p) = [root |-> p, depth |-> 0]
           /\ a # Null /\ b = Null => Resolved(posts, p) = [root |-> a, depth |-> 1]
           /\ a # Null /\ b # Null /\ c = Null => Resolved(posts, p) = [root |-> b, depth |-> 2]
           /\ a # Null /\ b # Null /\ c # Null /\ d = Null
                 => Resolved(posts, p) = [root |-> c, depth |-> 3]
           /\ a # Null /\ b # Null /\ c # Null /\ d # Null
                 => Resolved(posts, p) = [root |-> d, depth |-> 4]
  <1>1. p # Null
    BY NoneApart DEF TypeOK, Present
  <1>2. {a, b, c, d} \subseteq Present(posts) \cup {Null}
    BY AboveType
  <1> QED
    BY <1>1, <1>2, ResolvedCases

(* The query sees of a table only who replies to whom. *)
LEMMA ResolvedSame ==
    ASSUME TypeOK, PostsRefer, NEW table, NEW p \in Present(posts),
           \A q \in Present(posts) : table[q].parent = posts[q].parent
    PROVE  Resolved(table, p) = Resolved(posts, p)
  <1>1. \A q \in Present(posts) \cup {Null} :
          Above(table, q) = Above(posts, q) /\ Above(posts, q) \in Present(posts) \cup {Null}
    BY AboveType DEF Above
  <1>2. Ancestry(table, p) = Ancestry(posts, p)
    BY <1>1 DEF Ancestry
  <1> QED
    BY <1>2 DEF Resolved

LEMMA ResolvedType ==
    ASSUME TypeOK, PostsRefer, NEW p \in Present(posts)
    PROVE  /\ Resolved(posts, p) \in Thread
           /\ Resolved(posts, p).root \in Present(posts)
  <1> DEFINE a == Above(posts, p)
             b == Above(posts, a)
             c == Above(posts, b)
             d == Above(posts, c)
  <1>1. Present(posts) \subseteq Posts
    BY DEF TypeOK, Present
  <1> HIDE DEF a, b, c, d
  <1>2. /\ {a, b, c, d} \subseteq Present(posts) \cup {Null}
        /\ a = Null => Resolved(posts, p) = [root |-> p, depth |-> 0]
        /\ a # Null /\ b = Null => Resolved(posts, p) = [root |-> a, depth |-> 1]
        /\ a # Null /\ b # Null /\ c = Null => Resolved(posts, p) = [root |-> b, depth |-> 2]
        /\ a # Null /\ b # Null /\ c # Null /\ d = Null
              => Resolved(posts, p) = [root |-> c, depth |-> 3]
        /\ a # Null /\ b # Null /\ c # Null /\ d # Null
              => Resolved(posts, p) = [root |-> d, depth |-> 4]
    BY ResolvedDef DEF a, b, c, d
  <1> QED
    BY <1>1, <1>2 DEF Thread, MaxReplyDepth

(* A post and its parent: the thread of a reply is that of its parent, one    *)
(* deeper, while there is room.                                              *)
Follows(own, above) ==
    /\ own.depth = IF above.depth = MaxReplyDepth THEN MaxReplyDepth ELSE above.depth + 1
    /\ above.depth < MaxReplyDepth => own.root = above.root

LEMMA ResolvedFollows ==
    ASSUME NEW table, NEW p, p # Null, NEW q, q = table[p].parent, q # Null
    PROVE  Follows(Resolved(table, p), Resolved(table, q))
  <1> DEFINE b == Above(table, q)
             c == Above(table, b)
             d == Above(table, c)
             e == Above(table, d)
  <1>1. q = Above(table, p)
    BY DEF Above
  <1>2. /\ b = Null => c = Null
        /\ c = Null => d = Null
        /\ d = Null => e = Null
    BY DEF Above
  <1>3. /\ b = Null => Resolved(table, p) = [root |-> q, depth |-> 1]
        /\ b # Null /\ c = Null => Resolved(table, p) = [root |-> b, depth |-> 2]
        /\ b # Null /\ c # Null /\ d = Null => Resolved(table, p) = [root |-> c, depth |-> 3]
        /\ b # Null /\ c # Null /\ d # Null => Resolved(table, p) = [root |-> d, depth |-> 4]
    BY <1>1, ResolvedCases
  <1>4. /\ b = Null => Resolved(table, q) = [root |-> q, depth |-> 0]
        /\ b # Null /\ c = Null => Resolved(table, q) = [root |-> b, depth |-> 1]
        /\ b # Null /\ c # Null /\ d = Null => Resolved(table, q) = [root |-> c, depth |-> 2]
        /\ b # Null /\ c # Null /\ d # Null /\ e = Null
              => Resolved(table, q) = [root |-> d, depth |-> 3]
        /\ b # Null /\ c # Null /\ d # Null /\ e # Null
              => Resolved(table, q) = [root |-> e, depth |-> 4]
    BY ResolvedCases
  <1> HIDE DEF b, c, d, e
  <1> QED
    BY <1>2, <1>3, <1>4 DEF Follows, MaxReplyDepth

(* The loop of the seed ends at an ancestor in the file. *)
FileAbove(p) == IF p = Null THEN Null ELSE Parent[p]

LEMMA FileAboveType ==
    ASSUME NEW p \in Fixtures.posts \cup {Null}
    PROVE  FileAbove(p) \in Fixtures.posts \cup {Null}
  BY SchemaAssumption DEF SchemaAssumption, FileAbove

LEMMA RoundStep ==
    ASSUME NEW q \in Fixtures.posts, NEW n \in 0..3
    PROVE  /\ Parent[q] = Null => Round([root |-> q, depth |-> n]) = [root |-> q, depth |-> n]
           /\ Parent[q] # Null => Round([root |-> q, depth |-> n])
                                    = [root |-> Parent[q], depth |-> n + 1]
  BY NoneApart, SchemaAssumption DEF SchemaAssumption, Round

LEMMA FieldsDef ==
    ASSUME NEW p \in Fixtures.posts,
           NEW a, NEW b, NEW c, NEW d,
           a = FileAbove(p), b = FileAbove(a), c = FileAbove(b), d = FileAbove(c)
    PROVE  /\ {a, b, c, d} \subseteq Fixtures.posts \cup {Null}
           /\ a = Null => PostThreadFields(p) = [root |-> p, depth |-> 0]
           /\ a # Null /\ b = Null => PostThreadFields(p) = [root |-> a, depth |-> 1]
           /\ a # Null /\ b # Null /\ c = Null => PostThreadFields(p) = [root |-> b, depth |-> 2]
           /\ a # Null /\ b # Null /\ c # Null /\ d = Null
                 => PostThreadFields(p) = [root |-> c, depth |-> 3]
           /\ a # Null /\ b # Null /\ c # Null /\ d # Null
                 => PostThreadFields(p) = [root |-> d, depth |-> 4]
  <1>1. {a, b, c, d} \subseteq Fixtures.posts \cup {Null}
    BY FileAboveType
  <1>2. \A q \in Fixtures.posts : q # Null /\ FileAbove(q) = Parent[q]
    BY NoneApart, SchemaAssumption DEF SchemaAssumption, FileAbove
  <1>3. \A q \in Fixtures.posts, n \in 0..3 :
          /\ FileAbove(q) = Null => Round([root |-> q, depth |-> n]) = [root |-> q, depth |-> n]
          /\ FileAbove(q) # Null => Round([root |-> q, depth |-> n])
                                      = [root |-> FileAbove(q), depth |-> n + 1]
    BY <1>2, RoundStep
  <1>4. \A q \in Fixtures.posts :
          /\ FileAbove(q) = Null =>
                /\ Round([root |-> q, depth |-> 0]) = [root |-> q, depth |-> 0]
                /\ Round([root |-> q, depth |-> 1]) = [root |-> q, depth |-> 1]
                /\ Round([root |-> q, depth |-> 2]) = [root |-> q, depth |-> 2]
                /\ Round([root |-> q, depth |-> 3]) = [root |-> q, depth |-> 3]
          /\ FileAbove(q) # Null =>
                /\ Round([root |-> q, depth |-> 0]) = [root |-> FileAbove(q), depth |-> 1]
                /\ Round([root |-> q, depth |-> 1]) = [root |-> FileAbove(q), depth |-> 2]
                /\ Round([root |-> q, depth |-> 2]) = [root |-> FileAbove(q), depth |-> 3]
                /\ Round([root |-> q, depth |-> 3]) = [root |-> FileAbove(q), depth |-> 4]
    <2> TAKE q \in Fixtures.posts
    <2>1. 0 \in 0..3 /\ 1 \in 0..3 /\ 2 \in 0..3 /\ 3 \in 0..3
      OBVIOUS
    <2>2. 0 + 1 = 1 /\ 1 + 1 = 2 /\ 2 + 1 = 3 /\ 3 + 1 = 4
      OBVIOUS
    <2>3. FileAbove(q) = Null =>
            /\ Round([root |-> q, depth |-> 0]) = [root |-> q, depth |-> 0]
            /\ Round([root |-> q, depth |-> 1]) = [root |-> q, depth |-> 1]
            /\ Round([root |-> q, depth |-> 2]) = [root |-> q, depth |-> 2]
            /\ Round([root |-> q, depth |-> 3]) = [root |-> q, depth |-> 3]
      BY <1>3, <2>1
    <2>4. FileAbove(q) # Null =>
            /\ Round([root |-> q, depth |-> 0]) = [root |-> FileAbove(q), depth |-> 0 + 1]
            /\ Round([root |-> q, depth |-> 1]) = [root |-> FileAbove(q), depth |-> 1 + 1]
            /\ Round([root |-> q, depth |-> 2]) = [root |-> FileAbove(q), depth |-> 2 + 1]
            /\ Round([root |-> q, depth |-> 3]) = [root |-> FileAbove(q), depth |-> 3 + 1]
      BY <1>3, <2>1
    <2> QED
      BY <2>2, <2>3, <2>4
  <1>5. PostThreadFields(p) = Round(Round(Round(Round([root |-> p, depth |-> 0]))))
    BY DEF PostThreadFields
  <1>6. CASE a = Null
    <2>1. Round([root |-> p, depth |-> 0]) = [root |-> p, depth |-> 0]
      BY <1>4, <1>6
    <2>2. PostThreadFields(p) = [root |-> p, depth |-> 0]
      BY <1>5, <2>1
    <2> QED
      BY <1>1, <1>6, <2>2
  <1>7. CASE a # Null /\ b = Null
    <2>1. Round([root |-> p, depth |-> 0]) = [root |-> a, depth |-> 1]
      BY <1>4, <1>7
    <2>2. a \in Fixtures.posts /\ Round([root |-> a, depth |-> 1]) = [root |-> a, depth |-> 1]
      BY <1>1, <1>4, <1>7
    <2>3. PostThreadFields(p) = [root |-> a, depth |-> 1]
      BY <1>5, <2>1, <2>2
    <2> QED
      BY <1>1, <1>7, <2>3
  <1>8. CASE a # Null /\ b # Null
    <2>1. Round([root |-> p, depth |-> 0]) = [root |-> a, depth |-> 1]
      BY <1>4, <1>8
    <2>2. a \in Fixtures.posts /\ Round([root |-> a, depth |-> 1]) = [root |-> b, depth |-> 2]
      BY <1>1, <1>4, <1>8
    <2>3. b \in Fixtures.posts
      BY <1>1, <1>8
    <2>4. ASSUME c = Null
          PROVE  Round([root |-> b, depth |-> 2]) = [root |-> b, depth |-> 2]
      BY <1>4, <2>3, <2>4
    <2>5. ASSUME c # Null
          PROVE  /\ c \in Fixtures.posts
                 /\ Round([root |-> b, depth |-> 2]) = [root |-> c, depth |-> 3]
                 /\ d = Null => Round([root |-> c, depth |-> 3]) = [root |-> c, depth |-> 3]
                 /\ d # Null => Round([root |-> c, depth |-> 3]) = [root |-> d, depth |-> 4]
      <3>1. c \in Fixtures.posts
        BY <1>1, <2>5
      <3>2. Round([root |-> b, depth |-> 2]) = [root |-> c, depth |-> 3]
        BY <1>4, <2>3, <2>5
      <3> QED
        BY <1>4, <3>1, <3>2
    <2>6. c = Null => PostThreadFields(p) = [root |-> b, depth |-> 2]
      BY <1>5, <2>1, <2>2, <2>4
    <2>7. c # Null => /\ d = Null => PostThreadFields(p) = [root |-> c, depth |-> 3]
                      /\ d # Null => PostThreadFields(p) = [root |-> d, depth |-> 4]
      BY <1>5, <2>1, <2>2, <2>5
    <2> QED
      BY <1>1, <1>8, <2>6, <2>7
  <1> QED
    BY <1>1, <1>6, <1>7, <1>8

LEMMA FieldsType ==
    ASSUME NEW p \in Fixtures.posts
    PROVE  PostThreadFields(p) \in Thread /\ PostThreadFields(p).root \in Fixtures.posts
  <1> DEFINE a == FileAbove(p)
             b == FileAbove(a)
             c == FileAbove(b)
             d == FileAbove(c)
  <1> HIDE DEF a, b, c, d
  <1>1. /\ {a, b, c, d} \subseteq Fixtures.posts \cup {Null}
        /\ a = Null => PostThreadFields(p) = [root |-> p, depth |-> 0]
        /\ a # Null /\ b = Null => PostThreadFields(p) = [root |-> a, depth |-> 1]
        /\ a # Null /\ b # Null /\ c = Null => PostThreadFields(p) = [root |-> b, depth |-> 2]
        /\ a # Null /\ b # Null /\ c # Null /\ d = Null
              => PostThreadFields(p) = [root |-> c, depth |-> 3]
        /\ a # Null /\ b # Null /\ c # Null /\ d # Null
              => PostThreadFields(p) = [root |-> d, depth |-> 4]
    BY FieldsDef DEF a, b, c, d
  <1>2. Fixtures.posts \subseteq Posts
    BY SchemaAssumption DEF SchemaAssumption
  <1> QED
    BY <1>1, <1>2 DEF Thread, MaxReplyDepth

(* The query and the seed agree about the posts of the fixture files. *)
LEMMA QueryAgreesWithLoop ==
    ASSUME NEW table, NEW p \in Fixtures.posts, NEW Rows, p \in Rows,
           \A q \in Rows \cap Fixtures.posts : /\ table[q].parent = Parent[q]
                                              /\ Parent[q] \in Rows \cup {Null}
    PROVE  Resolved(table, p) = PostThreadFields(p)
  <1> DEFINE a == FileAbove(p)
             b == FileAbove(a)
             c == FileAbove(b)
             d == FileAbove(c)
  <1>1. \A q \in (Rows \cap Fixtures.posts) \cup {Null} :
          /\ Above(table, q) = FileAbove(q)
          /\ FileAbove(q) \in (Rows \cap Fixtures.posts) \cup {Null}
    BY FileAboveType DEF Above, FileAbove
  <1>2. /\ a = Above(table, p) /\ b = Above(table, a)
        /\ c = Above(table, b) /\ d = Above(table, c)
    BY <1>1
  <1>3. /\ a = Null => PostThreadFields(p) = [root |-> p, depth |-> 0]
        /\ a # Null /\ b = Null => PostThreadFields(p) = [root |-> a, depth |-> 1]
        /\ a # Null /\ b # Null /\ c = Null => PostThreadFields(p) = [root |-> b, depth |-> 2]
        /\ a # Null /\ b # Null /\ c # Null /\ d = Null
              => PostThreadFields(p) = [root |-> c, depth |-> 3]
        /\ a # Null /\ b # Null /\ c # Null /\ d # Null
              => PostThreadFields(p) = [root |-> d, depth |-> 4]
    BY FieldsDef
  <1>4. p # Null
    BY NoneApart, SchemaAssumption DEF SchemaAssumption
  <1> HIDE DEF a, b, c, d
  <1>5. /\ a = Null => Resolved(table, p) = [root |-> p, depth |-> 0]
        /\ a # Null /\ b = Null => Resolved(table, p) = [root |-> a, depth |-> 1]
        /\ a # Null /\ b # Null /\ c = Null => Resolved(table, p) = [root |-> b, depth |-> 2]
        /\ a # Null /\ b # Null /\ c # Null /\ d = Null
              => Resolved(table, p) = [root |-> c, depth |-> 3]
        /\ a # Null /\ b # Null /\ c # Null /\ d # Null
              => Resolved(table, p) = [root |-> d, depth |-> 4]
    BY <1>2, <1>4, ResolvedCases
  <1> QED
    BY <1>3, <1>5

-----------------------------------------------------------------------------
(* The invariant *)

LEMMA InitInvariant == Init => SchemaInvariant
  BY NoneApart DEF Init, SchemaInvariant, TypeOK, PostsRefer, Clean, Dropped, Present, Empty, SameHandle

LEMMA CreateTablesKeeps ==
    ASSUME SchemaInvariant, NEW target \in {"v1", "head"}, CreateTables(target)
    PROVE  SchemaInvariant'
  <1>1. /\ agents = {} /\ authFixtures = {} /\ scenarioRuns = {}
        /\ posts = Empty(Posts) /\ events = Empty(V1Events) /\ findings = Empty(Findings)
    BY DEF SchemaInvariant, Dropped, CreateTables
  <1>2. TypeOK'
    BY <1>1 DEF SchemaInvariant, TypeOK, CreateTables, fixtureVars, evidenceVars, socialVars,
                Empty, Present, Scenarios
  <1>3. PostsRefer'
    BY <1>1 DEF PostsRefer, CreateTables, socialVars, Empty, Present
  <1>4. Clean'
    BY <1>1, SchemaAssumption DEF SchemaAssumption, Clean, CreateTables, fixtureVars, socialVars, Empty
  <1>5. Dropped'
    BY <1>1 DEF Dropped, CreateTables, fixtureVars, evidenceVars, socialVars
  <1> QED
    BY <1>2, <1>3, <1>4, <1>5 DEF SchemaInvariant

LEMMA UpgradeKeeps ==
    ASSUME SchemaInvariant, Upgrade
    PROVE  SchemaInvariant'
  <1> USE DEF SchemaInvariant
  <1>1. \A p \in Posts :
          /\ posts[p] = None => posts'[p] = None
          /\ posts[p] # None => /\ posts'[p] \in PostRows /\ posts'[p] # None
                                /\ posts'[p].parent = posts[p].parent
                                /\ posts'[p].run = posts[p].run
    <2> TAKE p \in Posts
    <2>1. posts'[p] = IF posts[p] = None THEN None
                      ELSE Row(posts[p].parent, posts[p].run, Resolved(posts, p))
      BY DEF Upgrade, UpgradePosts
    <2>2. ASSUME posts[p] # None
          PROVE  Row(posts[p].parent, posts[p].run, Resolved(posts, p)) \in PostRows \ {None}
      <3>1. Resolved(posts, p) \in Thread
        BY <2>2, ResolvedType DEF Present, TypeOK
      <3>2. posts[p].parent \in Posts \cup {Null} /\ posts[p].run \in ScenarioRuns \cup {Null}
        BY <2>2 DEF TypeOK, PostRows
      <3> QED
        BY <3>1, <3>2, RowType DEF Thread
    <2> QED
      BY <2>1, <2>2 DEF Row
  <1>2. posts' \in [Posts -> {None} \cup PostRows]
    BY <1>1 DEF Upgrade, UpgradePosts
  <1>3. Present(posts') = Present(posts)
    BY <1>1, <1>2 DEF Present, TypeOK
  <1>4. /\ \A r \in scenarioRuns : validationRuns'[ValidationRunId(r)] = r
        /\ \A v \in ValidationRuns :
              (\A r \in scenarioRuns : v # ValidationRunId(r)) => validationRuns'[v] = None
    <2>1. validationRuns' = [v \in ValidationRuns |->
            IF \E r \in scenarioRuns : v = ValidationRunId(r)
            THEN CHOOSE r \in scenarioRuns : v = ValidationRunId(r)
            ELSE [w \in ValidationRuns |-> None][v]]
      BY DEF Upgrade, UpgradeRuns
    <2>2. scenarioRuns \in SUBSET ScenarioRuns
      BY DEF TypeOK
    <2> QED
      BY <2>1, <2>2, CopyRuns
  <1>5. validationRuns' \in [ValidationRuns -> scenarioRuns \cup {None}]
    <2>1. DOMAIN validationRuns' = ValidationRuns
          /\ validationRuns' = [v \in ValidationRuns |-> validationRuns'[v]]
      BY DEF Upgrade, UpgradeRuns
    <2>2. ASSUME NEW v \in ValidationRuns PROVE validationRuns'[v] \in scenarioRuns \cup {None}
      BY <1>4
    <2> QED
      BY <2>1, <2>2
  <1>6. \A r \in scenarioRuns : ValidationRunId(r) \in Present(validationRuns')
    BY <1>4, <1>5, CopiedRun, NoneApart DEF TypeOK, Present
  <1>7. findings' \in [Findings -> {None} \cup Present(validationRuns')]
    <2>1. \A f \in Findings : findings[f] \in scenarioRuns \cup {None}
      BY DEF TypeOK, Upgrade, Upgradable, Scenarios
    <2> QED
      BY <2>1, <1>6 DEF Upgrade, UpgradeFindings
  <1>8. validationEvents' \in [Events -> Present(validationRuns') \cup {None}]
    BY <1>6 DEF TypeOK, Upgrade, UpgradeEvents
  <1>9. TypeOK'
    BY <1>2, <1>5, <1>7, <1>8
       DEF TypeOK, Upgrade, UpgradeAgents, UpgradeTokens, UpgradeRelations, Scenarios
  <1>10. PostsRefer'
    BY <1>1, <1>3 DEF PostsRefer, Upgrade, Scenarios, Present, TypeOK
  <1>11. Clean' /\ Dropped'
    BY <1>1, SchemaAssumption DEF SchemaAssumption, Clean, Dropped, Upgrade, Upgradable, SameHandle
  <1> QED
    BY <1>9, <1>10, <1>11

(* From the invariant alone: the foreign keys of V1 would come back. *)
LEMMA CanDowngrade ==
    ASSUME SchemaInvariant, revision = "head"
    PROVE  Downgradable
  BY NoneApart DEF SchemaInvariant, TypeOK, PostsRefer, Downgradable, ScenarioOf, Present

LEMMA DowngradeKeeps ==
    ASSUME SchemaInvariant, Downgrade
    PROVE  SchemaInvariant'
  <1> USE DEF SchemaInvariant
  <1>1. \A p \in Posts :
          /\ posts[p] = None => posts'[p] = None
          /\ posts[p] # None => /\ posts'[p] \in PostRows /\ posts'[p] # None
                                /\ posts'[p].parent = posts[p].parent
                                /\ posts'[p].run = posts[p].run
    <2> TAKE p \in Posts
    <2>1. posts'[p] = IF posts[p] = None THEN None
                      ELSE Row(posts[p].parent, posts[p].run, NoThread)
      BY DEF Downgrade, DowngradePosts
    <2>2. NoThread \in [root : Posts \cup {Null}, depth : 0..MaxReplyDepth]
      BY DEF NoThread, MaxReplyDepth
    <2>3. posts[p] # None => /\ posts[p].parent \in Posts \cup {Null}
                             /\ posts[p].run \in ScenarioRuns \cup {Null}
      BY DEF TypeOK, PostRows
    <2>4. posts[p] # None => Row(posts[p].parent, posts[p].run, NoThread) \in PostRows \ {None}
      BY <2>2, <2>3, RowType
    <2> QED
      BY <2>1, <2>4 DEF Row
  <1>2. posts' \in [Posts -> {None} \cup PostRows]
    BY <1>1 DEF Downgrade, DowngradePosts
  <1>3. Present(posts') = Present(posts)
    BY <1>1, <1>2 DEF Present, TypeOK
  <1>4. findings' \in [Findings -> {None} \cup Scenarios]
    BY DEF Downgrade, DowngradeEvidence, Downgradable, ScenarioOf, Present, TypeOK
  <1>5. /\ validationRuns' \in [ValidationRuns -> Scenarios \cup {None}]
        /\ validationEvents' \in [Events -> Present(validationRuns') \cup {None}]
    BY DEF Downgrade, DowngradeEvidence, Empty
  <1>6. TypeOK'
    BY <1>2, <1>4, <1>5 DEF TypeOK, Downgrade, Scenarios
  <1>7. PostsRefer'
    BY <1>1, <1>3 DEF PostsRefer, Downgrade, Scenarios, Present, TypeOK
  <1>8. Clean' /\ Dropped'
    BY <1>1, SchemaAssumption DEF SchemaAssumption, Clean, Dropped, Downgrade, SameHandle
  <1> QED
    BY <1>6, <1>7, <1>8

LEMMA ClearKeeps ==
    ASSUME SchemaInvariant, ClearTables, revision' \in {"base", "head"}, returned' \in BOOLEAN
    PROVE  SchemaInvariant'
  <1>1. TypeOK'
    BY NoneApart DEF SchemaInvariant, TypeOK, ClearTables, Empty, Present, Scenarios
  <1>2. PostsRefer' /\ Clean' /\ Dropped'
    BY NoneApart, SchemaAssumption
       DEF SchemaAssumption, PostsRefer, Clean, Dropped, ClearTables, Empty, Present, Scenarios
  <1> QED
    BY <1>1, <1>2 DEF SchemaInvariant

(* Writes that leave the rows of posts alone, and take no agent, scenario run  *)
(* or post away.                                                             *)
LEMMA PostsStayReferring ==
    ASSUME PostsRefer, posts' = posts, scenarioRuns \subseteq scenarioRuns'
    PROVE  PostsRefer'
  BY DEF PostsRefer, Present, Scenarios

LEMMA V1Keeps ==
    ASSUME SchemaInvariant,
           \/ \E a \in Agents : V1Agent(a)
           \/ \E o \in Owners : V1Token(o)
           \/ \E r \in ScenarioRuns : V1Run(r)
           \/ \E x \in DOMAIN Ran : V1Evidence(x)
    PROVE  SchemaInvariant'
  <1>1. V1Only /\ posts' = posts /\ scenarioRuns \subseteq scenarioRuns'
        /\ validationRuns' = validationRuns /\ validationEvents' = validationEvents
    BY DEF V1Agent, V1Token, V1Run, V1Evidence, evidenceVars
  <1>2. PostsRefer'
    BY <1>1, PostsStayReferring DEF SchemaInvariant
  <1>3. Clean' /\ Dropped'
    BY <1>1 DEF Clean, Dropped, V1Only
  <1>4. ASSUME \E a \in Agents : V1Agent(a)
        PROVE  TypeOK'
    BY <1>4, <1>1 DEF SchemaInvariant, TypeOK, V1Agent, V1Only, evidenceVars, Scenarios
  <1>5. ASSUME \E o \in Owners : V1Token(o)
        PROVE  TypeOK'
    BY <1>5, <1>1 DEF SchemaInvariant, TypeOK, V1Token, V1Only, evidenceVars, Scenarios
  <1>6. ASSUME \E r \in ScenarioRuns : V1Run(r)
        PROVE  TypeOK'
    BY <1>6, <1>1 DEF SchemaInvariant, TypeOK, V1Run, V1Only, Scenarios
  <1>7. ASSUME \E x \in DOMAIN Ran : V1Evidence(x)
        PROVE  TypeOK'
    <2>1. PICK x \in DOMAIN Ran : V1Evidence(x)
      BY <1>7
    <2>2. revision = "v1" /\ revision' = "v1" /\ Ran[x] \in scenarioRuns
      BY <2>1 DEF V1Evidence, V1Only
    <2>3. events' \in [V1Events -> scenarioRuns \cup {None}]
      BY <2>1, <2>2 DEF V1Evidence, V1Events, SchemaInvariant, TypeOK
    <2>4. findings' \in [Findings -> {None} \cup Scenarios]
      BY <2>1, <2>2 DEF V1Evidence, SchemaInvariant, TypeOK, Scenarios
    <2>5. /\ scenarioRuns' = scenarioRuns /\ agents' = agents /\ authFixtures' = authFixtures
          /\ flagged' = flagged /\ tokens' = tokens /\ relations' = relations /\ returned' = FALSE
      BY <2>1 DEF V1Evidence, V1Only
    <2> QED
      BY <1>1, <2>2, <2>3, <2>4, <2>5 DEF SchemaInvariant, TypeOK, Scenarios
  <1>8. TypeOK'
    BY <1>4, <1>5, <1>6, <1>7 DEF SchemaInvariant
  <1> QED
    BY <1>2, <1>3, <1>8 DEF SchemaInvariant

(* One post more. *)
LEMMA PostAdded ==
    ASSUME SchemaInvariant, NEW p \in Posts, posts[p] = None,
           NEW row \in PostRows, posts' = [posts EXCEPT ![p] = row],
           row.parent \in Present(posts) \cup {Null}, row.run \in Scenarios,
           scenarioRuns' = scenarioRuns
    PROVE  /\ posts' \in [Posts -> {None} \cup PostRows]
           /\ Present(posts') = Present(posts) \cup {p}
           /\ PostsRefer'
  <1>1. posts \in [Posts -> {None} \cup PostRows] /\ row # None
    BY SchemaAssumption DEF SchemaAssumption, SchemaInvariant, TypeOK
  <1>2. Present(posts') = Present(posts) \cup {p}
    BY <1>1 DEF Present
  <1> QED
    BY <1>1, <1>2 DEF SchemaInvariant, PostsRefer, Scenarios, Present

LEMMA V1PostKeeps ==
    ASSUME SchemaInvariant, NEW p \in Posts, V1Post(p)
    PROVE  SchemaInvariant'
  <1> DEFINE row == Row(Parent[p], RunOf[p], NoThread)
  <1>1. /\ Parent[p] \in Posts \cup {Null} /\ RunOf[p] \in ScenarioRuns \cup {Null}
        /\ Parent[p] \in Present(posts) \cup {Null}
    BY SchemaAssumption DEF SchemaAssumption, SchemaInvariant, TypeOK, V1Post, Present
  <1>2. NoThread \in [root : Posts \cup {Null}, depth : 0..MaxReplyDepth]
    BY DEF NoThread, MaxReplyDepth
  <1>3. row \in PostRows /\ row.parent = Parent[p] /\ row.run = RunOf[p]
    BY <1>1, <1>2, RowType DEF Row
  <1>4. posts[p] = None /\ posts' = [posts EXCEPT ![p] = row] /\ RunOf[p] \in Scenarios
        /\ scenarioRuns' = scenarioRuns
    BY DEF V1Post, evidenceVars
  <1> HIDE DEF row
  <1>5. /\ posts' \in [Posts -> {None} \cup PostRows]
        /\ Present(posts') = Present(posts) \cup {p}
        /\ PostsRefer'
    BY <1>1, <1>3, <1>4, PostAdded
  <1>6. TypeOK'
    BY <1>5 DEF SchemaInvariant, TypeOK, V1Post, V1Only, evidenceVars, Scenarios
  <1>7. Clean' /\ Dropped'
    BY DEF Clean, Dropped, V1Post, V1Only
  <1> QED
    BY <1>5, <1>6, <1>7 DEF SchemaInvariant

(* A parent that is there has its thread. *)
LEMMA ReplyThreadType ==
    ASSUME TypeOK, NEW p \in Posts, NEW parent \in Posts \cup {Null},
           parent # Null => posts[parent] # None,
           ReplyThread(p, parent).depth <= MaxReplyDepth
    PROVE  /\ ReplyThread(p, parent) \in [root : Posts \cup {Null}, depth : 0..MaxReplyDepth]
           /\ parent \in Present(posts) \cup {Null}
  <1>1. CASE parent = Null
    BY <1>1 DEF ReplyThread, MaxReplyDepth
  <1>2. CASE parent # Null
    <2>1. parent \in Present(posts) /\ posts[parent] \in PostRows
      BY <1>2 DEF TypeOK, Present
    <2>2. posts[parent].root \in Posts \cup {Null} /\ posts[parent].depth \in 0..MaxReplyDepth
      BY <2>1 DEF PostRows
    <2>3. ReplyThread(p, parent) = [root |-> posts[parent].root, depth |-> posts[parent].depth + 1]
      BY <1>2 DEF ReplyThread
    <2> QED
      BY <2>1, <2>2, <2>3 DEF MaxReplyDepth
  <1> QED
    BY <1>1, <1>2

LEMMA InsertPostKeeps ==
    ASSUME SchemaInvariant, NEW p \in Posts, NEW parent \in Posts \cup {Null}, InsertPost(p, parent)
    PROVE  SchemaInvariant'
  <1> DEFINE row == Row(parent, Null, ReplyThread(p, parent))
  <1>1. /\ ReplyThread(p, parent) \in [root : Posts \cup {Null}, depth : 0..MaxReplyDepth]
        /\ parent \in Present(posts) \cup {Null}
    BY ReplyThreadType DEF SchemaInvariant, InsertPost
  <1>2. row \in PostRows /\ row.parent = parent /\ row.run = Null
    BY <1>1, RowType DEF Row
  <1>3. posts[p] = None /\ posts' = [posts EXCEPT ![p] = row] /\ scenarioRuns' = scenarioRuns
        /\ Null \in Scenarios /\ p \notin Long
    BY SchemaAssumption DEF SchemaAssumption, InsertPost, HeadOnly, Scenarios
  <1> HIDE DEF row
  <1>4. /\ posts' \in [Posts -> {None} \cup PostRows]
        /\ Present(posts') = Present(posts) \cup {p}
        /\ PostsRefer'
    BY <1>1, <1>2, <1>3, PostAdded
  <1>5. TypeOK'
    BY <1>4 DEF SchemaInvariant, TypeOK, InsertPost, HeadOnly, Scenarios
  <1>6. Clean' /\ Dropped'
    BY <1>3, SchemaAssumption
       DEF SchemaAssumption, SchemaInvariant, TypeOK, Clean, Dropped, InsertPost, HeadOnly, SameHandle
  <1> QED
    BY <1>4, <1>5, <1>6 DEF SchemaInvariant

LEMMA SignupKeeps ==
    ASSUME SchemaInvariant, NEW a \in Agents, Signup(a)
    PROVE  SchemaInvariant'
  <1>1. TypeOK'
    BY DEF SchemaInvariant, TypeOK, Signup, HeadOnly, Scenarios
  <1>2. PostsRefer'
    BY PostsStayReferring DEF SchemaInvariant, Signup, HeadOnly
  <1>3. Clean' /\ Dropped'
    BY DEF SchemaInvariant, Clean, Dropped, Signup, HeadOnly, SameHandle
  <1> QED
    BY <1>1, <1>2, <1>3 DEF SchemaInvariant

LEMMA EvidenceKeeps ==
    ASSUME SchemaInvariant,
           \/ \E v \in DynamicRuns : CreateValidationRun(v)
           \/ \E x \in Events \cup Findings, v \in ValidationRuns : CreateEvidence(x, v)
           \/ \E x \in Relations : Relate(x)
    PROVE  SchemaInvariant'
  <1>1. HeadOnly /\ posts' = posts /\ agents' = agents
    BY DEF CreateValidationRun, CreateEvidence, Relate
  <1>2. PostsRefer'
    BY <1>1, PostsStayReferring DEF SchemaInvariant, HeadOnly
  <1>3. Clean' /\ Dropped'
    BY <1>1 DEF SchemaInvariant, Clean, Dropped, HeadOnly, SameHandle
  <1>4. ASSUME \E v \in DynamicRuns : CreateValidationRun(v)
        PROVE  TypeOK'
    <2>1. PICK v \in DynamicRuns : CreateValidationRun(v)
      BY <1>4
    <2>2. Present(validationRuns') = Present(validationRuns) \cup {v}
      BY <2>1, NoneApart DEF CreateValidationRun, SchemaInvariant, TypeOK, Present, ValidationRuns
    <2> QED
      BY <2>1, <2>2 DEF SchemaInvariant, TypeOK, CreateValidationRun, HeadOnly, Scenarios
  <1>5. ASSUME \E x \in Events \cup Findings, v \in ValidationRuns : CreateEvidence(x, v)
        PROVE  TypeOK'
    <2>1. PICK x \in Events \cup Findings, v \in ValidationRuns : CreateEvidence(x, v)
      BY <1>5
    <2>2. v \in Present(validationRuns)
      BY <2>1 DEF CreateEvidence, SchemaInvariant, TypeOK, Present
    <2> QED
      BY <2>1, <2>2 DEF SchemaInvariant, TypeOK, CreateEvidence, HeadOnly, Scenarios
  <1>6. ASSUME \E x \in Relations : Relate(x)
        PROVE  TypeOK'
    BY <1>6, <1>1 DEF SchemaInvariant, TypeOK, Relate, HeadOnly, Scenarios
  <1>7. TypeOK'
    BY <1>4, <1>5, <1>6
  <1> QED
    BY <1>2, <1>3, <1>7 DEF SchemaInvariant

LEMMA SeedKeeps ==
    ASSUME SchemaInvariant, Seed
    PROVE  SchemaInvariant'
  <1> USE DEF SchemaInvariant
  <1>1. \A p \in Posts :
          /\ p \in Fixtures.posts => /\ posts'[p] \in PostRows /\ posts'[p] # None
                                     /\ posts'[p].parent = Parent[p]
                                     /\ posts'[p].run = RunOf[p]
          /\ p \notin Fixtures.posts => posts'[p] = posts[p]
    <2> TAKE p \in Posts
    <2>1. posts'[p] = IF p \in Fixtures.posts THEN Row(Parent[p], RunOf[p], PostThreadFields(p))
                      ELSE posts[p]
      BY DEF Seed, SeedPosts
    <2>2. ASSUME p \in Fixtures.posts
          PROVE  Row(Parent[p], RunOf[p], PostThreadFields(p)) \in PostRows \ {None}
      <3>1. PostThreadFields(p) \in [root : Posts \cup {Null}, depth : 0..MaxReplyDepth]
        BY <2>2, FieldsType DEF Thread
      <3>2. Parent[p] \in Posts \cup {Null} /\ RunOf[p] \in ScenarioRuns \cup {Null}
        BY <2>2, SchemaAssumption DEF SchemaAssumption
      <3> QED
        BY <3>1, <3>2, RowType
    <2> QED
      BY <2>1, <2>2 DEF Row
  <1>2. posts' \in [Posts -> {None} \cup PostRows]
    BY <1>1 DEF Seed, SeedPosts, TypeOK
  <1>3. Present(posts') = Present(posts) \cup Fixtures.posts
    BY <1>1, <1>2, SchemaAssumption DEF SchemaAssumption, Present, TypeOK
  <1>4. /\ \A r \in Fixtures.runs : validationRuns'[ValidationRunId(r)] = r
        /\ \A v \in ValidationRuns :
              (\A r \in Fixtures.runs : v # ValidationRunId(r)) => validationRuns'[v] = validationRuns[v]
    <2>1. Fixtures.runs \in SUBSET ScenarioRuns
      BY SchemaAssumption DEF SchemaAssumption
    <2>2. validationRuns' = [v \in ValidationRuns |->
            IF \E r \in Fixtures.runs : v = ValidationRunId(r)
            THEN CHOOSE r \in Fixtures.runs : v = ValidationRunId(r) ELSE validationRuns[v]]
      BY DEF Seed, SeedRuns
    <2> QED
      BY <2>1, <2>2, CopyRuns
  <1>5. validationRuns' \in [ValidationRuns -> Scenarios' \cup {None}]
    <2>1. DOMAIN validationRuns' = ValidationRuns
          /\ validationRuns' = [v \in ValidationRuns |-> validationRuns'[v]]
      BY DEF Seed, SeedRuns
    <2>2. ASSUME NEW v \in ValidationRuns PROVE validationRuns'[v] \in Scenarios' \cup {None}
      BY <1>4 DEF Seed, SeedRuns, TypeOK, Scenarios
    <2> QED
      BY <2>1, <2>2
  <1>6. /\ \A r \in Fixtures.runs : ValidationRunId(r) \in Present(validationRuns')
        /\ Present(validationRuns) \subseteq Present(validationRuns')
    BY <1>4, <1>5, CopiedRun, NoneApart, SchemaAssumption DEF SchemaAssumption, TypeOK, Present
  <1>7. /\ \A x \in Fixtures.events \cup Fixtures.findings : Ran[x] \in Fixtures.runs
        /\ Fixtures.agents \subseteq Agents /\ Fixtures.runs \subseteq ScenarioRuns
        /\ Fixtures.tokens \subseteq Fixtures.agents \cup {Harness}
    BY SchemaAssumption DEF SchemaAssumption
  <1>8. revision = "head" /\ scenarioRuns' = scenarioRuns \cup Fixtures.runs
        /\ revision' = revision /\ relations' = relations /\ returned' = returned
    BY DEF Seed, SeedRuns
  <1>9. findings' \in [Findings -> {None} \cup Present(validationRuns')]
    BY <1>6, <1>7, <1>8 DEF Seed, SeedFindings, TypeOK
  <1>10. validationEvents' \in [Events -> Present(validationRuns') \cup {None}]
    BY <1>6, <1>7 DEF Seed, SeedEvents, TypeOK
  <1>11. events' \in [V1Events -> scenarioRuns' \cup {None}]
    BY <1>7, <1>8 DEF Seed, SeedEvents, TypeOK
  <1>12. /\ agents' = agents \cup Fixtures.agents
         /\ agents' \subseteq Agents /\ flagged' \subseteq agents'
         /\ authFixtures' \subseteq agents' \cup {Harness}
         /\ tokens' \subseteq agents' \cup {Harness}
    BY <1>7 DEF Seed, SeedAgents, TypeOK
  <1>13. TypeOK'
    BY <1>2, <1>3, <1>5, <1>7, <1>8, <1>9, <1>10, <1>11, <1>12 DEF TypeOK
  <1>14. PostsRefer'
    <2>1. \A p \in Fixtures.posts : /\ Parent[p] \in Fixtures.posts \cup {Null}
                                    /\ RunOf[p] \in Fixtures.runs \cup {Null}
      BY SchemaAssumption DEF SchemaAssumption
    <2>2. ASSUME NEW p \in Present(posts')
          PROVE  /\ posts'[p].parent \in Present(posts') \cup {Null}
                 /\ posts'[p].run \in Scenarios'
      <3>1. p \in Posts
        BY <1>2 DEF Present
      <3>2. CASE p \in Fixtures.posts
        BY <3>1, <3>2, <2>1, <1>1, <1>3, <1>8 DEF Scenarios
      <3>3. CASE p \notin Fixtures.posts
        <4>1. p \in Present(posts) /\ posts'[p] = posts[p]
          BY <3>1, <3>3, <1>1, <1>3
        <4>2. posts[p].parent \in Present(posts) \cup {Null} /\ posts[p].run \in Scenarios
          BY <4>1 DEF PostsRefer
        <4> QED
          BY <4>1, <4>2, <1>3, <1>8 DEF Scenarios
      <3> QED
        BY <3>2, <3>3
    <2> QED
      BY <2>2 DEF PostsRefer
  <1>15. Clean'
    <2>1. \A p \in Long : posts'[p] = None
      BY <1>1, <1>8, SchemaAssumption DEF SchemaAssumption, Clean
    <2>2. \A a, b \in agents' : SameHandle(a, b) => a = b
      BY <1>8, <1>12, SchemaAssumption DEF SchemaAssumption, Seed, Clean, SameHandle
    <2> QED
      BY <2>1, <2>2 DEF Clean, SameHandle
  <1>16. Dropped'
    BY <1>8 DEF Dropped
  <1> QED
    BY <1>13, <1>14, <1>15, <1>16

LEMMA Inductive == SchemaInvariant /\ [Next]_vars => SchemaInvariant'
  <1> SUFFICES ASSUME SchemaInvariant, [Next]_vars PROVE SchemaInvariant'
    OBVIOUS
  <1>1. CASE CreateTables("v1") \/ CreateTables("head")
    BY <1>1, CreateTablesKeeps
  <1>2. CASE Upgrade
    BY <1>2, UpgradeKeeps
  <1>3. CASE Downgrade
    BY <1>3, DowngradeKeeps
  <1>4. CASE DropTables
    BY <1>4, ClearKeeps DEF DropTables
  <1>5. CASE \/ \E a \in Agents : V1Agent(a)
             \/ \E o \in Owners : V1Token(o)
             \/ \E r \in ScenarioRuns : V1Run(r)
             \/ \E x \in DOMAIN Ran : V1Evidence(x)
    BY <1>5, V1Keeps
  <1>6. CASE \E a \in Agents : Signup(a)
    BY <1>6, SignupKeeps
  <1>7. CASE \E p \in Posts : V1Post(p)
    BY <1>7, V1PostKeeps
  <1>8. CASE \E p \in Posts : \E parent \in Posts \cup {Null} : InsertPost(p, parent)
    BY <1>8, InsertPostKeeps
  <1>9. CASE \/ \E v \in DynamicRuns : CreateValidationRun(v)
             \/ \E x \in Events \cup Findings, v \in ValidationRuns : CreateEvidence(x, v)
             \/ \E x \in Relations : Relate(x)
    BY <1>9, EvidenceKeeps
  <1>10. CASE Seed
    BY <1>10, SeedKeeps
  <1>11. CASE Clear
    BY <1>11, ClearKeeps DEF Clear, SchemaInvariant, TypeOK
  <1>12. CASE UNCHANGED vars
    BY <1>12 DEF vars, fixtureVars, evidenceVars, socialVars, SchemaInvariant, TypeOK, PostsRefer,
                 Clean, Dropped, Present, Empty, Scenarios, SameHandle
  <1> QED
    BY <1>1, <1>2, <1>3, <1>4, <1>5, <1>6, <1>7, <1>8, <1>9, <1>10, <1>11, <1>12 DEF Next

(* What a revision's rows can be: the inductive invariant of the commands.     *)
THEOREM InvariantHolds == Spec => []SchemaInvariant
  BY InitInvariant, Inductive, PTL DEF Spec

(* Every row refers to rows that are there, at every revision. *)
THEOREM TypeCorrect == Spec => []TypeOK
  <1>1. SchemaInvariant => TypeOK
    BY DEF SchemaInvariant
  <1> QED
    BY <1>1, InvariantHolds, PTL

(* A downgrade of 0002 (versions/20260507_0002, downgrade) never fails.        *)
THEOREM DowngradeNeverFails == Spec => []DowngradePossible
  <1>1. SchemaInvariant => DowngradePossible
    BY CanDowngrade DEF DowngradePossible
  <1> QED
    BY <1>1, InvariantHolds, PTL

(* Nor does the upgrade after it, unless a finding was made under a run of the  *)
(* route.                                                                   *)
THEOREM ReupgradeNeverFails == Spec => []ReupgradePossible
  <1>1. SchemaInvariant => ReupgradePossible
    BY DEF SchemaInvariant, Clean, ReupgradePossible, Upgradable
  <1> QED
    BY <1>1, InvariantHolds, PTL

-----------------------------------------------------------------------------
(* The rows of V1 and those that replace them *)

(* Nothing but a copy names a scenario run. *)
LEMMA CarriedRuns ==
    ASSUME NEW S, NEW table, NEW r \in S,
           \A q \in S : ValidationRunId(q) \in ValidationRuns /\ table[ValidationRunId(q)] = q,
           \A v \in ValidationRuns : (\A q \in S : v # ValidationRunId(q)) => table[v] \notin S
    PROVE  {v \in ValidationRuns : table[v] = r} = {ValidationRunId(r)}
  OBVIOUS

LEMMA UpgradeCarries ==
    ASSUME SchemaInvariant, Upgrade
    PROVE  V1RowsCarried'
  <1> USE DEF SchemaInvariant
  <1>1. scenarioRuns \in SUBSET ScenarioRuns /\ scenarioRuns' = scenarioRuns
    BY DEF TypeOK, Upgrade
  <1>2. validationRuns' = [v \in ValidationRuns |->
            IF \E r \in scenarioRuns : v = ValidationRunId(r)
            THEN CHOOSE r \in scenarioRuns : v = ValidationRunId(r)
            ELSE [w \in ValidationRuns |-> None][v]]
    BY DEF Upgrade, UpgradeRuns
  <1>3. /\ \A r \in scenarioRuns : validationRuns'[ValidationRunId(r)] = r
        /\ \A v \in ValidationRuns :
              (\A r \in scenarioRuns : v # ValidationRunId(r)) => validationRuns'[v] = None
    BY <1>1, <1>2, CopyRuns
  <1>4. \A r \in scenarioRuns :
          {v \in ValidationRuns : validationRuns'[v] = r} = {ValidationRunId(r)}
    <2>1. None \notin scenarioRuns
          /\ \A r \in scenarioRuns : ValidationRunId(r) \in ValidationRuns
      BY <1>1, NoneApart, CopiedRun
    <2> QED
      BY <2>1, <1>3, CarriedRuns
  <1>5. \A e \in Present(events') : validationEvents'[e] = ValidationRunId(events'[e])
    BY DEF Upgrade, UpgradeEvents, Present, TypeOK, V1Events
  <1>6. authFixtures' \subseteq tokens'
    BY DEF Upgrade, UpgradeTokens
  <1> QED
    BY <1>1, <1>4, <1>5, <1>6 DEF V1RowsCarried

LEMMA SeedCarries ==
    ASSUME SchemaInvariant, V1RowsCarried, Seed
    PROVE  V1RowsCarried'
  <1> USE DEF SchemaInvariant
  <1>1. /\ scenarioRuns \subseteq ScenarioRuns /\ Fixtures.runs \in SUBSET ScenarioRuns
        /\ scenarioRuns' = scenarioRuns \cup Fixtures.runs /\ revision = "head"
    BY SchemaAssumption DEF SchemaAssumption, TypeOK, Seed, SeedRuns
  <1>2. validationRuns' = [v \in ValidationRuns |->
            IF \E r \in Fixtures.runs : v = ValidationRunId(r)
            THEN CHOOSE r \in Fixtures.runs : v = ValidationRunId(r) ELSE validationRuns[v]]
    BY DEF Seed, SeedRuns
  <1>3. /\ \A r \in Fixtures.runs : validationRuns'[ValidationRunId(r)] = r
        /\ \A v \in ValidationRuns :
              (\A r \in Fixtures.runs : v # ValidationRunId(r)) => validationRuns'[v] = validationRuns[v]
    <2>1. Fixtures.runs \in SUBSET ScenarioRuns
      BY SchemaAssumption DEF SchemaAssumption
    <2> QED
      BY <2>1, <1>2, CopyRuns
  <1>4. \A r \in scenarioRuns : {v \in ValidationRuns : validationRuns[v] = r} = {ValidationRunId(r)}
    BY <1>1 DEF V1RowsCarried
  <1>5. \A r \in scenarioRuns' :
          {v \in ValidationRuns : validationRuns'[v] = r} = {ValidationRunId(r)}
    <2>1. \A r \in scenarioRuns' : ValidationRunId(r) \in ValidationRuns
      BY <1>1, CopiedRun
    <2>2. \A r \in scenarioRuns' : validationRuns'[ValidationRunId(r)] = r
      <3>1. ASSUME NEW r \in scenarioRuns, r \notin Fixtures.runs
            PROVE  validationRuns'[ValidationRunId(r)] = r
        <4>1. \A q \in Fixtures.runs : ValidationRunId(r) # ValidationRunId(q)
          BY <3>1, RunIdInjective
        <4> QED
          BY <4>1, <2>1, <1>1, <1>3, <1>4
      <3> QED
        BY <3>1, <1>1, <1>3
    <2>3. \A v \in ValidationRuns :
            (\A q \in scenarioRuns' : v # ValidationRunId(q)) => validationRuns'[v] \notin scenarioRuns'
      <3> SUFFICES ASSUME NEW v \in ValidationRuns, \A q \in scenarioRuns' : v # ValidationRunId(q)
                   PROVE  validationRuns[v] \notin scenarioRuns'
        BY <1>1, <1>3
      <3>1. validationRuns[v] \notin scenarioRuns
        BY <1>1, <1>4
      <3>2. validationRuns[v] \in scenarioRuns \cup {Null, None}
        BY DEF TypeOK, Scenarios
      <3>3. Null \notin ScenarioRuns /\ None \notin ScenarioRuns
        BY NoneApart
      <3> QED
        BY <3>1, <3>2, <3>3, <1>1
    <2> QED
      BY <2>1, <2>2, <2>3, CarriedRuns
  <1>6. \A e \in Present(events') : validationEvents'[e] = ValidationRunId(events'[e])
    <2>1. \A e \in Present(events) : validationEvents[e] = ValidationRunId(events[e])
      BY <1>1 DEF V1RowsCarried
    <2> QED
      BY <2>1 DEF Seed, SeedEvents, Present, TypeOK, V1Events
  <1>7. authFixtures' \subseteq tokens'
    BY <1>1 DEF Seed, SeedAgents, V1RowsCarried
  <1> QED
    BY <1>5, <1>6, <1>7 DEF V1RowsCarried

LEMMA RoutesCarry ==
    ASSUME SchemaInvariant, V1RowsCarried, HeadOnly,
           tokens \subseteq tokens',
           \A e \in V1Events : validationEvents'[e] = validationEvents[e],
           \/ validationRuns' = validationRuns
           \/ \E v \in DynamicRuns : validationRuns' = [validationRuns EXCEPT ![v] = Null]
    PROVE  V1RowsCarried'
  <1> USE DEF SchemaInvariant
  <1>1. /\ scenarioRuns' = scenarioRuns /\ events' = events /\ authFixtures' = authFixtures
        /\ revision = "head"
    BY DEF HeadOnly
  <1>2. ASSUME NEW r \in scenarioRuns
        PROVE  {v \in ValidationRuns : validationRuns'[v] = r} = {ValidationRunId(r)}
    <2>1. {v \in ValidationRuns : validationRuns[v] = r} = {ValidationRunId(r)}
      BY <1>1, <1>2 DEF V1RowsCarried
    <2>2. r # Null /\ r \in ScenarioRuns /\ ValidationRunId(r) \notin DynamicRuns
      BY <1>2, NoneApart, CopiedRun DEF TypeOK
    <2>3. \A v \in ValidationRuns : validationRuns'[v] = r <=> validationRuns[v] = r
      BY <2>1, <2>2 DEF TypeOK
    <2> QED
      BY <2>1, <2>3
  <1>3. \A e \in Present(events') : validationEvents'[e] = ValidationRunId(events'[e])
    BY <1>1 DEF V1RowsCarried, Present, TypeOK
  <1> QED
    BY <1>1, <1>2, <1>3 DEF V1RowsCarried

LEMMA CarriedInductive == SchemaInvariant /\ V1RowsCarried /\ [Next]_vars => V1RowsCarried'
  <1> SUFFICES ASSUME SchemaInvariant, V1RowsCarried, [Next]_vars PROVE V1RowsCarried'
    OBVIOUS
  <1>1. CASE CreateTables("v1") \/ CreateTables("head")
    <2>1. /\ authFixtures = {} /\ scenarioRuns = {} /\ events = Empty(V1Events)
      BY <1>1 DEF SchemaInvariant, Dropped, CreateTables
    <2>2. authFixtures' = {} /\ scenarioRuns' = {} /\ events' = Empty(V1Events)
      BY <1>1, <2>1 DEF CreateTables, fixtureVars, evidenceVars
    <2> QED
      BY <2>2 DEF V1RowsCarried, Present, Empty
  <1>2. CASE Upgrade
    BY <1>2, UpgradeCarries
  <1>3. CASE Downgrade \/ DropTables
    <2>1. revision' # "head"
      BY <1>3 DEF Downgrade, DropTables
    <2> QED
      BY <2>1 DEF V1RowsCarried
  <1>4. CASE \/ \E a \in Agents : V1Agent(a)
             \/ \E o \in Owners : V1Token(o)
             \/ \E r \in ScenarioRuns : V1Run(r)
             \/ \E x \in DOMAIN Ran : V1Evidence(x)
             \/ \E p \in Posts : V1Post(p)
    <2>1. revision' # "head"
      BY <1>4 DEF V1Agent, V1Token, V1Run, V1Evidence, V1Post, V1Only
    <2> QED
      BY <2>1 DEF V1RowsCarried
  <1>5. CASE \E a \in Agents : Signup(a)
    BY <1>5, RoutesCarry DEF Signup
  <1>6. CASE \E p \in Posts : \E parent \in Posts \cup {Null} : InsertPost(p, parent)
    BY <1>6, RoutesCarry DEF InsertPost
  <1>7. CASE \E v \in DynamicRuns : CreateValidationRun(v)
    BY <1>7, RoutesCarry DEF CreateValidationRun
  <1>8. CASE \E x \in Events \cup Findings, v \in ValidationRuns : CreateEvidence(x, v)
    <2>1. PICK x \in Events \cup Findings, v \in ValidationRuns : CreateEvidence(x, v)
      BY <1>8
    <2>2. \A e \in V1Events : validationEvents'[e] = validationEvents[e]
      BY <2>1 DEF CreateEvidence, SchemaInvariant, TypeOK, V1Events
    <2>3. HeadOnly /\ tokens' = tokens /\ validationRuns' = validationRuns
      BY <2>1 DEF CreateEvidence
    <2> QED
      BY <2>2, <2>3, RoutesCarry
  <1>9. CASE \E x \in Relations : Relate(x)
    BY <1>9, RoutesCarry DEF Relate
  <1>10. CASE Seed
    BY <1>10, SeedCarries
  <1>11. CASE Clear
    BY <1>11 DEF Clear, ClearTables, V1RowsCarried, Present, Empty
  <1>12. CASE UNCHANGED vars
    BY <1>12 DEF vars, fixtureVars, evidenceVars, V1RowsCarried, Present
  <1> QED
    BY <1>1, <1>2, <1>3, <1>4, <1>5, <1>6, <1>7, <1>8, <1>9, <1>10, <1>11, <1>12 DEF Next

(* Whatever backfilled a V1 row and however often the seed and the reset ran,  *)
(* the rows that replace it at the head are there.                           *)
THEOREM V1RowsStayCarried == Spec => []V1RowsCarried
  <1>1. Init => V1RowsCarried
    BY DEF Init, V1RowsCarried
  <1> QED
    BY <1>1, InvariantHolds, CarriedInductive, PTL DEF Spec

-----------------------------------------------------------------------------
(* Threads at the head *)

(* The fixture files and the rows agree about who replies to whom. *)
FixtureParents ==
    \A p \in Fixtures.posts \cap Present(posts) : posts[p].parent = Parent[p]

(* No post is above itself: every set of posts has one that answers none of it. *)
Trees ==
    \A S \in SUBSET Present(posts) : S # {} => \E p \in S : posts[p].parent \notin S

ThreadOf(p) == [root |-> posts[p].root, depth |-> posts[p].depth]

(* The columns hold what the query of 0002 would find now. *)
ThreadsResolved ==
    revision = "head" => \A p \in Present(posts) : ThreadOf(p) = Resolved(posts, p)

ThreadInvariant == FixtureParents /\ Trees /\ ThreadsResolved

LEMMA ThreadsUnchanged ==
    ASSUME ThreadInvariant, posts' = posts, revision' = "head" => revision = "head"
    PROVE  ThreadInvariant'
  BY DEF ThreadInvariant, FixtureParents, Trees, ThreadsResolved, ThreadOf, Present

(* A step may take posts away and add some that answer no later one of them. *)
LEMMA TreesGrow ==
    ASSUME TypeOK, PostsRefer, Trees, NEW table, NEW There, NEW New,
           New \cap Present(posts) = {}, There \subseteq Present(posts) \cup New,
           \A p \in Present(posts) \cap There : table[p].parent = posts[p].parent,
           \A S \in SUBSET New : S # {} => \E p \in S : table[p].parent \notin S,
           Null \notin There
    PROVE  \A S \in SUBSET There : S # {} => \E p \in S : table[p].parent \notin S
  <1> SUFFICES ASSUME NEW S \in SUBSET There, S # {}
               PROVE  \E p \in S : table[p].parent \notin S
    OBVIOUS
  <1> DEFINE T == S \cap Present(posts)
  <1>1. CASE T = {}
    <2>1. S \in SUBSET New
      BY <1>1
    <2> QED
      BY <2>1
  <1>2. CASE T # {}
    <2>1. PICK p \in T : posts[p].parent \notin T
      BY <1>2 DEF Trees
    <2>2. posts[p].parent \in Present(posts) \cup {Null}
      BY DEF PostsRefer
    <2> QED
      BY <2>1, <2>2
  <1> QED
    BY <1>1, <1>2

LEMMA NullNowhere == Null \notin Posts
  BY SchemaAssumption DEF SchemaAssumption

LEMMA UpgradeThreads ==
    ASSUME SchemaInvariant, ThreadInvariant, Upgrade
    PROVE  ThreadInvariant'
  <1> USE DEF SchemaInvariant, ThreadInvariant
  <1>1. \A p \in Present(posts) :
          /\ posts'[p].parent = posts[p].parent
          /\ [root |-> posts'[p].root, depth |-> posts'[p].depth] = Resolved(posts, p)
    <2> TAKE p \in Present(posts)
    <2>1. posts'[p] = Row(posts[p].parent, posts[p].run, Resolved(posts, p))
      BY DEF Upgrade, UpgradePosts, Present, TypeOK
    <2>2. Resolved(posts, p) \in [root : Posts, depth : 0..MaxReplyDepth]
      BY ResolvedType DEF Thread
    <2> QED
      BY <2>1, <2>2 DEF Row
  <1>2. Present(posts') = Present(posts)
    <2>1. \A p \in Posts : posts'[p] = None <=> posts[p] = None
      <3> TAKE p \in Posts
      <3>1. CASE posts[p] = None
        BY <3>1 DEF Upgrade, UpgradePosts
      <3>2. CASE posts[p] # None
        <4>1. p \in Present(posts) /\ posts[p] \in PostRows
          BY <3>2 DEF Present, TypeOK
        <4>2. Row(posts[p].parent, posts[p].run, Resolved(posts, p)) # None
          BY <4>1, ResolvedType, RowType DEF Thread, PostRows
        <4> QED
          BY <3>2, <4>2 DEF Upgrade, UpgradePosts
      <3> QED
        BY <3>1, <3>2
    <2>2. DOMAIN posts = Posts /\ DOMAIN posts' = Posts
      BY DEF Upgrade, UpgradePosts, TypeOK
    <2> QED
      BY <2>1, <2>2 DEF Present
  <1>3. FixtureParents'
    BY <1>1, <1>2 DEF FixtureParents
  <1>4. Trees'
    BY <1>1, <1>2 DEF Trees
  <1>5. ThreadsResolved'
    BY <1>1, <1>2, ResolvedSame DEF ThreadsResolved, ThreadOf
  <1> QED
    BY <1>3, <1>4, <1>5

LEMMA SeedThreads ==
    ASSUME SchemaInvariant, ThreadInvariant, Seed
    PROVE  ThreadInvariant'
  <1> USE DEF SchemaInvariant, ThreadInvariant
  <1>1. ASSUME NEW p \in Fixtures.posts
        PROVE  /\ p \in Posts
               /\ posts'[p].parent = Parent[p]
               /\ [root |-> posts'[p].root, depth |-> posts'[p].depth] = PostThreadFields(p)
    <2>1. p \in Posts
      BY SchemaAssumption DEF SchemaAssumption
    <2>2. posts'[p] = Row(Parent[p], RunOf[p], PostThreadFields(p))
      BY <2>1 DEF Seed, SeedPosts
    <2>3. PostThreadFields(p) \in [root : Posts, depth : 0..MaxReplyDepth]
      BY FieldsType DEF Thread
    <2> QED
      BY <2>1, <2>2, <2>3 DEF Row
  <1>2. ASSUME NEW p \in Posts, p \notin Fixtures.posts
        PROVE  posts'[p] = posts[p]
    BY <1>2 DEF Seed, SeedPosts
  <1>3. DOMAIN posts' = Posts /\ DOMAIN posts = Posts /\ revision = "head"
    BY DEF Seed, SeedPosts, TypeOK
  <1>4. ASSUME NEW p \in Present(posts'), p \notin Fixtures.posts
        PROVE  p \in Present(posts) /\ posts'[p] = posts[p]
    BY <1>2, <1>3, <1>4 DEF Present
  <1>5. \A p \in Present(posts) : posts'[p].parent = posts[p].parent
    BY <1>1, <1>2, <1>3 DEF FixtureParents, Present
  <1>6. FixtureParents'
    BY <1>1 DEF FixtureParents
  <1>7. Trees'
    <2> DEFINE New == Fixtures.posts \ Present(posts)
    <2>1. \A S \in SUBSET New : S # {} => \E p \in S : posts'[p].parent \notin S
      <3> SUFFICES ASSUME NEW S \in SUBSET New, S # {} PROVE \E p \in S : posts'[p].parent \notin S
        OBVIOUS
      <3>1. PICK p \in S : Parent[p] \notin S
        BY SchemaAssumption DEF SchemaAssumption
      <3> QED
        BY <3>1, <1>1
    <2>2. Present(posts') \subseteq Present(posts) \cup New
      BY <1>4
    <2>3. Null \notin Present(posts')
      BY <1>3, NullNowhere DEF Present
    <2> HIDE DEF New
    <2>4. New \cap Present(posts) = {}
      BY DEF New
    <2> QED
      BY <1>5, <2>1, <2>2, <2>3, <2>4, TreesGrow DEF Trees
  <1>8. ThreadsResolved'
    <2> SUFFICES ASSUME NEW p \in Present(posts')
                 PROVE  [root |-> posts'[p].root, depth |-> posts'[p].depth] = Resolved(posts', p)
      BY DEF ThreadsResolved, ThreadOf
    <2>1. CASE p \in Fixtures.posts
      <3>1. \A q \in Fixtures.posts : /\ posts'[q].parent = Parent[q]
                                      /\ Parent[q] \in Fixtures.posts \cup {Null}
        BY <1>1, SchemaAssumption DEF SchemaAssumption
      <3>2. Resolved(posts', p) = PostThreadFields(p)
        BY <2>1, <3>1, QueryAgreesWithLoop
      <3> QED
        BY <1>1, <2>1, <3>2
    <2>2. CASE p \notin Fixtures.posts
      <3>1. p \in Present(posts) /\ posts'[p] = posts[p]
        BY <1>4, <2>2
      <3>2. Resolved(posts', p) = Resolved(posts, p)
        BY <1>5, <3>1, ResolvedSame
      <3> QED
        BY <1>3, <3>1, <3>2 DEF ThreadsResolved, ThreadOf
    <2> QED
      BY <2>1, <2>2
  <1> QED
    BY <1>6, <1>7, <1>8

LEMMA InsertThreads ==
    ASSUME SchemaInvariant, ThreadInvariant,
           NEW p \in Posts, NEW parent \in Posts \cup {Null}, InsertPost(p, parent)
    PROVE  ThreadInvariant'
  <1> USE DEF SchemaInvariant, ThreadInvariant
  <1> DEFINE thread == ReplyThread(p, parent)
             row == Row(parent, Null, thread)
  <1>1. /\ thread \in [root : Posts \cup {Null}, depth : 0..MaxReplyDepth]
        /\ parent \in Present(posts) \cup {Null}
    BY ReplyThreadType DEF InsertPost
  <1>2. row \in PostRows /\ row.parent = parent /\ row.run = Null
        /\ row.root = thread.root /\ row.depth = thread.depth
    BY <1>1, RowType DEF Row
  <1>3. posts[p] = None /\ posts' = [posts EXCEPT ![p] = row] /\ scenarioRuns' = scenarioRuns
        /\ Null \in Scenarios /\ p \notin Fixtures.posts /\ revision = "head"
    BY SchemaAssumption DEF SchemaAssumption, InsertPost, HeadOnly, Scenarios
  <1>4. /\ parent = Null => thread = [root |-> p, depth |-> 0]
        /\ parent # Null => /\ ThreadOf(parent).depth < MaxReplyDepth
                            /\ Follows(thread, ThreadOf(parent))
    <2>1. CASE parent = Null
      BY <2>1 DEF ReplyThread
    <2>2. CASE parent # Null
      <3>1. thread = [root |-> posts[parent].root, depth |-> posts[parent].depth + 1]
        BY <2>2 DEF ReplyThread
      <3>2. posts[parent].depth \in 0..MaxReplyDepth
        BY <2>2, <1>1 DEF TypeOK, Present, PostRows
      <3>3. thread.depth <= MaxReplyDepth
        BY DEF InsertPost
      <3> QED
        BY <2>2, <3>1, <3>2, <3>3 DEF Follows, ThreadOf, MaxReplyDepth
    <2> QED
      BY <2>1, <2>2
  <1> HIDE DEF row, thread
  <1>5. Present(posts') = Present(posts) \cup {p}
    BY <1>1, <1>2, <1>3, PostAdded
  <1>6. p \notin Present(posts) /\ posts'[p] = row /\ \A q \in Present(posts) : posts'[q] = posts[q]
    BY <1>3 DEF Present, TypeOK
  <1>7. FixtureParents'
    BY <1>3, <1>5, <1>6 DEF FixtureParents
  <1>8. Trees'
    <2>1. \A S \in SUBSET {p} : S # {} => \E q \in S : posts'[q].parent \notin S
      BY <1>1, <1>2, <1>6, NullNowhere
    <2>2. Null \notin Present(posts')
      BY <1>3, NullNowhere DEF Present, TypeOK
    <2> QED
      <3> DEFINE New == {p}
      <3>1. New \cap Present(posts) = {} /\ Present(posts') \subseteq Present(posts) \cup New
        BY <1>5, <1>6
      <3>2. \A q \in Present(posts) : posts'[q].parent = posts[q].parent
        BY <1>6
      <3> HIDE DEF New
      <3>3. \A S \in SUBSET New : S # {} => \E q \in S : posts'[q].parent \notin S
        BY <2>1 DEF New
      <3> QED
        BY <2>2, <3>1, <3>2, <3>3, TreesGrow DEF Trees
  <1>9. ThreadsResolved'
    <2>1. ASSUME NEW q \in Present(posts)
          PROVE  /\ [root |-> posts'[q].root, depth |-> posts'[q].depth] = Resolved(posts, q)
                 /\ Resolved(posts', q) = Resolved(posts, q)
      BY <1>3, <1>6, ResolvedSame DEF ThreadsResolved, ThreadOf
    <2>2. [root |-> posts'[p].root, depth |-> posts'[p].depth] = thread
      BY <1>1, <1>2, <1>6
    <2>3. p # Null /\ posts'[p].parent = parent
      BY <1>2, <1>6, NullNowhere
    <2>4. Resolved(posts', p) = thread
      <3>1. CASE parent = Null
        BY <1>4, <2>3, <3>1, ResolvedCases DEF Above
      <3>2. CASE parent # Null
        <4>1. Follows(Resolved(posts', p), Resolved(posts', parent))
          BY <2>3, <3>2, ResolvedFollows
        <4>2. Resolved(posts', parent) = ThreadOf(parent)
          BY <1>1, <1>3, <2>1, <3>2 DEF ThreadsResolved
        <4>3. Resolved(posts', p).root = thread.root /\ Resolved(posts', p).depth = thread.depth
          BY <1>4, <3>2, <4>1, <4>2 DEF Follows
        <4>4. Resolved(posts', p) = [root |-> Resolved(posts', p).root, depth |-> Resolved(posts', p).depth]
          BY DEF Resolved
        <4> QED
          BY <1>1, <4>3, <4>4
      <3> QED
        BY <3>1, <3>2
    <2> QED
      BY <1>5, <2>1, <2>2, <2>4 DEF ThreadsResolved, ThreadOf
  <1> QED
    BY <1>7, <1>8, <1>9

LEMMA V1PostThreads ==
    ASSUME SchemaInvariant, ThreadInvariant, NEW p \in Posts, V1Post(p)
    PROVE  ThreadInvariant'
  <1> USE DEF SchemaInvariant, ThreadInvariant
  <1>1. /\ revision' # "head" /\ posts[p] = None
        /\ posts' = [posts EXCEPT ![p] = Row(Parent[p], RunOf[p], NoThread)]
        /\ Parent[p] # Null => Parent[p] # p
    BY DEF V1Post, V1Only
  <1>2. /\ p \notin Present(posts) /\ Present(posts') \subseteq Present(posts) \cup {p}
        /\ posts'[p].parent = Parent[p]
        /\ \A q \in Present(posts) : posts'[q] = posts[q]
    BY <1>1 DEF Present, TypeOK, Row
  <1>3. \A S \in SUBSET {p} : S # {} => \E q \in S : posts'[q].parent \notin S
    BY <1>1, <1>2, NullNowhere
  <1>4. Null \notin Present(posts')
    BY <1>1, NullNowhere DEF Present, TypeOK
  <1>5. Trees'
    <2> DEFINE New == {p}
    <2>1. New \cap Present(posts) = {} /\ Present(posts') \subseteq Present(posts) \cup New
      BY <1>2
    <2>2. \A q \in Present(posts) : posts'[q].parent = posts[q].parent
      BY <1>2
    <2> HIDE DEF New
    <2>3. \A S \in SUBSET New : S # {} => \E q \in S : posts'[q].parent \notin S
      BY <1>3 DEF New
    <2> QED
      BY <1>4, <2>1, <2>2, <2>3, TreesGrow DEF Trees
  <1>6. FixtureParents'
    BY <1>2 DEF FixtureParents
  <1> QED
    BY <1>1, <1>5, <1>6 DEF ThreadsResolved

LEMMA ThreadsInductive == SchemaInvariant /\ ThreadInvariant /\ [Next]_vars => ThreadInvariant'
  <1> SUFFICES ASSUME SchemaInvariant, ThreadInvariant, [Next]_vars PROVE ThreadInvariant'
    OBVIOUS
  <1> DEFINE NoPosts == posts' = Empty(Posts)
  <1>1. ASSUME NoPosts PROVE ThreadInvariant'
    <2>1. Present(posts') = {}
      BY <1>1 DEF Present, Empty
    <2> QED
      BY <2>1 DEF ThreadInvariant, FixtureParents, Trees, ThreadsResolved
  <1>2. CASE CreateTables("v1") \/ CreateTables("head")
    <2>1. NoPosts
      BY <1>2 DEF CreateTables, SchemaInvariant, Dropped, socialVars
    <2> QED
      BY <1>1, <2>1
  <1>3. CASE Upgrade
    BY <1>3, UpgradeThreads
  <1>4. CASE Downgrade
    <2>1. /\ revision' # "head"
          /\ \A p \in Present(posts') : p \in Present(posts) /\ posts'[p].parent = posts[p].parent
      BY <1>4 DEF Downgrade, DowngradePosts, Present, SchemaInvariant, TypeOK, Row
    <2>2. Trees'
      BY <2>1 DEF ThreadInvariant, Trees
    <2> QED
      BY <2>1, <2>2 DEF ThreadInvariant, FixtureParents, ThreadsResolved
  <1>5. CASE DropTables \/ Clear
    <2>1. NoPosts
      BY <1>5 DEF DropTables, Clear, ClearTables
    <2> QED
      BY <1>1, <2>1
  <1>6. CASE \/ \E a \in Agents : V1Agent(a)
             \/ \E o \in Owners : V1Token(o)
             \/ \E r \in ScenarioRuns : V1Run(r)
             \/ \E x \in DOMAIN Ran : V1Evidence(x)
    <2>1. posts' = posts /\ revision' = revision
      BY <1>6 DEF V1Agent, V1Token, V1Run, V1Evidence, V1Only, evidenceVars
    <2> QED
      BY <2>1, ThreadsUnchanged
  <1>7. CASE \E p \in Posts : V1Post(p)
    BY <1>7, V1PostThreads
  <1>8. CASE \E p \in Posts : \E parent \in Posts \cup {Null} : InsertPost(p, parent)
    BY <1>8, InsertThreads
  <1>9. CASE \/ \E a \in Agents : Signup(a)
             \/ \E v \in DynamicRuns : CreateValidationRun(v)
             \/ \E x \in Events \cup Findings, v \in ValidationRuns : CreateEvidence(x, v)
             \/ \E x \in Relations : Relate(x)
    <2>1. posts' = posts /\ revision' = revision
      BY <1>9 DEF Signup, CreateValidationRun, CreateEvidence, Relate, HeadOnly
    <2> QED
      BY <2>1, ThreadsUnchanged
  <1>10. CASE Seed
    BY <1>10, SeedThreads
  <1>11. CASE UNCHANGED vars
    BY <1>11, ThreadsUnchanged DEF vars, socialVars
  <1> QED
    BY <1>2, <1>3, <1>4, <1>5, <1>6, <1>7, <1>8, <1>9, <1>10, <1>11 DEF Next

(* At the head the thread columns of every post are what the recursive query   *)
(* of 0002 (lines 264-298) would find for it now, whichever of that query, the *)
(* loop of the seed (fixtures.py:145) and the route (posts.py:92) filled them  *)
(* in; and no post is ever above itself.                                     *)
THEOREM ThreadInvariantHolds == Spec => []ThreadInvariant
  <1>1. Init => ThreadInvariant
    BY DEF Init, ThreadInvariant, FixtureParents, Trees, ThreadsResolved, Present, Empty
  <1> QED
    BY <1>1, InvariantHolds, ThreadsInductive, PTL DEF Spec

(* The thread of a reply at the head is that of its parent, one deeper, but    *)
(* for V1 replies below the fourth, though the two may come from different     *)
(* code: no post of a thread disagrees with the next about its root.          *)
ThreadsFollow ==
    revision = "head" =>
        \A p \in Present(posts) :
            /\ posts[p].parent = Null => ThreadOf(p) = [root |-> p, depth |-> 0]
            /\ posts[p].parent # Null => Follows(ThreadOf(p), ThreadOf(posts[p].parent))

(* Hence posts of one thread agree about it (0002, fixtures.py and posts.py).  *)
THEOREM ThreadsAgree == Spec => []ThreadsFollow
  <1>1. SchemaInvariant /\ ThreadInvariant => ThreadsFollow
    <2> SUFFICES ASSUME SchemaInvariant, ThreadInvariant, revision = "head", NEW p \in Present(posts)
                 PROVE  /\ posts[p].parent = Null => ThreadOf(p) = [root |-> p, depth |-> 0]
                        /\ posts[p].parent # Null => Follows(ThreadOf(p), ThreadOf(posts[p].parent))
      BY DEF ThreadsFollow
    <2> USE DEF SchemaInvariant, ThreadInvariant
    <2>1. p # Null /\ posts[p].parent \in Present(posts) \cup {Null}
      BY NoneApart DEF TypeOK, Present, PostsRefer
    <2>2. \A q \in Present(posts) : ThreadOf(q) = Resolved(posts, q)
      BY DEF ThreadsResolved
    <2>3. CASE posts[p].parent = Null
      BY <2>1, <2>2, <2>3, ResolvedCases DEF Above
    <2>4. CASE posts[p].parent # Null
      BY <2>1, <2>2, <2>4, ResolvedFollows
    <2> QED
      BY <2>3, <2>4
  <1> QED
    BY <1>1, InvariantHolds, ThreadInvariantHolds, PTL

-----------------------------------------------------------------------------
(* How high a post stands: Height and Line are defined by recursion, which     *)
(* needs the trees to be well founded.                                       *)

IsRoot(p) == posts[p] = None \/ posts[p].parent = Null

LEMMA ParentType ==
    ASSUME TypeOK, PostsRefer, NEW p \in Posts, ~IsRoot(p)
    PROVE  posts[p].parent \in Posts
  BY DEF TypeOK, PostsRefer, Present, IsRoot

(* Every set of posts has one whose parent is not in it. *)
LEMMA Least ==
    ASSUME TypeOK, PostsRefer, Trees, NEW S \in SUBSET Posts, S # {}
    PROVE  \E p \in S : ~IsRoot(p) => posts[p].parent \notin S
  <1>1. CASE \E p \in S : posts[p] = None
    BY <1>1 DEF IsRoot
  <1>2. CASE \A p \in S : posts[p] # None
    <2>1. S \subseteq Present(posts)
      BY <1>2 DEF TypeOK, Present
    <2> QED
      BY <2>1 DEF Trees
  <1> QED
    BY <1>1, <1>2

(* The least set that has p and the parents of what it has. *)
Closed(S) == \A q \in S : ~IsRoot(q) => posts[q].parent \in S
Lineage(p) == {q \in Posts : \A S \in SUBSET Posts : p \in S /\ Closed(S) => q \in S}

LEMMA LineageDef ==
    ASSUME TypeOK, PostsRefer, NEW p \in Posts
    PROVE  Lineage(p) = IF IsRoot(p) THEN {p} ELSE {p} \cup Lineage(posts[p].parent)
  <1>1. p \in Lineage(p)
    BY DEF Lineage
  <1>2. Closed(Posts)
    BY ParentType DEF Closed
  <1>3. CASE IsRoot(p)
    <2>1. {p} \in SUBSET Posts /\ Closed({p})
      BY <1>3 DEF Closed
    <2>2. Lineage(p) \subseteq {p}
      BY <2>1 DEF Lineage
    <2> QED
      BY <1>1, <1>3, <2>2
  <1>4. CASE ~IsRoot(p)
    <2> DEFINE q == posts[p].parent
               T == {p} \cup Lineage(q)
    <2>1. q \in Posts /\ q \in Lineage(q)
      BY <1>4, ParentType DEF Lineage
    <2>2. ASSUME NEW r \in Lineage(q), ~IsRoot(r)
          PROVE  posts[r].parent \in Lineage(q)
      <3>1. posts[r].parent \in Posts
        BY <2>2, ParentType DEF Lineage
      <3>2. ASSUME NEW S \in SUBSET Posts, q \in S, Closed(S)
            PROVE  posts[r].parent \in S
        <4>1. r \in S
          BY <2>2, <3>2 DEF Lineage
        <4> QED
          BY <2>2, <3>2, <4>1 DEF Closed
      <3> QED
        BY <3>1, <3>2 DEF Lineage
    <2>3. T \in SUBSET Posts
      BY DEF Lineage
    <2>4. Closed(T)
      BY <2>1, <2>2 DEF Closed
    <2>5. Lineage(p) \subseteq T
      <3> HIDE DEF T
      <3>1. p \in T
        BY DEF T
      <3> QED
        BY <2>3, <2>4, <3>1 DEF Lineage
    <2>6. Lineage(q) \subseteq Lineage(p)
      <3> SUFFICES ASSUME NEW r \in Lineage(q), NEW S \in SUBSET Posts, p \in S, Closed(S)
                   PROVE  r \in S
        BY DEF Lineage
      <3>1. q \in S
        BY <1>4 DEF Closed
      <3> QED
        BY <3>1 DEF Lineage
    <2> QED
      BY <1>1, <1>4, <2>5, <2>6
  <1> QED
    BY <1>3, <1>4

(* A post is not among its ancestors. *)
LEMMA NoCycle ==
    ASSUME TypeOK, PostsRefer, Trees, NEW p \in Posts, ~IsRoot(p)
    PROVE  p \notin Lineage(posts[p].parent)
  <1> SUFFICES ASSUME p \in Lineage(posts[p].parent) PROVE FALSE
    OBVIOUS
  <1> DEFINE Cycle == {q \in Posts : p \in Lineage(q)}
             a == posts[p].parent
  <1>1. a \in Cycle /\ Cycle \in SUBSET Posts /\ Cycle # {}
    BY ParentType
  <1> HIDE DEF Cycle
  <1>2. PICK m \in Cycle : ~IsRoot(m) => posts[m].parent \notin Cycle
    BY <1>1, Least
  <1>3. m \in Posts /\ p \in Lineage(m)
    BY <1>2 DEF Cycle
  <1>4. CASE m = p
    BY <1>1, <1>2, <1>4
  <1>5. CASE m # p
    <2>1. ~IsRoot(m) /\ p \in Lineage(posts[m].parent)
      BY <1>3, <1>5, LineageDef
    <2>2. posts[m].parent \in Cycle
      BY <1>3, <2>1, ParentType DEF Cycle
    <2> QED
      BY <1>2, <2>1, <2>2
  <1> QED
    BY <1>4, <1>5

LEMMA LineageFinite ==
    ASSUME TypeOK, PostsRefer, Trees, NEW p \in Posts
    PROVE  IsFiniteSet(Lineage(p)) /\ Cardinality(Lineage(p)) \in Nat \ {0}
  <1> DEFINE Endless == {q \in Posts : ~IsFiniteSet(Lineage(q))}
  <1>1. Endless = {}
    <2> SUFFICES ASSUME Endless # {} PROVE FALSE
      OBVIOUS
    <2>1. Endless \in SUBSET Posts
      OBVIOUS
    <2> HIDE DEF Endless
    <2>2. PICK m \in Endless : ~IsRoot(m) => posts[m].parent \notin Endless
      BY <2>1, Least
    <2>3. m \in Posts /\ ~IsFiniteSet(Lineage(m))
      BY <2>2 DEF Endless
    <2>4. CASE IsRoot(m)
      <3>1. Lineage(m) = {m}
        BY <2>3, <2>4, LineageDef
      <3> QED
        BY <2>3, <3>1, FS_Singleton
    <2>5. CASE ~IsRoot(m)
      <3>1. IsFiniteSet(Lineage(posts[m].parent))
        BY <2>2, <2>3, <2>5, ParentType DEF Endless
      <3>2. Lineage(m) = Lineage(posts[m].parent) \cup {m}
        BY <2>3, <2>5, LineageDef
      <3> QED
        BY <2>3, <3>1, <3>2, FS_AddElement
    <2> QED
      BY <2>4, <2>5
  <1>2. IsFiniteSet(Lineage(p))
    BY <1>1
  <1>3. Lineage(p) # {}
    BY DEF Lineage
  <1>4. Cardinality(Lineage(p)) \in Nat /\ Cardinality(Lineage(p)) # 0
    BY <1>2, <1>3, FS_CardinalityType, FS_EmptySet
  <1> QED
    BY <1>2, <1>4

(* The recursions have a solution, so Height and Line are one. *)
LEMMA HeightDef ==
    ASSUME TypeOK, PostsRefer, Trees
    PROVE  \A p \in Posts : Height[p] = IF IsRoot(p) THEN 0 ELSE 1 + Height[posts[p].parent]
  <1> DEFINE Solves(f) == f = [p \in Posts |->
                 IF posts[p] = None \/ posts[p].parent = Null THEN 0 ELSE 1 + f[posts[p].parent]]
             h == [p \in Posts |-> Cardinality(Lineage(p)) - 1]
  <1>1. ASSUME NEW p \in Posts
        PROVE  h[p] = IF IsRoot(p) THEN 0 ELSE 1 + h[posts[p].parent]
    <2>1. CASE IsRoot(p)
      <3>1. Lineage(p) = {p}
        BY <2>1, LineageDef
      <3>2. Cardinality({p}) = 1
        BY FS_Singleton
      <3> QED
        BY <2>1, <3>1, <3>2
    <2>2. CASE ~IsRoot(p)
      <3> DEFINE q == posts[p].parent
      <3>1. q \in Posts /\ Lineage(p) = Lineage(q) \cup {p} /\ p \notin Lineage(q)
        BY <2>2, ParentType, LineageDef, NoCycle
      <3>2. IsFiniteSet(Lineage(q)) /\ Cardinality(Lineage(q)) \in Nat
        BY <3>1, LineageFinite
      <3>3. Cardinality(Lineage(p)) = Cardinality(Lineage(q)) + 1
        BY <3>1, <3>2, FS_AddElement
      <3> QED
        BY <2>2, <3>1, <3>2, <3>3
    <2> QED
      BY <2>1, <2>2
  <1>2. Solves(h)
    BY <1>1, Zenon DEF IsRoot
  <1>3. Height = CHOOSE f : Solves(f)
    BY Zenon DEF Height
  <1>4. Solves(Height)
    <2> HIDE DEF Solves, h
    <2> QED
      BY <1>2, <1>3, Zenon
  <1>5. ASSUME NEW p \in Posts
        PROVE  Height[p] = IF IsRoot(p) THEN 0 ELSE 1 + Height[posts[p].parent]
    BY <1>4, Zenon DEF IsRoot
  <1> QED
    BY <1>5

LEMMA LineDef ==
    ASSUME TypeOK, PostsRefer
    PROVE  \A p \in Posts : Line[p] = IF IsRoot(p) THEN {p} ELSE {p} \cup Line[posts[p].parent]
  <1> DEFINE Solves(f) == f = [p \in Posts |->
                 IF posts[p] = None \/ posts[p].parent = Null THEN {p} ELSE {p} \cup f[posts[p].parent]]
             l == [p \in Posts |-> Lineage(p)]
  <1>1. ASSUME NEW p \in Posts
        PROVE  l[p] = IF IsRoot(p) THEN {p} ELSE {p} \cup l[posts[p].parent]
    BY LineageDef, ParentType
  <1>2. Solves(l)
    BY <1>1, Zenon DEF IsRoot
  <1>3. Line = CHOOSE f : Solves(f)
    BY Zenon DEF Line
  <1>4. Solves(Line)
    <2> HIDE DEF Solves, l
    <2> QED
      BY <1>2, <1>3, Zenon
  <1> QED
    BY <1>4, Zenon DEF IsRoot

LEMMA HeightType ==
    ASSUME TypeOK, PostsRefer, Trees, NEW p \in Posts
    PROVE  Height[p] \in Nat
  <1> DEFINE Odd == {q \in Posts : Height[q] \notin Nat}
  <1> SUFFICES ASSUME Odd # {} PROVE FALSE
    OBVIOUS
  <1>1. Odd \in SUBSET Posts
    OBVIOUS
  <1> HIDE DEF Odd
  <1>2. PICK m \in Odd : ~IsRoot(m) => posts[m].parent \notin Odd
    BY <1>1, Least
  <1>3. m \in Posts /\ Height[m] \notin Nat
    BY <1>2 DEF Odd
  <1>4. Height[m] = IF IsRoot(m) THEN 0 ELSE 1 + Height[posts[m].parent]
    BY <1>3, HeightDef
  <1>5. ~IsRoot(m) => Height[posts[m].parent] \in Nat
    BY <1>2, <1>3, ParentType DEF Odd
  <1> QED
    BY <1>3, <1>4, <1>5

LEMMA ResolvedIsExact ==
    ASSUME TypeOK, PostsRefer, Trees, NEW p \in Present(posts)
    PROVE  LET thread == Resolved(posts, p)
           IN  /\ thread.depth = IF Height[p] > MaxReplyDepth THEN MaxReplyDepth ELSE Height[p]
               /\ thread.root \in Line[p]
               /\ Height[thread.root] = Height[p] - thread.depth
  <1> DEFINE a == Above(posts, p)
             b == Above(posts, a)
             c == Above(posts, b)
             d == Above(posts, c)
  <1>1. \A q \in Present(posts) :
          /\ q \in Posts /\ q # Null
          /\ Height[q] \in Nat
          /\ Height[q] = IF Above(posts, q) = Null THEN 0 ELSE 1 + Height[Above(posts, q)]
          /\ Line[q] = IF Above(posts, q) = Null THEN {q} ELSE {q} \cup Line[Above(posts, q)]
    <2> TAKE q \in Present(posts)
    <2>1. q \in Posts /\ q # Null /\ posts[q] # None
      BY NullNowhere DEF TypeOK, Present
    <2>2. Above(posts, q) = posts[q].parent /\ (IsRoot(q) <=> posts[q].parent = Null)
      BY <2>1 DEF Above, IsRoot
    <2> QED
      BY <2>1, <2>2, HeightDef, LineDef, HeightType
  <1> HIDE DEF a, b, c, d
  <1>2. /\ {a, b, c, d} \subseteq Present(posts) \cup {Null}
        /\ a = Null => Resolved(posts, p) = [root |-> p, depth |-> 0]
        /\ a # Null /\ b = Null => Resolved(posts, p) = [root |-> a, depth |-> 1]
        /\ a # Null /\ b # Null /\ c = Null => Resolved(posts, p) = [root |-> b, depth |-> 2]
        /\ a # Null /\ b # Null /\ c # Null /\ d = Null
              => Resolved(posts, p) = [root |-> c, depth |-> 3]
        /\ a # Null /\ b # Null /\ c # Null /\ d # Null
              => Resolved(posts, p) = [root |-> d, depth |-> 4]
    BY ResolvedDef DEF a, b, c, d
  <1>3. /\ Height[p] \in Nat
        /\ Height[p] = IF a = Null THEN 0 ELSE 1 + Height[a]
        /\ Line[p] = IF a = Null THEN {p} ELSE {p} \cup Line[a]
    BY <1>1 DEF a
  <1>4. a # Null => /\ Height[a] \in Nat
                    /\ Height[a] = IF b = Null THEN 0 ELSE 1 + Height[b]
                    /\ Line[a] = IF b = Null THEN {a} ELSE {a} \cup Line[b]
    BY <1>1, <1>2 DEF b
  <1>5. b # Null => /\ Height[b] \in Nat
                    /\ Height[b] = IF c = Null THEN 0 ELSE 1 + Height[c]
                    /\ Line[b] = IF c = Null THEN {b} ELSE {b} \cup Line[c]
    BY <1>1, <1>2 DEF c
  <1>6. c # Null => /\ Height[c] \in Nat
                    /\ Height[c] = IF d = Null THEN 0 ELSE 1 + Height[d]
                    /\ Line[c] = IF d = Null THEN {c} ELSE {c} \cup Line[d]
    BY <1>1, <1>2 DEF d
  <1>7. d # Null => Height[d] \in Nat /\ d \in Line[d]
    BY <1>1, <1>2
  <1>8. CASE a = Null
    BY <1>2, <1>3, <1>8 DEF MaxReplyDepth
  <1>9. CASE a # Null /\ b = Null
    BY <1>2, <1>3, <1>4, <1>9 DEF MaxReplyDepth
  <1>10. CASE a # Null /\ b # Null /\ c = Null
    BY <1>2, <1>3, <1>4, <1>5, <1>10 DEF MaxReplyDepth
  <1>11. CASE a # Null /\ b # Null /\ c # Null /\ d = Null
    BY <1>2, <1>3, <1>4, <1>5, <1>6, <1>11 DEF MaxReplyDepth
  <1>12. CASE a # Null /\ b # Null /\ c # Null /\ d # Null
    BY <1>2, <1>3, <1>4, <1>5, <1>6, <1>7, <1>12 DEF MaxReplyDepth
  <1> QED
    BY <1>8, <1>9, <1>10, <1>11, <1>12

(* root_post_id and reply_depth are exact in threads of any length: the depth  *)
(* is the number of posts above, four at most, and the root is an ancestor     *)
(* that many posts up.                                                       *)
THEOREM ThreadsStayExact == Spec => []ThreadsExact
  <1>1. SchemaInvariant /\ ThreadInvariant => ThreadsExact
    <2> SUFFICES ASSUME SchemaInvariant, ThreadInvariant, revision = "head", NEW p \in Present(posts)
                 PROVE  /\ posts[p].depth = IF Height[p] > MaxReplyDepth THEN MaxReplyDepth ELSE Height[p]
                        /\ posts[p].root \in Line[p]
                        /\ Height[posts[p].root] = Height[p] - posts[p].depth
      BY DEF ThreadsExact
    <2>1. posts[p].root = Resolved(posts, p).root /\ posts[p].depth = Resolved(posts, p).depth
      BY DEF ThreadInvariant, ThreadsResolved, ThreadOf
    <2> QED
      BY <2>1, ResolvedIsExact DEF SchemaInvariant, ThreadInvariant
  <1> QED
    BY <1>1, InvariantHolds, ThreadInvariantHolds, PTL
=============================================================================
