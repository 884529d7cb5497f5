---------------------------- MODULE Feeds_proofs ----------------------------
(***************************************************************************)
(* Walking a feed by its cursors misses nothing and repeats nothing, for     *)
(* every set of rows, every mix of feeds and every sequence of limits, as    *)
(* long as the text of the timestamps sorts like their values                *)
(* (UniformStamps).                                                          *)
(***************************************************************************)
EXTENDS Feeds, FiniteSetTheorems, WellFoundedInduction, SequenceTheorems, TLAPS

(* The order of a feed is a strict total order of positions. *)
LEMMA AheadIsTransitive ==
    ASSUME NEW f, NEW a, NEW b, NEW c,
           a.at \in Nat, a.id \in Nat, b.at \in Nat, b.id \in Nat, c.at \in Nat, c.id \in Nat,
           Ahead(f, a, b), Ahead(f, b, c)
    PROVE  Ahead(f, a, c)
  BY DEF Ahead, Earlier

LEMMA AheadIsStrict ==
    ASSUME NEW f, NEW a, NEW b, a.at \in Nat, a.id \in Nat, b.at \in Nat, b.id \in Nat
    PROVE  /\ ~Ahead(f, a, a)
           /\ Ahead(f, a, b) => ~Ahead(f, b, a)
           /\ (a.at = b.at /\ a.id = b.id) \/ Ahead(f, a, b) \/ Ahead(f, b, a)
  BY DEF Ahead, Earlier

LEMMA PositionTypes ==
    ASSUME NEW a \in Position
    PROVE  a.at \in Nat /\ a.id \in Nat /\ a.at \in Stamps /\ a.id \in Rows
  BY FeedsAssumption DEF Position, FeedsAssumption

LEMMA CursorTypes ==
    ASSUME NEW c \in Cursor
    PROVE  c.at \in Nat /\ c.id \in Nat /\ c.at \in Stamps /\ c.id \in Rows
  BY FeedsAssumption DEF Cursor, FeedsAssumption

LEMMA PositionsCompare ==
    ASSUME NEW f, NEW a \in Position, NEW b \in Position
    PROVE  /\ ~Ahead(f, a, a)
           /\ Ahead(f, a, b) => ~Ahead(f, b, a)
           /\ a = b \/ Ahead(f, a, b) \/ Ahead(f, b, a)
  <1>1. a.at \in Nat /\ a.id \in Nat /\ b.at \in Nat /\ b.id \in Nat
    BY PositionTypes
  <1>2. a.at = b.at /\ a.id = b.id => a = b
    BY DEF Position
  <1> QED
    BY <1>1, <1>2, AheadIsStrict

(* With uniform timestamps Python sorts as SQL does. *)
LEMMA SortsAlike ==
    ASSUME UniformStamps, NEW f, NEW a \in Position, NEW b \in Position
    PROVE  SortedAhead(f, a, b) <=> Ahead(f, a, b)
  BY PositionTypes DEF UniformStamps, SortedAhead, Ahead, TextEarlier, Earlier

LEMMA LiveFacts ==
    ASSUME NEW S, S \subseteq Rows, rows \in [Rows -> Stamps \cup {None}]
    PROVE  /\ Live(S) \subseteq Position
           /\ IsFiniteSet(Live(S))
  <1> DEFINE T == {s \in S : rows[s] # None}
             g == [r \in T |-> [at |-> rows[r], id |-> r]]
  <1>1. IsFiniteSet(T)
    BY FS_Subset, FeedsAssumption DEF FeedsAssumption
  <1>2. g \in Surjection(T, Live(S))
    BY DEF Live, Surjection
  <1>3. IsFiniteSet(Live(S))
    BY <1>1, <1>2, FS_Surjection
  <1> QED
    BY <1>3 DEF Live, Position

(* A set of positions that is not empty has a first and a last one.           *)
LEMMA LastExists ==
    ASSUME NEW f, NEW S, S \subseteq Position, IsFiniteSet(S), S # {}
    PROVE  \E a \in S : \A b \in S \ {a} : Ahead(f, b, a)
  <1> DEFINE After(a) == {b \in S : Ahead(f, a, b)}
             T == {After(a) : a \in S}
  <1>1. IsWellFoundedOn(StrictSubsetOrdering(S), SUBSET S)
    BY FS_StrictSubsetOrderingWellFounded, FS_FiniteSubsetsOfFinite
  <1>2. T \subseteq SUBSET S /\ T # {}
    OBVIOUS
  <1>3. PICK x \in T : \A y \in T : <<y, x>> \notin StrictSubsetOrdering(S)
    BY <1>1, <1>2, WFMin
  <1>4. PICK a \in S : x = After(a)
    BY <1>3
  <1>5. ASSUME NEW b \in S \ {a}, ~Ahead(f, b, a)
        PROVE  FALSE
    <2>1. Ahead(f, a, b)
      BY <1>5, PositionsCompare
    <2>2. After(b) \subseteq After(a)
      <3>1. ASSUME NEW c \in S, Ahead(f, b, c) PROVE Ahead(f, a, c)
        <4>1. /\ a.at \in Nat /\ a.id \in Nat /\ b.at \in Nat /\ b.id \in Nat
              /\ c.at \in Nat /\ c.id \in Nat
          BY PositionTypes
        <4> QED
          BY <2>1, <3>1, <4>1, AheadIsTransitive
      <3> QED
        BY <3>1
    <2>3. b \in After(a) /\ b \notin After(b)
      BY <2>1, PositionsCompare
    <2>4. <<After(b), After(a)>> \in StrictSubsetOrdering(S)
      BY <2>2, <2>3 DEF StrictSubsetOrdering
    <2> QED
      BY <1>3, <1>4, <2>4
  <1> QED
    BY <1>5

LEMMA FirstExists ==
    ASSUME NEW f, NEW S, S \subseteq Position, IsFiniteSet(S), S # {}
    PROVE  \E a \in S : \A b \in S : ~Ahead(f, b, a)
  <1> DEFINE Before(a) == {b \in S : Ahead(f, b, a)}
             T == {Before(a) : a \in S}
  <1>1. IsWellFoundedOn(StrictSubsetOrdering(S), SUBSET S)
    BY FS_StrictSubsetOrderingWellFounded, FS_FiniteSubsetsOfFinite
  <1>2. T \subseteq SUBSET S /\ T # {}
    OBVIOUS
  <1>3. PICK x \in T : \A y \in T : <<y, x>> \notin StrictSubsetOrdering(S)
    BY <1>1, <1>2, WFMin
  <1>4. PICK a \in S : x = Before(a)
    BY <1>3
  <1>5. ASSUME NEW b \in S, Ahead(f, b, a)
        PROVE  FALSE
    <2>1. ASSUME NEW c \in S, Ahead(f, c, b) PROVE Ahead(f, c, a)
      <3>1. /\ a.at \in Nat /\ a.id \in Nat /\ b.at \in Nat /\ b.id \in Nat
            /\ c.at \in Nat /\ c.id \in Nat
        BY PositionTypes
      <3> QED
        BY <1>5, <2>1, <3>1, AheadIsTransitive
    <2>2. b \in Before(a) /\ b \notin Before(b)
      BY <1>5, PositionsCompare
    <2>3. <<Before(b), Before(a)>> \in StrictSubsetOrdering(S)
      BY <2>1, <2>2 DEF StrictSubsetOrdering
    <2> QED
      BY <1>3, <1>4, <2>3
  <1> QED
    BY <1>5
-----------------------------------------------------------------------------
(* What one SELECT fetches: rows beyond the cursor, and whatever it leaves    *)
(* out has more than limit of the fetched rows ahead of it.                   *)

LEMMA FetchedFacts ==
    ASSUME NEW f, NEW S, S \subseteq Position, IsFiniteSet(S), NEW c \in Cursor \cup {None},
           NEW limit \in Nat
    PROVE  /\ FetchedOf(f, S, c, limit) \subseteq S
           /\ IsFiniteSet(FetchedOf(f, S, c, limit))
           /\ \A a \in FetchedOf(f, S, c, limit) : Beyond(f, c, a)
           /\ \A a \in S : Beyond(f, c, a) => Covers(f, FetchedOf(f, S, c, limit), limit, a)
  <1> DEFINE rest == {a \in S : Beyond(f, c, a)}
             F == {a \in rest : Cardinality({b \in rest : Ahead(f, b, a)}) <= limit}
  <1>1. F = FetchedOf(f, S, c, limit)
    BY DEF FetchedOf, Beyond
  <1>2. IsFiniteSet(rest) /\ IsFiniteSet(F) /\ IsFiniteSet(rest \ F)
    <2>1. IsFiniteSet(rest)
      BY FS_Subset
    <2> QED
      BY <2>1, FS_Subset
  <1>3. ASSUME NEW a \in rest, a \notin F
        PROVE  Cardinality({b \in F : Ahead(f, b, a)}) > limit
    <2>1. PICK z \in rest \ F : \A b \in rest \ F : ~Ahead(f, b, z)
      BY <1>2, <1>3, FirstExists
    <2> DEFINE Z == {b \in rest : Ahead(f, b, z)}
               Y == {b \in F : Ahead(f, b, a)}
    <2>2. Z \subseteq Y
      <3>1. ASSUME NEW b \in rest, Ahead(f, b, z) PROVE b \in F /\ Ahead(f, b, a)
        <4>1. b \in F
          BY <2>1, <3>1
        <4>2. z = a \/ Ahead(f, z, a)
          BY <1>3, <2>1, PositionsCompare
        <4>3. /\ a.at \in Nat /\ a.id \in Nat /\ b.at \in Nat /\ b.id \in Nat
              /\ z.at \in Nat /\ z.id \in Nat
          BY PositionTypes
        <4> QED
          BY <3>1, <4>1, <4>2, <4>3, AheadIsTransitive
      <3> QED
        BY <3>1
    <2>3. IsFiniteSet(Y) /\ IsFiniteSet(Z)
      <3>1. Y \subseteq F /\ Z \subseteq rest
        OBVIOUS
      <3> QED
        BY <1>2, <3>1, FS_Subset
    <2>4. Cardinality(Z) <= Cardinality(Y)
      BY <2>2, <2>3, FS_Subset
    <2>5. ~(Cardinality(Z) <= limit)
      BY <2>1
    <2>6. Cardinality(Z) \in Nat /\ Cardinality(Y) \in Nat
      BY <2>3, FS_CardinalityType
    <2> HIDE DEF Z, Y
    <2>7. Cardinality(Y) > limit
      BY <2>4, <2>5, <2>6
    <2> QED
      BY <2>7 DEF Y
  <1>4. \A a \in S : Beyond(f, c, a) => Covers(f, F, limit, a)
    BY <1>3 DEF Covers
  <1> QED
    BY <1>1, <1>2, <1>4

(* What the page keeps of the rows fetched. *)
LEMMA PageFacts ==
    ASSUME UniformStamps, NEW f, NEW S, S \subseteq Position, IsFiniteSet(S),
           NEW limit \in Nat \ {0}
    PROVE  /\ PageOf(f, S, limit) \subseteq S
           /\ Cardinality(S) <= limit => PageOf(f, S, limit) = S
           /\ S # {} => PageOf(f, S, limit) # {}
           /\ \A a \in PageOf(f, S, limit), b \in S :
                 b \notin PageOf(f, S, limit) => Ahead(f, a, b)
           /\ \A a \in PageOf(f, S, limit) : Cardinality({b \in S : Ahead(f, b, a)}) < limit
  <1> DEFINE Before(a) == {b \in S : Ahead(f, b, a)}
             P == PageOf(f, S, limit)
  <1>1. P = {a \in S : Cardinality(Before(a)) < limit}
    <2>1. \A a \in S : {b \in S : SortedAhead(f, b, a)} = Before(a)
      BY SortsAlike
    <2> QED
      BY <2>1 DEF PageOf
  <1>2. \A a \in S : IsFiniteSet(Before(a)) /\ Cardinality(Before(a)) \in Nat
    <2>1. \A a \in S : Before(a) \in SUBSET S
      OBVIOUS
    <2> QED
      BY <2>1, FS_Subset, FS_CardinalityType
  <1>3. ASSUME Cardinality(S) <= limit, NEW a \in S
        PROVE  Cardinality(Before(a)) < limit
    <2>1. Before(a) \in SUBSET S /\ Before(a) # S
      BY PositionsCompare
    <2>2. Cardinality(Before(a)) <= Cardinality(S) /\ Cardinality(Before(a)) # Cardinality(S)
      BY <2>1, FS_Subset
    <2>3. Cardinality(S) \in Nat
      BY FS_CardinalityType
    <2> QED
      BY <1>2, <1>3, <2>2, <2>3
  <1>4. ASSUME S # {} PROVE P # {}
    <2>1. PICK a \in S : \A b \in S : ~Ahead(f, b, a)
      BY <1>4, FirstExists
    <2>2. Before(a) = {}
      BY <2>1
    <2>3. Cardinality(Before(a)) = 0
      BY <2>2, FS_EmptySet
    <2> QED
      BY <1>1, <2>3
  <1>5. ASSUME NEW a \in P, NEW b \in S, b \notin P
        PROVE  Ahead(f, a, b)
    <2>1. a \in S /\ a # b
      BY <1>1, <1>5
    <2>2. CASE Ahead(f, b, a)
      <3>1. Before(b) \in SUBSET Before(a)
        <4>1. ASSUME NEW c \in S, Ahead(f, c, b) PROVE Ahead(f, c, a)
          <5>1. /\ a.at \in Nat /\ a.id \in Nat /\ b.at \in Nat /\ b.id \in Nat
                /\ c.at \in Nat /\ c.id \in Nat
            BY <2>1, PositionTypes
          <5> QED
            BY <2>2, <4>1, <5>1, AheadIsTransitive
        <4> QED
          BY <4>1
      <3>2. Cardinality(Before(b)) <= Cardinality(Before(a))
        BY <1>2, <2>1, <3>1, FS_Subset
      <3>3. Cardinality(Before(a)) < limit /\ ~(Cardinality(Before(b)) < limit)
        BY <1>1, <1>5
      <3>4. Cardinality(Before(a)) \in Nat /\ Cardinality(Before(b)) \in Nat
        BY <1>2, <2>1
      <3> HIDE DEF Before
      <3> QED
        BY <3>2, <3>3, <3>4
    <2> QED
      BY <2>1, <2>2, PositionsCompare
  <1>6. Cardinality(S) <= limit => P = S
    BY <1>1, <1>3
  <1>7. P \subseteq S /\ \A a \in P : Cardinality(Before(a)) < limit
    BY <1>1
  <1> QED
    BY <1>4, <1>5, <1>6, <1>7

LEMMA LastOfPage ==
    ASSUME UniformStamps, NEW f, NEW P, P \subseteq Position, IsFiniteSet(P), P # {}
    PROVE  /\ LastOf(f, P) \in P
           /\ \A b \in P : b = LastOf(f, P) \/ Ahead(f, b, LastOf(f, P))
  <1>1. \E a \in P : \A b \in P \ {a} : SortedAhead(f, b, a)
    BY LastExists, SortsAlike
  <1>2. LastOf(f, P) \in P /\ \A b \in P \ {LastOf(f, P)} : SortedAhead(f, b, LastOf(f, P))
    BY <1>1 DEF LastOf
  <1> QED
    BY <1>2, SortsAlike

-----------------------------------------------------------------------------
(* Types. *)

LEMMA SelectFacts ==
    ASSUME NEW f \in Feed, NEW shown
    PROVE  FirstSelect(f, shown) \subseteq Rows /\ SecondSelect(f, shown) \subseteq Rows
  BY DEF FirstSelect, SecondSelect, Agents, Feed

LEMMA FollowsAreOfAgents ==
    ASSUME NEW e \in FollowPairs PROVE e[1] \in Agents /\ e[2] \in Agents
BY FeedsAssumption DEF FeedsAssumption

LEMMA AuthorsAreAgents == ASSUME NEW w \in Readers PROVE Authors(FeedOf[w]) \subseteq Agents
  BY FeedsAssumption DEF Authors, FeedsAssumption

LEMMA EncodeType ==
    ASSUME NEW f \in Feed, NEW a \in Position, now \in Nat
    PROVE  Encode(f, a) \in Cursor
  <1>1. (now + TTL) \div PerSecond \in Int
    BY FeedsAssumption DEF FeedsAssumption
  <1>2. ((now + TTL) \div PerSecond) * PerSecond \in Int
    BY <1>1, FeedsAssumption DEF FeedsAssumption
  <1> QED
    BY <1>2 DEF Encode, Cursor, Position

LEMMA TypeInit == Init => TypeOK
  BY FeedsAssumption DEF Init, TypeOK, FeedsAssumption, NoRequest

(* The writers touch the tables and the ghost held only. *)
LEMMA TypeWritten ==
    ASSUME TypeOK, Written, rows' \in [Rows -> Stamps \cup {None}],
           follows' \subseteq Agents \X Agents
    PROVE  TypeOK'
  BY DEF TypeOK, Written, StillHeld, requestVars, walkVars

LEMMA TypeFinish ==
    ASSUME TypeOK, NEW w \in Readers, Finish(w)
    PROVE  /\ pc' \in [Readers -> {"idle", "first", "second"}]
           /\ request' \in [Readers -> [limit : Limits \cup {0}, cursor : Cursor \cup {None},
                                        shown : SUBSET Agents]]
           /\ fetched' \in [Readers -> SUBSET Position]
  BY DEF TypeOK, Finish, NoRequest

(* The rows a request has to merge, and the page it answers with. *)
LEMMA ItemsFacts ==
    ASSUME TypeOK, NEW w \in Readers, NEW S, S \subseteq Rows, request[w].limit \in Limits
    PROVE  LET q == request[w]
               G == FetchedOf(FeedOf[w], Live(S), q.cursor, q.limit)
           IN /\ G \subseteq Position
              /\ IsFiniteSet(G)
              /\ G \subseteq Live(S)
              /\ \A a \in G : Beyond(FeedOf[w], q.cursor, a)
              /\ \A a \in Live(S) : Beyond(FeedOf[w], q.cursor, a)
                                      => Covers(FeedOf[w], G, q.limit, a)
  <1>1. Live(S) \subseteq Position /\ IsFiniteSet(Live(S))
    BY LiveFacts DEF TypeOK
  <1>2. request[w].cursor \in Cursor \cup {None} /\ request[w].limit \in Nat
    BY FeedsAssumption DEF TypeOK, FeedsAssumption
  <1> QED
    BY <1>1, <1>2, FetchedFacts

LEMMA TypeStep == ASSUME UniformStamps, TypeOK, WalkInvariant, [Next]_vars PROVE TypeOK'
  <1> USE FeedsAssumption DEF FeedsAssumption
  <1>1. CASE Tick
    BY <1>1 DEF Tick, TypeOK, dbVars, requestVars, walkVars
  <1>2. CASE Clear
    BY <1>2, TypeWritten DEF Clear
  <1>3. CASE Seed
    <2>1. rows' \in [Rows -> Stamps \cup {None}]
      BY <1>3 DEF Seed, TypeOK
    <2> QED
      BY <1>3, <2>1, TypeWritten DEF Seed, TypeOK
  <1>4. ASSUME NEW r \in Rows, Insert(r) PROVE TypeOK'
    <2>1. rows' \in [Rows -> Stamps \cup {None}]
      BY <1>4 DEF Insert, TypeOK
    <2> QED
      BY <1>4, <2>1, TypeWritten DEF Insert, TypeOK
  <1>5. ASSUME NEW r \in Rows, Undo(r) PROVE TypeOK'
    <2>1. rows' \in [Rows -> Stamps \cup {None}]
      BY <1>5 DEF Undo, TypeOK
    <2> QED
      BY <1>5, <2>1, TypeWritten DEF Undo, TypeOK
  <1>6. ASSUME NEW a \in Agents, NEW b \in Agents, ChangeFollow(a, b) PROVE TypeOK'
    <2>1. follows' \subseteq Agents \X Agents
      BY <1>6 DEF ChangeFollow, TypeOK
    <2> QED
      BY <1>6, <2>1, TypeWritten DEF ChangeFollow, TypeOK
  <1>7. ASSUME NEW w \in Readers, Ask(w) PROVE TypeOK'
    <2>1. PICK limit \in Limits, c \in {None} \cup Strays \cup {cursor[v] : v \in Readers} :
            /\ request' = [request EXCEPT ![w] =
                             [limit |-> limit, cursor |-> c, shown |-> Authors(FeedOf[w])]]
            /\ IF c = None
               THEN /\ cursor' = [cursor EXCEPT ![w] = None]
                    /\ pages' = [pages EXCEPT ![w] = <<>>]
                    /\ over' = [over EXCEPT ![w] = FALSE]
                    /\ held' = [held EXCEPT ![w] = Showing(FeedOf[w])]
               ELSE UNCHANGED <<walkVars, held>>
      BY <1>7 DEF Ask
    <2>2. c \in Cursor \cup {None}
      BY FeedsAssumption DEF TypeOK, FeedsAssumption
    <2>3. [limit |-> limit, cursor |-> c, shown |-> Authors(FeedOf[w])]
            \in [limit : Limits \cup {0}, cursor : Cursor \cup {None}, shown : SUBSET Agents]
      BY <2>2, AuthorsAreAgents
    <2>4. request' \in [Readers -> [limit : Limits \cup {0}, cursor : Cursor \cup {None},
                                    shown : SUBSET Agents]]
      BY <2>1, <2>3 DEF TypeOK
    <2>5. Showing(FeedOf[w]) \subseteq Rows
      BY SelectFacts DEF Showing
    <2>6. /\ cursor' \in [Readers -> Cursor \cup {None}]
          /\ over' \in [Readers -> BOOLEAN]
          /\ held' \in [Readers -> SUBSET Rows]
          /\ pages' \in [Readers -> Seq(SUBSET Position)]
      <3>1. CASE c = None
        <4>1. <<>> \in Seq(SUBSET Position)
          OBVIOUS
        <4>2. /\ cursor' = [cursor EXCEPT ![w] = None]
              /\ pages' = [pages EXCEPT ![w] = <<>>]
              /\ over' = [over EXCEPT ![w] = FALSE]
              /\ held' = [held EXCEPT ![w] = Showing(FeedOf[w])]
          BY <2>1, <3>1
        <4> QED
          BY <2>5, <4>1, <4>2 DEF TypeOK
      <3>2. CASE c # None
        BY <2>1, <3>2 DEF TypeOK, walkVars
      <3> QED
        BY <3>1, <3>2
    <2>8. /\ pc' = [pc EXCEPT ![w] = "first"]
          /\ UNCHANGED <<now, rows, follows, fetched>>
      BY <1>7 DEF Ask, dbVars
    <2> QED
      BY <2>4, <2>6, <2>8 DEF TypeOK
  <1>8. ASSUME NEW w \in Readers, ReadFirst(w) PROVE TypeOK'
    <2>1. request[w].limit \in Limits
      BY <1>8 DEF ReadFirst, WalkInvariant, WalkKept, GoesOn
    <2>2. FirstSelect(FeedOf[w], request[w].shown) \subseteq Rows
      BY SelectFacts
    <2>3. fetched'[w] \subseteq Position
      BY <1>8, <2>1, <2>2, ItemsFacts DEF ReadFirst, TypeOK
    <2>4. fetched' \in [Readers -> SUBSET Position]
      BY <1>8, <2>3 DEF ReadFirst, TypeOK
    <2> QED
      BY <1>8, <2>4 DEF ReadFirst, TypeOK, dbVars, walkVars
  <1>9. ASSUME NEW w \in Readers, ReadSecond(w) PROVE TypeOK'
    <2> DEFINE f == FeedOf[w]
               q == request[w]
               G == FetchedOf(f, Live(SecondSelect(f, q.shown)), q.cursor, q.limit)
               items == fetched[w] \cup G
               page == PageOf(f, items, q.limit)
    <2>1. q.limit \in Limits /\ FetchedEnough(w) /\ f \in Feed
      BY <1>9 DEF ReadSecond, WalkInvariant, WalkKept, GoesOn
    <2>2. G \subseteq Position /\ IsFiniteSet(G)
      BY <2>1, SelectFacts, ItemsFacts
    <2>3. items \subseteq Position /\ IsFiniteSet(items)
      BY <2>1, <2>2, FS_Union DEF FetchedEnough, TypeOK
    <2>4. page \subseteq Position /\ IsFiniteSet(page) /\ (items # {} => page # {})
      <3>1. q.limit \in Nat \ {0}
        BY <2>1
      <3>2. page \subseteq items /\ (items # {} => page # {})
        <4> HIDE DEF items, q
        <4> QED
          BY <2>3, <3>1, PageFacts
      <3>3. IsFiniteSet(page)
        <4> HIDE DEF items, page
        <4> QED
          BY <2>3, <3>2, FS_Subset
      <3> QED
        BY <2>3, <3>2, <3>3
    <2>5. Cardinality(items) > q.limit => items # {}
      <3>1. q.limit \in Nat
        BY <2>1
      <3>2. Cardinality({}) = 0
        BY FS_EmptySet
      <3>3. CASE items = {}
        <4>1. Cardinality(items) = 0
          BY <3>2, <3>3
        <4> QED
          BY <3>1, <4>1
      <3> QED
        BY <3>3
    <2>6. Cardinality(items) > q.limit => Encode(f, LastOf(f, page)) \in Cursor
      <3>1. Cardinality(items) > q.limit => LastOf(f, page) \in Position
        BY <2>4, <2>5, LastOfPage
      <3> QED
        BY <2>1, <3>1, EncodeType DEF TypeOK
    <2>7. pages' = [pages EXCEPT ![w] = Append(@, page)]
      BY <1>9 DEF ReadSecond
    <2>8. pages' \in [Readers -> Seq(SUBSET Position)]
      <3> HIDE DEF page
      <3>1. Append(pages[w], page) \in Seq(SUBSET Position)
        BY <2>4 DEF TypeOK
      <3> QED
        BY <2>7, <3>1 DEF TypeOK
    <2>9. cursor' = [cursor EXCEPT ![w] = IF Cardinality(items) > q.limit
                                          THEN Encode(f, LastOf(f, page)) ELSE None]
      BY <1>9 DEF ReadSecond
    <2>10. cursor' \in [Readers -> Cursor \cup {None}]
      <3> HIDE DEF items, page, f
      <3> QED
        BY <2>6, <2>9 DEF TypeOK
    <2>11. over' \in [Readers -> BOOLEAN]
      BY <1>9 DEF ReadSecond, TypeOK
    <2>12. Finish(w) /\ UNCHANGED <<now, rows, follows, held>>
      BY <1>9 DEF ReadSecond, dbVars
    <2> QED
      BY <2>8, <2>10, <2>11, <2>12, TypeFinish DEF TypeOK
  <1>10. ASSUME NEW w \in Readers, Unanswered(w) PROVE TypeOK'
    BY <1>10, TypeFinish DEF Unanswered, TypeOK, dbVars, walkVars
  <1>11. CASE UNCHANGED vars
    BY <1>11 DEF vars, dbVars, requestVars, walkVars, TypeOK
  <1> QED
    BY <1>1, <1>2, <1>3, <1>4, <1>5, <1>6, <1>7, <1>8, <1>9, <1>10, <1>11, FollowsAreOfAgents
       DEF Next

-----------------------------------------------------------------------------
(* The invariant. *)

LEMMA WalkInit == Init => WalkInvariant
  <1> SUFFICES ASSUME Init PROVE WalkInvariant
    OBVIOUS
  <1>1. \A w \in Readers : Live(held[w]) = {}
    BY DEF Init, Live
  <1>2. \A w \in Readers : Given(w) = {} /\ pages[w] = <<>>
    BY DEF Init, Given
  <1> QED
    BY <1>1, <1>2 DEF Init, WalkInvariant, WalkKept, MissesNothing, InOrder

(* A walk none of whose variables changes, while the tables stay. *)
LEMMA WalkFrame ==
    ASSUME NEW w \in Readers, WalkKept(w), UNCHANGED <<rows, follows>>,
           pc'[w] = pc[w], request'[w] = request[w], fetched'[w] = fetched[w],
           cursor'[w] = cursor[w], pages'[w] = pages[w], over'[w] = over[w],
           held'[w] = held[w]
    PROVE  WalkKept(w)'
  <1>1. Given(w)' = Given(w)
    BY DEF Given
  <1>2. \A S : Live(S)' = Live(S)
    BY DEF Live
  <1>3. Showing(FeedOf[w])' = Showing(FeedOf[w])
    BY DEF Showing, Authors
  <1>4. Live(held[w])' = Live(held[w])
    BY DEF Live
  <1>5. /\ GoesOn(w)' = GoesOn(w)
        /\ Live(held[w] \cap FirstSelect(FeedOf[w], request[w].shown))'
             = Live(held[w] \cap FirstSelect(FeedOf[w], request[w].shown))
    BY DEF GoesOn, Live
  <1>6. FetchedEnough(w) => FetchedEnough(w)'
    BY <1>5 DEF FetchedEnough
  <1>7. MissesNothing(w)' /\ InOrder(w)'
    BY <1>1, <1>4 DEF WalkKept, MissesNothing, InOrder
  <1> QED
    BY <1>1, <1>3, <1>5, <1>6, <1>7 DEF WalkKept

LEMMA WalkWritten ==
    ASSUME TypeOK, WalkInvariant, Written,
           \A r \in Rows : rows[r] # None /\ rows'[r] # None => rows'[r] = rows[r],
           \A r \in Rows : Fixture[r] # None => rows'[r] \in {None, Fixture[r]}
    PROVE  WalkInvariant'
  <1> SUFFICES ASSUME NEW w \in Readers PROVE WalkKept(w)'
    BY DEF WalkInvariant
  <1>1. WalkKept(w)
    BY DEF WalkInvariant
  <1>2. /\ held'[w] = held[w] \cap Showing(FeedOf[w])'
        /\ pc' = pc /\ request' = request /\ fetched' = fetched
        /\ cursor' = cursor /\ pages' = pages /\ over' = over
    BY DEF Written, StillHeld, requestVars, walkVars
  <1>3. \A r \in held'[w] : r \in held[w] /\ r \in Rows /\ rows[r] # None
    BY <1>1, <1>2 DEF WalkKept, Showing, TypeOK
  <1>4. Live(held[w])' \subseteq Live(held[w])
    BY <1>3 DEF Live
  <1>5. Live(held[w] \cap FirstSelect(FeedOf[w], request[w].shown))'
          \subseteq Live(held[w] \cap FirstSelect(FeedOf[w], request[w].shown))
    BY <1>2, <1>3 DEF Live
  <1>6. Given(w)' = Given(w)
    BY <1>2 DEF Given
  <1>7. GoesOn(w) => GoesOn(w)'
    BY <1>2, <1>3 DEF GoesOn
  <1>8. FetchedEnough(w) => FetchedEnough(w)'
    BY <1>2, <1>5 DEF FetchedEnough
  <1>9. MissesNothing(w)' /\ InOrder(w)'
    BY <1>1, <1>2, <1>4, <1>6 DEF WalkKept, MissesNothing, InOrder
  <1>10. held'[w] \subseteq Showing(FeedOf[w])'
    BY <1>2
  <1> QED
    BY <1>1, <1>2, <1>6, <1>7, <1>8, <1>9, <1>10 DEF WalkKept

LEMMA WalkAsk ==
    ASSUME TypeOK, WalkInvariant, NEW w \in Readers, Ask(w)
    PROVE  WalkKept(w)'
  <1> DEFINE f == FeedOf[w]
  <1>1. PICK limit \in Limits, c \in {None} \cup Strays \cup {cursor[v] : v \in Readers} :
          /\ c # None => c = cursor[w] \/ c.feed # f
          /\ request' = [request EXCEPT ![w] =
                           [limit |-> limit, cursor |-> c, shown |-> Authors(f)]]
          /\ IF c = None
             THEN /\ cursor' = [cursor EXCEPT ![w] = None]
                  /\ pages' = [pages EXCEPT ![w] = <<>>]
                  /\ over' = [over EXCEPT ![w] = FALSE]
                  /\ held' = [held EXCEPT ![w] = Showing(f)]
             ELSE UNCHANGED <<walkVars, held>>
    BY DEF Ask
  <1>2. pc'[w] = "first" /\ UNCHANGED <<rows, follows>>
    BY DEF Ask, dbVars, TypeOK
  <1>3. WalkKept(w)
    BY DEF WalkInvariant
  <1>4. request'[w] = [limit |-> limit, cursor |-> c, shown |-> Authors(f)]
    BY <1>1 DEF TypeOK
  <1>5. Showing(f)' = Showing(f)
    BY <1>2 DEF Showing, Authors
  <1>6. held'[w] \subseteq Showing(f)
    BY <1>1, <1>3 DEF WalkKept, TypeOK
  <1>7. held'[w] \subseteq FirstSelect(f, request'[w].shown) \cup SecondSelect(f, request'[w].shown)
    BY <1>4, <1>6 DEF Showing
  <1>8. CASE c = None
    <2>1. cursor'[w] = None /\ pages'[w] = <<>> /\ over'[w] = FALSE
      BY <1>1, <1>8 DEF TypeOK
    <2>2. GoesOn(w)'
      BY <1>4, <1>7, <1>8, <2>1 DEF GoesOn
    <2>3. MissesNothing(w)' /\ InOrder(w)'
      BY <2>1 DEF MissesNothing, InOrder
    <2> QED
      BY <1>2, <1>5, <1>6, <2>1, <2>2, <2>3 DEF WalkKept
  <1>9. CASE c # None
    <2>1. cursor' = cursor /\ pages' = pages /\ over' = over /\ held' = held
      BY <1>1, <1>9 DEF walkVars
    <2>2. GoesOn(w)'
      BY <1>1, <1>4, <1>7, <1>9, <2>1 DEF GoesOn
    <2>3. Given(w)' = Given(w) /\ Live(held[w])' = Live(held[w])
      BY <1>2, <2>1 DEF Given, Live
    <2>4. MissesNothing(w)' /\ InOrder(w)'
      BY <1>3, <2>1, <2>3 DEF WalkKept, MissesNothing, InOrder
    <2> QED
      BY <1>2, <1>3, <1>5, <1>6, <2>1, <2>2, <2>3, <2>4 DEF WalkKept
  <1> QED
    BY <1>8, <1>9

LEMMA WalkReadFirst ==
    ASSUME TypeOK, WalkInvariant, NEW w \in Readers, ReadFirst(w)
    PROVE  WalkKept(w)'
  <1> DEFINE f == FeedOf[w]
             q == request[w]
             S == FirstSelect(f, q.shown)
  <1>1. /\ pc'[w] = "second" /\ Decodes(f, q.cursor)
        /\ fetched'[w] = FetchedOf(f, Live(S), q.cursor, q.limit)
        /\ UNCHANGED <<rows, follows, request, cursor, pages, over, held>>
    BY DEF ReadFirst, dbVars, walkVars, TypeOK
  <1>2. WalkKept(w) /\ GoesOn(w)
    BY DEF WalkInvariant, WalkKept, ReadFirst
  <1>3. GoesOn(w)'
    BY <1>1, <1>2 DEF GoesOn
  <1>4. q.cursor = cursor[w]
    BY <1>1, <1>2 DEF GoesOn, Decodes
  <1>5. /\ IsFiniteSet(fetched'[w])
        /\ \A a \in fetched'[w] : Beyond(f, q.cursor, a)
        /\ \A a \in Live(S) : Beyond(f, q.cursor, a) => Covers(f, fetched'[w], q.limit, a)
    <2>1. S \subseteq Rows
      BY SelectFacts, FeedsAssumption DEF FeedsAssumption
    <2> QED
      BY <1>1, <1>2, <2>1, ItemsFacts DEF GoesOn
  <1>6. Live(held[w] \cap S)' \subseteq Live(S)
    BY <1>1 DEF Live
  <1>7. FetchedEnough(w)'
    BY <1>1, <1>4, <1>5, <1>6 DEF FetchedEnough
  <1>8. Given(w)' = Given(w) /\ Live(held[w])' = Live(held[w]) /\ Showing(f)' = Showing(f)
    BY <1>1 DEF Given, Live, Showing, Authors
  <1>9. MissesNothing(w)' /\ InOrder(w)'
    BY <1>1, <1>2, <1>8 DEF WalkKept, MissesNothing, InOrder
  <1> QED
    BY <1>1, <1>2, <1>3, <1>7, <1>8, <1>9 DEF WalkKept

LEMMA WalkUnanswered ==
    ASSUME TypeOK, WalkInvariant, NEW w \in Readers, Unanswered(w)
    PROVE  WalkKept(w)'
  <1>1. pc'[w] = "idle" /\ UNCHANGED <<rows, follows, cursor, pages, over, held>>
    BY DEF Unanswered, Finish, dbVars, walkVars, TypeOK
  <1>2. WalkKept(w)
    BY DEF WalkInvariant
  <1>3. /\ Given(w)' = Given(w) /\ Live(held[w])' = Live(held[w])
        /\ Showing(FeedOf[w])' = Showing(FeedOf[w])
    BY <1>1 DEF Given, Live, Showing, Authors
  <1>4. MissesNothing(w)' /\ InOrder(w)'
    BY <1>1, <1>2, <1>3 DEF WalkKept, MissesNothing, InOrder
  <1> QED
    BY <1>1, <1>2, <1>3, <1>4 DEF WalkKept

(* A row that both SELECTs were able to see, and that is neither on the page   *)
(* nor behind the new cursor, would have to be ahead of a row of the page.   *)
LEMMA PageCovers ==
    ASSUME UniformStamps, NEW f, NEW items, items \subseteq Position, IsFiniteSet(items),
           NEW limit \in Nat \ {0}, NEW F, F \subseteq items, NEW a \in Position,
           Covers(f, F, limit, a)
    PROVE  /\ Cardinality(items) <= limit => a \in PageOf(f, items, limit)
           /\ \A z \in PageOf(f, items, limit) :
                a \in PageOf(f, items, limit) \/ Ahead(f, z, a)
  <1> DEFINE P == PageOf(f, items, limit)
             Before(x) == {b \in items : Ahead(f, b, x)}
             Y == {b \in F : Ahead(f, b, a)}
  <1>1. /\ P \subseteq items
        /\ Cardinality(items) <= limit => P = items
        /\ \A x \in P, y \in items : y \notin P => Ahead(f, x, y)
        /\ \A x \in P : Cardinality(Before(x)) < limit
    BY PageFacts
  <1>2. CASE a \in F
    BY <1>1, <1>2
  <1>3. CASE a \notin F
    <2>1. Cardinality(Y) > limit
      BY <1>3 DEF Covers
    <2>2. Y \in SUBSET items /\ Cardinality(items) \in Nat
      BY FS_CardinalityType
    <2>3. Cardinality(Y) <= Cardinality(items) /\ IsFiniteSet(Y)
      <3> HIDE DEF Y
      <3> QED
        BY <2>2, FS_Subset
    <2>4. Cardinality(Y) \in Nat
      BY <2>3, FS_CardinalityType
    <2>5. ~(Cardinality(items) <= limit)
      <3> HIDE DEF Y
      <3> QED
        BY <2>1, <2>2, <2>3, <2>4
    <2>6. ASSUME NEW z \in P, a \notin P PROVE Ahead(f, z, a)
      <3>1. CASE Ahead(f, a, z)
        <4>1. Y \in SUBSET Before(z)
          <5>1. ASSUME NEW b \in F, Ahead(f, b, a) PROVE Ahead(f, b, z)
            <6>1. /\ a.at \in Nat /\ a.id \in Nat /\ b.at \in Nat /\ b.id \in Nat
                  /\ z.at \in Nat /\ z.id \in Nat
              BY <1>1, PositionTypes
            <6> QED
              BY <3>1, <5>1, <6>1, AheadIsTransitive
          <5> QED
            BY <5>1
        <4>2. Before(z) \in SUBSET items
          OBVIOUS
        <4>3. IsFiniteSet(Before(z)) /\ Cardinality(Before(z)) \in Nat
          <5> HIDE DEF Before
          <5> QED
            BY <4>2, FS_Subset, FS_CardinalityType
        <4>4. Cardinality(Y) <= Cardinality(Before(z))
          <5> HIDE DEF Before, Y
          <5> QED
            BY <4>1, <4>3, FS_Subset
        <4>5. Cardinality(Before(z)) < limit
          BY <1>1
        <4> HIDE DEF Before, Y
        <4> QED
          BY <2>1, <2>4, <4>3, <4>4, <4>5
      <3>2. z # a /\ z \in Position
        BY <1>1, <2>6
      <3> QED
        BY <3>1, <3>2, PositionsCompare
    <2> QED
      BY <2>5, <2>6
  <1> QED
    BY <1>2, <1>3

(* An item behind the cursor is ahead of every item beyond it. *)
LEMMA CursorDivides ==
    ASSUME NEW f, NEW c \in Cursor, NEW a \in Position, NEW b \in Position,
           ~Ahead(f, c, a), Ahead(f, c, b)
    PROVE  Ahead(f, a, b)
  <1>1. /\ a.at \in Nat /\ a.id \in Nat /\ b.at \in Nat /\ b.id \in Nat
        /\ c.at \in Nat /\ c.id \in Nat
    BY PositionTypes, CursorTypes
  <1>2. (a.at = c.at /\ a.id = c.id) \/ Ahead(f, a, c)
    BY <1>1, AheadIsStrict
  <1>3. CASE a.at = c.at /\ a.id = c.id
    BY <1>3 DEF Ahead, Earlier
  <1>4. CASE Ahead(f, a, c)
    BY <1>1, <1>4, AheadIsTransitive
  <1> QED
    BY <1>2, <1>3, <1>4

LEMMA WalkReadSecond ==
    ASSUME UniformStamps, TypeOK, TypeOK', WalkInvariant, NEW w \in Readers, ReadSecond(w)
    PROVE  WalkKept(w)'
  <1> DEFINE f == FeedOf[w]
             q == request[w]
             c == q.cursor
             G == FetchedOf(f, Live(SecondSelect(f, q.shown)), c, q.limit)
             items == fetched[w] \cup G
             page == PageOf(f, items, q.limit)
             more == Cardinality(items) > q.limit
             last == LastOf(f, page)
  <1>1. /\ pc'[w] = "idle"
        /\ pages'[w] = Append(pages[w], page)
        /\ cursor'[w] = IF more THEN Encode(f, last) ELSE None
        /\ over'[w] = ~more
        /\ rows' = rows /\ follows' = follows /\ held' = held
    BY DEF ReadSecond, Finish, TypeOK, dbVars
  <1>2. WalkKept(w) /\ GoesOn(w) /\ FetchedEnough(w)
    BY DEF WalkInvariant, WalkKept, ReadSecond
  <1>3. /\ c = cursor[w] /\ c \in Cursor \cup {None}
        /\ c = None => pages[w] = <<>> /\ ~over[w]
        /\ q.limit \in Limits /\ q.limit \in Nat \ {0} /\ f \in Feed
    BY <1>2, FeedsAssumption DEF FetchedEnough, GoesOn, TypeOK, FeedsAssumption
  <1>4. /\ SecondSelect(f, q.shown) \subseteq Rows
        /\ Live(SecondSelect(f, q.shown)) \subseteq Position
    BY <1>3, SelectFacts, LiveFacts DEF TypeOK
  <1>5. /\ G \subseteq Position /\ IsFiniteSet(G)
        /\ \A a \in G : Beyond(f, c, a)
        /\ \A a \in Live(SecondSelect(f, q.shown)) : Beyond(f, c, a) => Covers(f, G, q.limit, a)
    BY <1>3, <1>4, ItemsFacts
  <1>6. /\ items \subseteq Position /\ IsFiniteSet(items)
        /\ \A a \in items : Beyond(f, c, a)
    <2>1. IsFiniteSet(items)
      BY <1>2, <1>5, FS_Union DEF FetchedEnough
    <2> QED
      BY <1>2, <1>5, <2>1 DEF FetchedEnough, TypeOK
  <1>7. /\ page \subseteq items
        /\ items # {} => page # {}
    <2> HIDE DEF items, q
    <2> QED
      BY <1>3, <1>6, PageFacts
  <1>8. IsFiniteSet(page)
    <2> HIDE DEF items, page
    <2> QED
      BY <1>6, <1>7, FS_Subset
  <1>9. more => /\ last \in page
                /\ \A b \in page : b = last \/ Ahead(f, b, last)
    <2>1. more => items # {}
      <3>1. Cardinality({}) = 0
        BY FS_EmptySet
      <3>2. CASE items = {}
        <4>1. Cardinality(items) = 0
          BY <3>1, <3>2
        <4> QED
          BY <1>3, <4>1
      <3> QED
        BY <3>2
    <2>2. page \subseteq Position
      BY <1>6, <1>7
    <2> HIDE DEF page, more, items
    <2> QED
      BY <1>7, <1>8, <2>1, <2>2, LastOfPage
  <1>10. \A a : Ahead(f, Encode(f, last), a) <=> Ahead(f, last, a)
    BY DEF Encode, Ahead, Earlier
  <1>11. Given(w)' = Given(w) \cup page
    <2>1. pages[w] \in Seq(SUBSET Position)
      BY DEF TypeOK
    <2>2. /\ Len(pages'[w]) = Len(pages[w]) + 1
          /\ \A i \in 1..Len(pages[w]) : pages'[w][i] = pages[w][i]
          /\ pages'[w][Len(pages[w]) + 1] = page
          /\ Len(pages[w]) \in Nat
      <3> HIDE DEF page
      <3> QED
        BY <1>1, <2>1
    <2> HIDE DEF page
    <2>3. 1..Len(pages'[w]) = 1..Len(pages[w]) \cup {Len(pages[w]) + 1}
      BY <2>2
    <2> QED
      BY <2>2, <2>3 DEF Given
  <1>12. Live(held[w])' = Live(held[w]) /\ Showing(f)' = Showing(f)
    BY <1>1 DEF Live, Showing, Authors
  <1>13. Given(w) \subseteq Position /\ (c = None => Given(w) = {})
    BY <1>3 DEF Given, TypeOK
  <1> HIDE DEF last, more, page, items
  <1>14. MissesNothing(w)'
    <2> SUFFICES ASSUME NEW a \in Live(held[w]), a \notin Given(w), a \notin page
                 PROVE  cursor'[w] # None /\ Ahead(f, cursor'[w], a)
      BY <1>11, <1>12 DEF MissesNothing
    <2>1. Beyond(f, c, a)
      BY <1>2, <1>3 DEF WalkKept, MissesNothing, Beyond
    <2>2. /\ a \in Position
          /\ \/ a \in Live(held[w] \cap FirstSelect(f, q.shown))
             \/ a \in Live(SecondSelect(f, q.shown))
      <3>1. a.id \in held[w] /\ a.id \in Rows /\ rows[a.id] # None
            /\ a = [at |-> rows[a.id], id |-> a.id]
        BY <1>2 DEF Live, TypeOK
      <3>2. a.id \in FirstSelect(f, q.shown) \cup SecondSelect(f, q.shown)
        BY <1>2, <3>1 DEF GoesOn
      <3>3. a \in Position
        BY <3>1 DEF Position, TypeOK
      <3> QED
        BY <3>1, <3>2, <3>3 DEF Live
    <2>3. Covers(f, fetched[w], q.limit, a) \/ Covers(f, G, q.limit, a)
      BY <1>2, <1>5, <2>1, <2>2 DEF FetchedEnough
    <2>4. /\ Cardinality(items) <= q.limit => a \in page
          /\ \A z \in page : a \in page \/ Ahead(f, z, a)
      <3>1. fetched[w] \subseteq items /\ G \subseteq items
        BY DEF items
      <3> HIDE DEF G, f, q
      <3> QED
        BY <1>3, <1>6, <2>2, <2>3, <3>1, PageCovers DEF page
    <2>5. more
      <3>1. Cardinality(items) \in Nat
        BY <1>6, FS_CardinalityType
      <3> QED
        BY <1>3, <2>4, <3>1 DEF more
    <2>6. cursor'[w] = Encode(f, last) /\ Ahead(f, last, a)
      BY <1>1, <1>9, <2>4, <2>5
    <2>7. cursor'[w] # None
      <3>1. last \in Position
        BY <1>6, <1>7, <1>9, <2>5
      <3>2. Encode(f, last) \in Cursor
        BY <1>3, <3>1, EncodeType DEF TypeOK
      <3> QED
        BY <2>6, <3>2, FeedsAssumption DEF FeedsAssumption
    <2> QED
      BY <1>10, <2>6, <2>7
  <1>15. ASSUME cursor'[w] # None, NEW a \in Given(w)'
         PROVE  ~Ahead(f, cursor'[w], a)
    <2>1. more /\ cursor'[w] = Encode(f, last)
      BY <1>1, <1>15
    <2>2. last \in page /\ last \in Position /\ Beyond(f, c, last)
      BY <1>6, <1>7, <1>9, <2>1
    <2>3. CASE a \in page
      BY <1>6, <1>7, <1>9, <1>10, <2>1, <2>2, <2>3, PositionsCompare
    <2>4. CASE a \in Given(w)
      <3>1. c # None /\ c \in Cursor /\ ~Ahead(f, c, a) /\ Ahead(f, c, last) /\ a \in Position
        BY <1>2, <1>3, <1>13, <2>2, <2>4 DEF WalkKept, Beyond
      <3>2. Ahead(f, a, last)
        BY <2>2, <3>1, CursorDivides
      <3> QED
        BY <1>10, <2>1, <2>2, <3>1, <3>2, PositionsCompare
    <2> QED
      BY <1>11, <1>15, <2>3, <2>4
  <1>16. InOrder(w)'
    <2>1. pages[w] \in Seq(SUBSET Position) /\ pages'[w] = Append(pages[w], page)
      BY <1>1 DEF TypeOK, page, items
    <2> SUFFICES ASSUME NEW i \in 1..Len(pages'[w]), NEW j \in 1..Len(pages'[w]), i < j,
                        NEW a \in pages'[w][i], NEW b \in pages'[w][j]
                 PROVE  Ahead(f, a, b)
      BY DEF InOrder
    <2>2. /\ Len(pages[w]) \in Nat /\ Len(pages'[w]) = Len(pages[w]) + 1
          /\ \A k \in 1..Len(pages[w]) : pages'[w][k] = pages[w][k]
          /\ pages'[w][Len(pages[w]) + 1] = page
      BY <2>1
    <2>3. i \in 1..Len(pages[w]) /\ a \in Given(w)
      BY <2>2 DEF Given
    <2>4. CASE j \in 1..Len(pages[w])
      BY <1>2, <2>2, <2>3, <2>4 DEF WalkKept, InOrder
    <2>5. CASE j = Len(pages[w]) + 1
      <3>1. b \in page /\ b \in Position /\ Beyond(f, c, b)
        BY <1>6, <1>7, <2>2, <2>5
      <3>2. c # None /\ c \in Cursor /\ ~Ahead(f, c, a) /\ Ahead(f, c, b) /\ a \in Position
        BY <1>2, <1>3, <1>13, <2>3, <3>1 DEF WalkKept, Beyond
      <3> QED
        BY <3>1, <3>2, CursorDivides
    <2> QED
      BY <2>2, <2>4, <2>5
  <1>17. held'[w] \subseteq Showing(f)'
    BY <1>1, <1>2, <1>12 DEF WalkKept
  <1> QED
    BY <1>1, <1>14, <1>15, <1>16, <1>17 DEF WalkKept

LEMMA WalkStep ==
    ASSUME UniformStamps, TypeOK, TypeOK', WalkInvariant, [Next]_vars
    PROVE  WalkInvariant'
  <1>1. CASE Clear
    BY <1>1, WalkWritten DEF Clear
  <1>2. CASE Seed
    BY <1>2, WalkWritten DEF Seed, WalkInvariant, TypeOK
  <1>3. ASSUME NEW r \in Rows, Insert(r) PROVE WalkInvariant'
    BY <1>3, WalkWritten DEF Insert, WalkInvariant, TypeOK
  <1>4. ASSUME NEW r \in Rows, Undo(r) PROVE WalkInvariant'
    BY <1>4, WalkWritten DEF Undo, WalkInvariant, TypeOK
  <1>5. ASSUME NEW a \in Agents, NEW b \in Agents, ChangeFollow(a, b) PROVE WalkInvariant'
    BY <1>5, WalkWritten DEF ChangeFollow, WalkInvariant
  <1>6. ASSUME UNCHANGED <<rows, follows, requestVars, walkVars, held>> PROVE WalkInvariant'
    <2>1. \A w \in Readers : WalkKept(w)'
      BY <1>6, WalkFrame DEF WalkInvariant, requestVars, walkVars
    <2> QED
      BY <1>6, <2>1 DEF WalkInvariant
  <1>7. ASSUME NEW w \in Readers, Ask(w) \/ ReadFirst(w) \/ ReadSecond(w) \/ Unanswered(w)
        PROVE  WalkInvariant'
    <2>1. WalkKept(w)'
      BY <1>7, WalkAsk, WalkReadFirst, WalkReadSecond, WalkUnanswered
    <2>2. /\ UNCHANGED <<rows, follows>>
          /\ \A v \in Readers \ {w} :
               /\ pc'[v] = pc[v] /\ request'[v] = request[v] /\ fetched'[v] = fetched[v]
               /\ cursor'[v] = cursor[v] /\ pages'[v] = pages[v] /\ over'[v] = over[v]
               /\ held'[v] = held[v]
      <3>1. CASE Ask(w)
        BY <3>1 DEF Ask, TypeOK, dbVars, walkVars
      <3>2. CASE ReadFirst(w)
        BY <3>2 DEF ReadFirst, TypeOK, dbVars, walkVars
      <3>3. CASE ReadSecond(w)
        BY <3>3 DEF ReadSecond, Finish, TypeOK, dbVars
      <3>4. CASE Unanswered(w)
        BY <3>4 DEF Unanswered, Finish, TypeOK, dbVars, walkVars
      <3> QED
        BY <1>7, <3>1, <3>2, <3>3, <3>4
    <2>3. \A v \in Readers \ {w} : WalkKept(v)'
      BY <2>2, WalkFrame DEF WalkInvariant
    <2> QED
      BY <2>1, <2>2, <2>3 DEF WalkInvariant
  <1> QED
    BY <1>1, <1>2, <1>3, <1>4, <1>5, <1>6, <1>7, FollowsAreOfAgents
       DEF Next, Tick, vars, dbVars, requestVars, walkVars

(* The invariant of a walk (timeline_feed and its siblings, cursors.py), from *)
(* which the two theorems below follow.                                      *)
THEOREM WalkInvariantHolds == ASSUME UniformStamps PROVE Spec => [](TypeOK /\ WalkInvariant)
  <1>1. Init => TypeOK /\ WalkInvariant
    BY TypeInit, WalkInit
  <1>2. TypeOK /\ WalkInvariant /\ [Next]_vars => (TypeOK /\ WalkInvariant)'
    BY TypeStep, WalkStep
  <1> QED
    BY <1>1, <1>2, PTL DEF Spec

(* What readers hold has the type they expect, and a cursor is always a       *)
(* position of the feed it was cut from.                                     *)
THEOREM TypeCorrect == ASSUME UniformStamps PROVE Spec => []TypeOK
BY WalkInvariantHolds, PTL

(* Following next_cursor to the end returns everything the feed has shown     *)
(* since the walk began, whatever is inserted, undone or reset meanwhile.    *)
THEOREM WalksMissNothing == ASSUME UniformStamps PROVE Spec => []NothingMissed
  <1>1. WalkInvariant => NothingMissed
    BY DEF WalkInvariant, WalkKept, NothingMissed
  <1> QED
    BY <1>1, WalkInvariantHolds, PTL

(* No page of a walk repeats an item of an earlier page or goes back before   *)
(* it.                                                                       *)
THEOREM WalksGoForward == ASSUME UniformStamps PROVE Spec => []PagesInOrder
  <1>1. WalkInvariant => PagesInOrder
    BY DEF WalkInvariant, WalkKept, PagesInOrder
  <1> QED
    BY <1>1, WalkInvariantHolds, PTL
=============================================================================
