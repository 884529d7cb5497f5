-------------------------------- MODULE Feeds --------------------------------
(***************************************************************************)
(* Cursor pagination of the timelines, the profile tabs, the agent list and *)
(* the replies of a thread (app/services/read_models.py, cursors.py) while   *)
(* rows come and go.  A page is two SELECTs, each with its own snapshot,     *)
(* whose rows Python merges, sorts by the text of their timestamps and cuts. *)
(*                                                                          *)
(* A reader walks one feed: it asks for the first page, then presents the    *)
(* cursor of each page to get the next.  Ids are numbered in their order,    *)
(* which is taken to be the same in the database and in Python.              *)
(***************************************************************************)
EXTENDS Integers, FiniteSets, Sequences

CONSTANTS
    None,
    Rows,       \* the ids of the agents, posts, reposts and likes there may be
    Kind,       \* Rows -> "agent", "post", "repost" or "like"
    By,         \* Rows -> the agent that wrote the row, itself for an agent
    Of,         \* Rows -> the post replied to, reposted or liked, or None
    RootPost,   \* Rows -> the column root_post_id
    Fixture,    \* Rows -> the created_at the fixture file gives it, or None
    Readers,
    FeedOf,     \* Readers -> [route, of, extra]: the feed each reader walks
    Limits,
    Stamps,     \* the instants a row may be made at
    PerSecond,  \* clock ticks to the second
    TTL, MaxTime,
    MaxWalkers, \* bound on the readers that walk in one behaviour
    Strays,     \* cursors of other feeds that a reader may present by mistake
    FollowPairs \* bound on the follows that change

Agents == {r \in Rows : Kind[r] = "agent"}
Feed == [route : {"agents", "public", "home", "posts", "replies", "likes", "reposts", "thread"},
         of : Rows \cup {None}, extra : BOOLEAN]
Position == [at : Stamps, id : Rows]
Cursor == [at : Stamps, id : Rows, feed : Feed, exp : Int]

FeedsAssumption ==
    /\ Rows \subseteq Nat /\ None \notin Rows /\ IsFiniteSet(Rows)
    /\ Stamps \subseteq Nat /\ None \notin Stamps /\ None \notin Cursor
    /\ Kind \in [Rows -> {"agent", "post", "repost", "like"}]
    /\ By \in [Rows -> Agents]
    /\ Of \in [Rows -> Rows \cup {None}]
    /\ RootPost \in [Rows -> Rows \cup {None}]
    /\ Fixture \in [Rows -> Stamps \cup {None}]
    /\ FeedOf \in [Readers -> Feed]
    /\ \A w \in Readers : FeedOf[w].route = "home" => FeedOf[w].of \in Agents
    /\ Limits \subseteq Nat \ {0}
    /\ PerSecond \in Nat \ {0} /\ TTL \in Nat /\ MaxTime \in Nat /\ MaxWalkers \in Nat
    /\ FollowPairs \subseteq Agents \X Agents
    /\ Strays \subseteq Cursor
ASSUME FeedsAssumption

VARIABLES
    now,
    rows,      \* Rows -> created_at, None while there is no such row
    follows,   \* pairs of agents
    pc,        \* what the reader's request does next
    request,   \* the limit and the cursor it came with, the authors it may show
    fetched,   \* what its first SELECT returned
    cursor,    \* the cursor of the reader's last page, None at the end
    pages,     \* the pages of its walk so far, each a set of positions
    over,      \* the last page said there is no more
    held       \* the rows its feed has been showing since the walk began

dbVars == <<rows, follows>>
requestVars == <<pc, request, fetched>>
walkVars == <<cursor, pages, over>>
vars == <<now, dbVars, requestVars, walkVars, held>>

-----------------------------------------------------------------------------
(* What the statements select. *)

IsReply(r) == Of[r] # None
RootOf(p) == IF RootPost[p] = None THEN p ELSE RootPost[p]

Ancestors[p \in Rows] == IF IsReply(p) THEN {Of[p]} \cup Ancestors[Of[p]] ELSE {}

Authors(f) ==
    IF f.route = "home" THEN {f.of} \cup {a \in Agents : <<f.of, a>> \in follows} ELSE Agents

FirstSelect(f, shown) ==
    LET Posts == {r \in Rows : Kind[r] = "post"} IN
    CASE f.route \in {"public", "home"} ->
           {p \in Posts : By[p] \in shown /\ (f.extra \/ ~IsReply(p))}
      [] f.route = "posts" -> {p \in Posts : By[p] = f.of /\ ~IsReply(p)}
      [] f.route = "replies" -> {p \in Posts : By[p] = f.of /\ IsReply(p)}
      [] f.route = "likes" -> {r \in Rows : Kind[r] = "like" /\ By[r] = f.of}
      [] f.route = "reposts" -> {r \in Rows : Kind[r] = "repost" /\ By[r] = f.of}
      [] f.route = "thread" ->
           {p \in Posts : RootPost[p] = RootOf(f.of) /\ p \notin {f.of, RootOf(f.of)} \cup Ancestors[f.of]}
      [] OTHER -> Agents

SecondSelect(f, shown) ==
    {r \in Rows : /\ Kind[r] = "repost"
                  /\ \/ f.route \in {"public", "home"} /\ By[r] \in shown
                     \/ f.route = "posts" /\ f.extra /\ By[r] = f.of}

HasSecond(f) == f.route \in {"public", "home"} \/ (f.route = "posts" /\ f.extra)

Live(S) == {[at |-> rows[r], id |-> r] : r \in {s \in S : rows[s] # None}}

Showing(f) ==
    {r \in FirstSelect(f, Authors(f)) \cup SecondSelect(f, Authors(f)) : rows[r] # None}

-----------------------------------------------------------------------------
(* The two orders: by value in SQL, by text in Python.  The text of an       *)
(* instant on a whole second has no fraction: "...:05Z" sorts after          *)
(* "...:05.25Z", the letter being above the point.                           *)

TextBefore(s, t) ==
    LET Second(u) == u \div PerSecond
        Whole(u) == u % PerSecond = 0
    IN \/ Second(s) < Second(t)
       \/ /\ Second(s) = Second(t)
          /\ \/ Whole(t) /\ ~Whole(s)
             \/ ~Whole(t) /\ ~Whole(s) /\ s < t

(* The orders agree when no second has both a whole and a fractional instant. *)
UniformStamps == \A s, t \in Stamps : TextBefore(s, t) <=> s < t

Earlier(a, b) == a.at < b.at \/ (a.at = b.at /\ a.id < b.id)
TextEarlier(a, b) == TextBefore(a.at, b.at) \/ (a.at = b.at /\ a.id < b.id)

(* a comes before b in the feed, for SQL and for Python *)
Ahead(f, a, b) == IF f.route = "thread" THEN Earlier(a, b) ELSE Earlier(b, a)
SortedNewestFirst(f, a, b) == TextEarlier(b, a)

SortedAhead(f, a, b) ==
    IF f.route = "agents" THEN Ahead(f, a, b)
    ELSE IF f.route = "thread" THEN TextEarlier(a, b) ELSE TextEarlier(b, a)

(* Mutants: a cursor that loses its microseconds, a keyset condition that      *)
(* keeps the row of the cursor, and a sort whose direction does not depend on  *)
(* the feed.                                                                *)
EncodeSeconds(f, a) ==
    [at |-> (a.at \div PerSecond) * PerSecond, id |-> a.id, feed |-> f,
     exp |-> ((now + TTL) \div PerSecond) * PerSecond]

FetchedWithCursorRow(f, S, c, limit) ==
    LET rest == {a \in S : c = None \/ c.id = a.id \/ Ahead(f, c, a)} IN
    {a \in rest : Cardinality({b \in rest : Ahead(f, b, a)}) <= limit}

(* ORDER BY, the keyset condition and LIMIT limit + 1 *)
FetchedOf(f, S, c, limit) ==
    LET rest == {a \in S : c = None \/ Ahead(f, c, a)} IN
    {a \in rest : Cardinality({b \in rest : Ahead(f, b, a)}) <= limit}

PageOf(f, S, limit) == {a \in S : Cardinality({b \in S : SortedAhead(f, b, a)}) < limit}

LastOf(f, P) == CHOOSE a \in P : \A b \in P \ {a} : SortedAhead(f, b, a)

Decodes(f, c) == c # None => c.feed = f /\ now < c.exp

Encode(f, a) ==
    [at |-> a.at, id |-> a.id, feed |-> f,
     exp |-> ((now + TTL) \div PerSecond) * PerSecond]

-----------------------------------------------------------------------------
NoRequest == [limit |-> 0, cursor |-> None, shown |-> {}]

TypeOK ==
    /\ now \in 0..MaxTime
    /\ rows \in [Rows -> Stamps \cup {None}]
    /\ follows \subseteq Agents \X Agents
    /\ pc \in [Readers -> {"idle", "first", "second"}]
    /\ request \in [Readers -> [limit : Limits \cup {0}, cursor : Cursor \cup {None},
                                shown : SUBSET Agents]]
    /\ fetched \in [Readers -> SUBSET Position]
    /\ cursor \in [Readers -> Cursor \cup {None}]
    /\ pages \in [Readers -> Seq(SUBSET Position)]
    /\ over \in [Readers -> BOOLEAN]
    /\ held \in [Readers -> SUBSET Rows]

Init ==
    /\ now \in 0..MaxTime
    /\ rows = Fixture
    /\ follows = {}
    /\ pc = [w \in Readers |-> "idle"]
    /\ request = [w \in Readers |-> NoRequest]
    /\ fetched = [w \in Readers |-> {}]
    /\ cursor = [w \in Readers |-> None]
    /\ pages = [w \in Readers |-> <<>>]
    /\ over = [w \in Readers |-> FALSE]
    /\ held = [w \in Readers |-> {}]

(* The writers.  created_at is the start of the transaction, so a row may     *)
(* become visible with a time that has passed.                               *)
StillHeld == held' = [w \in Readers |-> held[w] \cap Showing(FeedOf[w])']
Written == UNCHANGED <<now, requestVars, walkVars>> /\ StillHeld

Insert(r) ==
    /\ rows[r] = None /\ Fixture[r] = None
    /\ Kind[r] # "agent" => rows[By[r]] # None
    /\ Of[r] # None => rows[Of[r]] # None
    /\ \E s \in Stamps : s <= now /\ rows' = [rows EXCEPT ![r] = s]
    /\ UNCHANGED follows
    /\ Written

Undo(r) ==
    /\ rows[r] # None /\ Kind[r] \in {"repost", "like"}
    /\ rows' = [rows EXCEPT ![r] = None]
    /\ UNCHANGED follows
    /\ Written

ChangeFollow(a, b) ==
    /\ a # b /\ rows[a] # None /\ rows[b] # None
    /\ follows' = IF <<a, b>> \in follows THEN follows \ {<<a, b>>} ELSE follows \cup {<<a, b>>}
    /\ UNCHANGED rows
    /\ Written

Clear ==
    /\ rows' = [r \in Rows |-> None]
    /\ follows' = {}
    /\ Written

Seed ==
    /\ rows' = [r \in Rows |-> IF Fixture[r] # None THEN Fixture[r] ELSE rows[r]]
    /\ UNCHANGED follows
    /\ Written

Tick ==
    /\ now < MaxTime
    /\ now' = now + 1
    /\ UNCHANGED <<dbVars, requestVars, walkVars, held>>

-----------------------------------------------------------------------------
(* The readers.  Without a cursor a request begins a walk; with one it goes   *)
(* on with the walk, or it is a mistake: the cursor of some other feed.       *)

Ask(w) ==
    LET f == FeedOf[w] IN
    /\ pc[w] = "idle"
    /\ Cardinality({w} \cup {v \in Readers : pc[v] # "idle" \/ pages[v] # <<>>}) <= MaxWalkers
    /\ f.of # None => rows[f.of] # None
    /\ f.route = "thread" => rows[RootOf(f.of)] # None
    /\ \E limit \in Limits, c \in {None} \cup Strays \cup {cursor[v] : v \in Readers} :
         /\ c # None => c = cursor[w] \/ c.feed # f
         /\ request' = [request EXCEPT ![w] =
                          [limit |-> limit, cursor |-> c, shown |-> Authors(f)]]
         /\ IF c = None
            THEN /\ cursor' = [cursor EXCEPT ![w] = None]
                 /\ pages' = [pages EXCEPT ![w] = <<>>]
                 /\ over' = [over EXCEPT ![w] = FALSE]
                 /\ held' = [held EXCEPT ![w] = Showing(f)]
            ELSE UNCHANGED <<walkVars, held>>
    /\ pc' = [pc EXCEPT ![w] = "first"]
    /\ UNCHANGED <<now, dbVars, fetched>>

ReadFirst(w) ==
    LET f == FeedOf[w]
        q == request[w]
    IN /\ pc[w] = "first"
       /\ Decodes(f, q.cursor)
       /\ fetched' = [fetched EXCEPT ![w] =
                        FetchedOf(f, Live(FirstSelect(f, q.shown)), q.cursor, q.limit)]
       /\ pc' = [pc EXCEPT ![w] = "second"]
       /\ UNCHANGED <<now, dbVars, request, walkVars, held>>

Finish(w) ==
    /\ pc' = [pc EXCEPT ![w] = "idle"]
    /\ request' = [request EXCEPT ![w] = NoRequest]
    /\ fetched' = [fetched EXCEPT ![w] = {}]

ReadSecond(w) ==
    LET f == FeedOf[w]
        q == request[w]
        items == fetched[w] \cup
                   FetchedOf(f, Live(SecondSelect(f, q.shown)), q.cursor, q.limit)
        page == PageOf(f, items, q.limit)
        more == Cardinality(items) > q.limit
    IN /\ pc[w] = "second"
       /\ HasSecond(f) => Decodes(f, q.cursor)
       /\ pages' = [pages EXCEPT ![w] = Append(@, page)]
       /\ cursor' = [cursor EXCEPT ![w] = IF more THEN Encode(f, LastOf(f, page)) ELSE None]
       /\ over' = [over EXCEPT ![w] = ~more]
       /\ Finish(w)
       /\ UNCHANGED <<now, dbVars, held>>

(* The 400 of a cursor that does not decode, or an answer that is lost. *)
Unanswered(w) ==
    /\ pc[w] # "idle"
    /\ Finish(w)
    /\ UNCHANGED <<now, dbVars, walkVars, held>>

Next ==
    \/ Tick \/ Clear \/ Seed
    \/ \E r \in Rows : Insert(r) \/ Undo(r)
    \/ \E e \in FollowPairs : ChangeFollow(e[1], e[2])
    \/ \E w \in Readers : Ask(w) \/ ReadFirst(w) \/ ReadSecond(w) \/ Unanswered(w)

Spec == Init /\ [][Next]_vars

-----------------------------------------------------------------------------
Given(w) == UNION {pages[w][i] : i \in 1..Len(pages[w])}

MissesNothing(w) ==
    \A a \in Live(held[w]) :
        \/ a \in Given(w)
        \/ cursor[w] # None /\ Ahead(FeedOf[w], cursor[w], a)
        \/ cursor[w] = None /\ ~over[w]

InOrder(w) ==
    \A i, j \in 1..Len(pages[w]) :
        i < j => \A a \in pages[w][i], b \in pages[w][j] : Ahead(FeedOf[w], a, b)

(* A walk misses nothing: whatever the feed has shown from the first request *)
(* of the walk on is on one of its pages once the cursor has passed it, and  *)
(* all of it when the last page says that there is no more.  It is what the  *)
(* keyset condition, the limit + 1 of each SELECT and the merge add up to.   *)
NothingMissed == \A w \in Readers : MissesNothing(w)

(* The pages of a walk follow each other in the order of the feed: no item   *)
(* twice, and none that belongs before one that an earlier page has.         *)
PagesInOrder == \A w \in Readers : InOrder(w)

(* Why: what the first SELECT left out has a page's worth of fetched rows     *)
(* ahead of it, and the request goes on from the cursor of the walk.         *)
Beyond(f, c, a) == c = None \/ Ahead(f, c, a)
Covers(f, F, limit, a) == a \in F \/ Cardinality({b \in F : Ahead(f, b, a)}) > limit

GoesOn(w) ==
    LET q == request[w]
        f == FeedOf[w]
    IN /\ q.limit \in Limits
       /\ q.cursor = None => cursor[w] = None /\ ~over[w] /\ pages[w] = <<>>
       /\ q.cursor # None => q.cursor = cursor[w] \/ q.cursor.feed # f
       /\ held[w] \subseteq FirstSelect(f, q.shown) \cup SecondSelect(f, q.shown)

FetchedEnough(w) ==
    LET q == request[w]
        f == FeedOf[w]
    IN /\ q.cursor = cursor[w]
       /\ IsFiniteSet(fetched[w])
       /\ \A a \in fetched[w] : Beyond(f, q.cursor, a)
       /\ \A a \in Live(held[w] \cap FirstSelect(f, q.shown)) :
             Beyond(f, q.cursor, a) => Covers(f, fetched[w], q.limit, a)

WalkKept(w) ==
    /\ held[w] \subseteq Showing(FeedOf[w])
    /\ pc[w] # "idle" => GoesOn(w)
    /\ pc[w] = "second" => FetchedEnough(w)
    /\ cursor[w] # None => \A a \in Given(w) : ~Ahead(FeedOf[w], cursor[w], a)
    /\ MissesNothing(w)
    /\ InOrder(w)

(* The state of a walk between and during its requests, from which           *)
(* NothingMissed and PagesInOrder follow.                                    *)
WalkInvariant ==
    /\ \A r \in Rows : Fixture[r] # None => rows[r] \in {None, Fixture[r]}
    /\ \A w \in Readers : WalkKept(w)

=============================================================================
