------------------------------ MODULE MC_Feeds ------------------------------
(***************************************************************************)
(* Instances of Feeds for TLC.  Agents 1 and 2 and post 3 of agent 1 come    *)
(* from the fixtures.  Agent 2 may write post 4, reply 6 to post 3 and reply *)
(* 7 to that, and repost post 3 (5); agent 8 may sign up.                    *)
(***************************************************************************)
EXTENDS Feeds, TLC

CONSTANTS w1, w2, w3, w4

Column(f) == [r \in Rows |-> f[r]]

TheKind == Column(<<"agent", "agent", "post", "post", "repost", "post", "post", "agent">>)
TheBy == Column(<<1, 2, 1, 2, 2, 2, 2, 8>>)
TheOf == Column(<<None, None, None, None, 3, 3, 6, None>>)
TheRoot == Column(<<None, None, 3, 4, None, 3, 3, None>>)
TheFixture == Column(<<1, 1, 1, None, None, None, None, None>>)

Walk(route, of, extra) == [route |-> route, of |-> of, extra |-> extra]

Walks ==
    (w1 :> Walk("public", None, TRUE)) @@ (w2 :> Walk("home", 1, TRUE))
        @@ (w3 :> Walk("thread", 3, FALSE)) @@ (w4 :> Walk("agents", None, FALSE))

(* The cursor that the first page of a profile tab of agent 1 could have. *)
ProfileCursor == {[at |-> 1, id |-> 3, feed |-> Walk("posts", 1, TRUE), exp |-> 4]}

OneFollow == {<<1, 2>>}
=============================================================================
