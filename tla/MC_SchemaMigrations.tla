-------------------------- MODULE MC_SchemaMigrations --------------------------
(***************************************************************************)
(* An instance of SchemaMigrations for TLC: a V1 thread p1 <- p2 <- ... <- p6 *)
(* of which the fixtures have the first two posts, and a long post; an agent   *)
(* of V1 whose handle differs from a fixture's only in case, and a signup that *)
(* asks for that handle too.                                                 *)
(***************************************************************************)
EXTENDS SchemaMigrations, Sequences

CONSTANTS alex, alexV1, nova, p1, p2, p3, p4, p5, p6, long, q1, q2, run1, run2, e1, e2, e3, f1, f2

TheHandle == [a \in Agents |-> IF a = alexV1 THEN "Alex" ELSE IF a = alex THEN "alex" ELSE "ALEX"]
TheFolding == [h \in {"alex", "Alex", "ALEX"} |-> "alex"]
Chain == <<p1, p2, p3, p4, p5, p6>>
TheParent ==
    [p \in Posts \ Authored |->
        IF \E i \in 2..Len(Chain) : Chain[i] = p
        THEN Chain[(CHOOSE i \in 2..Len(Chain) : Chain[i] = p) - 1] ELSE Null]
TheRun == [p \in Posts \ Authored |-> CASE p = p1 -> run1 [] p = p3 -> run2 [] OTHER -> Null]
TheRan == [x \in {e1, e2, f1} |-> IF x = e2 THEN run2 ELSE run1]
TheRelations == {[by |-> alex, of |-> q1]}
TheFixtures ==
    [agents |-> {alex}, tokens |-> {alex, Harness}, runs |-> {run1}, posts |-> {p1, p2},
     events |-> {e1}, findings |-> {f1}]
=============================================================================
