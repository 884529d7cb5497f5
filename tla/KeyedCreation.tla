---------------------------- MODULE KeyedCreation ----------------------------
(***************************************************************************)
(* What a client may rely on when it repeats a creation under one key: the  *)
(* key stands for at most one creation until everything is wiped, and        *)
(* whoever is told of a success is told of one that was made under its key,  *)
(* wiped since or not.  What was wiped never comes back.  A request may also *)
(* never be told anything: a conflict, an error and a lost connection are    *)
(* all silence here.                                                         *)
(***************************************************************************)
CONSTANTS Requests, Keys, Results, None

VARIABLES
    asked,   \* the key each request asked under, None before it asks
    made,    \* what was created under each key and is still there
    gone,    \* what was created under each key and wiped
    told     \* what each request was told was created

promiseVars == <<asked, made, gone, told>>

PromiseInit ==
    /\ asked = [p \in Requests |-> None]
    /\ made = [k \in Keys |-> {}]
    /\ gone = [k \in Keys |-> {}]
    /\ told = [p \in Requests |-> None]

Ask(p) ==
    /\ asked[p] = None
    /\ \E k \in Keys : asked' = [asked EXCEPT ![p] = k]
    /\ UNCHANGED <<made, gone, told>>

Make(p) ==
    /\ asked[p] \in Keys
    /\ told[p] = None
    /\ made[asked[p]] = {}
    /\ \E r \in Results : /\ \A k \in Keys : r \notin made[k] \cup gone[k]
                          /\ made' = [made EXCEPT ![asked[p]] = {r}]
    /\ UNCHANGED <<asked, gone, told>>

Tell(p) ==
    /\ asked[p] \in Keys
    /\ told[p] = None
    /\ \E r \in made[asked[p]] \cup gone[asked[p]] : told' = [told EXCEPT ![p] = r]
    /\ UNCHANGED <<asked, made, gone>>

(* The backend is emptied; its clients know what they know. *)
Wipe ==
    /\ made' = [k \in Keys |-> {}]
    /\ gone' = [k \in Keys |-> gone[k] \cup made[k]]
    /\ UNCHANGED <<asked, told>>

PromiseNext == Wipe \/ \E p \in Requests : Ask(p) \/ Make(p) \/ Tell(p)

PromiseSpec == PromiseInit /\ [][PromiseNext]_promiseVars
=============================================================================
