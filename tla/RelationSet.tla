----------------------------- MODULE RelationSet -----------------------------
(***************************************************************************)
(* What likes, reposts and follows promise: a set of pairs to which every    *)
(* request is applied at most once and in one step, and whoever is told of a *)
(* success has had its effect, itself or through the request it repeats.    *)
(***************************************************************************)
CONSTANTS Requests, Pairs, Keys, None

VARIABLES
    wants,    \* the pair each request is about
    asked,    \* the key it repeats, None without one
    present,  \* the set, as a predicate on pairs
    effect,   \* what the request did: "none", "made", "found" or "removed"
    told      \* whether it was told of a success

setVars == <<wants, asked, present, effect, told>>

SetInit ==
    /\ wants = [p \in Requests |-> None]
    /\ asked = [p \in Requests |-> None]
    /\ present = [r \in Pairs |-> FALSE]
    /\ effect = [p \in Requests |-> "none"]
    /\ told = [p \in Requests |-> FALSE]

Ask(p) ==
    /\ wants[p] = None
    /\ \E r \in Pairs : wants' = [wants EXCEPT ![p] = r]
    /\ \E k \in Keys \cup {None} : asked' = [asked EXCEPT ![p] = k]
    /\ UNCHANGED <<present, effect, told>>

(* One step that does something; the client may hear of it at once. *)
Take(p, e) ==
    /\ wants[p] \in Pairs
    /\ effect[p] = "none" /\ ~told[p]
    /\ effect' = [effect EXCEPT ![p] = e]
    /\ \E heard \in BOOLEAN : told' = [told EXCEPT ![p] = heard]
    /\ UNCHANGED <<wants, asked>>

Make(p) ==
    /\ Take(p, "made")
    /\ ~present[wants[p]]
    /\ present' = [present EXCEPT ![wants[p]] = TRUE]

Find(p) ==
    /\ Take(p, "found")
    /\ present[wants[p]]
    /\ UNCHANGED present

Remove(p) ==
    /\ Take(p, "removed")
    /\ present' = [present EXCEPT ![wants[p]] = FALSE]

Tell(p) ==
    /\ ~told[p]
    /\ \/ effect[p] # "none"
       \/ \E q \in Requests : asked[p] # None /\ asked[q] = asked[p] /\ effect[q] # "none"
    /\ told' = [told EXCEPT ![p] = TRUE]
    /\ UNCHANGED <<wants, asked, present, effect>>

(* The fixture reset. *)
Wipe ==
    /\ present' = [r \in Pairs |-> FALSE]
    /\ UNCHANGED <<wants, asked, effect, told>>

SetNext ==
    \/ \E p \in Requests : Ask(p) \/ Make(p) \/ Find(p) \/ Remove(p) \/ Tell(p)
    \/ Wipe

SetSpec == SetInit /\ [][SetNext]_setVars
=============================================================================
