-------------------------- MODULE AgentWorld_proofs --------------------------
(***************************************************************************)
(* Proofs about AgentWorld, for any number of signups, seeds and resets.     *)
(***************************************************************************)
EXTENDS AgentWorld, FiniteSetTheorems, TLAPS

(* Type correctness of signup, seed and reset.                              *)
THEOREM TypeCorrect == Spec => []TypeOK
<1>1. Init => TypeOK
  BY AgentWorldAssumption DEF Init, TypeOK, AgentWorldAssumption, Agents, Owners, Requests, NoRows
<1>2. TypeOK /\ [Next]_vars => TypeOK'
  <2> SUFFICES ASSUME TypeOK, [Next]_vars PROVE TypeOK'
    OBVIOUS
  <2> USE DEF TypeOK, Requests, Agents, Owners
  <2>1. ASSUME NEW s \in Signups, Begin(s) \/ SignupStep(s) PROVE TypeOK'
    <3>1. CASE Begin(s)
      BY <3>1 DEF Begin, Reply, Goto
    <3>2. CASE Check(s)
      BY <3>2 DEF Check, Reply, Goto
    <3>3. CASE Count(s)
      BY <3>3 DEF Count, Reply, Goto
    <3>4. CASE Insert(s)
      BY <3>4 DEF Insert, Reply, Goto
    <3>5. CASE Commit(s)
      BY <3>5 DEF Commit, Goto
    <3>6. CASE Refresh(s)
      BY <3>6 DEF Refresh, Reply, Goto
    <3> QED
      BY <2>1, <3>1, <3>2, <3>3, <3>4, <3>5, <3>6 DEF SignupStep
  <2>2. ASSUME NEW o \in Operators, Start(o) \/ OperatorStep(o) PROVE TypeOK'
    <3>1. CASE Start(o)
      <4>1. {Harness} \subseteq FixtureTokens
        BY AgentWorldAssumption DEF AgentWorldAssumption
      <4> QED
        BY <3>1, <4>1 DEF Start, Reply, Goto, Dynamic
    <3>2. CASE DeleteTokens(o)
      BY <3>2 DEF DeleteTokens, Goto
    <3>3. CASE DeleteAgents(o)
      BY <3>3 DEF DeleteAgents, Rollback, NoRows, Reply, Goto
    <3>4. CASE CommitDeletes(o)
      BY <3>4 DEF CommitDeletes, Rollback, NoRows, Goto
    <3>5. CASE ReadAgents(o)
      BY <3>5 DEF ReadAgents, Goto
    <3>6. CASE ReadTokens(o)
      BY <3>6 DEF ReadTokens, Goto
    <3>7. CASE Write(o)
      <4>1. MissingAgents(o) \subseteq Fixtures /\ MissingTokens(o) \subseteq FixtureTokens
        BY DEF MissingAgents, MissingTokens
      <4>2. FixtureTokens \subseteq Owners
        BY AgentWorldAssumption DEF AgentWorldAssumption
      <4>3. agents' \subseteq agents \cup Fixtures /\ tokens' \subseteq tokens \cup Owners
        BY <3>7, <4>1, <4>2 DEF Write
      <4>4. /\ pc' = [pc EXCEPT ![o] = "done"]
            /\ answer' = [answer EXCEPT ![o] = 500] \/ answer' = [answer EXCEPT ![o] = 200]
            /\ UNCHANGED <<doomed, seen, older>>
        BY <3>7 DEF Write, Reply, Goto
      <4> QED
        BY <4>3, <4>4
    <3> QED
      BY <2>2, <3>1, <3>2, <3>3, <3>4, <3>5, <3>6, <3>7 DEF OperatorStep
  <2>3. ASSUME NEW p \in Requests, Die(p) PROVE TypeOK'
    <3>1. pc' = [pc EXCEPT ![p] = "done"] /\ UNCHANGED <<agents, tokens, answer, seen, older>>
      BY <2>3 DEF Die, Goto
    <3>2. doomed' = IF p \in Operators THEN [doomed EXCEPT ![p] = NoRows] ELSE doomed
      BY <2>3 DEF Die
    <3>3. doomed' \in [Operators -> [agents : SUBSET Agents, tokens : SUBSET Owners]]
      BY <3>2 DEF NoRows
    <3> QED
      BY <3>1, <3>3
  <2>4. CASE UNCHANGED vars
    BY <2>4 DEF vars
  <2> QED
    BY <2>1, <2>2, <2>3, <2>4 DEF Next
<1> QED
  BY <1>1, <1>2, PTL DEF Spec

-----------------------------------------------------------------------------
(* The counts of the agents, of the requests past the check and of those     *)
(* under way.                                                                *)
Counts ==
    /\ Cardinality(Dynamic) + Cardinality(Passed) <= MaxDynamic - 1 + Workers
    /\ Cardinality(InFlight) <= Workers

LEMMA SubsetCount ==
    ASSUME NEW T, IsFiniteSet(T), NEW S \in SUBSET T
    PROVE  IsFiniteSet(S) /\ Cardinality(S) \in Nat /\ Cardinality(T) \in Nat
           /\ Cardinality(S) <= Cardinality(T)
BY FS_Subset, FS_CardinalityType

LEMMA OneMore ==
    ASSUME NEW S, IsFiniteSet(S), NEW x
    PROVE  /\ IsFiniteSet(S \cup {x})
           /\ Cardinality(S \cup {x}) \in Nat
           /\ Cardinality(S \cup {x}) <= Cardinality(S) + 1
<1>1. Cardinality(S) \in Nat
  BY FS_CardinalityType
<1>2. IsFiniteSet(S \cup {x})
  BY FS_AddElement
<1>3. Cardinality(S \cup {x}) = Cardinality(S) \/ Cardinality(S \cup {x}) = Cardinality(S) + 1
  BY FS_AddElement
<1> QED
  BY <1>1, <1>2, <1>3

LEMMA CountsFinite ==
    /\ IsFiniteSet(Dynamic) /\ IsFiniteSet(Passed) /\ IsFiniteSet(InFlight)
    /\ Cardinality(Dynamic) \in Nat /\ Cardinality(Passed) \in Nat
    /\ Cardinality(InFlight) \in Nat
<1>1. IsFiniteSet(Signups)
  BY AgentWorldAssumption DEF AgentWorldAssumption
<1>2. Dynamic \subseteq Signups /\ Passed \subseteq Signups /\ InFlight \subseteq Signups
  BY DEF Dynamic, Passed, InFlight
<1> QED
  BY <1>1, <1>2, SubsetCount

(* A step that adds to none of the three keeps the bound. *)
LEMMA CountsShrink ==
    ASSUME Counts, Dynamic' \subseteq Dynamic, Passed' \subseteq Passed, InFlight' \subseteq InFlight
    PROVE  Counts'
<1>1. /\ Cardinality(Dynamic') <= Cardinality(Dynamic)
      /\ Cardinality(Passed') <= Cardinality(Passed)
      /\ Cardinality(InFlight') <= Cardinality(InFlight)
      /\ Cardinality(Dynamic') \in Nat /\ Cardinality(Passed') \in Nat
      /\ Cardinality(InFlight') \in Nat
  BY CountsFinite, SubsetCount
<1> QED
  BY <1>1, CountsFinite, AgentWorldAssumption DEF Counts, AgentWorldAssumption

LEMMA CountsStep == TypeOK /\ Counts /\ [Next]_vars => Counts'
<1> SUFFICES ASSUME TypeOK, Counts, [Next]_vars PROVE Counts'
  OBVIOUS
<1> USE AgentWorldAssumption DEF AgentWorldAssumption, Requests, TypeOK
<1>1. ASSUME NEW s \in Signups, Begin(s) PROVE Counts'
  <2>1. Dynamic' = Dynamic /\ Passed' = Passed
    <3>1. \A t \in Signups \ {s} : pc'[t] = pc[t]
      BY <1>1 DEF Begin, Reply, Goto
    <3>2. pc[s] = "idle" /\ pc'[s] \in {"check", "done"} /\ agents' = agents
      BY <1>1 DEF Begin, Reply, Goto
    <3> QED
      BY <3>1, <3>2 DEF Dynamic, Passed
  <2>2. InFlight' \subseteq InFlight \cup {s}
    BY <1>1 DEF Begin, Reply, Goto, InFlight
  <2>3. /\ IsFiniteSet(InFlight \cup {s})
        /\ Cardinality(InFlight \cup {s}) <= Cardinality(InFlight) + 1
    BY CountsFinite, OneMore
  <2>4. Cardinality(InFlight') <= Cardinality(InFlight \cup {s})
        /\ Cardinality(InFlight') \in Nat /\ Cardinality(InFlight \cup {s}) \in Nat
    BY <2>2, <2>3, SubsetCount
  <2>5. Cardinality(InFlight) < Workers
    BY <1>1 DEF Begin
  <2>6. Cardinality(InFlight') <= Workers
    BY <2>3, <2>4, <2>5, CountsFinite
  <2> QED
    BY <2>1, <2>6 DEF Counts
<1>2. ASSUME NEW s \in Signups, Count(s) PROVE Counts'
  <2>1. CASE Cardinality(Dynamic) >= MaxDynamic
    <3>1. pc' = [pc EXCEPT ![s] = "done"] /\ agents' = agents /\ pc[s] = "count"
      BY <1>2, <2>1 DEF Count, Reply, Goto
    <3>2. Dynamic' = Dynamic /\ Passed' \subseteq Passed /\ InFlight' \subseteq InFlight
      BY <3>1 DEF Dynamic, Passed, InFlight
    <3> QED
      BY <3>2, CountsShrink
  <2>2. CASE ~(Cardinality(Dynamic) >= MaxDynamic)
    <3>1. Dynamic' = Dynamic /\ InFlight' = InFlight /\ Passed' \subseteq InFlight
      <4>1. pc' = [pc EXCEPT ![s] = "insert"] /\ agents' = agents /\ pc[s] = "count"
        BY <1>2, <2>2 DEF Count, Goto
      <4> QED
        BY <4>1 DEF Dynamic, InFlight, Passed
    <3>2. Cardinality(Passed') <= Cardinality(InFlight) /\ Cardinality(Passed') \in Nat
      BY <3>1, CountsFinite, SubsetCount
    <3> QED
      BY <2>2, <3>1, <3>2, CountsFinite DEF Counts
  <2> QED
    BY <2>1, <2>2
<1>3. ASSUME NEW s \in Signups, Commit(s) PROVE Counts'
  <2>1. /\ agents' = agents \cup {s} /\ pc[s] = "commit"
        /\ pc' = [pc EXCEPT ![s] = "refresh"]
    BY <1>3 DEF Commit, Goto
  <2>2. /\ Dynamic' = Dynamic \cup {s} /\ s \in Passed
        /\ Passed' = Passed \ {s} /\ InFlight' = InFlight
    BY <2>1 DEF Dynamic, Passed, InFlight
  <2>3. Cardinality(Passed') = Cardinality(Passed) - 1
    BY <2>2, CountsFinite, FS_RemoveElement
  <2>4. Cardinality(Dynamic') <= Cardinality(Dynamic) + 1
    BY <2>2, CountsFinite, OneMore
  <2>5. Cardinality(Dynamic') \in Nat
    BY <2>2, CountsFinite, OneMore
  <2> QED
    BY <2>2, <2>3, <2>4, <2>5, CountsFinite DEF Counts
<1>4. ASSUME NEW s \in Signups, Check(s) \/ Insert(s) \/ Refresh(s) PROVE Counts'
  <2>1. Dynamic' = Dynamic
    BY <1>4 DEF Check, Insert, Refresh, Dynamic
  <2>2. Passed' \subseteq Passed
    BY <1>4 DEF Check, Insert, Refresh, Reply, Goto, Passed
  <2>3. InFlight' \subseteq InFlight
    BY <1>4 DEF Check, Insert, Refresh, Reply, Goto, InFlight
  <2> QED
    BY <2>1, <2>2, <2>3, CountsShrink
<1>5. ASSUME NEW o \in Operators, Start(o) \/ OperatorStep(o) PROVE Counts'
  <2>1. \A s \in Signups : pc'[s] = pc[s]
    BY <1>5 DEF Start, OperatorStep, DeleteTokens, DeleteAgents, CommitDeletes, ReadAgents,
                ReadTokens, Write, Reply, Goto
  <2>2. Passed' = Passed /\ InFlight' = InFlight
    BY <2>1 DEF Passed, InFlight
  <2>3. agents' \subseteq agents \cup Fixtures
    BY <1>5 DEF Start, OperatorStep, DeleteTokens, DeleteAgents, CommitDeletes, ReadAgents,
                ReadTokens, Write, MissingAgents
  <2>4. Dynamic' \subseteq Dynamic
    BY <2>3 DEF Dynamic
  <2> QED
    BY <2>2, <2>4, CountsShrink
<1>6. ASSUME NEW p \in Requests, Die(p) PROVE Counts'
  BY <1>6, CountsShrink DEF Die, Goto, Dynamic, Passed, InFlight
<1>7. CASE UNCHANGED vars
  BY <1>7, CountsShrink DEF vars, Dynamic, Passed, InFlight
<1> QED
  BY <1>1, <1>2, <1>3, <1>4, <1>5, <1>6, <1>7 DEF Next, SignupStep

-----------------------------------------------------------------------------
(* A signup that has committed stays so. *)
LEMMA SettledStays ==
    ASSUME TypeOK, [Next]_vars, NEW s \in Signups, Settled(s)
    PROVE  Settled(s)'
<1> USE AgentWorldAssumption DEF AgentWorldAssumption, Requests, TypeOK
<1>1. ASSUME NEW p \in Signups, Begin(p) \/ SignupStep(p) PROVE Settled(s)'
  <2>1. \A q \in Signups \ {p} : pc'[q] = pc[q]
    BY <1>1 DEF Begin, SignupStep, Check, Count, Insert, Commit, Refresh, Reply, Goto
  <2>2. p = s => pc'[s] = "done"
    <3>1. p = s => Refresh(s)
      BY <1>1 DEF Begin, SignupStep, Check, Count, Insert, Commit, Settled
    <3> QED
      BY <3>1 DEF Refresh, Reply, Goto
  <2> QED
    BY <2>1, <2>2 DEF Settled
<1>2. ASSUME NEW o \in Operators, Start(o) \/ OperatorStep(o) PROVE Settled(s)'
  <2>1. pc'[s] = pc[s]
    BY <1>2 DEF Start, OperatorStep, DeleteTokens, DeleteAgents, CommitDeletes, ReadAgents,
                ReadTokens, Write, Reply, Goto
  <2> QED
    BY <2>1 DEF Settled
<1>3. ASSUME NEW p \in Requests, Die(p) PROVE Settled(s)'
  BY <1>3 DEF Die, Goto, Settled
<1>4. CASE UNCHANGED vars
  BY <1>4 DEF vars, Settled
<1> QED
  BY <1>1, <1>2, <1>3, <1>4 DEF Next

(* Only the commit of a signup adds to the signed-up agents and tokens. *)
LEMMA OnlyCommitAdds ==
    ASSUME TypeOK, [Next]_vars, NEW s \in Signups, s \in agents' \cup tokens'
    PROVE  \/ s \in agents \cup tokens
           \/ (~Settled(s) /\ Commit(s))
<1> USE AgentWorldAssumption DEF AgentWorldAssumption, Requests, TypeOK, Agents
<1>1. ASSUME NEW p \in Signups, Begin(p) \/ SignupStep(p)
      PROVE s \in agents \cup tokens \/ (~Settled(s) /\ Commit(s))
  <2>1. CASE Commit(p)
    <3>1. agents' = agents \cup {p} /\ tokens' = tokens \cup {p} /\ ~Settled(p)
      BY <2>1 DEF Commit, Settled
    <3>2. s \in agents \cup tokens \/ s = p
      BY <3>1
    <3> QED
      BY <2>1, <3>1, <3>2
  <2>2. CASE ~Commit(p)
    <3>1. agents' = agents /\ tokens' = tokens
      BY <1>1, <2>2 DEF Begin, SignupStep, Check, Count, Insert, Refresh
    <3> QED
      BY <3>1
  <2> QED
    BY <2>1, <2>2
<1>2. ASSUME NEW o \in Operators, Start(o) \/ OperatorStep(o)
      PROVE s \in agents \cup tokens
  BY <1>2 DEF Start, OperatorStep, DeleteTokens, DeleteAgents, CommitDeletes, ReadAgents,
              ReadTokens, Write, MissingAgents, MissingTokens
<1>3. ASSUME NEW p \in Requests, Die(p) PROVE s \in agents \cup tokens
  BY <1>3 DEF Die
<1>4. CASE UNCHANGED vars
  BY <1>4 DEF vars
<1> QED
  BY <1>1, <1>2, <1>3, <1>4 DEF Next

LEMMA TokensKeptStep ==
    ASSUME TypeOK, WorldInvariant, [Next]_vars
    PROVE  /\ TokenPerAgent'
           /\ \A s \in (agents' \cup tokens') \cap Signups : Settled(s)'
<1>1. ASSUME NEW s \in Signups, s \in agents' \cup tokens' PROVE Settled(s)'
  <2>1. CASE s \in agents \cup tokens
    BY <2>1, SettledStays DEF WorldInvariant
  <2>2. CASE Commit(s)
    BY <2>2 DEF Commit, Goto, Settled, TypeOK, Requests
  <2> QED
    BY <1>1, <2>1, <2>2, OnlyCommitAdds
<1>2. TokenPerAgent'
  <2> USE AgentWorldAssumption DEF AgentWorldAssumption, Requests, TypeOK
  <2>0. agents \cap Signups = tokens \cap Signups
    BY DEF WorldInvariant, TokenPerAgent
  <2>1. ASSUME NEW p \in Signups, Begin(p) \/ SignupStep(p) PROVE TokenPerAgent'
    BY <2>0, <2>1 DEF Begin, SignupStep, Check, Count, Insert, Commit, Refresh, TokenPerAgent
  <2>2. ASSUME NEW o \in Operators, Start(o) \/ OperatorStep(o) PROVE TokenPerAgent'
    <3>1. CASE CommitDeletes(o)
      <4>1. /\ doomed[o].agents \cap Signups \subseteq doomed[o].tokens
            /\ agents \cap doomed[o].tokens \cap Signups \subseteq doomed[o].agents
        BY <3>1 DEF WorldInvariant, DeletesKept, CommitDeletes
      <4>2. /\ agents' = agents \ doomed[o].agents
            /\ tokens' = tokens \ doomed[o].tokens
        BY <3>1 DEF CommitDeletes
      <4> QED
        BY <2>0, <4>1, <4>2 DEF TokenPerAgent
    <3>2. CASE Write(o)
      <4>1. \/ agents' = agents /\ tokens' = tokens
            \/ /\ agents' = agents \cup MissingAgents(o)
               /\ tokens' = tokens \cup MissingTokens(o)
        BY <3>2 DEF Write
      <4>2. MissingAgents(o) \cap Signups = {} /\ MissingTokens(o) \cap Signups = {}
        BY DEF MissingAgents, MissingTokens, Agents
      <4> QED
        BY <2>0, <4>1, <4>2 DEF TokenPerAgent
    <3>3. CASE ~CommitDeletes(o) /\ ~Write(o)
      <4>1. agents' = agents /\ tokens' = tokens
        BY <2>2, <3>3 DEF Start, OperatorStep, DeleteTokens, DeleteAgents, ReadAgents, ReadTokens
      <4> QED
        BY <2>0, <4>1 DEF TokenPerAgent
    <3> QED
      BY <3>1, <3>2, <3>3
  <2>3. ASSUME NEW p \in Requests, Die(p) PROVE TokenPerAgent'
    BY <2>0, <2>3 DEF Die, TokenPerAgent
  <2>4. CASE UNCHANGED vars
    BY <2>0, <2>4 DEF vars, TokenPerAgent
  <2> QED
    BY <2>1, <2>2, <2>3, <2>4 DEF Next
<1> QED
  BY <1>1, <1>2

LEMMA HandlesStep ==
    ASSUME TypeOK, WorldInvariant, [Next]_vars
    PROVE  OneAgentPerHandle'
<1> USE AgentWorldAssumption DEF AgentWorldAssumption, Requests, TypeOK, Agents
<1> DEFINE Holders == agents \cup Pending
<1>0. \A a, b \in Holders : HandleOf(a) = HandleOf(b) => a = b
  BY DEF WorldInvariant, OneAgentPerHandle
<1>1. ASSUME Holders' \subseteq Holders PROVE OneAgentPerHandle'
  BY <1>0, <1>1 DEF OneAgentPerHandle, HandleOf
<1>2. ASSUME NEW s \in Signups, Begin(s) \/ SignupStep(s) PROVE OneAgentPerHandle'
  <2>1. CASE Insert(s)
    <3>1. CASE Taken(Wanted[s])
      <4>1. agents' = agents /\ pc' = [pc EXCEPT ![s] = "done"]
        BY <2>1, <3>1 DEF Insert, Reply, Goto
      <4>2. Holders' \subseteq Holders
        BY <4>1 DEF Pending
      <4> QED
        BY <1>1, <4>2
    <3>2. CASE ~Taken(Wanted[s])
      <4>1. Holders' \subseteq Holders \cup {s}
        <5>1. agents' = agents /\ pc' = [pc EXCEPT ![s] = "commit"]
          BY <2>1, <3>2 DEF Insert, Goto
        <5> QED
          BY <5>1 DEF Pending
      <4>2. \A a \in Holders : HandleOf(a) # Wanted[s]
        BY <2>1, <3>2 DEF Insert, Contested, Taken
      <4>3. HandleOf(s) = Wanted[s]
        BY DEF HandleOf
      <4>4. \A a, b \in Holders \cup {s} : HandleOf(a) = HandleOf(b) => a = b
        BY <1>0, <4>2, <4>3
      <4> QED
        BY <4>1, <4>4 DEF OneAgentPerHandle, HandleOf
    <3> QED
      BY <3>1, <3>2
  <2>2. CASE Commit(s)
    <3>1. Holders' \subseteq Holders
      BY <2>2 DEF Commit, Goto, Pending
    <3> QED
      BY <1>1, <3>1
  <2>3. CASE Begin(s) \/ Check(s) \/ Count(s) \/ Refresh(s)
    <3>1. agents' = agents /\ \A t \in Signups \ {s} : pc'[t] = pc[t]
      BY <2>3 DEF Begin, Check, Count, Refresh, Reply, Goto
    <3>2. pc'[s] # "commit"
      BY <2>3 DEF Begin, Check, Count, Refresh, Reply, Goto
    <3>3. Holders' \subseteq Holders
      BY <3>1, <3>2 DEF Pending
    <3> QED
      BY <1>1, <3>3
  <2> QED
    BY <1>2, <2>1, <2>2, <2>3 DEF SignupStep
<1>3. ASSUME NEW o \in Operators, Start(o) \/ OperatorStep(o) PROVE OneAgentPerHandle'
  <2>1. \A s \in Signups : pc'[s] = pc[s]
    BY <1>3 DEF Start, OperatorStep, DeleteTokens, DeleteAgents, CommitDeletes, ReadAgents,
                ReadTokens, Write, Reply, Goto
  <2>2. Pending' = Pending
    BY <2>1 DEF Pending
  <2>3. CASE Write(o)
    <3>1. CASE agents' \subseteq agents
      BY <1>1, <2>2, <3>1
    <3>2. CASE ~(agents' \subseteq agents)
      <4>1. /\ agents' = agents \cup MissingAgents(o)
            /\ ~\E f \in MissingAgents(o) : Taken(f)
            /\ ~\E f \in MissingAgents(o) : Contested(f)
        BY <2>3, <3>2 DEF Write, Conflicts
      <4>2. \A f \in MissingAgents(o) : f \in Fixtures /\ HandleOf(f) = f
        BY DEF MissingAgents, HandleOf
      <4>3. \A f \in MissingAgents(o), a \in Holders : HandleOf(a) # f
        BY <4>1 DEF Taken, Contested
      <4>4. \A a, b \in Holders \cup MissingAgents(o) : HandleOf(a) = HandleOf(b) => a = b
        BY <1>0, <4>2, <4>3
      <4>5. Holders' = Holders \cup MissingAgents(o)
        BY <2>2, <4>1
      <4> QED
        BY <4>4, <4>5 DEF OneAgentPerHandle, HandleOf
    <3> QED
      BY <3>1, <3>2
  <2>4. CASE ~Write(o)
    <3>1. agents' \subseteq agents
      BY <1>3, <2>4 DEF Start, OperatorStep, DeleteTokens, DeleteAgents, CommitDeletes,
                        ReadAgents, ReadTokens
    <3> QED
      BY <1>1, <2>2, <3>1
  <2> QED
    BY <2>3, <2>4
<1>4. ASSUME NEW p \in Requests, Die(p) PROVE OneAgentPerHandle'
  <2>1. Holders' \subseteq Holders
    BY <1>4 DEF Die, Goto, Pending
  <2> QED
    BY <1>1, <2>1
<1>5. CASE UNCHANGED vars
  <2>1. Holders' \subseteq Holders
    BY <1>5 DEF vars, Pending
  <2> QED
    BY <1>1, <2>1
<1> QED
  BY <1>2, <1>3, <1>4, <1>5 DEF Next

-----------------------------------------------------------------------------
(* What one request does to the rows that resets delete. *)

(* A step that is not o's leaves o's own state as it is. *)
LEMMA OthersLeave ==
    ASSUME TypeOK, [Next]_vars, NEW o \in Operators,
           ~Start(o), ~OperatorStep(o), ~Die(o)
    PROVE  /\ pc'[o] = pc[o] /\ answer'[o] = answer[o]
           /\ doomed'[o] = doomed[o] /\ older'[o] = older[o]
<1> USE AgentWorldAssumption DEF AgentWorldAssumption, Requests, TypeOK
<1>1. ASSUME NEW p \in Signups, Begin(p) \/ SignupStep(p)
      PROVE /\ pc'[o] = pc[o] /\ answer'[o] = answer[o]
            /\ doomed'[o] = doomed[o] /\ older'[o] = older[o]
  <2>1. p # o
    OBVIOUS
  <2> QED
    BY <1>1, <2>1 DEF Begin, SignupStep, Check, Count, Insert, Commit, Refresh, Reply, Goto
<1>2. ASSUME NEW p \in Operators, Start(p) \/ OperatorStep(p)
      PROVE /\ pc'[o] = pc[o] /\ answer'[o] = answer[o]
            /\ doomed'[o] = doomed[o] /\ older'[o] = older[o]
  <2>1. p # o
    BY <1>2
  <2> QED
    BY <1>2, <2>1 DEF Start, OperatorStep, DeleteTokens, DeleteAgents, CommitDeletes, ReadAgents,
                      ReadTokens, Write, Rollback, Reply, Goto
<1>3. ASSUME NEW p \in Requests, Die(p)
      PROVE /\ pc'[o] = pc[o] /\ answer'[o] = answer[o]
            /\ doomed'[o] = doomed[o] /\ older'[o] = older[o]
  <2>1. p # o
    BY <1>3
  <2> QED
    BY <1>3, <2>1 DEF Die, Goto
<1>4. CASE UNCHANGED vars
  BY <1>4 DEF vars
<1> QED
  BY <1>1, <1>2, <1>3, <1>4 DEF Next

(* A settled signup that is not there does not come back. *)
LEMMA GoneStays ==
    ASSUME TypeOK, WorldInvariant, [Next]_vars, NEW s \in Signups, Settled(s)
    PROVE  /\ Settled(s)'
           /\ s \in agents' => s \in agents
           /\ s \in tokens' => s \in tokens
<1>1. TokenPerAgent /\ TokenPerAgent'
  BY TokensKeptStep DEF WorldInvariant
<1>2. s \in agents' \cup tokens' => s \in agents \cup tokens
  BY OnlyCommitAdds
<1> QED
  BY <1>1, <1>2, SettledStays DEF TokenPerAgent

Wiped(o) == answer[o] = 200 => older[o] \cap (agents \cup tokens) = {}

LEMMA DeletesKeptStep ==
    ASSUME TypeOK, WorldInvariant, [Next]_vars, NEW o \in Operators
    PROVE  DeletesKept(o)' /\ Wiped(o)'
<1> USE DEF TypeOK
<1>0. DeletesKept(o) /\ Wiped(o) /\ o \in Requests
  BY DEF WorldInvariant, ResetWipes, Wiped, Requests
<1>1. \A s \in Signups : Settled(s) =>
         Settled(s)' /\ (s \in agents' => s \in agents) /\ (s \in tokens' => s \in tokens)
  BY GoneStays
<1>2. \A s \in (agents \cup tokens) \cap Signups : Settled(s)
  BY DEF WorldInvariant
<1>3. /\ agents \cap Signups = tokens \cap Signups
      /\ agents' \cap Signups = tokens' \cap Signups
  BY TokensKeptStep DEF WorldInvariant, TokenPerAgent
<1>4. older[o] \subseteq Signups
  OBVIOUS
<1>5. CASE Start(o)
  <2>1. /\ pc[o] = "idle" /\ doomed' = doomed
        /\ agents' = agents /\ tokens' = tokens
    BY <1>5 DEF Start
  <2>2. CASE pc' = [pc EXCEPT ![o] = "deleteTokens"] /\ older' = [older EXCEPT ![o] = Dynamic]
             /\ answer' = answer
    <3>1. pc'[o] = "deleteTokens" /\ older'[o] = agents \cap Signups /\ answer'[o] # 200
      BY <1>0, <2>1, <2>2 DEF Dynamic, DeletesKept
    <3> QED
      BY <1>0, <1>1, <1>2, <2>1, <3>1 DEF DeletesKept, Wiped
  <2>3. CASE pc' = [pc EXCEPT ![o] = "readAgents"] /\ older' = older /\ answer' = answer
    <3>1. pc'[o] = "readAgents" /\ older'[o] = {} /\ answer'[o] # 200
      BY <1>0, <2>1, <2>3 DEF DeletesKept
    <3> QED
      BY <1>0, <1>1, <2>1, <3>1 DEF DeletesKept, Wiped
  <2>4. CASE Reply(o, 401) /\ older' = older
    <3>1. pc'[o] = "done" /\ older'[o] = {} /\ answer'[o] # 200
      BY <1>0, <2>1, <2>4 DEF DeletesKept, Reply, Goto
    <3> QED
      BY <1>0, <1>1, <2>1, <3>1 DEF DeletesKept, Wiped
  <2> QED
    BY <1>5, <2>2, <2>3, <2>4 DEF Start, Goto
<1>6. CASE DeleteTokens(o)
  <2>1. /\ pc'[o] = "deleteAgents" /\ doomed'[o].tokens = tokens
        /\ agents' = agents /\ tokens' = tokens
        /\ older' = older /\ answer' = answer /\ pc[o] = "deleteTokens"
    BY <1>0, <1>6 DEF DeleteTokens, Goto
  <2> QED
    BY <1>0, <1>1, <1>2, <2>1 DEF DeletesKept, Wiped
<1>7. CASE DeleteAgents(o)
  <2>1. /\ agents' = agents /\ tokens' = tokens /\ older' = older
        /\ pc[o] = "deleteAgents"
    BY <1>7 DEF DeleteAgents
  <2>2. CASE agents \cap (tokens \ doomed[o].tokens) # {}
    <3>1. pc'[o] = "done" /\ answer'[o] = 500 /\ doomed'[o] = NoRows
      BY <1>0, <1>7, <2>2 DEF DeleteAgents, Rollback, Reply, Goto
    <3> QED
      BY <1>0, <1>1, <2>1, <3>1 DEF DeletesKept, Wiped, NoRows
  <2>3. CASE agents \cap (tokens \ doomed[o].tokens) = {}
    <3>1. /\ pc'[o] = "commitDeletes" /\ answer' = answer
          /\ doomed'[o].agents = agents /\ doomed'[o].tokens = doomed[o].tokens
      BY <1>0, <1>7, <2>3 DEF DeleteAgents, Goto
    <3>2. agents \cap Signups \subseteq doomed[o].tokens
      BY <1>3, <2>3
    <3>3. /\ \A s \in (older[o] \cup doomed[o].tokens) \cap Signups : Settled(s)
          /\ answer[o] # 200 /\ older[o] \cap tokens \subseteq doomed[o].tokens
      BY <1>0, <2>1 DEF DeletesKept
    <3> QED
      BY <1>1, <2>1, <3>1, <3>2, <3>3 DEF DeletesKept, Wiped
  <2> QED
    BY <2>2, <2>3
<1>8. CASE CommitDeletes(o)
  <2>1. /\ pc'[o] = "readAgents" /\ doomed'[o] = NoRows
        /\ tokens' = tokens \ doomed[o].tokens
        /\ older' = older /\ answer' = answer /\ pc[o] = "commitDeletes"
    BY <1>0, <1>8 DEF CommitDeletes, Rollback, Goto
  <2>2. older[o] \cap tokens' = {}
    BY <1>0, <2>1 DEF DeletesKept
  <2>3. older[o] \cap (agents' \cup tokens') = {}
    BY <1>3, <1>4, <2>2
  <2> QED
    BY <1>0, <1>1, <2>1, <2>3 DEF DeletesKept, Wiped, NoRows
<1>9. CASE ReadAgents(o) \/ ReadTokens(o)
  <2>1. /\ pc[o] \in {"readAgents", "readTokens"} /\ pc'[o] \in {"readTokens", "write"}
        /\ agents' = agents /\ tokens' = tokens /\ older' = older
        /\ answer' = answer /\ doomed' = doomed
    BY <1>0, <1>9 DEF ReadAgents, ReadTokens, Goto
  <2> QED
    BY <1>0, <1>1, <2>1 DEF DeletesKept, Wiped
<1>10. CASE Write(o)
  <2>1. pc[o] = "write" /\ pc'[o] = "done" /\ older' = older /\ doomed' = doomed
    BY <1>0, <1>10 DEF Write, Reply, Goto
  <2>2. older[o] \cap (agents' \cup tokens') = {}
    BY <1>0, <1>1, <1>4, <2>1 DEF DeletesKept
  <2> QED
    BY <1>0, <1>1, <2>1, <2>2 DEF DeletesKept, Wiped
<1>11. CASE Die(o)
  <2>1. /\ pc'[o] = "done" /\ older' = older /\ doomed'[o] = NoRows
        /\ agents' = agents /\ tokens' = tokens /\ answer' = answer
        /\ pc[o] \notin {"idle", "done"}
    BY <1>0, <1>11 DEF Die, Goto
  <2> QED
    BY <1>0, <1>1, <2>1 DEF DeletesKept, Wiped, NoRows
<1>12. CASE ~Start(o) /\ ~OperatorStep(o) /\ ~Die(o)
  <2>1. /\ pc'[o] = pc[o] /\ answer'[o] = answer[o]
        /\ doomed'[o] = doomed[o] /\ older'[o] = older[o]
    BY <1>12, OthersLeave
  <2>2. \A s \in (older[o] \cup doomed[o].tokens) \cap Signups : Settled(s)
    BY <1>0 DEF DeletesKept
  <2>3. /\ older[o] \cap tokens' \subseteq tokens
        /\ older[o] \cap agents' \subseteq agents
        /\ agents' \cap doomed[o].tokens \cap Signups \subseteq agents
    BY <1>1, <1>4, <2>2
  <2> QED
    BY <1>0, <1>1, <2>1, <2>2, <2>3 DEF DeletesKept, Wiped
<1> QED
  BY <1>5, <1>6, <1>7, <1>8, <1>9, <1>10, <1>11, <1>12 DEF OperatorStep

-----------------------------------------------------------------------------
LEMMA WorldInitially == Init => WorldInvariant
<1> SUFFICES ASSUME Init PROVE WorldInvariant
  OBVIOUS
<1> USE AgentWorldAssumption DEF AgentWorldAssumption, Init, Requests, Agents
<1>1. Dynamic = {} /\ Passed = {} /\ InFlight = {} /\ Pending = {}
  BY DEF Dynamic, Passed, InFlight, Pending
<1>2. Cardinality({}) = 0
  BY FS_EmptySet
<1>3. OvershootBounded /\ Cardinality(InFlight) <= Workers
  BY <1>1, <1>2 DEF OvershootBounded
<1>4. TokenPerAgent
  BY DEF TokenPerAgent
<1>5. OneAgentPerHandle
  BY <1>1 DEF OneAgentPerHandle, HandleOf
<1>6. ResetWipes /\ \A o \in Operators : DeletesKept(o)
  BY DEF ResetWipes, DeletesKept, NoRows
<1>7. \A s \in (agents \cup tokens) \cap Signups : Settled(s)
  <2>1. (agents \cup tokens) \cap Signups = {}
    OBVIOUS
  <2> QED
    BY <2>1
<1> QED
  BY <1>3, <1>4, <1>5, <1>6, <1>7 DEF WorldInvariant

(* The inductive invariant of signups against seeds and resets. *)
THEOREM WorldInvariantHolds == Spec => []WorldInvariant
<1>1. TypeOK /\ WorldInvariant /\ [Next]_vars => WorldInvariant'
  <2> SUFFICES ASSUME TypeOK, WorldInvariant, [Next]_vars PROVE WorldInvariant'
    OBVIOUS
  <2>1. OvershootBounded' /\ (Cardinality(InFlight) <= Workers)'
    <3>1. Counts
      BY DEF WorldInvariant, OvershootBounded, Counts
    <3>2. Counts'
      BY <3>1, CountsStep
    <3> QED
      BY <3>2 DEF Counts, OvershootBounded
  <2>2. TokenPerAgent' /\ \A s \in (agents' \cup tokens') \cap Signups : Settled(s)'
    BY TokensKeptStep
  <2>3. OneAgentPerHandle'
    BY HandlesStep
  <2>4. \A o \in Operators : DeletesKept(o)' /\ Wiped(o)'
    BY DeletesKeptStep
  <2>5. ResetWipes'
    BY <2>4 DEF ResetWipes, Wiped
  <2> QED
    BY <2>1, <2>2, <2>3, <2>4, <2>5 DEF WorldInvariant
<1> QED
  BY <1>1, WorldInitially, TypeCorrect, PTL DEF Spec

(* Every signed-up agent has its token and no token has lost its agent,      *)
(* whatever signups, seeds and resets run together.                          *)
THEOREM TokenPerAgentHolds == Spec => []TokenPerAgent
<1>1. WorldInvariant => TokenPerAgent
  BY DEF WorldInvariant
<1> QED
  BY <1>1, WorldInvariantHolds, PTL

(* No two agents, committed or on their way, share a handle.                 *)
THEOREM OneAgentPerHandleHolds == Spec => []OneAgentPerHandle
<1>1. WorldInvariant => OneAgentPerHandle
  BY DEF WorldInvariant
<1> QED
  BY <1>1, WorldInvariantHolds, PTL

(* The signup cap is passed by no more than the sessions of the pool less    *)
(* one, for any cap and any pool.                                            *)
THEOREM OvershootBoundedHolds == Spec => []OvershootBounded
<1>1. WorldInvariant => OvershootBounded
  BY DEF WorldInvariant
<1> QED
  BY <1>1, WorldInvariantHolds, PTL

(* A reset that answered 200 has removed what had signed up before it, and   *)
(* none of it comes back, for any number of concurrent resets.               *)
THEOREM ResetWipesHolds == Spec => []ResetWipes
<1>1. WorldInvariant => ResetWipes
  BY DEF WorldInvariant
<1> QED
  BY <1>1, WorldInvariantHolds, PTL

-----------------------------------------------------------------------------
(* A lone seed or reset *)

(* Nothing but the reset itself takes a row away while the others have not begun. *)
LEMMA FoundStep ==
    ASSUME TypeOK, FoundInvariant, [Next]_vars, NEW o \in Operators
    PROVE  Found(o)'
<1> USE DEF TypeOK, Requests
<1>1. ASSUME Found(o), pc'[o] = pc[o], seen'[o] = seen[o], Alone(o)' => Alone(o),
             Alone(o) => agents \subseteq agents' /\ tokens \subseteq tokens'
      PROVE  Found(o)'
  BY <1>1 DEF Found, Alone
<1>2. Found(o)
  BY DEF FoundInvariant
<1>3. Operators \cap Signups = {}
  BY AgentWorldAssumption DEF AgentWorldAssumption
<1>4. ASSUME NEW s \in Signups, Begin(s) \/ SignupStep(s) PROVE Found(o)'
  <2>1. /\ seen' = seen /\ agents \subseteq agents' /\ tokens \subseteq tokens'
        /\ \A q \in Operators : pc'[q] = pc[q]
    BY <1>3, <1>4 DEF Begin, SignupStep, Check, Count, Insert, Commit, Refresh, Reply, Goto
  <2>2. Alone(o)' => Alone(o)
    BY <2>1 DEF Alone
  <2> QED
    BY <1>1, <1>2, <2>1, <2>2
<1>5. ASSUME NEW q \in Operators, q # o, Start(q) \/ OperatorStep(q) PROVE Found(o)'
  <2>1. pc'[q] # "idle" /\ pc'[o] = pc[o] /\ seen'[o] = seen[o]
    BY <1>5 DEF Start, OperatorStep, DeleteTokens, DeleteAgents, CommitDeletes, ReadAgents,
                ReadTokens, Write, Reply, Goto
  <2>2. ~Alone(o)'
    BY <1>5, <2>1 DEF Alone
  <2> QED
    BY <1>2, <2>1, <2>2 DEF Found
<1>6. CASE Start(o)
  <2>1. agents' = agents /\ tokens' = tokens
    BY <1>6 DEF Start
  <2>2. seen[o] = NoRows
    BY <1>2, <1>6 DEF Start, Found
  <2>3. \/ pc'[o] = "deleteTokens" /\ seen'[o] = NoRows
        \/ /\ pc'[o] = "readAgents" /\ Harness \in tokens
           /\ seen'[o].agents = {} /\ seen'[o].tokens = {Harness}
        \/ pc'[o] = "done"
    <3>1. CASE Goto(o, "readAgents")
      <4>1. Harness \in tokens /\ seen' = [seen EXCEPT ![o].tokens = {Harness}]
        BY <1>6, <3>1 DEF Start, Goto, Reply
      <4> QED
        BY <2>2, <3>1, <4>1 DEF Goto, NoRows
    <3>2. CASE ~Goto(o, "readAgents")
      BY <1>6, <2>2, <3>2 DEF Start, Goto, Reply
    <3> QED
      BY <3>1, <3>2
  <2> QED
    BY <2>1, <2>3 DEF Found, NoRows
<1>7. CASE DeleteTokens(o) \/ DeleteAgents(o) \/ CommitDeletes(o)
  <2>1. seen' = seen /\ seen[o] = NoRows
    BY <1>2, <1>7 DEF DeleteTokens, DeleteAgents, CommitDeletes, Found
  <2> QED
    BY <1>7, <2>1 DEF DeleteTokens, DeleteAgents, CommitDeletes, Goto, Reply, Found, NoRows
<1>8. CASE ReadAgents(o)
  <2>1. /\ agents' = agents /\ tokens' = tokens /\ pc[o] = "readAgents" /\ pc'[o] = "readTokens"
        /\ seen'[o].agents = agents \cap Fixtures /\ seen'[o].tokens = seen[o].tokens
    BY <1>8 DEF ReadAgents, Goto
  <2>2. Alone(o)' => Alone(o)
    BY <1>8 DEF Alone, ReadAgents, Goto
  <2> QED
    BY <1>2, <2>1, <2>2 DEF Found
<1>9. CASE ReadTokens(o)
  <2>1. /\ agents' = agents /\ tokens' = tokens /\ pc[o] = "readTokens" /\ pc'[o] = "write"
        /\ seen'[o].agents = seen[o].agents
        /\ seen'[o].tokens = seen[o].tokens \cup (tokens \cap FixtureTokens)
    BY <1>9 DEF ReadTokens, Goto
  <2>2. Alone(o)' => Alone(o)
    BY <1>9 DEF Alone, ReadTokens, Goto
  <2> QED
    BY <1>2, <2>1, <2>2 DEF Found
<1>10. CASE Write(o)
  <2>1. pc'[o] = "done"
    BY <1>10 DEF Write, Reply, Goto
  <2> QED
    BY <2>1 DEF Found
<1>11. ASSUME NEW p \in Requests, Die(p) PROVE Found(o)'
  <2>1. pc' = [pc EXCEPT ![p] = "done"] /\ pc[p] # "idle" /\ UNCHANGED <<agents, tokens, seen>>
    BY <1>11 DEF Die, Goto
  <2>2. CASE p = o
    BY <2>1, <2>2 DEF Found
  <2>3. CASE p # o
    <3>1. pc'[o] = pc[o] /\ (Alone(o)' => Alone(o))
      BY <2>1, <2>3 DEF Alone
    <3> QED
      BY <1>1, <1>2, <2>1, <3>1
  <2> QED
    BY <2>2, <2>3
<1>12. CASE UNCHANGED vars
  BY <1>2, <1>12 DEF vars, Found, Alone
<1> QED
  BY <1>4, <1>5, <1>6, <1>7, <1>8, <1>9, <1>10, <1>11, <1>12 DEF Next, OperatorStep

(* What the merges of a lone operator found stays until it writes.            *)
THEOREM FoundInvariantHolds == Spec => []FoundInvariant
<1>1. Init => FoundInvariant
  BY AgentWorldAssumption DEF Init, FoundInvariant, Found, NoRows, Requests, AgentWorldAssumption
<1>2. TypeOK /\ FoundInvariant /\ [Next]_vars => FoundInvariant'
  BY FoundStep DEF FoundInvariant
<1> QED
  BY <1>1, <1>2, TypeCorrect, PTL DEF Spec

(* A seed or a reset that answers 200 while no other has begun leaves every    *)
(* fixture agent and token in place, whatever signs up meanwhile             *)
(* (fixtures.py, the merges of seed_fixtures).                               *)
THEOREM SeedsRestore == Spec => RestoresFixtures
<1>1. TypeOK /\ FoundInvariant /\ [Next]_vars =>
        [\A o \in Operators :
            (\A q \in Operators \ {o} : pc[q] = "idle") /\ answer[o] # 200 /\ answer'[o] = 200 =>
               Fixtures \subseteq agents' /\ FixtureTokens \subseteq tokens']_vars
  <2> SUFFICES ASSUME TypeOK, FoundInvariant, Next, NEW o \in Operators,
                      Alone(o), answer[o] # 200, answer'[o] = 200
               PROVE  Fixtures \subseteq agents' /\ FixtureTokens \subseteq tokens'
    BY DEF Alone
  <2>1. Write(o)
    <3> USE DEF TypeOK, Requests
    <3>1. Operators \cap Signups = {}
      BY AgentWorldAssumption DEF AgentWorldAssumption
    <3>2. ASSUME NEW s \in Signups, Begin(s) \/ SignupStep(s) PROVE FALSE
      BY <3>1, <3>2 DEF Begin, SignupStep, Check, Count, Insert, Commit, Refresh, Reply
    <3>3. ASSUME NEW p \in Requests, Die(p) PROVE FALSE
      BY <3>3 DEF Die
    <3>4. ASSUME NEW q \in Operators, Start(q) \/ OperatorStep(q), ~Write(o) PROVE FALSE
      <4>1. CASE Write(q)
        <5>1. q # o
          BY <3>4, <4>1
        <5>2. answer' = [answer EXCEPT ![q] = 500] \/ answer' = [answer EXCEPT ![q] = 200]
          BY <4>1 DEF Write, Reply
        <5> QED
          BY <5>1, <5>2
      <4>2. CASE ~Write(q)
        <5>1. \/ answer' = answer
              \/ answer' = [answer EXCEPT ![q] = 401]
              \/ answer' = [answer EXCEPT ![q] = 500]
          BY <3>4, <4>2 DEF Start, OperatorStep, DeleteTokens, DeleteAgents, CommitDeletes,
                            ReadAgents, ReadTokens, Reply
        <5> QED
          BY <5>1
      <4> QED
        BY <4>1, <4>2
    <3> QED
      BY <3>2, <3>3, <3>4 DEF Next
  <2>2. seen[o].agents \subseteq agents /\ seen[o].tokens \subseteq tokens
    BY <2>1 DEF FoundInvariant, Found, Write
  <2>3. agents' = agents \cup MissingAgents(o) /\ tokens' = tokens \cup MissingTokens(o)
    BY <2>1 DEF Write, Reply, TypeOK, Requests
  <2> QED
    BY <2>2, <2>3 DEF MissingAgents, MissingTokens
<1> QED
  BY <1>1, FoundInvariantHolds, TypeCorrect, PTL DEF Spec, RestoresFixtures

-----------------------------------------------------------------------------
(* The harness token *)

(* Only the commit of a reset takes the token away, and its seed is to come.     *)
LEMMA OwedStep ==
    ASSUME TypeOK, FoundInvariant, HarnessOwed, [Next]_vars
    PROVE  HarnessOwed'
<1> USE DEF TypeOK, Requests
<1>0. Operators \cap Signups = {} /\ None \notin {200, 401} /\ Harness \in FixtureTokens
  BY AgentWorldAssumption DEF AgentWorldAssumption
<1>1. ASSUME NEW o \in Operators,
             \A q \in Operators \ {o} : pc'[q] = pc[q] /\ answer'[q] = answer[q] /\ seen'[q] = seen[q],
             pc'[o] # "done" => answer'[o] = None,
             Harness \notin tokens' => Owes(o)' \/ (Harness \notin tokens /\ ~Owes(o))
      PROVE  HarnessOwed'
  <2>1. \A q \in Operators \ {o} : Owes(q) => Owes(q)'
    BY <1>1 DEF Owes
  <2> QED
    BY <1>1, <2>1 DEF HarnessOwed
<1>2. ASSUME NEW s \in Signups, Begin(s) \/ SignupStep(s) PROVE HarnessOwed'
  <2>1. /\ seen' = seen /\ tokens \subseteq tokens'
        /\ \A q \in Operators : pc'[q] = pc[q] /\ answer'[q] = answer[q]
    BY <1>0, <1>2 DEF Begin, SignupStep, Check, Count, Insert, Commit, Refresh, Reply, Goto
  <2> QED
    BY <2>1 DEF HarnessOwed, Owes
<1>3. ASSUME NEW o \in Operators, Start(o) \/ OperatorStep(o) PROVE HarnessOwed'
  <2>1. /\ \A q \in Operators \ {o} : pc'[q] = pc[q] /\ answer'[q] = answer[q] /\ seen'[q] = seen[q]
        /\ pc[o] # "done" /\ answer[o] = None
        /\ pc'[o] # "done" => answer'[o] = None
    BY <1>3 DEF Start, OperatorStep, DeleteTokens, DeleteAgents, CommitDeletes, ReadAgents,
                ReadTokens, Write, Reply, Goto, HarnessOwed
  <2>2. Harness \notin tokens' => Owes(o)' \/ (Harness \notin tokens /\ ~Owes(o))
    <3>1. CASE Start(o) \/ DeleteTokens(o) \/ DeleteAgents(o)
      BY <1>0, <2>1, <3>1 DEF Start, DeleteTokens, DeleteAgents, Owes
    <3>2. CASE CommitDeletes(o)
      <4>1. seen[o] = NoRows /\ seen' = seen /\ pc'[o] = "readAgents"
        BY <3>2 DEF CommitDeletes, FoundInvariant, Found, Goto
      <4> QED
        BY <4>1 DEF Owes, NoRows
    <3>3. CASE ReadAgents(o)
      BY <3>3 DEF ReadAgents, Goto, Owes
    <3>4. CASE ReadTokens(o)
      BY <3>4 DEF ReadTokens, Goto, Owes
    <3>5. CASE Write(o)
      <4>1. CASE answer' = [answer EXCEPT ![o] = 500] /\ pc'[o] = "done" /\ tokens' = tokens
        BY <4>1 DEF Owes
      <4>2. CASE tokens' = tokens \cup MissingTokens(o)
        <5>1. Owes(o) => Harness \in tokens'
          BY <1>0, <2>1, <4>2 DEF Owes, MissingTokens
        <5> QED
          BY <4>2, <5>1
      <4> QED
        BY <3>5, <4>1, <4>2 DEF Write, Reply, Goto
    <3> QED
      BY <1>3, <3>1, <3>2, <3>3, <3>4, <3>5 DEF OperatorStep
  <2> QED
    BY <1>1, <2>1, <2>2
<1>4. ASSUME NEW p \in Requests, Die(p) PROVE HarnessOwed'
  <2>1. pc' = [pc EXCEPT ![p] = "done"] /\ pc[p] # "done" /\ UNCHANGED <<tokens, answer, seen>>
    BY <1>4 DEF Die, Goto
  <2>2. CASE p \in Operators
    <3>1. Owes(p)'
      BY <1>0, <2>1, <2>2 DEF Owes, HarnessOwed
    <3> QED
      BY <1>1, <2>1, <2>2, <3>1
  <2>3. CASE p \notin Operators
    BY <2>1, <2>3 DEF HarnessOwed, Owes
  <2> QED
    BY <2>2, <2>3
<1>5. CASE UNCHANGED vars
  BY <1>5 DEF vars, HarnessOwed, Owes
<1> QED
  BY <1>2, <1>3, <1>4, <1>5 DEF Next

(* However many seeds and resets run at once, the harness token is missing only *)
(* while a reset is under way, or after one that did not answer 200             *)
(* (fixtures.py, the commit between the deletes and the seed).                  *)
THEOREM HarnessReturnsHolds == Spec => []HarnessReturns
<1>1. Init => HarnessOwed
  BY AgentWorldAssumption DEF Init, HarnessOwed, Requests, AgentWorldAssumption
<1>2. TypeOK /\ FoundInvariant /\ HarnessOwed /\ [Next]_vars => HarnessOwed'
  BY OwedStep
<1>3. HarnessOwed => HarnessReturns
  <2>0. None \notin {200, 401}
    BY AgentWorldAssumption DEF AgentWorldAssumption
  <2> SUFFICES ASSUME HarnessOwed, Harness \notin tokens
               PROVE  \E o \in Operators : pc[o] # "idle" /\ answer[o] \notin {200, 401}
    BY DEF HarnessReturns
  <2>1. PICK o \in Operators : Owes(o)
    BY DEF HarnessOwed
  <2>2. pc[o] # "done" => answer[o] = None
    BY DEF HarnessOwed
  <2> QED
    BY <2>0, <2>1, <2>2 DEF Owes
<1> QED
  BY <1>1, <1>2, <1>3, FoundInvariantHolds, TypeCorrect, PTL DEF Spec
=============================================================================
