-------------------------- MODULE AgentCohort_proofs --------------------------
(***************************************************************************)
(* That no token is lost and that leftovers never block a run, for every      *)
(* number of agents, runs and resets.  CohortInvariant says what the file has  *)
(* is with the run that will write it, and what a signup brings is new; the    *)
(* rest is about three lists: an agent more, an agent less, and a choice.      *)
(***************************************************************************)
EXTENDS AgentCohort, SequenceTheorems, TLAPS

(* A function on 1..n is a sequence of length n. *)
LEMMA FunctionIsSequence ==
    ASSUME NEW S, NEW n \in Nat, NEW f \in [1..n -> S]
    PROVE  f \in Seq(S) /\ Len(f) = n /\ DOMAIN f = 1..n
<1>1. f \in Seq(S)
  BY SeqDef
<1>2. Len(f) \in Nat /\ DOMAIN f = 1..Len(f)
  BY <1>1, LenProperties
<1> QED
  BY <1>1, <1>2

(* The agents of a list, by their places. *)
LEMMA AgentsOfList ==
    ASSUME NEW s, AreAgents(s)
    PROVE  /\ Len(s) \in 0..MostAgents
           /\ DOMAIN s = 1..Len(s)
           /\ s \in [1..Len(s) -> Account]
           /\ \A i \in 1..Len(s) : s[i] \in Account /\ s[i] \in Members(s)
           /\ Members(s) \subseteq Account
           /\ \A a \in Members(s) : \E i \in 1..Len(s) : s[i] = a
<1>1. Len(s) \in Nat /\ DOMAIN s = 1..Len(s) /\ s \in [1..Len(s) -> Account]
  BY LenProperties DEF AreAgents
<1> QED
  BY <1>1, CohortAssumption DEF AreAgents, Members, CohortAssumption

LEMMA EmptyList == AreAgents(<< >>) /\ OneEach(<< >>) /\ Members(<< >>) = {} /\ Len(<< >>) = 0
<1>1. << >> \in Seq(Account) /\ Len(<< >>) = 0 /\ DOMAIN << >> = {}
  BY EmptySeq, LenProperties
<1> QED
  BY <1>1, CohortAssumption DEF AreAgents, OneEach, Members, CohortAssumption

(* One agent more. *)
LEMMA Adding ==
    ASSUME NEW s, AreAgents(s), OneEach(s), Len(s) < MostAgents,
           NEW a \in Account,
           \A r \in Members(s) : r.id # a.id /\ (r.handle = a.handle => a.handle = Own)
    PROVE  /\ AreAgents(Append(s, a)) /\ OneEach(Append(s, a))
           /\ Members(Append(s, a)) = Members(s) \cup {a}
           /\ Len(Append(s, a)) = Len(s) + 1
<1> DEFINE t == Append(s, a)
           n == Len(s)
<1>1. n \in Nat /\ DOMAIN s = 1..n /\ \A i \in 1..n : s[i] \in Account /\ s[i] \in Members(s)
  BY AgentsOfList
<1>2. t \in Seq(Account) /\ Len(t) = n + 1 /\ (\A i \in 1..n : t[i] = s[i]) /\ t[n + 1] = a
  BY AppendProperties DEF AreAgents
<1>3. DOMAIN t = 1..n + 1
  BY <1>1, <1>2, LenProperties
<1>4. n + 1 <= MostAgents
  BY <1>1, CohortAssumption DEF CohortAssumption
<1>5. OneEach(t)
  <2>1. SUFFICES ASSUME NEW i \in 1..n + 1, NEW j \in 1..n + 1, i # j
                 PROVE  t[i].id # t[j].id /\ (t[i].handle = t[j].handle => t[i].handle = Own)
    BY <1>3 DEF OneEach
  <2>2. CASE i \in 1..n /\ j \in 1..n
    BY <1>1, <1>2, <2>1, <2>2 DEF OneEach
  <2>3. CASE i = n + 1
    <3>1. j \in 1..n
      BY <1>1, <2>1, <2>3
    <3>2. t[i] = a /\ t[j] = s[j] /\ s[j] \in Members(s)
      BY <1>1, <1>2, <2>3, <3>1
    <3> QED
      BY <3>2
  <2>4. CASE j = n + 1
    <3>1. i \in 1..n
      BY <1>1, <2>1, <2>4
    <3>2. t[j] = a /\ t[i] = s[i] /\ s[i] \in Members(s)
      BY <1>1, <1>2, <2>4, <3>1
    <3> QED
      BY <3>2
  <2> QED
    BY <1>1, <2>2, <2>3, <2>4
<1>6. Members(t) = Members(s) \cup {a}
  <2>1. \A x : x \in Members(t) <=> \E i \in 1..n + 1 : t[i] = x
    BY <1>3 DEF Members
  <2>2. \A x : x \in Members(s) <=> \E i \in 1..n : s[i] = x
    BY <1>1 DEF Members
  <2>3. 1..n + 1 = 1..n \cup {n + 1}
    BY <1>1
  <2> QED
    BY <1>2, <2>1, <2>2, <2>3
<1> QED
  BY <1>2, <1>4, <1>5, <1>6 DEF AreAgents

(* One agent less. *)
LEMMA Removing ==
    ASSUME NEW s, AreAgents(s), OneEach(s), NEW a \in Members(s)
    PROVE  /\ AreAgents(Without(s, a)) /\ OneEach(Without(s, a))
           /\ Members(Without(s, a)) = Members(s) \ {a}
           /\ Len(Without(s, a)) < MostAgents
<1> DEFINE n == Len(s)
           k == CHOOSE i \in DOMAIN s : SameHandle(s[i], a)
           t == [i \in 1..n - 1 |-> IF i < k THEN s[i] ELSE s[i + 1]]
<1>1. n \in 0..MostAgents /\ DOMAIN s = 1..n /\ \A i \in 1..n : s[i] \in Account
  BY AgentsOfList
<1>2. PICK h \in 1..n : s[h] = a
  BY AgentsOfList
<1>3. SameHandle(s[h], a)
  BY <1>2 DEF SameHandle
<1>4. k \in 1..n /\ SameHandle(s[k], a)
  BY <1>1, <1>2, <1>3
<1>5. s[k] = a
  <2>1. s[k].handle = s[h].handle /\ (s[k].handle = Own => s[k] = s[h])
    BY <1>2, <1>4 DEF SameHandle
  <2> QED
    BY <1>1, <1>2, <1>4, <2>1 DEF OneEach
<1>6. Without(s, a) = t
  BY <1>1, <1>2, <1>3 DEF Without
<1> HIDE DEF k
<1>7. n - 1 \in Nat
  BY <1>1, <1>2
<1>8. t \in [1..n - 1 -> Account]
  BY <1>1, <1>4
<1>9. t \in Seq(Account) /\ Len(t) = n - 1 /\ DOMAIN t = 1..n - 1
  BY <1>7, <1>8, FunctionIsSequence
<1>10. OneEach(t)
  <2>1. SUFFICES ASSUME NEW i \in 1..n - 1, NEW j \in 1..n - 1, i # j
                 PROVE  t[i].id # t[j].id /\ (t[i].handle = t[j].handle => t[i].handle = Own)
    BY <1>9 DEF OneEach
  <2>2. \E u \in 1..n, v \in 1..n : u # v /\ t[i] = s[u] /\ t[j] = s[v]
    <3>1. t[i] = (IF i < k THEN s[i] ELSE s[i + 1]) /\ t[j] = (IF j < k THEN s[j] ELSE s[j + 1])
      OBVIOUS
    <3> DEFINE u == IF i < k THEN i ELSE i + 1
               v == IF j < k THEN j ELSE j + 1
    <3>2. u \in 1..n /\ v \in 1..n /\ u # v
      BY <1>1, <1>4, <2>1
    <3>3. t[i] = s[u] /\ t[j] = s[v]
      BY <3>1
    <3> QED
      BY <3>2, <3>3
  <2> QED
    BY <1>1, <2>2 DEF OneEach
<1>11. Members(t) = Members(s) \ {a}
  <2>1. \A x : x \in Members(t) <=> \E i \in 1..n - 1 : t[i] = x
    BY <1>9 DEF Members
  <2>2. \A x : x \in Members(s) <=> \E i \in 1..n : s[i] = x
    BY <1>1 DEF Members
  <2>3. ASSUME NEW x \in Members(t) PROVE x \in Members(s) \ {a}
    <3>1. PICK i \in 1..n - 1 : t[i] = x
      BY <2>1
    <3> DEFINE u == IF i < k THEN i ELSE i + 1
    <3>2. u \in 1..n /\ u # k /\ s[u] = x
      BY <1>1, <1>4, <3>1
    <3>3. s[u].id # s[k].id
      BY <1>1, <1>4, <3>2 DEF OneEach
    <3> QED
      BY <1>5, <2>2, <3>2, <3>3
  <2>4. ASSUME NEW x \in Members(s) \ {a} PROVE x \in Members(t)
    <3>1. PICK u \in 1..n : s[u] = x
      BY <2>2
    <3>2. u # k
      BY <1>5, <2>4, <3>1
    <3> DEFINE i == IF u < k THEN u ELSE u - 1
    <3>3. i \in 1..n - 1 /\ t[i] = x
      BY <1>1, <1>4, <3>1, <3>2
    <3> QED
      BY <2>1, <3>3
  <2> QED
    BY <2>3, <2>4
<1> QED
  BY <1>1, <1>6, <1>9, <1>10, <1>11, CohortAssumption DEF AreAgents, CohortAssumption

(* Another agent in the place of one. *)
LEMMA Exchanging ==
    ASSUME NEW s, AreAgents(s), OneEach(s), NEW k \in DOMAIN s, NEW a \in Account,
           \A i \in DOMAIN s : i # k =>
               s[i].id # a.id /\ (s[i].handle = a.handle => a.handle = Own)
    PROVE  /\ AreAgents([s EXCEPT ![k] = a]) /\ OneEach([s EXCEPT ![k] = a])
           /\ \A x \in Members([s EXCEPT ![k] = a]) :
                  x = a \/ \E i \in DOMAIN s : i # k /\ x = s[i]
<1> DEFINE n == Len(s)
           t == [s EXCEPT ![k] = a]
<1>1. n \in 0..MostAgents /\ DOMAIN s = 1..n /\ s \in [1..n -> Account]
  BY AgentsOfList
<1>2. t \in [1..n -> Account] /\ t[k] = a /\ \A i \in 1..n : i # k => t[i] = s[i]
  BY <1>1
<1>3. t \in Seq(Account) /\ Len(t) = n /\ DOMAIN t = 1..n
  BY <1>1, <1>2, FunctionIsSequence
<1> HIDE DEF t
<1>4. OneEach(t)
  BY <1>1, <1>2, <1>3 DEF OneEach
<1>5. \A x \in Members(t) : x = a \/ \E i \in DOMAIN s : i # k /\ x = s[i]
  BY <1>1, <1>2, <1>3 DEF Members
<1>6. AreAgents(t)
  BY <1>1, <1>3, CohortAssumption DEF AreAgents, CohortAssumption
<1> QED
  BY <1>4, <1>5, <1>6 DEF t

(* The remainder of a number below 2n. *)
LEMMA Wrapping ==
    \A n \in Nat \ {0} : \A a \in Nat : a < 2 * n => a % n = IF a < n THEN a ELSE a - n
<1> TAKE n \in Nat \ {0}, a \in Nat
<1> HAVE a < 2 * n
<1>1. CASE a < n
  BY <1>1
<1>2. CASE a >= n
  <2>1. (a - n) % n = a - n
    BY <1>2
  <2>2. a % n = (a - n) % n
    BY <1>2
  <2> QED
    BY <1>2, <2>1, <2>2
<1> QED
  BY <1>1, <1>2

(* The agents of a run are of those at hand, each once, and all when there are  *)
(* no more.                                                                  *)
LEMMA Selecting ==
    ASSUME AreAgents(records), OneEach(records), run.count \in Counts,
           run.count <= Len(records), cursor \in Nat
    PROVE  /\ AreAgents(Selected) /\ OneEach(Selected)
           /\ Members(Selected) \subseteq Members(records)
           /\ Len(records) = run.count => Members(Selected) = Members(records)
<1> DEFINE n == Len(records)
           c == run.count
           start == IF n <= c \/ ~Rotation THEN 0 ELSE cursor % n
           place(i) == IF start + i - 1 < n THEN start + i ELSE start + i - n
<1>1. n \in Nat \ {0} /\ n <= MostAgents /\ c \in 1..n /\ DOMAIN records = 1..n
  BY AgentsOfList, CohortAssumption DEF Counts, CohortAssumption
<1>2. \A i \in 1..n : records[i] \in Account /\ records[i] \in Members(records)
  BY AgentsOfList
<1>3. start \in 0..n - 1 /\ (n = c => start = 0)
  BY <1>1
<1> HIDE DEF start
<1>4. ASSUME NEW i \in 1..c
      PROVE  place(i) \in 1..n /\ ((start + i - 1) % n) + 1 = place(i)
  <2>1. start + i - 1 \in Nat /\ start + i - 1 < 2 * n
    BY <1>1, <1>3
  <2> DEFINE a == start + i - 1
  <2>2. a % n = IF a < n THEN a ELSE a - n
    <3>1. n \in Nat \ {0} /\ a \in Nat /\ a < 2 * n
      BY <1>1, <2>1
    <3> HIDE DEF a, n, c, place
    <3> QED
      BY <3>1, Wrapping, Zenon
  <2> QED
    BY <1>1, <1>3, <2>1, <2>2
<1>5. Selected = [i \in 1..c |-> records[((start + i - 1) % n) + 1]]
  BY DEF Selected, start
<1>6. Selected \in [1..c -> Account] /\ \A i \in 1..c : Selected[i] = records[place(i)]
  BY <1>2, <1>4, <1>5
<1>7. Selected \in Seq(Account) /\ Len(Selected) = c /\ DOMAIN Selected = 1..c
  BY <1>1, <1>6, FunctionIsSequence
<1>8. \A i, j \in 1..c : i # j => place(i) # place(j)
  BY <1>1, <1>3
<1>9. OneEach(Selected)
  <2>1. SUFFICES ASSUME NEW i \in 1..c, NEW j \in 1..c, i # j
                 PROVE  /\ Selected[i].id # Selected[j].id
                        /\ Selected[i].handle = Selected[j].handle => Selected[i].handle = Own
    BY <1>7 DEF OneEach
  <2>2. place(i) \in 1..n /\ place(j) \in 1..n /\ place(i) # place(j)
    BY <1>4, <1>8, <2>1
  <2> HIDE DEF place
  <2> QED
    BY <1>1, <1>6, <2>2 DEF OneEach
<1>10. Members(Selected) \subseteq Members(records)
  <2> HIDE DEF place
  <2> QED
    BY <1>2, <1>4, <1>6, <1>7 DEF Members
<1>11. ASSUME n = c PROVE Members(Selected) = Members(records)
  <2>1. \A i \in 1..c : Selected[i] = records[i]
    BY <1>1, <1>3, <1>6, <1>11
  <2> QED
    BY <1>1, <1>7, <1>11, <2>1 DEF Members
<1> QED
  BY <1>1, <1>7, <1>9, <1>10, <1>11, CohortAssumption DEF AreAgents, CohortAssumption

-----------------------------------------------------------------------------
LEMMA EndedAreLabels == Ended \cap {"load", "ask", "hear", "save", "acting"} = {}
  BY DEF Ended

(* What a run that is under way has in its hands are accounts. *)
LEMMA InHandType ==
    ASSUME CohortInvariant, pc \notin Ended
    PROVE  InHand \subseteq Account
  BY AgentsOfList DEF CohortInvariant, TypeOK, InMemory, NewToAll, InHand

LEMMA InitInvariant == Init => CohortInvariant
<1> SUFFICES ASSUME Init PROVE CohortInvariant
  OBVIOUS
<1>1. file = [state |-> "absent", agents |-> << >>, cursor |-> 0]
  BY DEF Init, Absent
<1>2. TypeOK
  <2>1. 0 \in 0..MaxResets /\ 0 \in 0..MostAgents /\ 1 \in Counts
    BY CohortAssumption DEF CohortAssumption, Counts
  <2>2. run \in [mode : Modes \cup {"reuse_or_create"}, count : Counts]
    BY <2>1 DEF Init
  <2>3. file.state = "absent" /\ file.agents = << >> /\ file.cursor = 0
    BY <1>1
  <2>4. /\ AreAgents(file.agents) /\ OneEach(file.agents)
        /\ AreAgents(records) /\ OneEach(records) /\ AreAgents(cohort) /\ OneEach(cohort)
    BY <2>3, EmptyList DEF Init
  <2>5. /\ accounts = {} /\ issued = 0 /\ resets = 0 /\ pc = "idle" /\ cursor = 0 /\ rejected = 0
        /\ answer = "none" /\ made = None /\ second = FALSE /\ forgiven = {}
    BY DEF Init
  <2>6. accounts \subseteq Account /\ issued \in Nat /\ resets \in 0..MaxResets
    BY <2>1, <2>5
  <2>7. file.state \in {"absent", "unreadable", "good"} /\ file.cursor \in Nat
    BY <2>3
  <2>8. pc \in {"load", "ask", "hear", "save", "acting"} \cup Ended /\ cursor \in Nat
    BY <2>5 DEF Ended
  <2>9. answer \in {"none", "made", "taken", "full", "lost"} /\ made \in Account \cup {None} /\ second \in BOOLEAN
    BY <2>5
  <2>10. rejected \in 0..MostAgents /\ forgiven \subseteq Account
    BY <2>1, <2>5
  <2> QED
    BY <2>2, <2>4, <2>6, <2>7, <2>8, <2>9, <2>10 DEF TypeOK
<1>3. InMemory /\ Wanting /\ FileHeld
  BY <1>1, EmptyList DEF Init, InMemory, Wanting, FileHeld, Ended
<1>4. NewToAll
  BY <1>1, EmptyList DEF Init, NewToAll, Known
<1>5. NoTokenLost /\ LeftoversDoNotBlock
  BY DEF Init, NoTokenLost, LeftoversDoNotBlock
<1> QED
  BY <1>2, <1>3, <1>4, <1>5 DEF CohortInvariant

(* A run that ends gives up what is in its memory alone. *)
LEMMA Ending ==
    ASSUME CohortInvariant, pc \notin Ended,
           NEW outcome \in Ended \ {"idle"}, End(outcome),
           UNCHANGED <<server, file, run, answer>>, cursor' \in Nat,
           outcome \in {"blocked", "crashed"} => answer # "taken"
    PROVE  CohortInvariant'
<1>1. /\ pc' = outcome /\ records' = << >> /\ cohort' = << >> /\ rejected' = 0 /\ made' = None
      /\ second' = FALSE /\ forgiven' = forgiven \cup (InHand \ Saved)
      /\ accounts' = accounts /\ issued' = issued /\ resets' = resets
      /\ file' = file /\ run' = run /\ answer' = answer
  BY DEF End, server
<1>2. TypeOK'
  <2>1. forgiven' \subseteq Account
    BY <1>1, InHandType DEF CohortInvariant, TypeOK
  <2>2. 0 \in 0..MostAgents
    BY CohortAssumption DEF CohortAssumption
  <2> QED
    BY <1>1, <2>1, <2>2, EmptyList DEF CohortInvariant, TypeOK
<1>3. InMemory' /\ Wanting' /\ FileHeld'
  BY <1>1, EmptyList DEF InMemory, Wanting, FileHeld, Ended
<1>4. NewToAll'
  BY <1>1, EmptyList DEF CohortInvariant, NewToAll, Known, Ended
<1>5. NoTokenLost'
  <2>1. Saved' = Saved
    BY <1>1 DEF Saved
  <2> QED
    BY <1>1, <2>1 DEF CohortInvariant, NoTokenLost
<1>6. LeftoversDoNotBlock'
  BY <1>1 DEF LeftoversDoNotBlock
<1> QED
  BY <1>2, <1>3, <1>4, <1>5, <1>6 DEF CohortInvariant

LEMMA KillKeeps == ASSUME CohortInvariant, Kill PROVE CohortInvariant'
  BY Ending DEF Kill, Ended, CohortInvariant, TypeOK

LEMMA FinishKeeps == ASSUME CohortInvariant, Finish PROVE CohortInvariant'
  BY Ending DEF Finish, Ended, CohortInvariant, TypeOK

LEMMA StartRunKeeps == ASSUME CohortInvariant, StartRun PROVE CohortInvariant'
<1>1. PICK mode \in Modes, count \in Counts :
          /\ run' = [mode |-> mode, count |-> count]
          /\ pc' = IF mode = "dynamic" THEN "ask" ELSE "load"
  BY DEF StartRun
<1>2. /\ pc \in Ended /\ answer' = "none"
      /\ accounts' = accounts /\ issued' = issued /\ resets' = resets /\ file' = file
      /\ records' = records /\ cursor' = cursor /\ made' = made /\ second' = second
      /\ cohort' = cohort /\ rejected' = rejected /\ forgiven' = forgiven
  BY DEF StartRun, server
<1>3. records = << >> /\ cohort = << >> /\ rejected = 0 /\ made = None
  BY <1>2 DEF CohortInvariant, InMemory, Ended
<1>4. TypeOK'
  BY <1>1, <1>2 DEF CohortInvariant, TypeOK
<1>5. InMemory'
  BY <1>1, <1>2, <1>3 DEF InMemory, Ended
<1>6. Wanting'
  BY <1>1, <1>2, <1>3, EmptyList, CohortAssumption DEF Wanting, Counts, CohortAssumption
<1>7. FileHeld'
  BY <1>1, <1>2, <1>3 DEF FileHeld
<1>8. NewToAll'
  BY <1>1, <1>2 DEF CohortInvariant, NewToAll, Known
<1>9. NoTokenLost'
  <2>1. Saved' = Saved /\ accounts \subseteq Account
    BY <1>2 DEF Saved, CohortInvariant, TypeOK
  <2>2. InHand \subseteq {None}
    BY <1>3, EmptyList DEF InHand
  <2>3. None \notin Account
    BY DEF None, Account
  <2> QED
    BY <1>2, <2>1, <2>2, <2>3 DEF CohortInvariant, NoTokenLost
<1>10. LeftoversDoNotBlock'
  BY <1>1 DEF LeftoversDoNotBlock
<1> QED
  BY <1>4, <1>5, <1>6, <1>7, <1>8, <1>9, <1>10 DEF CohortInvariant

LEMMA LoseFileKeeps ==
    ASSUME CohortInvariant, NEW state \in {"absent", "unreadable"}, LoseFile(state)
    PROVE  CohortInvariant'
<1>1. /\ pc \in Ended /\ file' = [state |-> state, agents |-> << >>, cursor |-> 0]
      /\ forgiven' = forgiven \cup Saved
      /\ accounts' = accounts /\ issued' = issued /\ resets' = resets /\ pc' = pc /\ run' = run
      /\ records' = records /\ cursor' = cursor /\ answer' = answer /\ made' = made /\ second' = second
      /\ cohort' = cohort /\ rejected' = rejected
  BY DEF LoseFile, Absent, server, asking
<1>2. TypeOK'
  <2>1. Saved \subseteq Account
    BY AgentsOfList DEF Saved, CohortInvariant, TypeOK
  <2> QED
    BY <1>1, <2>1, EmptyList DEF CohortInvariant, TypeOK
<1>3. InMemory' /\ Wanting' /\ LeftoversDoNotBlock'
  BY <1>1 DEF CohortInvariant, InMemory, Wanting, LeftoversDoNotBlock
<1>4. FileHeld'
  BY <1>1 DEF CohortInvariant, InMemory, FileHeld, Ended
<1>5. NewToAll'
  BY <1>1, EmptyList DEF CohortInvariant, NewToAll, Known
<1>6. NoTokenLost'
  BY <1>1 DEF CohortInvariant, NoTokenLost, InHand
<1> QED
  BY <1>2, <1>3, <1>4, <1>5, <1>6 DEF CohortInvariant

LEMMA ResetKeeps == ASSUME CohortInvariant, Reset PROVE CohortInvariant'
<1>1. /\ resets < MaxResets /\ resets' = resets + 1 /\ accounts' = {} /\ forgiven' = {}
      /\ issued' = issued /\ file' = file /\ pc' = pc /\ run' = run
      /\ records' = records /\ cursor' = cursor /\ answer' = answer /\ made' = made /\ second' = second
      /\ cohort' = cohort /\ rejected' = rejected
  BY DEF Reset, asking
<1>2. TypeOK'
  BY <1>1, CohortAssumption DEF CohortInvariant, TypeOK, CohortAssumption
<1>3. InMemory' /\ Wanting' /\ LeftoversDoNotBlock'
  BY <1>1 DEF CohortInvariant, InMemory, Wanting, LeftoversDoNotBlock
<1>4. FileHeld'
  BY <1>1 DEF CohortInvariant, FileHeld, Saved
<1>5. NewToAll'
  BY <1>1 DEF CohortInvariant, NewToAll, Known
<1>6. NoTokenLost'
  BY <1>1 DEF NoTokenLost
<1> QED
  BY <1>2, <1>3, <1>4, <1>5, <1>6 DEF CohortInvariant

-----------------------------------------------------------------------------
(* Signing up *)

LEMMA LoadKeeps == ASSUME CohortInvariant, Load PROVE CohortInvariant'
<1>1. pc = "load" /\ pc \notin Ended /\ cursor' = file.cursor /\ file.cursor \in Nat
  BY DEF Load, Ended, CohortInvariant, TypeOK
<1>2. CASE End("blocked") /\ UNCHANGED <<server, file, run, answer>>
  <2>1. answer # "taken"
    BY <1>1 DEF CohortInvariant, InMemory
  <2> QED
    BY <1>1, <1>2, <2>1, Ending DEF Ended
<1>3. CASE /\ records' = file.agents
           /\ pc' = IF Len(file.agents) < run.count THEN "ask" ELSE "save"
           /\ UNCHANGED <<made, second, cohort, rejected, forgiven>>
           /\ UNCHANGED <<server, file, run, answer>>
  <2>1. /\ accounts' = accounts /\ issued' = issued /\ resets' = resets /\ file' = file /\ run' = run
        /\ answer' = answer /\ made' = made /\ second' = second /\ cohort' = cohort
        /\ rejected' = rejected /\ forgiven' = forgiven
    BY <1>3 DEF server
  <2>2. /\ records = << >> /\ cohort = << >> /\ rejected = 0 /\ made = None /\ run.mode # "dynamic"
        /\ answer = "none"
    BY <1>1 DEF CohortInvariant, InMemory
  <2>3. TypeOK'
    BY <1>1, <1>3, <2>1 DEF CohortInvariant, TypeOK
  <2>4. InMemory'
    BY <1>3, <2>1, <2>2 DEF InMemory, Ended
  <2>5. Wanting'
    <3>1. Len(file.agents) \in Nat /\ run.count \in Nat
      BY AgentsOfList, CohortAssumption DEF CohortInvariant, TypeOK, Counts, CohortAssumption
    <3> QED
      BY <1>3, <2>1, <2>2, <3>1 DEF Wanting
  <2>6. FileHeld'
    BY <1>3, <2>1, <2>2, EmptyList DEF FileHeld, Saved
  <2>7. NewToAll'
    BY <1>3, <2>1, <2>2 DEF CohortInvariant, NewToAll, Known
  <2>8. NoTokenLost'
    <3>1. Saved' = Saved /\ InHand = {}
      BY <2>1, <2>2, EmptyList DEF Saved, InHand
    <3> QED
      BY <2>1, <3>1 DEF CohortInvariant, NoTokenLost
  <2>9. LeftoversDoNotBlock'
    BY <1>3 DEF LeftoversDoNotBlock
  <2> QED
    BY <2>3, <2>4, <2>5, <2>6, <2>7, <2>8, <2>9 DEF CohortInvariant
<1> QED
  BY <1>2, <1>3 DEF Load

(* The answer to a signup, whatever it is, is heard next. *)
LEMMA AskKeeps == ASSUME CohortInvariant, Ask PROVE CohortInvariant'
<1> DEFINE new == [id |-> issued + 1, handle |-> Wish]
<1>1. /\ pc = "ask" /\ pc' = "hear" /\ resets' = resets /\ file' = file /\ run' = run
      /\ records' = records /\ cursor' = cursor /\ second' = second /\ cohort' = cohort
      /\ rejected' = rejected /\ forgiven' = forgiven
  BY DEF Ask
<1>2. /\ answer # "made" /\ made = None
      /\ Len(records) \in 0..MostAgents - 1 /\ issued \in Nat
  <2>1. Len(records) \in Nat /\ run.count \in 1..MostAgents
    BY AgentsOfList, CohortAssumption DEF CohortInvariant, TypeOK, Counts, CohortAssumption
  <2> QED
    BY <1>1, <2>1, CohortAssumption DEF CohortInvariant, TypeOK, InMemory, Wanting, Ended, CohortAssumption
<1>3. /\ Wish \in Handles
      /\ second => Wish = Own
      /\ \A r \in Members(records) : r.handle = Wish => Wish = Own
  BY <1>2 DEF Wish, Handles
<1>4. new \in Account
  BY <1>2, <1>3 DEF Account
<1>5. CASE /\ answer' \in {"taken", "full"} /\ (answer' = "taken" => ~second)
           /\ UNCHANGED <<accounts, issued, made>>
  <2>1. TypeOK'
    BY <1>1, <1>5 DEF CohortInvariant, TypeOK
  <2>2. InMemory'
    BY <1>1, <1>3, <1>5 DEF CohortInvariant, InMemory, Ended
  <2>3. Wanting' /\ FileHeld' /\ LeftoversDoNotBlock'
    BY <1>1, <1>5 DEF CohortInvariant, Wanting, FileHeld, Saved, LeftoversDoNotBlock
  <2>4. NewToAll'
    BY <1>1, <1>5 DEF CohortInvariant, NewToAll, Known
  <2>5. NoTokenLost'
    <3>1. Saved' = Saved /\ InHand' = InHand
      BY <1>1, <1>2, <1>5 DEF Saved, InHand
    <3> QED
      BY <1>1, <1>5, <3>1 DEF CohortInvariant, NoTokenLost
  <2> QED
    BY <2>1, <2>2, <2>3, <2>4, <2>5 DEF CohortInvariant
<1>6. CASE accounts' = accounts \cup {new} /\ issued' = issued + 1 /\ answer' = "made" /\ made' = new
  <2>1. TypeOK'
    BY <1>1, <1>2, <1>4, <1>6 DEF CohortInvariant, TypeOK
  <2>2. InMemory'
    BY <1>1, <1>6 DEF CohortInvariant, InMemory, Ended
  <2>3. Wanting' /\ FileHeld' /\ LeftoversDoNotBlock'
    BY <1>1, <1>6 DEF CohortInvariant, Wanting, FileHeld, Saved, LeftoversDoNotBlock
  <2>4. NewToAll'
    <3>1. \A a \in accounts \cup Known : a.id \in Nat /\ a.id <= issued
      BY AgentsOfList DEF CohortInvariant, TypeOK, NewToAll, Known, Account
    <3>2. Known' = Known
      BY <1>1 DEF Known
    <3>3. new.id = issued + 1 /\ new.handle = Wish
      OBVIOUS
    <3>4. \A a \in accounts \cup Known : a.id < issued + 1 /\ a.id <= issued + 1
      BY <1>2, <3>1
    <3> HIDE DEF new
    <3>5. \A a \in (accounts \cup {new}) \cup Known : a.id <= issued + 1
      BY <1>2, <3>3, <3>4
    <3> QED
      BY <1>1, <1>3, <1>4, <1>6, <3>2, <3>3, <3>4, <3>5 DEF NewToAll
  <2>5. NoTokenLost'
    <3>1. Saved' = Saved /\ InHand' = InHand \cup {new}
      BY <1>1, <1>2, <1>6 DEF Saved, InHand
    <3> QED
      BY <1>1, <1>6, <3>1 DEF CohortInvariant, NoTokenLost
  <2> QED
    BY <2>1, <2>2, <2>3, <2>4, <2>5 DEF CohortInvariant
<1> QED
  BY <1>3, <1>5, <1>6 DEF Ask

LEMMA LoseKeeps == ASSUME CohortInvariant, Lose PROVE CohortInvariant'
<1>1. /\ pc \in {"ask", "hear"} /\ pc' = "hear" /\ answer' = "lost" /\ made' = None
      /\ forgiven' = (IF answer = "made" THEN forgiven \cup {made} ELSE forgiven)
      /\ accounts' = accounts /\ issued' = issued /\ resets' = resets /\ file' = file /\ run' = run
      /\ records' = records /\ cursor' = cursor /\ second' = second /\ cohort' = cohort
      /\ rejected' = rejected
  BY DEF Lose, server
<1>2. TypeOK'
  <2>1. answer = "made" => made \in Account
    BY <1>1 DEF CohortInvariant, InMemory, NewToAll, Ended
  <2> QED
    BY <1>1, <2>1 DEF CohortInvariant, TypeOK
<1>3. InMemory'
  BY <1>1 DEF CohortInvariant, InMemory, Ended
<1>4. Wanting' /\ FileHeld' /\ LeftoversDoNotBlock'
  BY <1>1 DEF CohortInvariant, Wanting, FileHeld, Saved, LeftoversDoNotBlock
<1>5. NewToAll'
  BY <1>1 DEF CohortInvariant, NewToAll, Known
<1>6. NoTokenLost'
  <2>1. Saved' = Saved /\ InHand \subseteq InHand' \cup (IF answer = "made" THEN {made} ELSE {})
    BY <1>1 DEF Saved, InHand
  <2> QED
    BY <1>1, <2>1 DEF CohortInvariant, NoTokenLost
<1> QED
  BY <1>2, <1>3, <1>4, <1>5, <1>6 DEF CohortInvariant

LEMMA HearKeeps == ASSUME CohortInvariant, Hear PROVE CohortInvariant'
<1>1. pc = "hear" /\ pc \notin Ended /\ answer # "made"
  BY DEF Hear, Ended
<1>2. CASE answer = "taken" /\ ~second
  <2>1. /\ second' = TRUE /\ pc' = "ask"
        /\ accounts' = accounts /\ issued' = issued /\ resets' = resets /\ file' = file /\ run' = run
        /\ records' = records /\ cursor' = cursor /\ answer' = answer /\ made' = made
        /\ cohort' = cohort /\ rejected' = rejected /\ forgiven' = forgiven
    BY <1>2 DEF Hear, server
  <2>2. TypeOK'
    BY <2>1 DEF CohortInvariant, TypeOK
  <2>3. made = None
    BY <1>1 DEF CohortInvariant, InMemory
  <2>4. InMemory'
    BY <1>1, <1>2, <2>1, <2>3 DEF CohortInvariant, InMemory, Ended
  <2>5. Wanting' /\ FileHeld' /\ LeftoversDoNotBlock'
    BY <1>1, <2>1 DEF CohortInvariant, Wanting, FileHeld, Saved, LeftoversDoNotBlock
  <2>6. NewToAll'
    BY <2>1 DEF CohortInvariant, NewToAll, Known
  <2>7. NoTokenLost'
    BY <2>1 DEF CohortInvariant, NoTokenLost, InHand, Saved
  <2> QED
    BY <2>2, <2>4, <2>5, <2>6, <2>7 DEF CohortInvariant
<1>3. CASE Fail
  <2>1. ~(answer = "taken" /\ ~second) => answer # "taken"
    BY <1>1 DEF CohortInvariant, InMemory
  <2>2. CASE answer = "taken" /\ ~second
    BY <1>2, <2>2
  <2>3. CASE answer # "taken"
    <3>1. cursor \in Nat
      BY DEF CohortInvariant, TypeOK
    <3>2. CASE rejected = 0
      BY <1>1, <1>3, <2>3, <3>1, <3>2, Ending DEF Fail, Ended
    <3>3. CASE rejected # 0
      BY <1>1, <1>3, <2>3, <3>1, <3>3, Ending DEF Fail, Ended
    <3> QED
      BY <3>2, <3>3
  <2> QED
    BY <2>1, <2>2, <2>3
<1> QED
  BY <1>2, <1>3 DEF Hear

(* An account that was just made is not in any list. *)
LEMMA MadeIsNew ==
    ASSUME CohortInvariant, pc = "hear", answer = "made"
    PROVE  /\ made \in Account
           /\ \A r \in Members(records) : r.id # made.id /\ (r.handle = made.handle => made.handle = Own)
           /\ \A r \in Known : r.id # made.id
<1>1. Known \subseteq Account /\ issued \in Nat /\ Members(records) \subseteq Known
  BY AgentsOfList DEF CohortInvariant, TypeOK, Known
<1>2. /\ made \in Account /\ made.id = issued
      /\ \A r \in Known : r.id < issued
      /\ \A r \in Members(records) : r.handle = made.handle => made.handle = Own
  BY DEF CohortInvariant, NewToAll
<1>3. \A r \in Known : r.id \in Nat
  BY <1>1 DEF Account
<1> QED
  BY <1>1, <1>2, <1>3

LEMMA SignedUpKeeps == ASSUME CohortInvariant, SignedUp PROVE CohortInvariant'
<1>1. /\ pc = "hear" /\ answer = "made" /\ rejected = 0
      /\ records' = Append(records, made) /\ answer' = "none" /\ made' = None /\ second' = FALSE
      /\ pc' = IF Len(records) + 1 < run.count THEN "ask" ELSE "save"
      /\ accounts' = accounts /\ issued' = issued /\ resets' = resets /\ file' = file /\ run' = run
      /\ cursor' = cursor /\ cohort' = cohort /\ rejected' = rejected /\ forgiven' = forgiven
  BY DEF SignedUp, Keep, server
<1>2. Len(records) \in Nat /\ run.count \in 1..MostAgents /\ Len(records) < run.count
  BY <1>1, AgentsOfList DEF CohortInvariant, TypeOK, Wanting, Counts
<1>3. /\ AreAgents(records') /\ OneEach(records') /\ Members(records') = Members(records) \cup {made}
      /\ Len(records') = Len(records) + 1
  <2>1. Len(records) < MostAgents
    BY <1>2, CohortAssumption DEF CohortAssumption
  <2> QED
    BY <1>1, <2>1, MadeIsNew, Adding DEF CohortInvariant, TypeOK
<1>4. TypeOK'
  BY <1>1, <1>3 DEF CohortInvariant, TypeOK
<1>5. InMemory'
  BY <1>1 DEF CohortInvariant, InMemory, Ended
<1>6. Wanting'
  BY <1>1, <1>2, <1>3 DEF Wanting
<1>7. FileHeld'
  BY <1>1, <1>3 DEF CohortInvariant, FileHeld, Saved
<1>8. NewToAll'
  <2>1. Known' = Known \cup {made}
    BY <1>1, <1>3 DEF Known
  <2>2. made.id = issued /\ issued \in Nat
    BY <1>1 DEF CohortInvariant, TypeOK, NewToAll
  <2> QED
    BY <1>1, <2>1, <2>2 DEF CohortInvariant, NewToAll
<1>9. NoTokenLost'
  <2>1. Saved' = Saved /\ InHand' = InHand
    BY <1>1, <1>3 DEF Saved, InHand
  <2> QED
    BY <1>1, <2>1 DEF CohortInvariant, NoTokenLost
<1>10. LeftoversDoNotBlock'
  BY <1>1 DEF LeftoversDoNotBlock
<1> QED
  BY <1>4, <1>5, <1>6, <1>7, <1>8, <1>9, <1>10 DEF CohortInvariant

-----------------------------------------------------------------------------
(* The file *)

LEMMA SaveCohortKeeps == ASSUME CohortInvariant, SaveCohort PROVE CohortInvariant'
<1> DEFINE next == (cursor + run.count) % Len(records)
<1>1. /\ pc = "save" /\ pc' = "acting" /\ cohort' = Selected /\ records' = << >>
      /\ file' = (IF run.mode = "dynamic" THEN file ELSE Good(records, next))
      /\ accounts' = accounts /\ issued' = issued /\ resets' = resets /\ run' = run /\ cursor' = cursor
      /\ answer' = answer /\ made' = made /\ second' = second
      /\ rejected' = rejected /\ forgiven' = forgiven
  BY DEF SaveCohort, server, asking
<1>2. /\ rejected = 0 /\ cohort = << >> /\ made = None /\ answer # "made"
      /\ run.count <= Len(records) /\ (run.mode = "dynamic" => Len(records) = run.count)
  BY <1>1 DEF CohortInvariant, InMemory, Wanting, Ended
<1>3. next \in Nat
  <2>1. Len(records) \in Nat /\ run.count \in Nat \ {0} /\ cursor \in Nat
    BY AgentsOfList, CohortAssumption DEF CohortInvariant, TypeOK, Counts, CohortAssumption
  <2> QED
    BY <1>2, <2>1
<1> HIDE DEF next
<1>4. /\ AreAgents(Selected) /\ OneEach(Selected) /\ Members(Selected) \subseteq Members(records)
      /\ run.mode = "dynamic" => Members(Selected) = Members(records)
  BY <1>2, Selecting DEF CohortInvariant, TypeOK
<1>5. /\ run.mode = "dynamic" => file' = file
      /\ run.mode # "dynamic" => file'.state = "good" /\ file'.agents = records /\ file'.cursor = next
  BY <1>1 DEF Good
<1>6. TypeOK'
  <2>1. /\ file'.state \in {"absent", "unreadable", "good"} /\ file'.cursor \in Nat
        /\ AreAgents(file'.agents) /\ OneEach(file'.agents)
    BY <1>3, <1>5 DEF CohortInvariant, TypeOK
  <2> QED
    BY <1>1, <1>4, <2>1, EmptyList DEF CohortInvariant, TypeOK
<1>7. InMemory'
  BY <1>1, <1>2 DEF InMemory, Ended
<1>8. Wanting'
  BY <1>1 DEF Wanting
<1>9. Saved' = (IF run.mode = "dynamic" THEN Saved ELSE Members(records))
  BY <1>5 DEF Saved
<1>10. FileHeld'
  BY <1>1, <1>2, <1>4, <1>9 DEF FileHeld
<1>11. NewToAll'
  <2>1. Known' \subseteq Known
    BY <1>1, <1>4, <1>5, EmptyList DEF Known
  <2> QED
    BY <1>1, <2>1 DEF CohortInvariant, NewToAll
<1>12. NoTokenLost'
  <2>1. run.mode # "dynamic" => Saved \subseteq Members(records)
    BY <1>1, <1>2 DEF CohortInvariant, FileHeld
  <2>2. InHand \subseteq Saved' \cup InHand'
    BY <1>1, <1>2, <1>4, <1>9, EmptyList DEF InHand
  <2> QED
    BY <1>1, <1>9, <2>1, <2>2 DEF CohortInvariant, NoTokenLost
<1>13. LeftoversDoNotBlock'
  BY <1>1 DEF LeftoversDoNotBlock
<1> QED
  BY <1>6, <1>7, <1>8, <1>10, <1>11, <1>12, <1>13 DEF CohortInvariant

(* An agent of the cohort is the one that is removed: no other has its handle. *)
LEMMA RejectKeeps == ASSUME CohortInvariant, Reject PROVE CohortInvariant'
<1>1. PICK i \in DOMAIN cohort :
          cohort[i] \notin accounts /\ rejected' = i /\ records' = Without(file.agents, cohort[i])
  BY DEF Reject
<1> DEFINE a == cohort[i]
<1>2. /\ pc = "acting" /\ pc' = "ask" /\ run.mode = "reuse_or_create"
      /\ file' = [state |-> "good", agents |-> records', cursor |-> 0]
      /\ accounts' = accounts /\ issued' = issued /\ resets' = resets /\ run' = run /\ cursor' = cursor
      /\ answer' = answer /\ made' = made /\ second' = second
      /\ cohort' = cohort /\ forgiven' = forgiven
  BY DEF Reject, Good, server, asking
<1>3. records = << >> /\ rejected = 0 /\ made = None /\ answer # "made"
  BY <1>2 DEF CohortInvariant, InMemory, Ended
<1>4. i \in 1..Len(cohort) /\ Len(cohort) \in 0..MostAgents /\ DOMAIN cohort = 1..Len(cohort)
  BY AgentsOfList DEF CohortInvariant, TypeOK
<1>5. Members(cohort) \subseteq Saved /\ \A j \in DOMAIN cohort : cohort[j] \in Members(cohort)
  BY <1>2 DEF CohortInvariant, FileHeld, Members
<1>6. file.state = "good" /\ Saved = Members(file.agents) /\ a \in Members(file.agents)
  BY <1>5 DEF Saved
<1>7. /\ AreAgents(records') /\ OneEach(records') /\ Members(records') = Members(file.agents) \ {a}
      /\ Len(records') < MostAgents
  BY <1>1, <1>6, Removing DEF CohortInvariant, TypeOK
<1>8. \A j \in DOMAIN cohort : j # i => cohort[j] \in Members(records')
  <2> SUFFICES ASSUME NEW j \in DOMAIN cohort, j # i PROVE cohort[j] \in Members(records')
    OBVIOUS
  <2>1. OneEach(cohort) /\ i \in DOMAIN cohort /\ j \in DOMAIN cohort /\ i # j
    BY DEF CohortInvariant, TypeOK
  <2>2. cohort[i].id # cohort[j].id
    BY <2>1 DEF OneEach
  <2>3. cohort[j] # a
    BY <2>2
  <2> QED
    BY <1>5, <1>6, <1>7, <2>3
<1> HIDE DEF a
<1>9. file'.state = "good" /\ file'.agents = records' /\ file'.cursor = 0
  BY <1>2
<1>10. TypeOK'
  <2>1. rejected' \in 0..MostAgents
    BY <1>1, <1>4, CohortAssumption DEF CohortAssumption
  <2> QED
    BY <1>2, <1>7, <1>9, <2>1 DEF CohortInvariant, TypeOK
<1>11. InMemory'
  BY <1>2, <1>3, <1>1, <1>4 DEF InMemory, Ended
<1>12. rejected' # 0
  BY <1>1, <1>4
<1>13. Wanting'
  BY <1>2, <1>7, <1>12 DEF Wanting
<1>14. FileHeld'
  BY <1>1, <1>2, <1>8, <1>9, <1>12 DEF FileHeld
<1>15. NewToAll'
  <2>1. Known' \subseteq Known
    BY <1>2, <1>7, <1>9 DEF Known
  <2> QED
    BY <1>2, <2>1 DEF CohortInvariant, NewToAll
<1>16. NoTokenLost'
  <2>1. Saved' = Saved \ {a} /\ a \notin accounts
    BY <1>1, <1>6, <1>7, <1>9 DEF Saved, a
  <2>2. InHand \subseteq InHand'
    BY <1>2, <1>3, EmptyList DEF InHand
  <2> QED
    BY <1>2, <2>1, <2>2 DEF CohortInvariant, NoTokenLost
<1>17. LeftoversDoNotBlock'
  BY <1>2 DEF LeftoversDoNotBlock
<1> QED
  BY <1>10, <1>11, <1>13, <1>14, <1>15, <1>16, <1>17 DEF CohortInvariant

LEMMA ReplacedKeeps == ASSUME CohortInvariant, Replaced PROVE CohortInvariant'
<1> DEFINE all == Append(records, made)
           others == [cohort EXCEPT ![rejected] = made]
<1>1. /\ pc = "hear" /\ answer = "made" /\ rejected # 0
      /\ file' = [state |-> "good", agents |-> all, cursor |-> 0]
      /\ cohort' = others /\ records' = << >>
      /\ answer' = "none" /\ made' = None /\ second' = FALSE /\ rejected' = 0 /\ pc' = "acting"
      /\ accounts' = accounts /\ issued' = issued /\ resets' = resets /\ run' = run /\ cursor' = cursor
      /\ forgiven' = forgiven
  BY DEF Replaced, Good, server
<1>2. /\ run.mode # "dynamic" /\ rejected \in DOMAIN cohort
      /\ file.state = "good" /\ file.agents = records
      /\ \A i \in DOMAIN cohort : i # rejected => cohort[i] \in Members(records)
      /\ Len(records) < MostAgents
  BY <1>1 DEF CohortInvariant, FileHeld, Wanting
<1>3. /\ AreAgents(all) /\ OneEach(all) /\ Members(all) = Members(records) \cup {made}
  BY <1>1, <1>2, MadeIsNew, Adding DEF CohortInvariant, TypeOK
<1>4. /\ AreAgents(others) /\ OneEach(others)
      /\ \A x \in Members(others) : x = made \/ \E i \in DOMAIN cohort : i # rejected /\ x = cohort[i]
  <2>1. made \in Account
    BY <1>1, MadeIsNew
  <2>2. \A i \in DOMAIN cohort : i # rejected =>
            cohort[i].id # made.id /\ (cohort[i].handle = made.handle => made.handle = Own)
    BY <1>1, <1>2, MadeIsNew
  <2>3. AreAgents(cohort) /\ OneEach(cohort)
    BY DEF CohortInvariant, TypeOK
  <2> QED
    BY <1>2, <2>1, <2>2, <2>3, Exchanging
<1> HIDE DEF all, others
<1>5. Members(others) \subseteq Members(all)
  BY <1>2, <1>3, <1>4
<1>6. file'.state = "good" /\ file'.agents = all /\ file'.cursor = 0
  BY <1>1
<1>7. TypeOK'
  <2>1. 0 \in 0..MostAgents
    BY CohortAssumption DEF CohortAssumption
  <2> QED
    BY <1>1, <1>3, <1>4, <1>6, <2>1, EmptyList DEF CohortInvariant, TypeOK
<1>8. InMemory' /\ Wanting' /\ LeftoversDoNotBlock'
  BY <1>1 DEF InMemory, Wanting, LeftoversDoNotBlock, Ended
<1>9. Saved' = Members(all) /\ Saved = Members(records)
  BY <1>2, <1>6 DEF Saved
<1>10. FileHeld'
  BY <1>1, <1>5, <1>9 DEF FileHeld
<1>11. NewToAll'
  <2>1. Known' \subseteq Known \cup {made}
    BY <1>1, <1>3, <1>5, <1>6, EmptyList DEF Known
  <2>2. made.id = issued /\ issued \in Nat
    BY <1>1 DEF CohortInvariant, TypeOK, NewToAll
  <2> QED
    BY <1>1, <2>1, <2>2 DEF CohortInvariant, NewToAll
<1>12. NoTokenLost'
  <2>1. InHand = Members(records) \cup {made}
    BY <1>1, <1>2 DEF InHand
  <2> QED
    BY <1>1, <1>3, <1>9, <2>1 DEF CohortInvariant, NoTokenLost
<1> QED
  BY <1>7, <1>8, <1>10, <1>11, <1>12 DEF CohortInvariant

-----------------------------------------------------------------------------
LEMMA StepsKeep == CohortInvariant /\ [Next]_vars => CohortInvariant'
<1> SUFFICES ASSUME CohortInvariant, [Next]_vars PROVE CohortInvariant'
  OBVIOUS
<1>1. CASE UNCHANGED vars
  BY <1>1 DEF vars, server, asking, CohortInvariant, TypeOK, InMemory, Wanting, FileHeld, NewToAll,
     Known, NoTokenLost, LeftoversDoNotBlock, Saved, InHand
<1>2. CASE Next
  BY <1>2, StartRunKeeps, KillKeeps, LoseFileKeeps, ResetKeeps, LoadKeeps, AskKeeps, LoseKeeps, HearKeeps,
     SignedUpKeeps, SaveCohortKeeps, RejectKeeps, ReplacedKeeps, FinishKeeps DEF Next, ClearState, Spoil
<1> QED
  BY <1>1, <1>2

(* The list of agents that a run has, the file and the answer under way agree. *)
THEOREM CohortInvariantHolds == Spec => []CohortInvariant
  BY InitInvariant, StepsKeep, PTL DEF Spec

(* Neither the file nor a run holds two agents of one handle, and no list is    *)
(* longer than the largest cohort (agent_registry.py:174, state_store.py:93).   *)
THEOREM TypeCorrect == Spec => []TypeOK
<1>1. CohortInvariant => TypeOK
  BY DEF CohortInvariant
<1> QED
  BY <1>1, CohortInvariantHolds, PTL

(* A token the backend accepts is saved, in hand, or went with a file, a run or  *)
(* an answer that was lost (agent_registry.py:188 and 204).                    *)
THEOREM TokensAreKept == Spec => []NoTokenLost
<1>1. CohortInvariant => NoTokenLost
  BY DEF CohortInvariant
<1> QED
  BY <1>1, CohortInvariantHolds, PTL

(* No run stops because a handle is taken (agent_registry.py:136).             *)
THEOREM LeftoversNeverBlock == Spec => []LeftoversDoNotBlock
<1>1. CohortInvariant => LeftoversDoNotBlock
  BY DEF CohortInvariant
<1> QED
  BY <1>1, CohortInvariantHolds, PTL

=============================================================================
