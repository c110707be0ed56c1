--------------------------- MODULE RoutingProofs ---------------------------
(***************************************************************************)
(* How a message finds its contract and its Agent, for every store of      *)
(* contracts in any order, any scores and any number of Agents and users.  *)
(***************************************************************************)
EXTENDS Routing, FiniteSetTheorems, SequenceTheorems, WellFoundedInduction, TLAPS

-----------------------------------------------------------------------------
(* Least and greatest elements.                                             *)

LEMMA LeastOf ==
  ASSUME NEW S \in SUBSET Nat, S # {}
  PROVE  \E m \in S : \A n \in S : m <= n
<1>1. PICK m \in S : \A n \in S : <<n, m>> \notin OpToRel(<, Nat)
  BY NatLessThanWellFounded, WFMin
<1>2. \A n \in S : ~ (n < m)
  BY <1>1 DEF OpToRel
<1> QED
  BY <1>2

\* A smallest finite set of numbers without a greatest one would have a smaller one.
LEMMA GreatestOf ==
  ASSUME NEW S \in SUBSET Nat, S # {}, IsFiniteSet(S)
  PROVE  \E m \in S : \A n \in S : m >= n
<1> DEFINE Lacks(T) == \A m \in T : \E n \in T : ~ (m >= n)
           Bad == {k \in Nat : \E T \in SUBSET Nat : /\ T # {} /\ IsFiniteSet(T)
                                                     /\ Cardinality(T) = k /\ Lacks(T)}
<1>1. Bad = {}
  <2> SUFFICES ASSUME Bad # {} PROVE FALSE
    OBVIOUS
  <2>1. PICK k \in Bad : \A j \in Bad : k <= j
    <3>1. Bad \subseteq Nat
      OBVIOUS
    <3> HIDE DEF Bad
    <3> QED
      BY <3>1, LeastOf
  <2>2. PICK T \in SUBSET Nat : T # {} /\ IsFiniteSet(T) /\ Cardinality(T) = k /\ Lacks(T)
    OBVIOUS
  <2>3. PICK x \in T : TRUE
    BY <2>2
  <2> DEFINE U == T \ {x}
  <2>4. IsFiniteSet(U) /\ Cardinality(U) = k - 1 /\ Cardinality(U) \in Nat
    BY <2>2, <2>3, FS_RemoveElement, FS_CardinalityType
  <2>5. U # {}
    <3> SUFFICES ASSUME U = {} PROVE FALSE
      OBVIOUS
    <3>1. \A n \in T : n = x
      OBVIOUS
    <3> QED
      BY <2>2, <2>3, <3>1
  <2>6. k - 1 \notin Bad
    <3>1. k \in Nat /\ ~ (k <= k - 1)
      OBVIOUS
    <3> HIDE DEF Bad
    <3> QED
      BY <2>1, <3>1
  <2>7. ~Lacks(U)
    BY <2>4, <2>5, <2>6
  <2>8. PICK m \in U : \A n \in U : m >= n
    BY <2>7
  <2> QED
    <3>1. m \in Nat /\ x \in Nat
      BY <2>3
    <3>2. CASE m >= x
      <4>1. \A n \in T : m >= n
        BY <2>8, <3>2
      <4> QED
        BY <2>2, <2>8, <4>1
    <3>3. CASE ~ (m >= x)
      <4>1. \A n \in T : x >= n
        BY <2>8, <3>1, <3>3
      <4> QED
        BY <2>2, <2>3, <4>1
    <3> QED
      BY <3>2, <3>3
<1>2. Cardinality(S) \in Nat
  BY FS_CardinalityType
<1>3. ~Lacks(S)
  BY <1>1, <1>2
<1> QED
  BY <1>3

LEMMA MinOf == ASSUME NEW S \in SUBSET Nat, S # {} PROVE Min(S) \in S
<1>1. \E m \in S : \A n \in S : m <= n
  BY LeastOf
<1> QED
  BY <1>1 DEF Min

LEMMA MaxOf == ASSUME NEW S \in SUBSET Nat, S # {}, IsFiniteSet(S) PROVE Max(S) \in S
<1>1. \E m \in S : \A n \in S : m >= n
  BY GreatestOf
<1> QED
  BY <1>1 DEF Max

-----------------------------------------------------------------------------
(* The rules.                                                               *)

\* A score is a number, and nothing scores lower than a contract.
LEMMA ConfidenceType ==
  ASSUME NEW c \in Contracts, NEW p \in Prompts
  PROVE  Confidence(c, p) \in Nat /\ Score(c, p) = Confidence(c, p)
<1> DEFINE scores == {p[e] : e \in Exemplars[c]} \cup {0}
<1>1. scores \in SUBSET Nat /\ scores # {}
  BY PromptAssumption
<1>2. IsFiniteSet(scores)
  <2>1. IsFiniteSet(Exemplars[c])
    BY PromptAssumption
  <2>2. IsFiniteSet({p[e] : e \in Exemplars[c]})
    <3> DEFINE values == {p[e] : e \in Exemplars[c]}
               score == [e \in Exemplars[c] |-> p[e]]
    <3>1. score \in Surjection(Exemplars[c], values)
      BY DEF Surjection
    <3> HIDE DEF values, score
    <3>2. IsFiniteSet(values)
      BY <2>1, <3>1, FS_Surjection
    <3> QED
      BY <3>2 DEF values
  <2> QED
    BY <2>2, FS_AddElement
<1>3. Max(scores) \in Nat
  <2> HIDE DEF scores
  <2> QED
    BY <1>1, <1>2, MaxOf
<1> QED
  BY <1>3, NoContractAssumption DEF Confidence, Score

\* ownContract finds a contract of the Agent just when it has one.
LEMMA OwnContractIs ==
  ASSUME NEW known \in SUBSET Contracts, NEW a
  PROVE  /\ OwnContract(known, a) = NoContract <=> \A c \in known : OwnerOf[c] # a
         /\ OwnContract(known, a) # NoContract
              => OwnContract(known, a) \in known /\ OwnerOf[OwnContract(known, a)] = a
<1> DEFINE own == {i \in DOMAIN Stored : Stored[i] \in known /\ OwnerOf[Stored[i]] = a}
<1>1. OwnContract(known, a) = IF own = {} THEN NoContract ELSE Stored[Min(own)]
  BY DEF OwnContract
<1>2. DOMAIN Stored = 1 .. Len(Stored) /\ Len(Stored) \in Nat
  BY StoredAssumption, LenProperties
<1>3. own # {} => Min(own) \in own
  <2>1. own \in SUBSET Nat
    BY <1>2
  <2> HIDE DEF own
  <2> QED
    BY <2>1, MinOf
<1>4. \A c \in known : \E i \in DOMAIN Stored : Stored[i] = c
  BY StoredAssumption DEF Range
<1>5. own = {} <=> \A c \in known : OwnerOf[c] # a
  BY <1>4
<1>6. NoContract \notin known
  BY NoContractAssumption
<1> QED
  BY <1>1, <1>3, <1>5, <1>6

Message == [user : Users, conversation : Agents, by : Agents]

\* lastResponder finds an Agent or nobody.
LEMMA LastResponderType ==
  ASSUME messages \in Seq(Message), NEW a, NEW u
  PROVE  LastResponder(a, u) \in Agents \cup {NoAgent}
<1> DEFINE others == {i \in DOMAIN messages : /\ messages[i].conversation = a
                                              /\ messages[i].user = u /\ messages[i].by # a}
<1>1. LastResponder(a, u) = IF others = {} THEN NoAgent ELSE messages[Max(others)].by
  BY DEF LastResponder
<1>2. DOMAIN messages = 1 .. Len(messages) /\ Len(messages) \in Nat
  BY LenProperties
<1>3. others \in SUBSET Nat /\ others \in SUBSET (1 .. Len(messages))
  BY <1>2
<1>4. IsFiniteSet(others)
  <2>1. IsFiniteSet(1 .. Len(messages))
    BY <1>2, FS_Interval
  <2> QED
    BY <1>3, <2>1, FS_Subset
<1>5. others # {} => Max(others) \in others
  <2> HIDE DEF others
  <2> QED
    BY <1>3, <1>4, MaxOf
<1>6. \A i \in DOMAIN messages : messages[i].by \in Agents
  <2>1. \A i \in DOMAIN messages : messages[i] \in Message
    BY <1>2, ElementOfSeq
  <2> QED
    BY <2>1 DEF Message
<1> QED
  BY <1>1, <1>5, <1>6

-----------------------------------------------------------------------------
(* route's pass over the contracts.                                         *)

\* What the loop of Ranked has seen after i contracts: the recognised ones among them.
Passed(known, p, i) == {c \in known : Matched(c, p) /\ \E j \in 1 .. i : Stored[j] = c}

\* The best of what has been seen, and the best of the rest.
Leads(seen, among, p) ==
  /\ seen.best \in among \cup {NoContract}
  /\ seen.best = NoContract <=> among = {}
  /\ \A d \in among : Confidence(d, p) <= Score(seen.best, p)
  /\ seen.runnerUp \in (among \ {seen.best}) \cup {NoContract}
  /\ seen.runnerUp = NoContract <=> among \ {seen.best} = {}
  /\ \A d \in among \ {seen.best} : Confidence(d, p) <= Score(seen.runnerUp, p)

\* One contract more.
LEMMA AfterContractLeads ==
  ASSUME NEW known \in SUBSET Contracts, NEW p \in Prompts, NEW c \in known,
         NEW among \in SUBSET known, c \notin among,
         NEW seen \in [best : Contracts \cup {NoContract}, runnerUp : Contracts \cup {NoContract}],
         Leads(seen, among, p)
  PROVE  /\ AfterContract(p, seen, c)
              \in [best : Contracts \cup {NoContract}, runnerUp : Contracts \cup {NoContract}]
         /\ Leads(AfterContract(p, seen, c), IF Matched(c, p) THEN among \cup {c} ELSE among, p)
<1>1. /\ \A d \in Contracts : Confidence(d, p) \in Nat /\ Score(d, p) = Confidence(d, p)
      /\ Score(NoContract, p) = -1 /\ NoContract \notin Contracts
  BY ConfidenceType, NoContractAssumption DEF Score
<1>2. CASE ~Matched(c, p)
  BY <1>2 DEF AfterContract
<1>3. CASE Matched(c, p) /\ Score(c, p) > Score(seen.best, p)
  <2> DEFINE next == [best |-> c, runnerUp |-> seen.best]
  <2>1. AfterContract(p, seen, c) = next
    BY <1>3 DEF AfterContract
  <2>2. \A d \in among : Confidence(d, p) <= Score(c, p)
    BY <1>1, <1>3 DEF Leads
  <2>3. Leads(next, among \cup {c}, p)
    BY <1>1, <1>3, <2>2 DEF Leads
  <2> QED
    BY <1>3, <2>1, <2>3
<1>4. CASE /\ Matched(c, p) /\ ~(Score(c, p) > Score(seen.best, p))
           /\ Score(c, p) > Score(seen.runnerUp, p)
  <2> DEFINE next == [best |-> seen.best, runnerUp |-> c]
  <2>1. AfterContract(p, seen, c) = next
    BY <1>4 DEF AfterContract
  <2>2. seen.best # NoContract /\ seen.best # c
    BY <1>1, <1>4 DEF Leads
  <2>3. Leads(next, among \cup {c}, p)
    BY <1>1, <1>4, <2>2 DEF Leads
  <2> QED
    BY <1>4, <2>1, <2>3
<1>5. CASE /\ Matched(c, p) /\ ~(Score(c, p) > Score(seen.best, p))
           /\ ~(Score(c, p) > Score(seen.runnerUp, p))
  <2>1. AfterContract(p, seen, c) = seen
    BY <1>5 DEF AfterContract
  <2>2. /\ seen.best # NoContract /\ seen.best # c
        /\ seen.runnerUp # NoContract /\ seen.runnerUp # c
    BY <1>1, <1>5 DEF Leads
  <2>3. Leads(seen, among \cup {c}, p)
    BY <1>1, <1>5, <2>2 DEF Leads
  <2> QED
    BY <1>5, <2>1, <2>3
<1> QED
  BY <1>2, <1>3, <1>4, <1>5

\* The loop as a function of how far it has come; no number of contracts is the first that
\* it cannot pass.
After(known, p, seen, i) ==
  IF Stored[i] \in known THEN AfterContract(p, seen, Stored[i]) ELSE seen

LEMMA LoopExists ==
  ASSUME NEW known, NEW p
  PROVE  \E f : f = [i \in 0 .. Len(Stored) |->
                       IF i = 0 THEN Nobody ELSE After(known, p, f[i - 1], i)]
<1> DEFINE n == Len(Stored)
           Goes(k, f) == \A i \in 0 .. k : f[i] = IF i = 0 THEN Nobody ELSE After(known, p, f[i - 1], i)
           Bad == {k \in 0 .. n : ~\E f : Goes(k, f)}
<1>0. n \in Nat
  BY StoredAssumption, LenProperties
<1> HIDE DEF n
<1>1. Bad = {}
  <2> SUFFICES ASSUME Bad # {} PROVE FALSE
    OBVIOUS
  <2>1. PICK k \in Bad : \A j \in Bad : k <= j
    <3>1. Bad \subseteq Nat
      OBVIOUS
    <3> HIDE DEF Bad
    <3> QED
      BY <3>1, LeastOf
  <2>2. CASE k = 0
    <3>1. Goes(0, [i \in {0} |-> Nobody])
      OBVIOUS
    <3> QED
      BY <2>2, <3>1
  <2>3. CASE k # 0
    <3>1. k \in 0 .. n
      OBVIOUS
    <3>2. k - 1 \in 0 .. n /\ k - 1 \notin Bad /\ k \in 1 .. n
      <4> HIDE DEF Bad
      <4> QED
        BY <1>0, <2>1, <2>3, <3>1
    <3>3. PICK f : Goes(k - 1, f)
      BY <3>2
    <3> DEFINE g == [i \in 0 .. k |-> IF i = k THEN After(known, p, f[k - 1], k) ELSE f[i]]
    <3>4. Goes(k, g)
      <4> SUFFICES ASSUME NEW i \in 0 .. k
                   PROVE  g[i] = IF i = 0 THEN Nobody ELSE After(known, p, g[i - 1], i)
        OBVIOUS
      <4>1. CASE i = k
        <5>1. g[k - 1] = f[k - 1]
          BY <1>0, <3>2
        <5> QED
          BY <2>3, <3>2, <4>1, <5>1
      <4>2. CASE i # k
        <5>1. i \in 0 .. k - 1
          BY <1>0, <3>2, <4>2
        <5>2. i # 0 => g[i - 1] = f[i - 1]
          BY <1>0, <3>2, <4>2
        <5> QED
          BY <3>3, <4>2, <5>1, <5>2
      <4> QED
        BY <4>1, <4>2
    <3> QED
      BY <3>4
  <2> QED
    BY <2>2, <2>3
<1>2. \E f : Goes(n, f)
  <2>1. n \in 0 .. n
    BY <1>0
  <2> HIDE DEF Goes
  <2> QED
    BY <1>1, <2>1
<1>3. PICK f : Goes(n, f)
  BY <1>2
<1> DEFINE seen == [i \in 0 .. n |-> f[i]]
<1>4. seen = [i \in 0 .. n |-> IF i = 0 THEN Nobody ELSE After(known, p, seen[i - 1], i)]
  <2> SUFFICES ASSUME NEW i \in 0 .. n
               PROVE  seen[i] = IF i = 0 THEN Nobody ELSE After(known, p, seen[i - 1], i)
    OBVIOUS
  <2>1. i # 0 => seen[i - 1] = f[i - 1]
    BY <1>0
  <2> QED
    BY <1>3, <2>1
<1> QED
  BY <1>4 DEF n

\* Whatever the order of the store, route ends with the best of the recognised contracts
\* and the best of the others.
LEMMA RankedLeads ==
  ASSUME NEW known \in SUBSET Contracts, NEW p \in Prompts
  PROVE  Leads(Ranked(known, p), {c \in known : Matched(c, p)}, p)
<1> DEFINE n == Len(Stored)
           Goes(f) == f = [i \in 0 .. n |-> IF i = 0 THEN Nobody
                                            ELSE IF Stored[i] \in known
                                                 THEN AfterContract(p, f[i - 1], Stored[i])
                                            ELSE f[i - 1]]
           seen == CHOOSE f : Goes(f)
           Seen == [best : Contracts \cup {NoContract}, runnerUp : Contracts \cup {NoContract}]
           Fine(i) == seen[i] \in Seen /\ Leads(seen[i], Passed(known, p, i), p)
           Bad == {i \in 0 .. n : ~Fine(i)}
<1>1. Ranked(known, p) = seen[n]
  BY DEF Ranked
<1>2. n \in Nat /\ DOMAIN Stored = 1 .. n /\ \A i \in 1 .. n : Stored[i] \in Contracts
  BY StoredAssumption, LenProperties, ElementOfSeq
<1>3. \A i, j \in 1 .. n : Stored[i] = Stored[j] => i = j
  BY <1>2, StoredAssumption DEF IsInjective
<1>4. \A c \in known : \E i \in 1 .. n : Stored[i] = c
  BY <1>2, StoredAssumption DEF Range
<1>5. \E f : Goes(f)
  <2>1. PICK f : f = [i \in 0 .. n |-> IF i = 0 THEN Nobody ELSE After(known, p, f[i - 1], i)]
    BY LoopExists
  <2>2. Goes(f)
    BY ONLY <2>1 DEF After
  <2> QED
    BY <2>2
<1> HIDE DEF n
<1>6. Goes(seen)
  <2> HIDE DEF Goes
  <2> QED
    BY <1>5
<1> HIDE DEF seen
<1>7. /\ seen[0] = Nobody
      /\ \A i \in 1 .. n :
           seen[i] = IF Stored[i] \in known THEN AfterContract(p, seen[i - 1], Stored[i])
                     ELSE seen[i - 1]
  BY <1>2, <1>6
<1>8. Fine(0)
  <2>1. Passed(known, p, 0) = {}
    BY DEF Passed
  <2> QED
    BY <1>7, <2>1 DEF Leads, Nobody
<1>9. ASSUME NEW i \in 1 .. n, Fine(i - 1) PROVE Fine(i)
  <2> DEFINE among == Passed(known, p, i - 1)
             next == IF Stored[i] \in known /\ Matched(Stored[i], p) THEN among \cup {Stored[i]}
                     ELSE among
  <2>1. Passed(known, p, i) = next
    BY <1>2 DEF Passed
  <2>2. CASE Stored[i] \notin known
    <3>1. next = among /\ seen[i] = seen[i - 1]
      BY <1>7, <2>2
    <3> QED
      BY <1>9, <2>1, <3>1
  <2>3. CASE Stored[i] \in known
    <3>1. Stored[i] \notin among
      BY <1>2, <1>3 DEF Passed
    <3>2. among \in SUBSET known
      BY DEF Passed
    <3>3. seen[i] = AfterContract(p, seen[i - 1], Stored[i])
      BY <1>7, <2>3
    <3>4. next = IF Matched(Stored[i], p) THEN among \cup {Stored[i]} ELSE among
      BY <2>3
    <3>5. seen[i - 1] \in Seen /\ Leads(seen[i - 1], among, p)
      BY <1>9
    <3> HIDE DEF among, next
    <3>6. /\ AfterContract(p, seen[i - 1], Stored[i]) \in Seen
          /\ Leads(AfterContract(p, seen[i - 1], Stored[i]), next, p)
      BY <2>3, <3>1, <3>2, <3>4, <3>5, AfterContractLeads
    <3> QED
      BY <2>1, <3>3, <3>6
  <2> QED
    BY <2>2, <2>3
<1>10. Bad = {}
  <2> SUFFICES ASSUME Bad # {} PROVE FALSE
    OBVIOUS
  <2>1. PICK i \in Bad : \A j \in Bad : i <= j
    <3>1. Bad \subseteq Nat
      OBVIOUS
    <3> HIDE DEF Bad
    <3> QED
      BY <3>1, LeastOf
  <2>2. i \in 0 .. n /\ ~Fine(i)
    OBVIOUS
  <2> HIDE DEF Fine
  <2>3. i # 0
    BY <1>8, <2>2
  <2>4. i - 1 \in 0 .. n /\ i \in 1 .. n /\ ~(i <= i - 1)
    BY <1>2, <2>2, <2>3
  <2>5. Fine(i - 1)
    BY <2>1, <2>4
  <2> QED
    BY <1>9, <2>2, <2>4, <2>5
<1>11. n \in 0 .. n
  BY <1>2
<1>12. Fine(n)
  <2> HIDE DEF Fine
  <2> QED
    BY <1>10, <1>11
<1>13. Passed(known, p, n) = {c \in known : Matched(c, p)}
  BY <1>4 DEF Passed
<1> QED
  BY <1>1, <1>12, <1>13

\* What route answers: a recognised contract that is ahead of every other, or none.
Ahead(known, p, c) ==
  /\ c \in known /\ Matched(c, p)
  /\ \A d \in known \ {c} : ~Matched(d, p) \/ Confidence(c, p) - Confidence(d, p) >= TieMargin

LEMMA BestIsAhead ==
  ASSUME NEW known \in SUBSET Contracts, NEW p \in Prompts
  PROVE  /\ Best(known, p) \in known \cup {NoContract}
         /\ TieMargin > 0 => \A c \in Contracts : Best(known, p) = c <=> Ahead(known, p, c)
<1> DEFINE r == Ranked(known, p)
           among == {c \in known : Matched(c, p)}
<1>1. Leads(r, among, p)
  BY RankedLeads
<1>2. /\ \A c \in Contracts : Confidence(c, p) \in Nat /\ Score(c, p) = Confidence(c, p)
      /\ NoContract \notin Contracts /\ TieMargin \in Nat
  BY ConfidenceType, NoContractAssumption, ScoreAssumption
<1>3. Tie(known, p) <=> /\ r.runnerUp # NoContract /\ TieMargin > 0
                        /\ Score(r.best, p) - Score(r.runnerUp, p) < TieMargin
  BY DEF Tie
<1>4. Best(known, p) = IF Tie(known, p) THEN NoContract ELSE r.best
  BY DEF Best
<1> HIDE DEF r
<1>5. Best(known, p) \in known \cup {NoContract}
  BY <1>1, <1>4 DEF Leads
<1>6. ASSUME TieMargin > 0, NEW c \in Contracts, Best(known, p) = c PROVE Ahead(known, p, c)
  <2>1. c = r.best /\ c \in among /\ ~Tie(known, p)
    BY <1>1, <1>2, <1>4, <1>6 DEF Leads
  <2>2. ASSUME NEW d \in known \ {c}, Matched(d, p)
        PROVE  Confidence(c, p) - Confidence(d, p) >= TieMargin
    <3>1. d \in among \ {r.best} /\ r.runnerUp \in among /\ r.runnerUp # NoContract
      BY <1>1, <1>2, <2>1, <2>2 DEF Leads
    <3>2. Confidence(d, p) <= Confidence(r.runnerUp, p)
      BY <1>1, <1>2, <3>1 DEF Leads
    <3>3. Confidence(c, p) - Confidence(r.runnerUp, p) >= TieMargin
      BY <1>2, <1>3, <1>6, <2>1, <3>1
    <3> QED
      BY <1>2, <2>1, <3>1, <3>2, <3>3
  <2> QED
    BY <2>1, <2>2 DEF Ahead
<1>7. ASSUME TieMargin > 0, NEW c \in Contracts, Ahead(known, p, c) PROVE Best(known, p) = c
  <2>1. c \in among /\ r.best \in among
    BY <1>1, <1>7 DEF Leads, Ahead
  <2>2. Confidence(c, p) <= Confidence(r.best, p)
    BY <1>1, <1>2, <2>1 DEF Leads
  <2>3. r.best = c
    <3> SUFFICES ASSUME r.best # c PROVE FALSE
      OBVIOUS
    <3>1. Confidence(c, p) - Confidence(r.best, p) >= TieMargin
      BY <1>7, <2>1 DEF Ahead
    <3> QED
      BY <1>2, <1>7, <2>1, <2>2, <3>1
  <2>4. ~Tie(known, p)
    <3> SUFFICES ASSUME r.runnerUp # NoContract
                 PROVE  ~(Score(r.best, p) - Score(r.runnerUp, p) < TieMargin)
      BY <1>3
    <3>1. r.runnerUp \in among \ {c}
      BY <1>1, <2>3 DEF Leads
    <3>2. Confidence(c, p) - Confidence(r.runnerUp, p) >= TieMargin
      BY <1>7, <3>1 DEF Ahead
    <3> QED
      BY <1>2, <2>1, <2>3, <3>1, <3>2
  <2> QED
    BY <1>4, <2>3, <2>4
<1> QED
  BY <1>5, <1>6, <1>7

-----------------------------------------------------------------------------
(* The invariant.                                                           *)

\* What route has decided for a message is what it decides from the contracts it knew.
DecisionFits ==
  turn # NoTurn /\ turn.phase \in {"decided", "placed"} =>
    LET own == OwnContract(turn.known, turn.routeAgent)
        best == IF turn.forceAdHoc THEN NoContract ELSE Best(turn.known, turn.prompt)
    IN /\ best # NoContract => turn.decision = "routed" /\ turn.contract = best
       /\ best = NoContract /\ own # NoContract
            => turn.decision = "principal_bound" /\ turn.contract = own
       /\ best = NoContract /\ own = NoContract
            => turn.decision \notin {"routed", "principal_bound"} /\ turn.contract = NoContract

\* Who executes it is the Agent it was routed for, or the specialist of its contract.
ExecutorFits ==
  turn # NoTurn /\ turn.phase = "placed" =>
    \/ turn.executor = turn.routeAgent
    \/ turn.decision = "routed" /\ turn.executor = OwnerOf[turn.contract]

\* While a message is handled its answer has a place: nothing else is admitted meanwhile.
RoomKept == turn # NoTurn => Room

RoutingInv ==
  /\ TypeOK /\ messages \in Seq(Message) /\ IsFiniteSet(runs)
  /\ RoomKept /\ DecisionFits /\ ExecutorFits

LEMMA NoTurnIsNone == NoTurn \notin Turns /\ \A t \in Turns : t # NoTurn
<1>1. \A t \in Turns : t.phase # NoTurn.phase
  BY DEF Turns, NoTurn
<1> QED
  BY <1>1

LEMMA RoutingInit == Init => RoutingInv
<1> SUFFICES ASSUME Init PROVE RoutingInv
  OBVIOUS
<1>1. IsFiniteSet(runs) /\ Cardinality(runs) = 0 /\ Len(messages) = 0
  BY FS_EmptySet DEF Init
<1>2. TypeOK
  BY <1>1, BoundAssumption DEF Init, TypeOK
<1> QED
  BY <1>1, <1>2 DEF Init, RoutingInv, RoomKept, DecisionFits, ExecutorFits

\* How a step moves the messages and the runs.
LEMMA CountsStep ==
  ASSUME RoutingInv, [Next]_vars
  PROVE  /\ messages' \in Seq(Message) /\ IsFiniteSet(runs') /\ runs' \subseteq Message
         /\ Len(messages') + Cardinality(runs') <= MaxAnswers
         /\ turn' # NoTurn => Len(messages') + Cardinality(runs') < MaxAnswers
<1>1. /\ messages \in Seq(Message) /\ Len(messages) \in Nat
      /\ IsFiniteSet(runs) /\ Cardinality(runs) \in Nat /\ runs \subseteq Message
      /\ Len(messages) + Cardinality(runs) <= MaxAnswers /\ MaxAnswers \in Nat
      /\ turn # NoTurn => Len(messages) + Cardinality(runs) < MaxAnswers
  BY FS_CardinalityType, LenProperties, BoundAssumption
     DEF RoutingInv, TypeOK, Message, RoomKept, Room
<1>2. CASE UNCHANGED <<messages, runs>> /\ (turn' = NoTurn \/ turn # NoTurn \/ Room)
  BY <1>1, <1>2 DEF Room
<1>3. CASE Admit
  <2> DEFINE r == [user |-> turn.user, conversation |-> turn.addressed, by |-> turn.executor]
  <2>1. turn \in Turns
    BY <1>3 DEF Admit, RoutingInv, TypeOK
  <2>2. r \in Message
    BY <2>1 DEF Turns, Message
  <2>3. runs' = runs \cup {r} /\ messages' = messages /\ turn' = NoTurn /\ turn # NoTurn
    BY <1>3 DEF Admit
  <2> HIDE DEF r
  <2>4. IsFiniteSet(runs') /\ Cardinality(runs') \in Nat /\ Cardinality(runs') <= Cardinality(runs) + 1
    <3>1. /\ IsFiniteSet(runs')
          /\ Cardinality(runs') = IF r \in runs THEN Cardinality(runs) ELSE Cardinality(runs) + 1
      BY <1>1, <2>3, FS_AddElement
    <3> QED
      BY <1>1, <3>1
  <2> QED
    BY <1>1, <2>2, <2>3, <2>4
<1>4. ASSUME NEW r \in runs, EndRun(r)
      PROVE  /\ messages' \in Seq(Message) /\ IsFiniteSet(runs') /\ runs' \subseteq Message
             /\ Len(messages') + Cardinality(runs') <= MaxAnswers
             /\ turn' # NoTurn => Len(messages') + Cardinality(runs') < MaxAnswers
  <2>1. IsFiniteSet(runs') /\ Cardinality(runs') = Cardinality(runs) - 1 /\ runs' \subseteq Message
    BY <1>1, <1>4, FS_RemoveElement DEF EndRun
  <2>2. messages' \in Seq(Message) /\ Len(messages') \in {Len(messages), Len(messages) + 1}
    <3>1. r \in Message /\ (messages' = messages \/ messages' = Append(messages, r))
      BY <1>1, <1>4 DEF EndRun
    <3> QED
      BY <1>1, <3>1, AppendProperties
  <2>3. turn' = turn
    BY <1>4 DEF EndRun
  <2> QED
    BY <1>1, <2>1, <2>2, <2>3
<1> QED
  <2>1. ASSUME NEW u \in Users, NEW a \in Conversations, NEW p \in Prompts, NEW adHoc \in BOOLEAN,
               NEW f \in BOOLEAN, SendMessage(u, a, p, adHoc, f)
        PROVE  UNCHANGED <<messages, runs>> /\ Room
    BY <2>1 DEF SendMessage
  <2>2. FollowUp \/ Route \/ TurnAway \/ Place \/ Refuse \/ Finished \/ UNCHANGED vars
          => UNCHANGED <<messages, runs>> /\ (turn' = NoTurn \/ turn # NoTurn)
    BY DEF FollowUp, Route, TurnAway, Place, Refuse, Finished, vars
  <2>3. (\E a \in Agents : StopAgent(a) \/ StartAgent(a)) \/ (\E c \in Contracts : ChangeContract(c))
          => UNCHANGED <<messages, runs, turn>>
    BY DEF StopAgent, StartAgent, ChangeContract
  <2> QED
    BY <1>2, <1>3, <1>4, <2>1, <2>2, <2>3 DEF Next

\* What is kept about the message in hand.
TurnFits ==
  /\ turn \in Turns \cup {NoTurn}
  /\ turn # NoTurn => (turn.contract # NoContract) = (turn.decision \in {"routed", "principal_bound"})
  /\ DecisionFits /\ ExecutorFits

LEMMA TurnFitsStep == RoutingInv /\ [Next]_vars => TurnFits'
<1> SUFFICES ASSUME RoutingInv, [Next]_vars PROVE TurnFits'
  OBVIOUS
<1>1. /\ turn \in Turns \cup {NoTurn} /\ active \in SUBSET Contracts
      /\ turn # NoTurn
           => (turn.contract # NoContract) = (turn.decision \in {"routed", "principal_bound"})
      /\ DecisionFits /\ ExecutorFits
  BY DEF RoutingInv, TypeOK
<1>2. CASE UNCHANGED turn
  BY <1>1, <1>2 DEF TurnFits, DecisionFits, ExecutorFits
<1>3. CASE turn' = NoTurn
  BY <1>3 DEF TurnFits, DecisionFits, ExecutorFits
<1>4. ASSUME NEW u \in Users, NEW a \in Conversations, NEW p \in Prompts, NEW adHoc \in BOOLEAN,
             NEW f \in BOOLEAN, SendMessage(u, a, p, adHoc, f)
      PROVE  TurnFits'
  <2> DEFINE t == [phase |-> "sent", user |-> u, addressed |-> a, prompt |-> p,
                   forceAdHoc |-> adHoc, followUp |-> f, routeAgent |-> a,
                   decision |-> "none", contract |-> NoContract, known |-> {}, executor |-> a]
  <2>1. turn' = t
    BY <1>4 DEF SendMessage
  <2>2. a \in Agents
    BY OwnerAssumption
  <2>3. t \in Turns
    BY <2>2 DEF Turns, Decisions
  <2>4. t.phase = "sent" /\ t.contract = NoContract /\ t.decision = "none"
    OBVIOUS
  <2> HIDE DEF t
  <2> QED
    BY <2>1, <2>3, <2>4 DEF TurnFits, DecisionFits, ExecutorFits
<1>5. CASE FollowUp
  <2>1. PICK a : /\ turn' = [turn EXCEPT !.phase = "recorded", !.routeAgent = a]
                 /\ a = turn.routeAgent \/ (a = LastResponder(turn.addressed, turn.user) /\ a # NoAgent)
    <3> DEFINE previous == LastResponder(turn.addressed, turn.user)
               goesOn == /\ turn.followUp /\ previous # NoAgent
                         /\ status[previous] = "ready"
               next == IF goesOn THEN previous ELSE turn.routeAgent
    <3>1. turn' = [turn EXCEPT !.phase = "recorded", !.routeAgent = next]
      BY <1>5 DEF FollowUp
    <3>2. next = turn.routeAgent \/ (next = previous /\ previous # NoAgent)
      OBVIOUS
    <3> HIDE DEF next
    <3> QED
      BY <3>1, <3>2
  <2>2. turn \in Turns
    BY <1>1, <1>5 DEF FollowUp
  <2>3. a \in Agents
    BY <2>1, <2>2, LastResponderType DEF Turns, RoutingInv
  <2>4. turn' \in Turns /\ turn'.phase = "recorded"
    BY <2>1, <2>2, <2>3 DEF Turns
  <2>5. turn'.contract = turn.contract /\ turn'.decision = turn.decision
    BY <2>1, <2>2 DEF Turns
  <2> QED
    BY <1>1, <1>5, <2>4, <2>5 DEF TurnFits, DecisionFits, ExecutorFits, FollowUp
<1>6. CASE Route
  <2> DEFINE own == OwnContract(active, turn.routeAgent)
             best == IF turn.forceAdHoc THEN NoContract ELSE Best(active, turn.prompt)
             decided(d, c) == [turn EXCEPT !.phase = "decided", !.decision = d, !.contract = c,
                                           !.known = active]
  <2>1. turn \in Turns /\ turn.prompt \in Prompts
    BY <1>1, <1>6 DEF Route, Turns
  <2>2. own \in Contracts \cup {NoContract} /\ best \in Contracts \cup {NoContract}
    BY <1>1, <2>1, OwnContractIs, BestIsAhead
  <2>3. PICK d, c :
          /\ turn' = decided(d, c)
          /\ d \in Decisions /\ c \in Contracts \cup {NoContract}
          /\ best # NoContract => d = "routed" /\ c = best
          /\ best = NoContract /\ own # NoContract => d = "principal_bound" /\ c = own
          /\ best = NoContract /\ own = NoContract
               => d \notin {"routed", "principal_bound"} /\ c = NoContract
    <3>1. turn' = IF best # NoContract THEN decided("routed", best)
                  ELSE IF own # NoContract THEN decided("principal_bound", own)
                  ELSE decided(IF turn.forceAdHoc THEN "user_override" ELSE "unmatched", NoContract)
      BY <1>6 DEF Route, Decide, HeldToItsOwn
    <3> HIDE DEF own, best, decided
    <3>2. CASE best # NoContract
      BY <2>2, <3>1, <3>2 DEF Decisions
    <3>3. CASE best = NoContract /\ own # NoContract
      BY <2>2, <3>1, <3>3 DEF Decisions
    <3>4. CASE best = NoContract /\ own = NoContract
      <4>1. PICK d \in {"user_override", "unmatched"} : turn' = decided(d, NoContract)
        BY <3>1, <3>4
      <4> QED
        BY <3>4, <4>1 DEF Decisions
    <3> QED
      BY <3>2, <3>3, <3>4
  <2>4. /\ turn' \in Turns /\ turn'.phase = "decided" /\ turn'.decision = d /\ turn'.contract = c
        /\ turn'.known = active /\ turn'.routeAgent = turn.routeAgent
        /\ turn'.forceAdHoc = turn.forceAdHoc /\ turn'.prompt = turn.prompt
    BY <1>1, <2>1, <2>3 DEF Turns
  <2>5. DecisionFits'
    <3>1. /\ own = OwnContract(turn'.known, turn'.routeAgent)
          /\ best = IF turn'.forceAdHoc THEN NoContract ELSE Best(turn'.known, turn'.prompt)
      BY <2>4
    <3> HIDE DEF own, best
    <3> QED
      BY <2>3, <2>4, <3>1 DEF DecisionFits
  <2>6. (turn'.contract # NoContract) = (turn'.decision \in {"routed", "principal_bound"})
    <3> HIDE DEF own, best
    <3> QED
      BY <2>3, <2>4
  <2> QED
    BY <2>4, <2>5, <2>6 DEF TurnFits, ExecutorFits
<1>7. CASE Place
  <2>1. turn \in Turns /\ turn # NoTurn /\ turn.phase = "decided"
    BY <1>1, <1>7 DEF Place
  <2>2. PICK x : /\ turn' = [turn EXCEPT !.phase = "placed", !.executor = x]
                 /\ x = turn.routeAgent
                      \/ (turn.decision = "routed" /\ x = OwnerOf[turn.contract])
    BY <1>7 DEF Place
  <2>3. x \in Agents
    <3>1. turn.routeAgent \in Agents /\ turn.contract \in Contracts \cup {NoContract}
      BY <2>1 DEF Turns
    <3>2. turn.decision = "routed" => turn.contract \in Contracts
      BY <1>1, <2>1, <3>1
    <3> QED
      BY <2>2, <3>1, <3>2, OwnerAssumption
  <2>4. /\ turn' \in Turns /\ turn'.phase = "placed" /\ turn'.executor = x
        /\ turn'.decision = turn.decision /\ turn'.contract = turn.contract
        /\ turn'.known = turn.known /\ turn'.routeAgent = turn.routeAgent
        /\ turn'.forceAdHoc = turn.forceAdHoc /\ turn'.prompt = turn.prompt
    BY <2>1, <2>2, <2>3 DEF Turns
  <2>5. DecisionFits'
    BY <1>1, <2>1, <2>4 DEF DecisionFits
  <2>6. ExecutorFits'
    BY <2>2, <2>4 DEF ExecutorFits
  <2> QED
    BY <1>1, <2>1, <2>4, <2>5, <2>6 DEF TurnFits
<1> QED
  <2>1. TurnAway \/ Admit \/ Refuse => turn' = NoTurn
    BY DEF TurnAway, Admit, Refuse
  <2>2. ASSUME \/ \E r \in runs : EndRun(r)
               \/ \E a \in Agents : StopAgent(a) \/ StartAgent(a)
               \/ \E c \in Contracts : ChangeContract(c)
               \/ Finished \/ UNCHANGED vars
        PROVE  UNCHANGED turn
    BY <2>2 DEF EndRun, StopAgent, StartAgent, ChangeContract, Finished, vars
  <2> QED
    BY <1>2, <1>3, <1>4, <1>5, <1>6, <1>7, <2>1, <2>2 DEF Next

\* What the message in hand reads keeps its type.
LEMMA ReadTypes ==
  ASSUME RoutingInv, [Next]_vars
  PROVE  /\ status' \in [Agents -> {"ready", "busy", "error", "stopped"}]
         /\ active' \subseteq Contracts /\ changes' \in 0 .. MaxChanges
<1> DEFINE Statuses == {"ready", "busy", "error", "stopped"}
<1>1. /\ status \in [Agents -> Statuses] /\ active \subseteq Contracts
      /\ changes \in 0 .. MaxChanges /\ MaxChanges \in Nat
  BY BoundAssumption DEF RoutingInv, TypeOK
<1>2. CASE UNCHANGED <<status, active, changes>>
  BY <1>1, <1>2
<1>3. CASE Admit
  BY <1>1, <1>3 DEF Admit
<1>4. ASSUME NEW r \in runs, EndRun(r) PROVE status' \in [Agents -> Statuses]
  <2>1. CASE status' = [status EXCEPT ![r.by] = IF \E x \in runs \ {r} : x.by = r.by
                                                THEN "busy" ELSE "ready"]
    BY <1>1, <2>1
  <2>2. CASE \E s \in {"error", "ready"} :
               status' = [status EXCEPT ![r.by] = IF @ = "stopped" THEN @ ELSE s]
    BY <1>1, <2>2
  <2> QED
    BY <1>4, <2>1, <2>2 DEF EndRun
<1>5. ASSUME NEW r \in runs, EndRun(r) PROVE UNCHANGED <<active, changes>>
  BY <1>5 DEF EndRun
<1>6. ASSUME NEW a \in Agents, StopAgent(a) \/ StartAgent(a)
      PROVE  /\ status' \in [Agents -> Statuses] /\ active' = active
             /\ changes' \in 0 .. MaxChanges
  BY <1>1, <1>6 DEF StopAgent, StartAgent, MayChange
<1>7. ASSUME NEW c \in Contracts, ChangeContract(c)
      PROVE  status' = status /\ active' \subseteq Contracts /\ changes' \in 0 .. MaxChanges
  BY <1>1, <1>7 DEF ChangeContract, MayChange
<1> QED
  <2>1. ASSUME NEW u \in Users, NEW a \in Conversations, NEW p \in Prompts, NEW adHoc \in BOOLEAN,
               NEW f \in BOOLEAN, SendMessage(u, a, p, adHoc, f)
        PROVE  UNCHANGED <<status, active, changes>>
    BY <2>1 DEF SendMessage
  <2>2. FollowUp \/ Route \/ TurnAway \/ Place \/ Refuse \/ Finished \/ UNCHANGED vars
          => UNCHANGED <<status, active, changes>>
    BY DEF FollowUp, Route, TurnAway, Place, Refuse, Finished, vars
  <2>3. Admit => UNCHANGED <<active, changes>>
    BY DEF Admit
  <2> QED
    BY <1>1, <1>2, <1>3, <1>4, <1>5, <1>6, <1>7, <2>1, <2>2, <2>3 DEF Next

\* The invariant the theorems below rest on.
LEMMA RoutingInvHolds == Spec => []RoutingInv
<1>1. RoutingInv /\ [Next]_vars => RoutingInv'
  <2> SUFFICES ASSUME RoutingInv, [Next]_vars PROVE RoutingInv'
    OBVIOUS
  <2>1. /\ messages' \in Seq(Message) /\ IsFiniteSet(runs') /\ runs' \subseteq Message
        /\ Len(messages') + Cardinality(runs') <= MaxAnswers
        /\ turn' # NoTurn => Len(messages') + Cardinality(runs') < MaxAnswers
    BY CountsStep
  <2>2. \A i \in DOMAIN messages' : messages'[i] \in Message
    BY <2>1, ElementOfSeq, LenProperties
  <2>3. TurnFits'
    BY TurnFitsStep
  <2>4. /\ status' \in [Agents -> {"ready", "busy", "error", "stopped"}]
        /\ active' \subseteq Contracts /\ changes' \in 0 .. MaxChanges
    BY ReadTypes
  <2>5. TypeOK'
    BY <2>1, <2>2, <2>3, <2>4 DEF TypeOK, TurnFits, Message
  <2>6. RoomKept'
    BY <2>1 DEF RoomKept, Room
  <2> QED
    BY <2>1, <2>3, <2>5, <2>6 DEF RoutingInv, TurnFits
<1> QED
  BY <1>1, RoutingInit, PTL DEF Spec

\* Every variable keeps its type, and every admitted message has a place for its answer.
THEOREM TypeCorrect == Spec => []TypeOK
<1>1. RoutingInv => TypeOK
  BY DEF RoutingInv
<1> QED
  BY <1>1, RoutingInvHolds, PTL

\* Whatever contracts the store holds, in whatever order, with whatever scores, a message is
\* routed to a contract just when that contract alone is clearly ahead.
THEOREM RoutedWhenClearHolds == Spec => []RoutedWhenClear
<1>1. RoutingInv => RoutedWhenClear
  <2> SUFFICES ASSUME RoutingInv, Decided, TieMargin > 0, NEW c \in Contracts
               PROVE  (turn.decision = "routed" /\ turn.contract = c)
                        = (~turn.forceAdHoc /\ ClearlyAhead(c))
    BY DEF RoutedWhenClear
  <2>1. turn \in Turns /\ turn # NoTurn /\ turn.phase \in {"decided", "placed"}
    BY DEF Decided, RoutingInv, TypeOK
  <2>2. turn.known \in SUBSET Contracts /\ turn.prompt \in Prompts /\ turn.forceAdHoc \in BOOLEAN
    BY <2>1 DEF Turns
  <2>3. ClearlyAhead(c) <=> Best(turn.known, turn.prompt) = c
    BY <2>2, BestIsAhead DEF ClearlyAhead, Ahead
  <2> DEFINE best == IF turn.forceAdHoc THEN NoContract ELSE Best(turn.known, turn.prompt)
  <2>4. /\ best # NoContract => turn.decision = "routed" /\ turn.contract = best
        /\ best = NoContract => turn.decision # "routed"
    BY <2>1 DEF RoutingInv, DecisionFits
  <2>5. (~turn.forceAdHoc /\ Best(turn.known, turn.prompt) = c) <=> best = c
    BY <2>2, NoContractAssumption
  <2>6. (turn.decision = "routed" /\ turn.contract = c) <=> best = c
    <3> HIDE DEF best
    <3> QED
      BY <2>4, NoContractAssumption
  <2> QED
    BY <2>3, <2>5, <2>6
<1> QED
  BY <1>1, RoutingInvHolds, PTL

\* No message runs unrestricted on an Agent that some active contract had as its specialist
\* when the message was routed, whatever flags it carries and wherever it is delegated to.
THEOREM SpecialistIsBoundHolds == Spec => []SpecialistIsBound
<1>1. RoutingInv => SpecialistIsBound
  <2> SUFFICES ASSUME RoutingInv, turn # NoTurn, turn.phase = "placed"
               PROVE  LET owned == {c \in turn.known : OwnerOf[c] = turn.executor}
                      IN /\ owned # {} => turn.contract # NoContract
                         /\ turn.contract # NoContract =>
                              \/ turn.contract \in owned
                              \/ turn.decision = "routed" /\ turn.contract \in turn.known
    BY DEF SpecialistIsBound
  <2> DEFINE own == OwnContract(turn.known, turn.routeAgent)
             best == IF turn.forceAdHoc THEN NoContract ELSE Best(turn.known, turn.prompt)
  <2>1. turn \in Turns
    BY DEF RoutingInv, TypeOK
  <2>2. turn.known \in SUBSET Contracts /\ turn.prompt \in Prompts
    BY <2>1 DEF Turns
  <2>3. /\ own = NoContract <=> \A c \in turn.known : OwnerOf[c] # turn.routeAgent
        /\ own # NoContract => own \in turn.known /\ OwnerOf[own] = turn.routeAgent
    BY <2>2, OwnContractIs
  <2>4. best \in turn.known \cup {NoContract}
    BY <2>2, BestIsAhead
  <2>5. /\ best # NoContract => turn.decision = "routed" /\ turn.contract = best
        /\ best = NoContract /\ own # NoContract
             => turn.decision = "principal_bound" /\ turn.contract = own
        /\ best = NoContract /\ own = NoContract
             => turn.decision \notin {"routed", "principal_bound"} /\ turn.contract = NoContract
    BY DEF RoutingInv, DecisionFits
  <2>6. turn.executor = turn.routeAgent
          \/ (turn.decision = "routed" /\ turn.executor = OwnerOf[turn.contract])
    BY DEF RoutingInv, ExecutorFits
  <2>7. own \in turn.known => own # NoContract
    BY <2>2, NoContractAssumption
  <2> HIDE DEF own, best
  <2> QED
    BY <2>3, <2>4, <2>5, <2>6, <2>7
<1> QED
  BY <1>1, RoutingInvHolds, PTL
=============================================================================
