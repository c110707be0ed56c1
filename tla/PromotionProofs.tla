-------------------------- MODULE PromotionProofs --------------------------
(***************************************************************************)
(* What promotion keeps for any number of users, wordings, prompts,        *)
(* operators and governance passes.                                        *)
(***************************************************************************)
EXTENDS Promotion, FiniteSetTheorems, SequenceTheorems, TLAPS

Prompt == [user : Users, wording : Wordings, embedded : BOOLEAN, over : BOOLEAN,
           used : SUBSET Grants]
Candidate == [status : {"none", "pending"} \cup Decided, proposal : Proposals]
Contract == [wording : Wordings, basis : Proposals, by : {"operator", "pass"}]
Job == [phase : {"idle", "detecting", "reviewing", "approving"},
        found : [Wordings -> Proposals], listed : SUBSET Wordings,
        wording : Wordings \cup {NoWording}, approving : Proposals]

\* What a permission rests on.
Evident(ps, basis) ==
  /\ basis.runs \subseteq DOMAIN ps
  /\ Cardinality(basis.runs) >= MinOccurrences
  /\ Cardinality({ps[i].user : i \in basis.runs}) >= MinUsers
  /\ basis.scope \subseteq UNION {ps[i].used : i \in basis.runs}

\* A run has used nothing before it ends; whatever has been proposed, is being approved or
\* was promoted rests on evidence.
EvidenceFits ==
  /\ \A i \in DOMAIN prompts : ~prompts[i].over => prompts[i].used = {}
  /\ \A w \in Wordings : candidates[w].status # "none" => Evident(prompts, candidates[w].proposal)
  /\ \A h \in Handlers, w \in Wordings :
       job[h].phase = "detecting" => job[h].found[w].runs = {} \/ Evident(prompts, job[h].found[w])
  /\ \A h \in Handlers : job[h].phase = "approving" =>
       /\ job[h].wording \in Wordings /\ candidates[job[h].wording].status # "none"
       /\ Evident(prompts, job[h].approving)
       /\ h \in Passes => job[h].approving.scope \cap Withheld = {}

OnePass == \A p, q \in Passes : job[p].phase # "idle" /\ job[q].phase # "idle" => p = q

\* A contract's candidate is decided; an approval nobody's call has overlapped is the only
\* one, and comes before any contract.
DecisionsFit ==
  /\ \A w \in Wordings : candidates[w].status = "approved"
       => \E c \in DOMAIN contracts : contracts[c].wording = w
  /\ \A c \in DOMAIN contracts : candidates[contracts[c].wording].status \in Decided
  /\ \A w \in Wordings \ overlapped :
       /\ \A g, h \in Approving(w) : g = h
       /\ \A h \in Approving(w), c \in DOMAIN contracts : contracts[c].wording # w
       /\ \A c, e \in DOMAIN contracts :
            contracts[c].wording = w /\ contracts[e].wording = w => c = e

PromotionInv == TypeOK /\ EvidenceFits /\ RestsOnEvidence /\ OnePass /\ DecisionsFit

-----------------------------------------------------------------------------
\* A prompt is never forgotten, and what its run has used only grows.
Grown(ps, qs) ==
  \A i \in DOMAIN ps : /\ i \in DOMAIN qs /\ qs[i].user = ps[i].user
                       /\ ps[i].used \subseteq qs[i].used

LEMMA EvidenceGrows ==
  ASSUME NEW ps, NEW qs, Grown(ps, qs), NEW basis, Evident(ps, basis)
  PROVE  Evident(qs, basis)
<1>1. \A i \in basis.runs : /\ i \in DOMAIN qs /\ qs[i].user = ps[i].user
                            /\ ps[i].used \subseteq qs[i].used
  BY DEF Grown, Evident
<1>2. {qs[i].user : i \in basis.runs} = {ps[i].user : i \in basis.runs}
  BY <1>1
<1>3. UNION {ps[i].used : i \in basis.runs} \subseteq UNION {qs[i].used : i \in basis.runs}
  BY <1>1
<1> QED
  BY <1>1, <1>2, <1>3 DEF Evident

\* What detection proposes, however it has clustered the prompts: nothing, or what enough
\* runs of enough users rest on.
LEMMA ProposalsRestOnEvidence ==
  ASSUME NEW ps \in Seq(Prompt), Len(ps) <= MaxPrompts, NEW w \in Wordings
  PROVE  /\ Propose(ps)[w] \in Proposals
         /\ Propose(ps)[w].runs = {} \/ Evident(ps, Propose(ps)[w])
<1> DEFINE seed == SeedOf(ps)
           seeds == {s \in DOMAIN ps : /\ seed[s] = s /\ ps[s].wording = w
                                       /\ Clears(ps, Cluster(ps, seed, s))}
           runs == Cluster(ps, seed, CHOOSE s \in seeds : TRUE)
<1>1. Propose(ps)[w] = IF seeds = {} THEN NoProposal
                       ELSE [runs |-> runs, scope |-> DeriveScope(ps, runs)]
  BY DEF Propose
<1> HIDE DEF seed
<1>2. NoProposal \in Proposals /\ NoProposal.runs = {}
  BY DEF NoProposal, Proposals
<1>3. runs \subseteq DOMAIN ps
  BY DEF Cluster
<1>4. seeds # {} => Clears(ps, runs)
  OBVIOUS
<1> HIDE DEF seeds, runs
<1>5. DOMAIN ps \subseteq Runs
  BY LenProperties, BoundsAssumption DEF Runs
<1>6. DeriveScope(ps, runs) \subseteq Grants
      /\ DeriveScope(ps, runs) \subseteq UNION {ps[i].used : i \in runs}
  BY DEF DeriveScope
<1>7. ASSUME seeds # {} PROVE Evident(ps, [runs |-> runs, scope |-> DeriveScope(ps, runs)])
  BY <1>3, <1>4, <1>6, <1>7 DEF Evident, Clears
<1> QED
  BY <1>1, <1>2, <1>3, <1>5, <1>6, <1>7 DEF Proposals

\* One more contract.
LEMMA Stored ==
  ASSUME NEW S, NEW s \in Seq(S), NEW x \in S
  PROVE  /\ Append(s, x) \in Seq(S) /\ Len(Append(s, x)) = Len(s) + 1
         /\ Len(s) \in Nat /\ DOMAIN s = 1 .. Len(s) /\ DOMAIN Append(s, x) = 1 .. Len(s) + 1
         /\ \A i \in DOMAIN s : Append(s, x)[i] = s[i] /\ s[i] \in S
         /\ Append(s, x)[Len(s) + 1] = x
<1>1. /\ Append(s, x) \in Seq(S) /\ Len(Append(s, x)) = Len(s) + 1
      /\ \A i \in 1 .. Len(s) : Append(s, x)[i] = s[i]
      /\ Append(s, x)[Len(s) + 1] = x
  BY AppendProperties
<1>2. Len(s) \in Nat /\ DOMAIN s = 1 .. Len(s) /\ DOMAIN Append(s, x) = 1 .. Len(s) + 1
  BY <1>1, LenProperties
<1> QED
  BY <1>1, <1>2, ElementOfSeq

-----------------------------------------------------------------------------
\* What a step does to the prompts.
LEMMA PromptsStep ==
  ASSUME TypeOK, EvidenceFits, [Next]_vars
  PROVE  /\ prompts' \in Seq(Prompt) /\ Len(prompts') <= MaxPrompts /\ Len(prompts') \in Nat
         /\ Grown(prompts, prompts')
         /\ \A i \in DOMAIN prompts' : ~prompts'[i].over => prompts'[i].used = {}
<1>1. prompts \in Seq(Prompt) /\ Len(prompts) <= MaxPrompts
  BY DEF TypeOK, Prompt
<1>2. DOMAIN prompts = 1 .. Len(prompts) /\ Len(prompts) \in Nat
  BY <1>1, LenProperties
<1>3. \A i \in DOMAIN prompts : prompts[i] \in Prompt
  BY <1>1, <1>2, ElementOfSeq
<1>4. CASE UNCHANGED prompts
  BY <1>1, <1>2, <1>4 DEF Grown, EvidenceFits
<1>5. ASSUME NEW u \in Users, NEW w \in Wordings, NEW embedded \in BOOLEAN, Ask(u, w, embedded)
      PROVE  /\ prompts' \in Seq(Prompt) /\ Len(prompts') <= MaxPrompts /\ Len(prompts') \in Nat
             /\ Grown(prompts, prompts')
             /\ \A i \in DOMAIN prompts' : ~prompts'[i].over => prompts'[i].used = {}
  <2> DEFINE p == [user |-> u, wording |-> w, embedded |-> embedded, over |-> FALSE, used |-> {}]
  <2>1. p \in Prompt /\ p.used = {}
    BY DEF Prompt
  <2>2. prompts' = Append(prompts, p) /\ Len(prompts) < MaxPrompts
    BY <1>5 DEF Ask
  <2> HIDE DEF p
  <2>3. /\ prompts' \in Seq(Prompt) /\ Len(prompts') = Len(prompts) + 1
        /\ DOMAIN prompts' = 1 .. Len(prompts) + 1
        /\ \A i \in DOMAIN prompts : prompts'[i] = prompts[i]
        /\ prompts'[Len(prompts) + 1] = p
    BY <1>1, <2>1, <2>2, Stored
  <2> QED
    BY <1>2, <2>1, <2>2, <2>3, BoundsAssumption DEF Grown, EvidenceFits
<1>6. ASSUME NEW i \in DOMAIN prompts, NEW used \in Footprints, EndRun(i, used)
      PROVE  /\ prompts' \in Seq(Prompt) /\ Len(prompts') <= MaxPrompts /\ Len(prompts') \in Nat
             /\ Grown(prompts, prompts')
             /\ \A j \in DOMAIN prompts' : ~prompts'[j].over => prompts'[j].used = {}
  <2> DEFINE p == [prompts[i] EXCEPT !.over = TRUE, !.used = used]
  <2>1. used \subseteq Grants
    BY FootprintsAssumption
  <2>2. p \in Prompt /\ p.over /\ p.user = prompts[i].user
    BY <1>3, <2>1 DEF Prompt
  <2>3. prompts' = [prompts EXCEPT ![i] = p]
    BY <1>6 DEF EndRun
  <2>4. prompts[i].used = {}
    BY <1>6 DEF EndRun, EvidenceFits
  <2> HIDE DEF p
  <2>5. /\ prompts' \in Seq(Prompt) /\ Len(prompts') = Len(prompts)
        /\ \A j \in 1 .. Len(prompts) : prompts'[j] = IF j = i THEN p ELSE prompts[j]
        /\ DOMAIN prompts' = DOMAIN prompts
    BY <1>1, <1>2, <2>2, <2>3, ExceptSeq
  <2> QED
    BY <1>1, <1>2, <2>2, <2>4, <2>5 DEF Grown, EvidenceFits
<1>7. ASSUME NEW h \in Handlers, NEW answered, Detect(h, answered)
      PROVE  /\ prompts' \in Seq(Prompt) /\ Len(prompts') <= MaxPrompts /\ Len(prompts') \in Nat
             /\ Grown(prompts, prompts')
             /\ \A j \in DOMAIN prompts' : ~prompts'[j].over => prompts'[j].used = {}
  <2>1. prompts' = [i \in DOMAIN prompts |->
                      [prompts[i] EXCEPT !.embedded = prompts[i].embedded \/ i \in answered]]
    BY <1>7 DEF Detect
  <2>2. ASSUME NEW i \in DOMAIN prompts
        PROVE  /\ prompts'[i] \in Prompt /\ prompts'[i].user = prompts[i].user
               /\ prompts'[i].used = prompts[i].used /\ prompts'[i].over = prompts[i].over
    <3>1. prompts'[i] = [prompts[i] EXCEPT !.embedded = prompts[i].embedded \/ i \in answered]
      BY <2>1
    <3>2. (prompts[i].embedded \/ i \in answered) \in BOOLEAN
      OBVIOUS
    <3> QED
      BY <1>3, <3>1, <3>2 DEF Prompt
  <2>3. prompts' \in [1 .. Len(prompts) -> Prompt] /\ DOMAIN prompts' = DOMAIN prompts
    BY <1>2, <2>1, <2>2
  <2>4. prompts' \in Seq(Prompt)
    BY <1>2, <2>3, SeqDef
  <2>5. Len(prompts') = Len(prompts)
    BY <1>2, <2>3, <2>4, LenProperties
  <2> QED
    BY <1>1, <1>2, <2>2, <2>3, <2>4, <2>5 DEF Grown, EvidenceFits
<1> QED
  BY <1>4, <1>5, <1>6, <1>7 DEF Next, vars, StoreCandidates, StoreContract, CreateAgentFails, Hold,
     AutoPromote, ApproveCandidate, BeginApprove, RejectCandidate

-----------------------------------------------------------------------------
LEMMA IdleShape ==
  Idle \in Job /\ Idle.phase = "idle" /\ Idle.listed = {} /\ NoProposal \in Proposals
<1>1. NoProposal \in Proposals
  BY DEF NoProposal, Proposals
<1> QED
  BY <1>1 DEF Idle, Job

LEMMA OnwardShape ==
  ASSUME TypeOK, NEW h \in Handlers, NEW w
  PROVE  \E J \in Job : Onward(h, w) = [job EXCEPT ![h] = J] /\ J.phase \in {"idle", "reviewing"}
<1> DEFINE R == [Idle EXCEPT !.phase = "reviewing", !.found = job[h].found,
                             !.listed = job[h].listed \ {w}]
<1>1. job[h].found \in [Wordings -> Proposals] /\ job[h].listed \subseteq Wordings
  BY DEF TypeOK
<1>2. R \in Job /\ R.phase = "reviewing"
  BY <1>1, IdleShape DEF Job
<1>3. \/ Onward(h, w) = [job EXCEPT ![h] = Idle]
      \/ Onward(h, w) = [job EXCEPT ![h] = R]
  BY DEF Onward
<1> QED
  BY <1>2, <1>3, IdleShape

\* What a step does to the jobs and to the candidates.
LEMMA JobStep ==
  ASSUME TypeOK, EvidenceFits, [Next]_vars
  PROVE  /\ job' \in [Handlers -> Job]
         /\ candidates' \in [Wordings -> Candidate]
         /\ contracts' \in Seq(Contract)
<1>1. /\ job \in [Handlers -> Job] /\ candidates \in [Wordings -> Candidate]
      /\ contracts \in Seq(Contract)
      /\ \A h \in Handlers : job[h] \in Job
      /\ \A w \in Wordings : candidates[w] \in Candidate
  BY DEF TypeOK, Job, Candidate, Contract
<1>2. CASE UNCHANGED <<candidates, contracts, job>>
  BY <1>1, <1>2
<1>3. ASSUME NEW h \in Handlers, NEW answered, Detect(h, answered)
      PROVE  job' \in [Handlers -> Job] /\ UNCHANGED <<candidates, contracts>>
  <2>1. prompts' \in Seq(Prompt) /\ Len(prompts') <= MaxPrompts
    BY PromptsStep
  <2>2. Propose(prompts') \in [Wordings -> Proposals]
    BY <2>1, ProposalsRestOnEvidence DEF Propose
  <2>3. [Idle EXCEPT !.phase = "detecting", !.found = Propose(prompts')] \in Job
    BY <2>2, IdleShape DEF Job
  <2> QED
    BY <1>1, <1>3, <2>3 DEF Detect
<1>4. ASSUME NEW h \in Handlers, StoreCandidates(h)
      PROVE  job' \in [Handlers -> Job] /\ candidates' \in [Wordings -> Candidate]
             /\ UNCHANGED contracts
  <2>1. ASSUME NEW w \in Wordings PROVE Merge(candidates[w], job[h].found[w]) \in Candidate
    <3>1. job[h].found[w] \in Proposals
      BY <1>1 DEF Job
    <3> QED
      BY <1>1, <3>1 DEF Merge, Candidate
  <2>2. candidates' \in [Wordings -> Candidate]
    BY <1>4, <2>1 DEF StoreCandidates
  <2> DEFINE listed == {w \in Wordings : candidates'[w].status = "pending"}
             found == [w \in Wordings |-> candidates'[w].proposal]
             R == [Idle EXCEPT !.phase = "reviewing", !.listed = listed, !.found = found]
  <2>3. found \in [Wordings -> Proposals]
    BY <2>2 DEF Candidate
  <2>4. listed \subseteq Wordings
    OBVIOUS
  <2>5. job' = [job EXCEPT ![h] = Idle] \/ job' = [job EXCEPT ![h] = R]
    BY <1>4 DEF StoreCandidates
  <2> HIDE DEF listed, found
  <2>6. R \in Job
    BY <2>3, <2>4, IdleShape DEF Job
  <2> QED
    BY <1>1, <1>4, <2>2, <2>5, <2>6, IdleShape DEF StoreCandidates
<1>5. ASSUME NEW h \in Handlers, NEW w, job' = Onward(h, w) PROVE job' \in [Handlers -> Job]
  BY <1>1, <1>5, OnwardShape
<1>6. ASSUME NEW h \in Handlers, NEW w \in Wordings, NEW scope \in SUBSET Grants,
             BeginApprove(h, w, scope)
      PROVE  job' \in [Handlers -> Job] /\ UNCHANGED <<candidates, contracts>>
  <2> DEFINE basis == [runs |-> candidates[w].proposal.runs, scope |-> scope]
             J == [job[h] EXCEPT !.phase = "approving", !.wording = w, !.approving = basis]
  <2>1. basis \in Proposals
    BY <1>1 DEF Candidate, Proposals
  <2>2. job' = [job EXCEPT ![h] = J]
    BY <1>6 DEF BeginApprove
  <2> HIDE DEF basis
  <2>3. J \in Job
    BY <1>1, <2>1 DEF Job
  <2> QED
    BY <1>1, <1>6, <2>2, <2>3 DEF BeginApprove
<1>7. ASSUME NEW h \in Handlers, NEW w \in Wordings, AutoPromote(h, w)
      PROVE  job' \in [Handlers -> Job] /\ UNCHANGED <<candidates, contracts>>
  <2>1. ClampForAutoGrant(job[h].found[w].scope) \subseteq Grants
    BY <1>1 DEF ClampForAutoGrant, Job, Proposals
  <2> QED
    BY <1>6, <1>7, <2>1 DEF AutoPromote
<1>8. ASSUME NEW h \in Handlers, StoreContract(h)
      PROVE  /\ candidates' \in [Wordings -> Candidate] /\ contracts' \in Seq(Contract)
             /\ job' = Onward(h, job[h].wording)
  <2>1. job[h].wording \in Wordings /\ job[h].approving \in Proposals
    BY <1>1, <1>8 DEF StoreContract, EvidenceFits, Job
  <2>2. candidates' \in [Wordings -> Candidate]
    <3>1. candidates' = [candidates EXCEPT ![job[h].wording] =
                           [candidates[job[h].wording] EXCEPT !.status = "approved"]]
      BY <1>8 DEF StoreContract
    <3>2. [candidates[job[h].wording] EXCEPT !.status = "approved"] \in Candidate
      BY <1>1, <2>1 DEF Candidate, Decided
    <3> QED
      BY <1>1, <3>1, <3>2
  <2> DEFINE c == [wording |-> job[h].wording, basis |-> job[h].approving,
                   by |-> IF h \in Passes THEN "pass" ELSE "operator"]
  <2>3. c \in Contract /\ contracts' = Append(contracts, c)
    BY <1>8, <2>1 DEF Contract, StoreContract
  <2> HIDE DEF c
  <2> QED
    BY <1>1, <1>8, <2>2, <2>3, Stored DEF StoreContract
<1>9. ASSUME NEW w \in Wordings, RejectCandidate(w)
      PROVE  candidates' \in [Wordings -> Candidate] /\ UNCHANGED <<contracts, job>>
  <2>1. [candidates[w] EXCEPT !.status = "rejected"] \in Candidate
    BY <1>1 DEF Candidate, Decided
  <2> QED
    BY <1>1, <1>9, <2>1 DEF RejectCandidate
<1>10. ASSUME NEW h \in Handlers, CreateAgentFails(h) \/ \E w \in Wordings : Hold(h, w)
       PROVE  job' \in [Handlers -> Job] /\ UNCHANGED <<candidates, contracts>>
  BY <1>5, <1>10 DEF CreateAgentFails, Hold
<1>11. CASE \/ UNCHANGED vars
            \/ \E u \in Users, w \in Wordings, embedded \in BOOLEAN : Ask(u, w, embedded)
            \/ \E i \in DOMAIN prompts, used \in Footprints : EndRun(i, used)
  BY <1>2, <1>11 DEF vars, Ask, EndRun
<1>12. ASSUME NEW h \in Handlers, NEW w \in Wordings, NEW scope \in SUBSET Grants,
              ApproveCandidate(h, w, scope)
       PROVE  job' \in [Handlers -> Job] /\ UNCHANGED <<candidates, contracts>>
  BY <1>6, <1>12 DEF ApproveCandidate
<1> QED
  BY <1>1, <1>3, <1>4, <1>5, <1>7, <1>8, <1>9, <1>10, <1>11, <1>12 DEF Next

LEMMA ListedStep ==
  ASSUME TypeOK, [Next]_vars
  PROVE  \A h \in Handlers : /\ job'[h].listed # {} => h \in Passes
                             /\ job'[h].phase = "reviewing" => job'[h].listed # {}
<1> DEFINE Fit(g, j) == /\ j.listed # {} => g \in Passes
                        /\ j.phase = "reviewing" => j.listed # {}
<1> SUFFICES ASSUME NEW h \in Handlers PROVE Fit(h, job'[h])
  OBVIOUS
<1>1. job \in [Handlers -> Job] /\ \A g \in Handlers : Fit(g, job[g])
  <2>1. job \in [Handlers -> Job]
    BY DEF TypeOK, Job
  <2>2. \A g \in Handlers : /\ job[g].listed # {} => g \in Passes
                            /\ job[g].phase = "reviewing" => job[g].listed # {}
    BY DEF TypeOK
  <2> QED
    BY <2>1, <2>2
<1>2. CASE UNCHANGED job
  BY <1>1, <1>2
<1>3. Fit(h, Idle) /\ Idle \in Job
  BY IdleShape
<1>4. ASSUME NEW g \in Handlers, NEW j \in Job, job' = [job EXCEPT ![g] = j], Fit(g, j)
      PROVE  Fit(h, job'[h])
  BY <1>1, <1>4
<1>5. ASSUME NEW g \in Handlers, NEW answered, Detect(g, answered) PROVE Fit(h, job'[h])
  <2> DEFINE j == [Idle EXCEPT !.phase = "detecting", !.found = Propose(prompts')]
  <2>1. job' = [job EXCEPT ![g] = j]
    BY <1>5 DEF Detect
  <2>2. Fit(h, j) /\ Fit(g, j)
    BY IdleShape
  <2> HIDE DEF j
  <2> QED
    BY <1>1, <2>1, <2>2
<1>6. ASSUME NEW g \in Handlers, StoreCandidates(g) PROVE Fit(h, job'[h])
  <2> DEFINE listed == {w \in Wordings : candidates'[w].status = "pending"}
             found == [w \in Wordings |-> candidates'[w].proposal]
             R == [Idle EXCEPT !.phase = "reviewing", !.listed = listed, !.found = found]
  <2>1. job' = [job EXCEPT ![g] = IF g \notin Passes \/ listed = {} THEN Idle ELSE R]
    BY <1>6 DEF StoreCandidates
  <2> HIDE DEF listed, found
  <2>2. R.phase = "reviewing" /\ R.listed = listed
    BY IdleShape
  <2> HIDE DEF R
  <2> QED
    BY <1>1, <1>3, <2>1, <2>2
<1>7. ASSUME NEW g \in Handlers, NEW w, job' = Onward(g, w) PROVE Fit(h, job'[h])
  <2> DEFINE R == [Idle EXCEPT !.phase = "reviewing", !.found = job[g].found,
                               !.listed = job[g].listed \ {w}]
  <2>1. job' = [job EXCEPT ![g] = IF job[g].listed \subseteq {w} THEN Idle ELSE R]
    BY <1>1, <1>7 DEF Onward
  <2>2. R.phase = "reviewing" /\ R.listed = job[g].listed \ {w}
    BY IdleShape
  <2> HIDE DEF R
  <2> QED
    BY <1>1, <1>3, <2>1, <2>2
<1>8. ASSUME NEW g \in Handlers, NEW w \in Wordings, NEW scope, BeginApprove(g, w, scope)
      PROVE  Fit(h, job'[h])
  BY <1>1, <1>8 DEF BeginApprove, Job
<1> QED
  BY <1>2, <1>5, <1>6, <1>7, <1>8 DEF Next, vars, Ask, EndRun, StoreContract, CreateAgentFails, Hold,
     AutoPromote, ApproveCandidate, RejectCandidate

LEMMA TypeStep == TypeOK /\ EvidenceFits /\ [Next]_vars => TypeOK'
<1> SUFFICES ASSUME TypeOK, EvidenceFits, [Next]_vars PROVE TypeOK'
  OBVIOUS
<1>1. overlapped' \subseteq Wordings
  BY DEF TypeOK, Next, vars, Ask, EndRun, Detect, StoreCandidates, StoreContract, CreateAgentFails,
         Hold, AutoPromote, ApproveCandidate, BeginApprove, RejectCandidate
<1>2. detections' \in 0 .. MaxDetections
  <2>1. detections \in 0 .. MaxDetections
    BY DEF TypeOK
  <2>2. \/ detections' = detections
        \/ detections < MaxDetections /\ detections' = detections + 1
    BY DEF Next, vars, Ask, EndRun, Detect, StoreCandidates, StoreContract, CreateAgentFails,
           Hold, AutoPromote, ApproveCandidate, BeginApprove, RejectCandidate
  <2> QED
    BY <2>1, <2>2, BoundsAssumption
<1> QED
  BY <1>1, <1>2, PromptsStep, JobStep, ListedStep DEF TypeOK, Prompt, Candidate, Contract, Job

-----------------------------------------------------------------------------
\* An approval is of a candidate that is pending and rests on evidence, by someone who was
\* not approving.
LEMMA Begins ==
  ASSUME TypeOK, EvidenceFits, NEW h \in Handlers, NEW w \in Wordings, NEW scope,
         BeginApprove(h, w, scope)
  PROVE  LET basis == [runs |-> candidates[w].proposal.runs, scope |-> scope]
         IN /\ candidates[w].status = "pending"
            /\ Evident(prompts, basis)
            /\ job' = [job EXCEPT ![h] = job'[h]]
            /\ job'[h].phase = "approving" /\ job'[h].wording = w /\ job'[h].approving = basis
            /\ UNCHANGED <<prompts, candidates, contracts>>
<1>1. candidates[w].status = "pending" /\ scope \subseteq candidates[w].proposal.scope
  BY DEF BeginApprove, Approvable, Narrows
<1>2. Evident(prompts, candidates[w].proposal)
  BY <1>1 DEF EvidenceFits
<1>3. Evident(prompts, [runs |-> candidates[w].proposal.runs, scope |-> scope])
  BY <1>1, <1>2 DEF Evident
<1>4. job \in [Handlers -> Job] /\ job[h] \in Job
  BY DEF TypeOK, Job
<1> DEFINE basis == [runs |-> candidates[w].proposal.runs, scope |-> scope]
           J == [job[h] EXCEPT !.phase = "approving", !.wording = w, !.approving = basis]
<1>5. job' = [job EXCEPT ![h] = J] /\ UNCHANGED <<prompts, candidates, contracts>>
  BY DEF BeginApprove
<1> HIDE DEF basis
<1>6. J.phase = "approving" /\ J.wording = w /\ J.approving = basis
  BY <1>4 DEF Job
<1>7. job'[h] = J
  BY <1>4, <1>5
<1>8. job' = [job EXCEPT ![h] = job'[h]]
  BY <1>5, <1>7
<1> QED
  BY <1>1, <1>3, <1>5, <1>6, <1>7, <1>8 DEF basis

\* A call that goes on or ends is no longer approving or detecting.
LEMMA GoesOn ==
  ASSUME TypeOK, NEW h \in Handlers, NEW w, job' = Onward(h, w)
  PROVE  /\ job'[h].phase \in {"idle", "reviewing"}
         /\ \A g \in Handlers \ {h} : job'[g] = job[g]
BY OnwardShape DEF TypeOK

\* A candidate never disappears, and a decision on it is only replaced by another.
LEMMA StatusStep ==
  ASSUME TypeOK, EvidenceFits, [Next]_vars
  PROVE  \A w \in Wordings :
           /\ candidates[w].status # "none" => candidates'[w].status # "none"
           /\ candidates[w].status \in Decided => candidates'[w].status \in Decided
<1>1. \A w \in Wordings : candidates[w] \in Candidate
  BY DEF TypeOK, Candidate
<1>2. CASE UNCHANGED candidates
  BY <1>2
<1>3. ASSUME NEW h \in Handlers, StoreCandidates(h), NEW w \in Wordings
      PROVE  /\ candidates[w].status # "none" => candidates'[w].status # "none"
             /\ candidates[w].status \in Decided => candidates'[w].status \in Decided
  BY <1>3 DEF StoreCandidates, Merge
<1>4. ASSUME NEW x, NEW w \in Wordings, NEW s \in Decided,
             candidates' = [candidates EXCEPT ![x].status = s]
      PROVE  /\ candidates[w].status # "none" => candidates'[w].status # "none"
             /\ candidates[w].status \in Decided => candidates'[w].status \in Decided
  <2>1. candidates'[w] = IF w = x THEN [candidates[w] EXCEPT !.status = s] ELSE candidates[w]
    BY <1>4 DEF TypeOK
  <2> QED
    BY <1>1, <2>1 DEF Candidate, Decided
<1>5. ASSUME NEW h \in Handlers, StoreContract(h)
      PROVE  candidates' = [candidates EXCEPT ![job[h].wording].status = "approved"]
  BY <1>5 DEF StoreContract
<1>6. ASSUME NEW x \in Wordings, RejectCandidate(x)
      PROVE  candidates' = [candidates EXCEPT ![x].status = "rejected"]
  BY <1>6 DEF RejectCandidate
<1>7. "approved" \in Decided /\ "rejected" \in Decided
  BY DEF Decided
<1> QED
  BY <1>2, <1>3, <1>4, <1>5, <1>6, <1>7
     DEF Next, vars, Ask, EndRun, Detect, CreateAgentFails, Hold, AutoPromote, ApproveCandidate,
         BeginApprove

LEMMA EvidenceStep ==
  TypeOK /\ EvidenceFits /\ RestsOnEvidence /\ [Next]_vars => EvidenceFits' /\ RestsOnEvidence'
<1> SUFFICES ASSUME TypeOK, EvidenceFits, RestsOnEvidence, [Next]_vars
             PROVE  EvidenceFits' /\ RestsOnEvidence'
  OBVIOUS
<1>1. /\ job \in [Handlers -> Job] /\ candidates \in [Wordings -> Candidate]
      /\ contracts \in Seq(Contract)
  BY DEF TypeOK, Job, Candidate, Contract
<1>2. /\ Grown(prompts, prompts')
      /\ \A i \in DOMAIN prompts' : ~prompts'[i].over => prompts'[i].used = {}
  BY PromptsStep
<1>3. \A basis : Evident(prompts, basis) => Evident(prompts', basis)
  BY <1>2, EvidenceGrows
\* The three kinds of claim, each for what a step leaves alone.
<1> DEFINE CandidateFits(w) == candidates[w].status # "none" => Evident(prompts, candidates[w].proposal)
           Detects(h) == job[h].phase = "detecting" => \A w \in Wordings :
                           job[h].found[w].runs = {} \/ Evident(prompts, job[h].found[w])
           Approves(h) == job[h].phase = "approving" =>
                            /\ job[h].wording \in Wordings
                            /\ candidates[job[h].wording].status # "none"
                            /\ Evident(prompts, job[h].approving)
                            /\ h \in Passes => job[h].approving.scope \cap Withheld = {}
           Rests(c) == /\ Evident(prompts, contracts[c].basis)
                       /\ contracts[c].by = "pass" => contracts[c].basis.scope \cap Withheld = {}
<1>4. /\ \A w \in Wordings : CandidateFits(w)
      /\ \A h \in Handlers : Detects(h) /\ Approves(h)
      /\ \A c \in DOMAIN contracts : Rests(c)
  BY DEF EvidenceFits, RestsOnEvidence, Evident
<1>5. ASSUME \A w \in Wordings : CandidateFits(w)',
             \A h \in Handlers : Detects(h)' /\ Approves(h)',
             \A c \in DOMAIN contracts' : Rests(c)'
      PROVE  EvidenceFits' /\ RestsOnEvidence'
  BY <1>2, <1>5 DEF EvidenceFits, RestsOnEvidence, Evident
<1>6. ASSUME NEW w \in Wordings, candidates'[w] = candidates[w] PROVE CandidateFits(w)'
  BY <1>3, <1>4, <1>6
<1>7. ASSUME NEW h \in Handlers, job'[h] = job[h] \/ job'[h].phase \in {"idle", "reviewing"}
      PROVE  Detects(h)' /\ Approves(h)'
  BY <1>3, <1>4, <1>7, StatusStep
<1>8. ASSUME NEW c \in DOMAIN contracts, contracts'[c] = contracts[c] PROVE Rests(c)'
  BY <1>3, <1>4, <1>8
<1>9. ASSUME UNCHANGED <<candidates, contracts>>,
             \A h \in Handlers : \/ job'[h] = job[h] \/ job'[h].phase \in {"idle", "reviewing"}
                                 \/ Detects(h)' /\ Approves(h)'
      PROVE  EvidenceFits' /\ RestsOnEvidence'
  BY <1>5, <1>6, <1>7, <1>8, <1>9
<1> HIDE DEF CandidateFits, Detects, Approves, Rests
<1>10. CASE UNCHANGED <<candidates, contracts, job>>
  BY <1>9, <1>10
<1>11. ASSUME NEW h \in Handlers, NEW answered, Detect(h, answered)
       PROVE  EvidenceFits' /\ RestsOnEvidence'
  <2>1. prompts' \in Seq(Prompt) /\ Len(prompts') <= MaxPrompts
    BY PromptsStep
  <2> DEFINE J == [Idle EXCEPT !.phase = "detecting", !.found = Propose(prompts')]
  <2>2. J.phase = "detecting" /\ J.found = Propose(prompts')
    BY DEF Idle
  <2>3. job' = [job EXCEPT ![h] = J] /\ UNCHANGED <<candidates, contracts>>
    BY <1>11 DEF Detect
  <2> HIDE DEF J
  <2>4. job'[h] = J /\ \A g \in Handlers \ {h} : job'[g] = job[g]
    BY <1>1, <2>3
  <2>5. Detects(h)' /\ Approves(h)'
    BY <2>1, <2>2, <2>4, ProposalsRestOnEvidence DEF Detects, Approves
  <2> QED
    BY <1>9, <2>3, <2>4, <2>5
<1>12. ASSUME NEW h \in Handlers, StoreCandidates(h) PROVE EvidenceFits' /\ RestsOnEvidence'
  <2>1. ASSUME NEW w \in Wordings PROVE CandidateFits(w)'
    <3>1. candidates'[w] = Merge(candidates[w], job[h].found[w])
      BY <1>12, <2>1 DEF StoreCandidates
    <3>2. CASE candidates'[w] = candidates[w]
      BY <1>6, <3>2
    <3>3. CASE candidates'[w] # candidates[w]
      <4>1. job[h].found[w].runs # {} /\ candidates'[w].proposal = job[h].found[w]
        BY <3>1, <3>3 DEF Merge
      <4>2. Evident(prompts, job[h].found[w])
        BY <1>4, <1>12, <4>1 DEF Detects, StoreCandidates
      <4> QED
        BY <1>3, <4>1, <4>2 DEF CandidateFits
    <3> QED
      BY <3>2, <3>3
  <2>2. job'[h].phase \in {"idle", "reviewing"} /\ \A g \in Handlers \ {h} : job'[g] = job[g]
    <3> DEFINE found == [w \in Wordings |-> candidates'[w].proposal]
               listed == {w \in Wordings : candidates'[w].status = "pending"}
               R == [Idle EXCEPT !.phase = "reviewing", !.listed = listed, !.found = found]
    <3>1. job' = [job EXCEPT ![h] = Idle] \/ job' = [job EXCEPT ![h] = R]
      BY <1>12 DEF StoreCandidates
    <3> HIDE DEF found, listed
    <3>2. Idle.phase = "idle" /\ R.phase = "reviewing"
      BY DEF Idle
    <3> QED
      BY <1>1, <3>1, <3>2
  <2>3. contracts' = contracts
    BY <1>12 DEF StoreCandidates
  <2> QED
    BY <1>5, <1>7, <1>8, <2>1, <2>2, <2>3
<1>13. ASSUME NEW h \in Handlers, NEW w \in Wordings, NEW scope, BeginApprove(h, w, scope),
              h \in Passes => scope \cap Withheld = {}
       PROVE  EvidenceFits' /\ RestsOnEvidence'
  <2>1. /\ Evident(prompts, [runs |-> candidates[w].proposal.runs, scope |-> scope])
        /\ job' = [job EXCEPT ![h] = job'[h]]
        /\ job'[h].phase = "approving" /\ job'[h].wording = w
        /\ job'[h].approving = [runs |-> candidates[w].proposal.runs, scope |-> scope]
        /\ UNCHANGED <<candidates, contracts>>
    BY <1>13, Begins
  <2>2. Detects(h)' /\ Approves(h)'
    BY <1>3, <1>13, <2>1, Begins DEF Detects, Approves
  <2>3. \A g \in Handlers \ {h} : job'[g] = job[g]
    BY <1>1, <2>1
  <2> QED
    BY <1>9, <2>1, <2>2, <2>3
<1>14. ASSUME NEW h \in Handlers, NEW w \in Wordings, AutoPromote(h, w)
       PROVE  EvidenceFits' /\ RestsOnEvidence'
  <2>1. ClampForAutoGrant(job[h].found[w].scope) \cap Withheld = {}
    BY DEF ClampForAutoGrant
  <2> QED
    BY <1>13, <1>14, <2>1 DEF AutoPromote
<1>15. ASSUME NEW h \in Handlers, NEW w \in Wordings, NEW scope, ApproveCandidate(h, w, scope)
       PROVE  EvidenceFits' /\ RestsOnEvidence'
  <2>1. h \notin Passes
    BY <1>15, PassesAssumption DEF ApproveCandidate
  <2> QED
    BY <1>13, <1>15, <2>1 DEF ApproveCandidate
<1>16. ASSUME NEW h \in Handlers, CreateAgentFails(h) \/ \E w \in Wordings : Hold(h, w)
       PROVE  EvidenceFits' /\ RestsOnEvidence'
  <2>1. PICK w : job' = Onward(h, w) /\ UNCHANGED <<candidates, contracts>>
    BY <1>16 DEF CreateAgentFails, Hold
  <2> QED
    BY <1>9, <2>1, GoesOn
<1>17. ASSUME NEW h \in Handlers, StoreContract(h) PROVE EvidenceFits' /\ RestsOnEvidence'
  <2> DEFINE c == [wording |-> job[h].wording, basis |-> job[h].approving,
                   by |-> IF h \in Passes THEN "pass" ELSE "operator"]
  <2>1. /\ job[h].phase = "approving" /\ job' = Onward(h, job[h].wording)
        /\ candidates' = [candidates EXCEPT ![job[h].wording].status = "approved"]
        /\ contracts' = Append(contracts, c)
    BY <1>17 DEF StoreContract
  <2>2. /\ job[h].wording \in Wordings /\ Evident(prompts, job[h].approving)
        /\ h \in Passes => job[h].approving.scope \cap Withheld = {}
    BY <1>4, <2>1 DEF Approves
  <2>3. job[h].approving \in Proposals
    BY <1>1 DEF Job
  <2>4. /\ c \in Contract /\ c.basis = job[h].approving
        /\ c.by = "pass" => h \in Passes
    BY <2>2, <2>3 DEF Contract
  <2> HIDE DEF c
  <2>5. ASSUME NEW w \in Wordings PROVE CandidateFits(w)'
    <3>1. candidates[w] \in Candidate
      BY <1>1
    <3>2. candidates'[w].proposal = candidates[w].proposal
      BY <1>1, <2>1, <3>1 DEF Candidate
    <3>3. candidates'[w] = candidates[w] \/ candidates[w].status # "none"
      BY <1>1, <1>4, <2>1, <2>2 DEF Approves
    <3> QED
      BY <1>3, <1>4, <1>6, <3>2, <3>3 DEF CandidateFits
  <2>6. ASSUME NEW x \in DOMAIN contracts' PROVE Rests(x)'
    <3>1. /\ DOMAIN contracts = 1 .. Len(contracts) /\ Len(contracts) \in Nat
          /\ DOMAIN contracts' = 1 .. Len(contracts) + 1
          /\ \A i \in DOMAIN contracts : contracts'[i] = contracts[i]
          /\ contracts'[Len(contracts) + 1] = c
      BY <1>1, <2>1, <2>4, Stored
    <3>2. CASE x \in DOMAIN contracts
      BY <1>8, <3>1, <3>2
    <3>3. CASE x = Len(contracts) + 1
      <4>1. contracts'[x] = c /\ Evident(prompts', c.basis)
        BY <1>3, <2>2, <2>4, <3>1, <3>3
      <4> QED
        BY <2>2, <2>4, <4>1 DEF Rests
    <3> QED
      BY <3>1, <3>2, <3>3
  <2> QED
    BY <1>5, <1>7, <2>1, <2>5, <2>6, GoesOn
<1>18. ASSUME NEW x \in Wordings, RejectCandidate(x) PROVE EvidenceFits' /\ RestsOnEvidence'
  <2>1. /\ candidates' = [candidates EXCEPT ![x].status = "rejected"]
        /\ candidates[x].status # "none" /\ UNCHANGED <<job, contracts>>
    BY <1>18 DEF RejectCandidate
  <2>2. ASSUME NEW w \in Wordings PROVE CandidateFits(w)'
    <3>1. candidates[w] \in Candidate
      BY <1>1
    <3>2. candidates'[w].proposal = candidates[w].proposal
      BY <1>1, <2>1, <3>1 DEF Candidate
    <3>3. candidates'[w] = candidates[w] \/ candidates[w].status # "none"
      BY <1>1, <2>1
    <3> QED
      BY <1>3, <1>4, <1>6, <3>2, <3>3 DEF CandidateFits
  <2> QED
    BY <1>5, <1>7, <1>8, <2>1, <2>2
<1>19. CASE \/ UNCHANGED vars
            \/ \E u \in Users, w \in Wordings, embedded \in BOOLEAN : Ask(u, w, embedded)
            \/ \E i \in DOMAIN prompts, used \in Footprints : EndRun(i, used)
  BY <1>10, <1>19 DEF vars, Ask, EndRun
<1> QED
  BY <1>11, <1>12, <1>14, <1>15, <1>16, <1>17, <1>18, <1>19 DEF Next

\* Only a detection starts a call of a pass, and only when every pass is idle.
LEMMA OnePassStep == TypeOK /\ EvidenceFits /\ OnePass /\ [Next]_vars => OnePass'
<1> SUFFICES ASSUME TypeOK, EvidenceFits, OnePass, [Next]_vars PROVE OnePass'
  OBVIOUS
<1>1. job \in [Handlers -> Job]
  BY DEF TypeOK, Job
<1>2. ASSUME \A p \in Passes : job'[p].phase # "idle" => job[p].phase # "idle" PROVE OnePass'
  BY <1>2 DEF OnePass
<1>3. ASSUME NEW h \in Handlers, \A g \in Handlers \ {h} : job'[g] = job[g],
             h \in Passes => job[h].phase # "idle"
      PROVE  OnePass'
  BY <1>2, <1>3 DEF Handlers
<1>4. CASE UNCHANGED job
  BY <1>2, <1>4
<1>5. ASSUME NEW h \in Handlers, NEW answered, Detect(h, answered) PROVE OnePass'
  <2>1. \A g \in Handlers \ {h} : job'[g] = job[g]
    BY <1>1, <1>5 DEF Detect
  <2>2. h \in Passes => \A p \in Passes : job[p].phase = "idle"
    BY <1>5 DEF Detect, Queued
  <2>3. CASE h \in Passes
    <3>1. \A p \in Passes \ {h} : job'[p].phase = "idle"
      BY <2>1, <2>2, <2>3 DEF Handlers
    <3> QED
      BY <3>1 DEF OnePass
  <2>4. CASE h \notin Passes
    BY <1>3, <2>1, <2>4
  <2> QED
    BY <2>3, <2>4
<1>6. ASSUME NEW h \in Handlers, StoreCandidates(h) PROVE OnePass'
  <2>1. \A g \in Handlers \ {h} : job'[g] = job[g]
    BY <1>1, <1>6 DEF StoreCandidates
  <2> QED
    BY <1>3, <1>6, <2>1 DEF StoreCandidates
<1>7. ASSUME NEW h \in Handlers, NEW w, job' = Onward(h, w), job[h].phase # "idle" PROVE OnePass'
  BY <1>3, <1>7, GoesOn
<1>8. ASSUME NEW h \in Handlers, NEW w \in Wordings, NEW scope, BeginApprove(h, w, scope),
             h \in Passes => job[h].phase # "idle"
      PROVE  OnePass'
  <2>1. \A g \in Handlers \ {h} : job'[g] = job[g]
    BY <1>1, <1>8 DEF BeginApprove
  <2> QED
    BY <1>3, <1>8, <2>1
<1>9. ASSUME NEW h \in Handlers, NEW w \in Wordings, AutoPromote(h, w) PROVE OnePass'
  BY <1>8, <1>9 DEF AutoPromote
<1>10. ASSUME NEW h \in Handlers, NEW w \in Wordings, NEW scope, ApproveCandidate(h, w, scope)
       PROVE  OnePass'
  BY <1>8, <1>10, PassesAssumption DEF ApproveCandidate
<1>11. ASSUME NEW h \in Handlers, \/ StoreContract(h) \/ CreateAgentFails(h)
                                  \/ \E w \in Wordings : Hold(h, w)
       PROVE  OnePass'
  BY <1>7, <1>11 DEF StoreContract, CreateAgentFails, Hold
<1> QED
  BY <1>4, <1>5, <1>6, <1>9, <1>10, <1>11 DEF Next, vars, Ask, EndRun, RejectCandidate

\* The decisions and the contracts. Each kind of step is seen as what it does to a wording.
LEMMA DecisionsStep ==
  TypeOK /\ EvidenceFits /\ OnePass /\ DecisionsFit /\ [Next]_vars => DecisionsFit'
<1> SUFFICES ASSUME TypeOK, EvidenceFits, OnePass, DecisionsFit, [Next]_vars PROVE DecisionsFit'
  OBVIOUS
<1>1. /\ job \in [Handlers -> Job] /\ candidates \in [Wordings -> Candidate]
      /\ contracts \in Seq(Contract)
  BY DEF TypeOK, Job, Candidate, Contract
<1>2. \A c \in DOMAIN contracts : contracts[c].wording \in Wordings
  <2>1. \A c \in DOMAIN contracts : contracts[c] \in Contract
    BY <1>1, LenProperties, ElementOfSeq
  <2> QED
    BY <2>1 DEF Contract
\* No contract is stored, nothing new is approved and no approval begins.
<1>3. ASSUME UNCHANGED contracts, overlapped' = overlapped,
             \A w \in Wordings : candidates'[w].status = "approved" => candidates[w].status = "approved",
             \A w \in Wordings : Approving(w)' \subseteq Approving(w)
      PROVE  DecisionsFit'
  BY <1>2, <1>3, StatusStep DEF DecisionsFit
<1>4. ASSUME NEW w \in Wordings, \A h \in Handlers : job'[h] = job[h] \/ job'[h].phase # "approving"
      PROVE  Approving(w)' \subseteq Approving(w)
  BY <1>4 DEF Approving
<1>5. CASE UNCHANGED <<candidates, contracts, job, overlapped>>
  BY <1>3, <1>4, <1>5
<1>6. ASSUME NEW h \in Handlers, NEW answered, Detect(h, answered) PROVE DecisionsFit'
  <2> DEFINE J == [Idle EXCEPT !.phase = "detecting", !.found = Propose(prompts')]
  <2>1. job' = [job EXCEPT ![h] = J] /\ UNCHANGED <<candidates, contracts, overlapped>>
    BY <1>6 DEF Detect
  <2>2. J.phase = "detecting"
    BY DEF Idle
  <2> HIDE DEF J
  <2>3. \A g \in Handlers : job'[g] = job[g] \/ job'[g].phase # "approving"
    BY <1>1, <2>1, <2>2
  <2> QED
    BY <1>3, <1>4, <2>1, <2>3
<1>7. ASSUME NEW h \in Handlers, StoreCandidates(h) PROVE DecisionsFit'
  <2> DEFINE found == [w \in Wordings |-> candidates'[w].proposal]
             listed == {w \in Wordings : candidates'[w].status = "pending"}
             R == [Idle EXCEPT !.phase = "reviewing", !.listed = listed, !.found = found]
  <2>1. job' = [job EXCEPT ![h] = Idle] \/ job' = [job EXCEPT ![h] = R]
    BY <1>7 DEF StoreCandidates
  <2> HIDE DEF found, listed
  <2>2. Idle.phase = "idle" /\ R.phase = "reviewing"
    BY DEF Idle
  <2>3. \A g \in Handlers : job'[g] = job[g] \/ job'[g].phase # "approving"
    BY <1>1, <2>1, <2>2
  <2>4. \A w \in Wordings : candidates'[w].status = "approved" => candidates[w].status = "approved"
    BY <1>7 DEF StoreCandidates, Merge
  <2> QED
    BY <1>3, <1>4, <1>7, <2>3, <2>4 DEF StoreCandidates
<1>8. ASSUME NEW h \in Handlers, CreateAgentFails(h) \/ \E w \in Wordings : Hold(h, w)
      PROVE  DecisionsFit'
  <2>1. PICK w : job' = Onward(h, w) /\ UNCHANGED <<candidates, contracts, overlapped>>
    BY <1>8 DEF CreateAgentFails, Hold
  <2>2. \A g \in Handlers : job'[g] = job[g] \/ job'[g].phase # "approving"
    BY <2>1, GoesOn
  <2> QED
    BY <1>3, <1>4, <2>1, <2>2
<1>9. ASSUME NEW x \in Wordings, RejectCandidate(x) PROVE DecisionsFit'
  <2>1. /\ candidates' = [candidates EXCEPT ![x].status = "rejected"]
        /\ UNCHANGED <<job, contracts, overlapped>>
    BY <1>9 DEF RejectCandidate
  <2>2. ASSUME NEW w \in Wordings, candidates'[w].status = "approved"
        PROVE  candidates[w].status = "approved"
    <3>1. candidates[w] \in Candidate /\ candidates[x] \in Candidate
      BY <1>1
    <3>2. candidates'[w] = IF w = x THEN [candidates[x] EXCEPT !.status = "rejected"]
                           ELSE candidates[w]
      BY <1>1, <2>1
    <3> QED
      BY <2>2, <3>1, <3>2 DEF Candidate
  <2> QED
    BY <1>3, <1>4, <2>1, <2>2
\* An approval begins: nobody else's is in progress, unless that is recorded.
<1>10. ASSUME NEW h \in Handlers, NEW w \in Wordings, NEW scope, BeginApprove(h, w, scope),
              job[h].phase # "approving", h \in Passes => job[h].phase # "idle"
       PROVE  DecisionsFit'
  <2>1. /\ candidates[w].status = "pending" /\ UNCHANGED <<candidates, contracts>>
        /\ job'[h].wording = w
    BY <1>10, Begins
  <2>2. \A g \in Handlers \ {h} : job'[g] = job[g]
    BY <1>1, <1>10 DEF BeginApprove
  <2>3. overlapped \subseteq overlapped' /\ overlapped' \subseteq overlapped \cup {w}
    BY <1>10 DEF BeginApprove
  <2>4. ASSUME w \notin overlapped' PROVE Approving(w) = {}
    <3>1. Approving(w) = {} \/ Approving(w) \cup {h} \subseteq Passes
      BY <1>10, <2>4 DEF BeginApprove
    <3>2. ASSUME Approving(w) \cup {h} \subseteq Passes, NEW g \in Approving(w) PROVE FALSE
      <4>1. job[g].phase = "approving"
        BY DEF Approving
      <4>2. g = h
        BY <1>10, <3>2, <4>1 DEF OnePass
      <4> QED
        BY <1>10, <4>1, <4>2
    <3> QED
      BY <3>1, <3>2
  <2>5. Approving(w)' \subseteq Approving(w) \cup {h}
    BY <2>2 DEF Approving
  <2>6. ASSUME NEW x \in Wordings \ {w} PROVE Approving(x)' \subseteq Approving(x)
    BY <2>1, <2>2, <2>6 DEF Approving
  <2>7. \A c \in DOMAIN contracts : contracts[c].wording # w
    BY <2>1 DEF DecisionsFit, Decided
  <2> QED
    BY <2>1, <2>3, <2>4, <2>5, <2>6, <2>7 DEF DecisionsFit
<1>11. ASSUME NEW h \in Handlers, NEW w \in Wordings, AutoPromote(h, w) PROVE DecisionsFit'
  BY <1>10, <1>11 DEF AutoPromote
<1>12. ASSUME NEW h \in Handlers, NEW w \in Wordings, NEW scope, ApproveCandidate(h, w, scope)
       PROVE  DecisionsFit'
  BY <1>10, <1>12, PassesAssumption DEF ApproveCandidate
<1>13. ASSUME NEW h \in Handlers, StoreContract(h) PROVE DecisionsFit'
  <2>0. PICK w : w = job[h].wording
    OBVIOUS
  <2> DEFINE c == [wording |-> w, basis |-> job[h].approving,
                   by |-> IF h \in Passes THEN "pass" ELSE "operator"]
             n == Len(contracts) + 1
  <2>1. /\ job[h].phase = "approving" /\ job' = Onward(h, w) /\ overlapped' = overlapped
        /\ candidates' = [candidates EXCEPT ![w].status = "approved"]
        /\ contracts' = Append(contracts, c)
    BY <1>13, <2>0 DEF StoreContract
  <2>2. w \in Wordings /\ h \in Approving(w)
    BY <2>0, <2>1 DEF EvidenceFits, Approving
  <2>3. c \in Contract /\ c.wording = w
    <3>1. job[h].approving \in Proposals
      BY <1>1 DEF Job
    <3> QED
      BY <2>2, <3>1 DEF Contract
  <2> HIDE DEF c
  <2>4. /\ DOMAIN contracts' = 1 .. n /\ DOMAIN contracts = 1 .. n - 1 /\ n \in Nat \ {0}
        /\ \A i \in DOMAIN contracts : contracts'[i] = contracts[i]
        /\ contracts'[n] = c
    BY <1>1, <2>1, <2>3, Stored
  <2> HIDE DEF n
  <2>5. \A i \in DOMAIN contracts' : i = n \/ i \in DOMAIN contracts
    BY <2>4
  <2>6. n \in DOMAIN contracts' /\ \A i \in DOMAIN contracts : i \in DOMAIN contracts'
    BY <2>4
  <2>7. h \notin Approving(w)' /\ \A x \in Wordings : Approving(x)' \subseteq Approving(x)
    BY <2>1, GoesOn DEF Approving
  <2>8. ASSUME NEW x \in Wordings
        PROVE  /\ x # w => candidates'[x] = candidates[x]
               /\ x = w => candidates'[x].status = "approved"
    <3>1. candidates[x] \in Candidate
      BY <1>1
    <3> QED
      BY <1>1, <2>1, <2>2, <3>1 DEF Candidate
  <2>9. ASSUME NEW x \in Wordings, candidates'[x].status = "approved"
        PROVE  \E i \in DOMAIN contracts' : contracts'[i].wording = x
    <3>1. CASE x = w
      BY <2>3, <2>4, <2>6, <3>1
    <3>2. CASE x # w
      <4>1. PICK i \in DOMAIN contracts : contracts[i].wording = x
        BY <2>8, <2>9, <3>2 DEF DecisionsFit
      <4> QED
        BY <2>4, <2>6, <4>1
    <3> QED
      BY <3>1, <3>2
  <2>10. ASSUME NEW i \in DOMAIN contracts'
         PROVE  candidates'[contracts'[i].wording].status \in Decided
    <3>1. CASE i = n
      BY <2>2, <2>3, <2>4, <2>8, <3>1 DEF Decided
    <3>2. CASE i \in DOMAIN contracts
      BY <1>2, <2>4, <3>2, StatusStep DEF DecisionsFit
    <3> QED
      BY <2>5, <3>1, <3>2
  <2>11. ASSUME NEW x \in Wordings \ overlapped
         PROVE  /\ \A g, k \in Approving(x)' : g = k
                /\ \A k \in Approving(x)', i \in DOMAIN contracts' : contracts'[i].wording # x
                /\ \A i, e \in DOMAIN contracts' :
                     contracts'[i].wording = x /\ contracts'[e].wording = x => i = e
    <3>1. CASE x = w
      <4>1. Approving(w)' = {}
        BY <2>2, <2>7, <3>1 DEF DecisionsFit
      <4>2. \A i \in DOMAIN contracts : contracts'[i].wording # w
        BY <2>2, <2>4, <3>1 DEF DecisionsFit
      <4> QED
        BY <2>5, <3>1, <4>1, <4>2
    <3>2. CASE x # w
      <4>1. \A i \in DOMAIN contracts' : contracts'[i].wording = x =>
               i \in DOMAIN contracts /\ contracts[i].wording = x
        BY <2>3, <2>4, <2>5, <3>2
      <4> QED
        BY <2>7, <4>1 DEF DecisionsFit
    <3> QED
      BY <3>1, <3>2
  <2> QED
    BY <2>1, <2>9, <2>10, <2>11 DEF DecisionsFit
<1> QED
  BY <1>5, <1>6, <1>7, <1>8, <1>9, <1>11, <1>12, <1>13 DEF Next, vars, Ask, EndRun

LEMMA PromotionInit == Init => PromotionInv
<1> SUFFICES ASSUME Init PROVE PromotionInv
  OBVIOUS
<1>1. /\ prompts = <<>> /\ contracts = <<>> /\ overlapped = {} /\ detections = 0
      /\ candidates = [w \in Wordings |-> [status |-> "none", proposal |-> NoProposal]]
      /\ job = [h \in Handlers |-> Idle]
  BY DEF Init
<1>2. DOMAIN prompts = {} /\ DOMAIN contracts = {}
  BY <1>1
<1>3. \A h \in Handlers : job[h] = Idle
  BY <1>1
<1>4. \A w \in Wordings : candidates[w].status = "none"
  BY <1>1
<1>5. TypeOK
  <2>1. prompts \in Seq(Prompt) /\ Len(prompts) = 0 /\ contracts \in Seq(Contract)
    BY <1>1, EmptySeq
  <2>2. job \in [Handlers -> Job]
    BY <1>1, IdleShape
  <2>3. candidates \in [Wordings -> Candidate]
    BY <1>1, IdleShape DEF Candidate
  <2> QED
    BY <1>1, <1>3, <2>1, <2>2, <2>3, IdleShape, BoundsAssumption
       DEF TypeOK, Prompt, Contract, Job, Candidate
<1>6. EvidenceFits
  BY <1>2, <1>3, <1>4, IdleShape DEF EvidenceFits
<1>7. RestsOnEvidence
  BY <1>2 DEF RestsOnEvidence
<1>8. OnePass
  BY <1>3, IdleShape DEF OnePass, Handlers
<1>9. DecisionsFit
  <2>1. \A w \in Wordings : Approving(w) = {}
    BY <1>3, IdleShape DEF Approving
  <2> QED
    BY <1>2, <1>4, <2>1 DEF DecisionsFit
<1> QED
  BY <1>5, <1>6, <1>7, <1>8, <1>9 DEF PromotionInv

\* The inductive invariant: types, the evidence behind everything proposed, approved or
\* stored, one governance pass at a time, and what the decisions say of the contracts.
THEOREM PromotionInvariant == Spec => []PromotionInv
<1>1. PromotionInv /\ [Next]_vars => PromotionInv'
  BY TypeStep, EvidenceStep, OnePassStep, DecisionsStep DEF PromotionInv
<1> QED
  BY <1>1, PromotionInit, PTL DEF Spec

\* Observations, candidates, contracts and calls keep their types (service.ts, scope.ts).
THEOREM TypeCorrect == Spec => []TypeOK
<1>1. PromotionInv => TypeOK
  BY DEF PromotionInv
<1> QED
  BY <1>1, PromotionInvariant, PTL

\* Whatever was observed, embedded, clustered, proposed or edited meanwhile, a contract rests
\* on enough prompts of enough users, its scope was used by their runs, and the governance
\* pass grants no secret (refreshCandidates, deriveScope, clampForAutoGrant).
THEOREM RestsOnEvidenceHolds == Spec => []RestsOnEvidence
<1>1. PromotionInv => RestsOnEvidence
  BY DEF PromotionInv
<1> QED
  BY <1>1, PromotionInvariant, PTL

\* A decided candidate is never reopened, also by a detection that read the store before the
\* decision (refreshCandidates, approveCandidate, rejectCandidate).
THEOREM DecisionsStandHolds == Spec => DecisionsStand
<1>1. PromotionInv /\ [Next]_vars =>
        [\A w \in Wordings :
           candidates[w].status \in Decided => candidates'[w].status \in Decided]_vars
  BY StatusStep DEF PromotionInv
<1> QED
  BY <1>1, PromotionInvariant, PTL DEF Spec, DecisionsStand

\* An approved candidate has its contract, and one only unless an operator's approval has
\* overlapped another; governance passes never store a second (approveCandidate, governancePass).
THEOREM OneContractHolds == Spec => []OneContractPerCandidate
<1>1. ASSUME PromotionInv PROVE OneContractPerCandidate
  <2>1. ASSUME NEW w \in Wordings
        PROVE  LET promoted == {c \in DOMAIN contracts : contracts[c].wording = w}
               IN /\ candidates[w].status = "approved" => promoted # {}
                  /\ w \notin overlapped => Cardinality(promoted) <= 1
    <3> DEFINE promoted == {c \in DOMAIN contracts : contracts[c].wording = w}
    <3>1. candidates[w].status = "approved" => promoted # {}
      BY <1>1 DEF PromotionInv, DecisionsFit
    <3>2. ASSUME w \notin overlapped PROVE Cardinality(promoted) <= 1
      <4>1. \A c, e \in promoted : c = e
        BY <1>1, <3>2 DEF PromotionInv, DecisionsFit
      <4> HIDE DEF promoted
      <4>2. CASE promoted = {}
        BY <4>2, FS_EmptySet
      <4>3. CASE promoted # {}
        <5>1. PICK c : promoted = {c}
          BY <4>1, <4>3
        <5> QED
          BY <5>1, FS_Singleton
      <4> QED
        BY <4>2, <4>3
    <3> QED
      BY <3>1, <3>2
  <2> QED
    BY <2>1 DEF OneContractPerCandidate
<1> QED
  BY <1>1, PromotionInvariant, PTL
=============================================================================
