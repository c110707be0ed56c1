----------------------------- MODULE Promotion -----------------------------
(***************************************************************************)
(* How an observed task becomes a contract (codify/service.ts and scope.ts,*)
(* clusterByMatch in semantic.ts): prompts are observed, clustered and     *)
(* proposed as candidates; a candidate is approved by an operator, or by   *)
(* the governance pass after a review, and its specialist and contract are *)
(* created.                                                                *)
(*                                                                         *)
(* Any number of browsers start a detection of their own next to the pass, *)
(* and an approval waits for the model that drafts the brief and for the   *)
(* new Agent between reading the candidate and storing the contract. The   *)
(* prompts are wordings of one task: the lexical channels match a wording  *)
(* with itself, the semantic one any two observations that are embedded.   *)
(***************************************************************************)
EXTENDS Naturals, Sequences, FiniteSets

CONSTANTS Users, Wordings, NoWording,
          Grants,          \* hosts, paths and secrets a scope may hold
          Secrets,
          GrantSecrets,    \* codifyAutoGrantSecrets
          Footprints,      \* what one run may turn out to use
          MinOccurrences,  \* codifyMinOccurrences
          MinUsers,        \* codifyMinDistinctUsers
          Operators,
          Passes,          \* runs whose evidence starts a governance pass
          MaxPrompts,      \* bound: observations
          MaxDetections    \* bound: detections, by the pass and by operators

ASSUME PassesAssumption == Operators \cap Passes = {}
ASSUME NoWordingAssumption == NoWording \notin Wordings
ASSUME SecretsAssumption == Secrets \subseteq Grants /\ GrantSecrets \in BOOLEAN
ASSUME FootprintsAssumption == Footprints \subseteq SUBSET Grants
ASSUME BoundsAssumption ==
  /\ MinOccurrences \in Nat \ {0} /\ MinUsers \in Nat \ {0}
  /\ MaxPrompts \in Nat /\ MaxDetections \in Nat

VARIABLES prompts,     \* store: promptObservations, each with the evidence of its run
          candidates,  \* store: by clusterKey, which is the wording of the seed
          contracts,   \* store: the contracts promoted from them
          job,         \* the detections and approvals in progress
          overlapped,  \* history: an operator's approval overlapped another of the candidate
          detections

vars == <<prompts, candidates, contracts, job, overlapped, detections>>

Handlers == Operators \cup Passes
Runs == 1 .. MaxPrompts
Proposals == [runs : SUBSET Runs, scope : SUBSET Grants]
NoProposal == [runs |-> {}, scope |-> {}]
Decided == {"approved", "rejected"}

\* A job is detecting (found holds its proposals), or approving what it has read of
\* one candidate; the pass reviews the candidates it listed one after the other.
Idle == [phase |-> "idle", found |-> [w \in Wordings |-> NoProposal], listed |-> {},
         wording |-> NoWording, approving |-> NoProposal]

TypeOK ==
  /\ prompts \in Seq([user : Users, wording : Wordings, embedded : BOOLEAN,
                      over : BOOLEAN, used : SUBSET Grants])
  /\ Len(prompts) <= MaxPrompts
  /\ candidates \in [Wordings -> [status : {"none", "pending"} \cup Decided,
                                  proposal : Proposals]]
  /\ contracts \in Seq([wording : Wordings, basis : Proposals, by : {"operator", "pass"}])
  /\ job \in [Handlers -> [phase : {"idle", "detecting", "reviewing", "approving"},
                           found : [Wordings -> Proposals], listed : SUBSET Wordings,
                           wording : Wordings \cup {NoWording}, approving : Proposals]]
  \* Only a pass lists candidates, and it reviews for as long as there is one on its list.
  /\ \A h \in Handlers : /\ job[h].listed # {} => h \in Passes
                         /\ job[h].phase = "reviewing" => job[h].listed # {}
  /\ overlapped \subseteq Wordings
  /\ detections \in 0 .. MaxDetections

Init ==
  /\ prompts = <<>> /\ contracts = <<>> /\ overlapped = {} /\ detections = 0
  /\ candidates = [w \in Wordings |-> [status |-> "none", proposal |-> NoProposal]]
  /\ job = [h \in Handlers |-> Idle]

-----------------------------------------------------------------------------
(* Detection, each rule after the slip it could have been.                  *)

\* matchAgainst: any channel is enough.
Match(x, y) == x.wording = y.wording \/ (x.embedded /\ y.embedded)

\* clusterByMatch, seed linkage: a prompt joins the oldest cluster whose first
\* member matches it, and starts one of its own otherwise.
SeedOf(ps) ==
  LET seed[i \in DOMAIN ps] ==
        LET matching == {s \in 1 .. i - 1 : seed[s] = s /\ Match(ps[s], ps[i])}
        IN IF matching = {} THEN i ELSE CHOOSE s \in matching : \A x \in matching : s <= x
  IN seed
Cluster(ps, seed, s) == {i \in DOMAIN ps : seed[i] = s}

\* deriveScope: what half of the runs that left evidence have used.
DeriveWithout(ps, runs) == Grants
DeriveScope(ps, runs) ==
  LET ended == {i \in runs : ps[i].over}
  IN {g \in Grants : LET using == {i \in ended : g \in ps[i].used}
                     IN using # {} /\ 2 * Cardinality(using) >= Cardinality(ended)}

\* Both thresholds of refreshCandidates.
ClearsByCount(ps, runs) == Cardinality(runs) >= MinOccurrences
Clears(ps, runs) ==
  /\ Cardinality(runs) >= MinOccurrences
  /\ Cardinality({ps[i].user : i \in runs}) >= MinUsers

Propose(ps) ==
  LET seed == SeedOf(ps)
  IN [w \in Wordings |->
        LET seeds == {s \in DOMAIN ps : /\ seed[s] = s /\ ps[s].wording = w
                                        /\ Clears(ps, Cluster(ps, seed, s))}
        IN IF seeds = {} THEN NoProposal
           ELSE LET runs == Cluster(ps, seed, CHOOSE s \in seeds : TRUE)
                IN [runs |-> runs, scope |-> DeriveScope(ps, runs)]]

\* The mutation: a decided candidate is left as it is.
MergeAfresh(candidate, proposal) ==
  IF proposal.runs = {} THEN candidate
  ELSE [status |-> "pending", proposal |-> proposal]
Merge(candidate, proposal) ==
  IF proposal.runs = {} \/ candidate.status \in Decided THEN candidate
  ELSE [status |-> "pending", proposal |-> proposal]

\* clampForAutoGrant.
Withheld == IF GrantSecrets THEN {} ELSE Secrets
ClampForAutoGrant(scope) == scope \ Withheld

\* approveCandidate's 400 and its 409, on the candidate as it is now.
Narrows(w, scope) == scope \subseteq candidates[w].proposal.scope
ApprovableAnew(w, scope) == candidates[w].status # "none" /\ Narrows(w, scope)
Approvable(w, scope) == candidates[w].status = "pending" /\ Narrows(w, scope)

\* governancePass: a pass begins when the one before it has ended.
NotQueued(h) == TRUE
Queued(h) == h \in Passes => \A p \in Passes : job[p].phase = "idle"

Approving(w) == {h \in Handlers : job[h].phase = "approving" /\ job[h].wording = w}

\* A pass goes on with the next candidate it has listed, an operator's call is over.
OnwardToEnd(h, w) ==
  [job EXCEPT ![h] = [Idle EXCEPT !.phase = "reviewing", !.found = job[h].found,
                                  !.listed = job[h].listed \ {w}]]
Onward(h, w) ==
  [job EXCEPT ![h] = IF @.listed \subseteq {w} THEN Idle
                     ELSE [Idle EXCEPT !.phase = "reviewing", !.found = job[h].found,
                                       !.listed = job[h].listed \ {w}]]

-----------------------------------------------------------------------------
\* recordPromptObservation: before the turn is routed, and whatever becomes of it;
\* the embedding endpoint may have failed.
Ask(u, w, embedded) ==
  /\ Len(prompts) < MaxPrompts
  /\ prompts' = Append(prompts, [user |-> u, wording |-> w, embedded |-> embedded,
                                 over |-> FALSE, used |-> {}])
  /\ UNCHANGED <<candidates, contracts, job, overlapped, detections>>

\* recordRunEvidence.
EndRun(i, used) ==
  /\ ~prompts[i].over
  /\ prompts' = [prompts EXCEPT ![i].over = TRUE, ![i].used = used]
  /\ UNCHANGED <<candidates, contracts, job, overlapped, detections>>

\* backfillEmbeddings as far as the endpoint answers, then refreshCandidates on a
\* snapshot, for a governance pass or an operator's page.
Detect(h, answered) ==
  /\ job[h].phase = "idle" /\ Queued(h) /\ detections < MaxDetections
  /\ prompts' = [i \in DOMAIN prompts |->
                   [prompts[i] EXCEPT !.embedded = @ \/ i \in answered]]
  /\ job' = [job EXCEPT ![h] = [Idle EXCEPT !.phase = "detecting", !.found = Propose(prompts')]]
  /\ detections' = detections + 1
  /\ UNCHANGED <<candidates, contracts, overlapped>>

\* refreshCandidates' mutation; the pass then lists what autoPromote will review.
StoreCandidates(h) ==
  /\ job[h].phase = "detecting"
  /\ candidates' = [w \in Wordings |-> Merge(candidates[w], job[h].found[w])]
  /\ LET listed == {w \in Wordings : candidates'[w].status = "pending"}
     IN job' = [job EXCEPT ![h] =
                  IF h \notin Passes \/ listed = {} THEN Idle
                  ELSE [Idle EXCEPT !.phase = "reviewing", !.listed = listed,
                          !.found = [w \in Wordings |-> candidates'[w].proposal]]]
  /\ UNCHANGED <<prompts, contracts, overlapped, detections>>

\* reviewScope holds a candidate back, or approving it is refused.
Hold(h, w) ==
  /\ job[h].phase = "reviewing" /\ w \in job[h].listed
  /\ job' = Onward(h, w)
  /\ UNCHANGED <<prompts, candidates, contracts, overlapped, detections>>

BeginApprove(h, w, scope) ==
  /\ Approvable(w, scope)
  /\ job' = [job EXCEPT ![h] = [@ EXCEPT !.phase = "approving", !.wording = w,
               !.approving = [runs |-> candidates[w].proposal.runs, scope |-> scope]]]
  /\ overlapped' = IF Approving(w) \cup {h} \subseteq Passes \/ Approving(w) = {}
                   THEN overlapped ELSE overlapped \cup {w}
  /\ UNCHANGED <<prompts, candidates, contracts, detections>>

\* The scope of the snapshot that was reviewed, clamped.
AutoPromote(h, w) ==
  /\ job[h].phase = "reviewing" /\ w \in job[h].listed
  /\ BeginApprove(h, w, ClampForAutoGrant(job[h].found[w].scope))

\* POST /candidates/:id/approve, with any scope the operator sends.
ApproveCandidate(h, w, scope) ==
  /\ h \in Operators /\ job[h].phase = "idle"
  /\ BeginApprove(h, w, scope)

\* The brief is drafted, the specialist created: the mutation does not look at the
\* candidate's status again.
StoreContract(h) ==
  LET w == job[h].wording
  IN /\ job[h].phase = "approving"
     /\ candidates' = [candidates EXCEPT ![w].status = "approved"]
     /\ contracts' = Append(contracts, [wording |-> w, basis |-> job[h].approving,
                                        by |-> IF h \in Passes THEN "pass" ELSE "operator"])
     /\ job' = Onward(h, w)
     /\ UNCHANGED <<prompts, overlapped, detections>>

\* createAgent throws: the candidate is left for the next pass.
CreateAgentFails(h) ==
  /\ job[h].phase = "approving"
  /\ job' = Onward(h, job[h].wording)
  /\ UNCHANGED <<prompts, candidates, contracts, overlapped, detections>>

\* rejectCandidate: unconditional, also while or after it is approved.
RejectCandidate(w) ==
  /\ candidates[w].status \in {"pending", "approved"}
  /\ candidates' = [candidates EXCEPT ![w].status = "rejected"]
  /\ UNCHANGED <<prompts, contracts, job, overlapped, detections>>

Next ==
  \/ \E u \in Users, w \in Wordings, embedded \in BOOLEAN : Ask(u, w, embedded)
  \/ \E i \in DOMAIN prompts, used \in Footprints : EndRun(i, used)
  \/ \E h \in Handlers :
       \/ \E answered \in SUBSET {i \in DOMAIN prompts : ~prompts[i].embedded} : Detect(h, answered)
       \/ StoreCandidates(h) \/ StoreContract(h) \/ CreateAgentFails(h)
       \/ \E w \in Wordings :
            \/ Hold(h, w) \/ AutoPromote(h, w)
            \/ \E scope \in SUBSET Grants : ApproveCandidate(h, w, scope)
  \/ \E w \in Wordings : RejectCandidate(w)

Spec == Init /\ [][Next]_vars

-----------------------------------------------------------------------------
\* Every standing permission rests on enough prompts of enough users and was used by
\* one of the runs it is derived from, and the pass grants no secret unless it is configured
\* to, whatever was observed, embedded, proposed or edited while it was being approved.
RestsOnEvidence ==
  \A c \in DOMAIN contracts :
    LET basis == contracts[c].basis
    IN /\ basis.runs \subseteq DOMAIN prompts
       /\ Cardinality(basis.runs) >= MinOccurrences
       /\ Cardinality({prompts[i].user : i \in basis.runs}) >= MinUsers
       /\ basis.scope \subseteq UNION {prompts[i].used : i \in basis.runs}
       /\ contracts[c].by = "pass" => basis.scope \cap Withheld = {}

\* "A decided candidate is never silently reopened" (service.ts:1084), also by a
\* detection that read the store before the decision.
DecisionsStand ==
  [][\A w \in Wordings :
       candidates[w].status \in Decided => candidates'[w].status \in Decided]_vars

\* A candidate that is approved has its contract, and only one unless an operator
\* and someone else were approving it together; governance passes never do.
OneContractPerCandidate ==
  \A w \in Wordings :
    LET promoted == {c \in DOMAIN contracts : contracts[c].wording = w}
    IN /\ candidates[w].status = "approved" => promoted # {}
       /\ w \notin overlapped => Cardinality(promoted) <= 1
=============================================================================
