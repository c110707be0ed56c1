----------------------------- MODULE Contracts -----------------------------
(***************************************************************************)
(* The contract of one promoted task (codify/service.ts, codify/budget.ts) *)
(* from its promotion on: the versions operators and the governance pass   *)
(* write, the turns it governs, the denials that justify a wider scope, the*)
(* corrections that become rules of the specialist's brief, and the run    *)
(* ceiling of its budget.                                                  *)
(*                                                                         *)
(* A version is prepared from a snapshot and stored in a mutation of its   *)
(* own, a brief is written in another; sendMessage routes, checks the      *)
(* budget and admits the run in three steps. Anything may come in between. *)
(***************************************************************************)
EXTENDS Naturals, Sequences, FiniteSets

CONSTANTS Domains,        \* hosts a scope may allow
          Limits,         \* values of budget.maxRuns
          Users,
          MinUsers,       \* codifyMinRefinementUsers
          Turns,          \* calls of sendMessage that the contract governs
          Operators,      \* calls that revise the contract or apply a refinement
          Pass,           \* the governance pass
          MaxVersions     \* bound: versions of the contract

ASSUME PassAssumption == Pass \notin Operators
ASSUME OperatorsAssumption == IsFiniteSet(Operators)
ASSUME LimitsAssumption == Limits \subseteq Nat
ASSUME BoundsAssumption == MinUsers \in Nat \ {0} /\ MaxVersions \in Nat \ {0}

VARIABLES contracts,    \* store: its versions, in the order they were stored
          denials,      \* store: denialEvents, as <<version, domain>>
          corrections,  \* store: feedbackObservations, the users by version
          proposals,    \* store: refinementProposals
          runs,         \* store: the runs whose codify.contractId is a version
          specialist,   \* store: the Agent created at promotion exists
          brief,        \* store: the rules in its instructions
          turn,         \* how far each sendMessage call is
          job,          \* how far each revision or refinement is
          late,         \* history: turns routed at the ceiling, while its runs are kept
          disturbed     \* history: jobs have overlapped, or a brief was refused

vars == <<contracts, denials, corrections, proposals, runs, specialist, brief, turn, job,
          late, disturbed>>
feedback == <<corrections, proposals>>
agent == <<specialist, brief>>

Handlers == Operators \cup {Pass}
Ids == 1 .. MaxVersions
Rules == Ids \X SUBSET Users      \* the rule drafted from these users' corrections
Versions == [parent : 0 .. MaxVersions, scope : SUBSET Domains, limit : Limits,
             rules : SUBSET Rules, status : {"active", "deprecated"}]
NoVersion == [parent |-> 0, scope |-> {}, limit |-> 0, rules |-> {}, status |-> "deprecated"]
Idle == [phase |-> "idle", next |-> NoVersion, rule |-> <<0, {}>>]

TypeOK ==
  /\ contracts \in Seq(Versions) /\ Len(contracts) \in Ids
  /\ \A c \in DOMAIN contracts : contracts[c].parent < c
  /\ denials \subseteq (DOMAIN contracts) \X Domains
  /\ corrections \in [Ids -> SUBSET Users]
  /\ proposals \in [Rules -> {"none", "pending", "applied", "rejected"}]
  /\ runs \subseteq Turns
  /\ specialist \in BOOLEAN
  /\ brief \subseteq Rules
  /\ turn \in [Turns -> [phase : {"idle", "routed", "checked", "running", "over"},
                         version : 0 .. Len(contracts), on : {"specialist", "elsewhere"}]]
  /\ job \in [Handlers -> [phase : {"idle", "revising", "refining", "briefing"},
                           next : Versions \cup {NoVersion},
                           rule : Rules \cup {<<0, {}>>}]]
  /\ late \subseteq Turns
  /\ disturbed \in BOOLEAN

\* approveCandidate has created the specialist and stored the first version.
Init ==
  /\ \E scope \in SUBSET Domains, limit \in Limits :
       contracts = <<[parent |-> 0, scope |-> scope, limit |-> limit, rules |-> {},
                      status |-> "active"]>>
  /\ denials = {} /\ runs = {}
  /\ corrections = [c \in Ids |-> {}]
  /\ proposals = [r \in Rules |-> "none"]
  /\ specialist = TRUE /\ brief = {}
  /\ turn = [t \in Turns |-> [phase |-> "idle", version |-> 0, on |-> "elsewhere"]]
  /\ job = [h \in Handlers |-> Idle]
  /\ late = {} /\ disturbed = FALSE

-----------------------------------------------------------------------------
(* What the actions below decide, each after the slip it could have been.   *)

Active == {c \in DOMAIN contracts : contracts[c].status = "active"}

\* contractLineage: back along supersedes, then forward to everything that
\* supersedes a member.
Ancestry(c) ==
  LET up[i \in 0 .. c] == IF i = 0 THEN {} ELSE {i} \cup up[contracts[i].parent]
  IN up[c]
LineageBackwards(c) == Ancestry(c)
Lineage(c) == {i \in DOMAIN contracts : Ancestry(i) \cap Ancestry(c) # {}}

\* usageForContract, and the run ceiling of checkBudget.
Spent(c) == {t \in runs : turn[t].version \in Lineage(c)}
AtCeiling(c) == Cardinality(Spent(c)) >= contracts[c].limit

\* reviseContract: every domain the scope gains was denied to a run of this version.
JustifiedByAny(c, gained) == \A d \in gained : \E x \in DOMAIN contracts : <<x, d>> \in denials
Justified(c, gained) == \A d \in gained : <<c, d>> \in denials

\* Storing a version: its parent is deprecated, and it is active, whatever has
\* become of the parent meanwhile.
SupersedeForRest(next) ==   \* what the parent has left, not the ceiling of the task
  Append([contracts EXCEPT ![next.parent].status = "deprecated"],
         [next EXCEPT !.limit = @ - Cardinality(Spent(next.parent))])
SupersedeCopying(next) ==   \* the status copied from the parent it has just deprecated
  Append([contracts EXCEPT ![next.parent].status = "deprecated"],
         [next EXCEPT !.status = "deprecated"])
Supersede(next) ==
  Append([contracts EXCEPT ![next.parent].status = "deprecated"], next)

\* applyRefinement: the brief is composed of the rules with the new one.
BriefWithout(h) == job[h].next.rules \ {job[h].rule}
BriefOf(h) == job[h].next.rules

\* Any turn the specialist runs is bound to its contract.
SpecialistBusy == \E t \in Turns : turn[t].phase = "running" /\ turn[t].on = "specialist"

InProgress == {h \in Handlers : job[h].phase # "idle"}
Room == Len(contracts)
          + Cardinality({h \in Handlers : job[h].phase \in {"revising", "refining"}}) < MaxVersions

-----------------------------------------------------------------------------
\* The turn is routed to an active version, or is the specialist's own.
Route(t) ==
  /\ turn[t].phase = "idle"
  /\ \E c \in Active :
       /\ turn' = [turn EXCEPT ![t] = [@ EXCEPT !.phase = "routed", !.version = c]]
       /\ late' = IF Cardinality(runs) >= contracts[c].limit THEN late \cup {t} ELSE late
  /\ UNCHANGED <<contracts, denials, feedback, runs, agent, job, disturbed>>

\* enforceBudget on a snapshot; then the turn is delegated to the specialist if it
\* is there and ready, and stays where it was typed otherwise.
CheckBudget(t) ==
  /\ turn[t].phase = "routed" /\ ~AtCeiling(turn[t].version)
  /\ \E on \in {"elsewhere"} \cup (IF specialist THEN {"specialist"} ELSE {}) :
       turn' = [turn EXCEPT ![t] = [@ EXCEPT !.phase = "checked", !.on = on]]
  /\ UNCHANGED <<contracts, denials, feedback, runs, agent, job, late, disturbed>>

RefuseOverBudget(t) ==
  /\ turn[t].phase = "routed" /\ AtCeiling(turn[t].version)
  /\ turn' = [turn EXCEPT ![t].phase = "over"]
  /\ UNCHANGED <<contracts, denials, feedback, runs, agent, job, late, disturbed>>

\* The admission mutation does not look at the budget again.
Admit(t) ==
  /\ turn[t].phase = "checked"
  /\ turn[t].on = "specialist" => specialist
  /\ runs' = runs \cup {t}
  /\ turn' = [turn EXCEPT ![t].phase = "running"]
  /\ UNCHANGED <<contracts, denials, feedback, agent, job, late, disturbed>>

\* The admission is refused (AgentLifecycle), or the request is split instead.
NotAdmitted(t) ==
  /\ turn[t].phase = "checked"
  /\ turn' = [turn EXCEPT ![t].phase = "over"]
  /\ UNCHANGED <<contracts, denials, feedback, runs, agent, job, late, disturbed>>

\* recordRunEvidence: the broker has refused hosts outside the scope the run had.
EndRun(t) ==
  LET c == turn[t].version
  IN /\ turn[t].phase = "running"
     /\ \E refused \in SUBSET (Domains \ contracts[c].scope) :
          denials' = denials \cup ({c} \X refused)
     /\ turn' = [turn EXCEPT ![t].phase = "over"]
     /\ UNCHANGED <<contracts, feedback, runs, agent, job, late, disturbed>>

\* captureFeedback: a follow-up counts for the version of a run that has ended.
Correct(u, c) ==
  /\ \E t \in runs : turn[t].version = c /\ turn[t].phase = "over"
  /\ u \notin corrections[c]
  /\ corrections' = [corrections EXCEPT ![c] = @ \cup {u}]
  /\ UNCHANGED <<contracts, denials, proposals, runs, agent, turn, job, late, disturbed>>

\* refreshRefinements: a cluster of enough users becomes a proposal, once.
ProposeRefinement(c) ==
  /\ c \in Active
  /\ Cardinality(corrections[c]) >= MinUsers
  /\ proposals[<<c, corrections[c]>>] = "none"
  /\ proposals' = [proposals EXCEPT ![<<c, corrections[c]>>] = "pending"]
  /\ UNCHANGED <<contracts, denials, corrections, runs, agent, turn, job, late, disturbed>>

\* rejectRefinement: unconditional, also after the proposal was applied.
RejectRefinement(r) ==
  /\ proposals[r] \in {"pending", "applied"}
  /\ proposals' = [proposals EXCEPT ![r] = "rejected"]
  /\ UNCHANGED <<contracts, denials, corrections, runs, agent, turn, job, late, disturbed>>

-----------------------------------------------------------------------------
Begin(h, phase, next, rule) ==
  /\ job[h].phase = "idle" /\ Room
  /\ job' = [job EXCEPT ![h] = [phase |-> phase, next |-> next, rule |-> rule]]
  /\ disturbed' = (disturbed \/ InProgress # {})
  /\ UNCHANGED <<contracts, denials, feedback, runs, agent, turn, late>>

\* reviseContract: only an active version, and any narrower scope.
BeginRevise(h, c, scope, limit) ==
  /\ c \in Active
  /\ Justified(c, scope \ contracts[c].scope)
  /\ Begin(h, "revising",
           [contracts[c] EXCEPT !.parent = c, !.scope = scope, !.limit = limit], <<0, {}>>)

\* applyRefinement: only a pending proposal of an active version.
BeginRefine(h, r) ==
  /\ proposals[r] = "pending"
  /\ r[1] \in Active
  /\ Begin(h, "refining",
           [contracts[r[1]] EXCEPT !.parent = r[1], !.rules = @ \cup {r}], r)

WriteVersion(h) ==
  /\ job[h].phase \in {"revising", "refining"}
  /\ contracts' = Supersede(job[h].next)
  /\ IF job[h].phase = "refining"
     THEN /\ proposals' = [proposals EXCEPT ![job[h].rule] = "applied"]
          /\ job' = [job EXCEPT ![h].phase = "briefing"]
     ELSE /\ job' = [job EXCEPT ![h] = Idle]
          /\ UNCHANGED proposals
  /\ UNCHANGED <<denials, corrections, runs, agent, turn, late, disturbed>>

\* applyBriefToAgent for the pass, updateAgent for an operator.
WriteBrief(h) ==
  /\ job[h].phase = "briefing"
  /\ specialist /\ (h = Pass \/ ~SpecialistBusy)
  /\ brief' = BriefOf(h)
  /\ job' = [job EXCEPT ![h] = Idle]
  /\ UNCHANGED <<contracts, denials, feedback, runs, specialist, turn, late, disturbed>>

\* 404, or 409 for an operator: the version stays, the brief is not written.
BriefRefused(h) ==
  /\ job[h].phase = "briefing"
  /\ ~specialist \/ (h # Pass /\ SpecialistBusy)
  /\ job' = [job EXCEPT ![h] = Idle]
  /\ disturbed' = TRUE
  /\ UNCHANGED <<contracts, denials, feedback, runs, agent, turn, late>>

\* deleteAgent: the specialist goes with its runs, its contracts stay as records.
DeleteSpecialist ==
  /\ specialist
  /\ specialist' = FALSE
  /\ contracts' = [c \in DOMAIN contracts |-> [contracts[c] EXCEPT !.status = "deprecated"]]
  /\ runs' = {t \in runs : turn[t].on # "specialist"}
  /\ UNCHANGED <<denials, feedback, brief, turn, job, late, disturbed>>

\* deleteAgent of a conversation's Agent: the runs that stayed there go with it, and
\* no longer count for the budget.
DeleteConversation ==
  \E gone \in SUBSET {t \in runs : turn[t].on = "elsewhere"} :
    /\ gone # {}
    /\ runs' = runs \ gone
    /\ late' = {}
    /\ UNCHANGED <<contracts, denials, feedback, agent, turn, job, disturbed>>

TurnStep(t) ==
  \/ Route(t) \/ CheckBudget(t) \/ RefuseOverBudget(t)
  \/ Admit(t) \/ NotAdmitted(t) \/ EndRun(t)

JobStep(h) ==
  \/ \E c \in DOMAIN contracts, scope \in SUBSET Domains, limit \in Limits :
       h # Pass /\ BeginRevise(h, c, scope, limit)
  \/ \E r \in Rules : BeginRefine(h, r)
  \/ WriteVersion(h) \/ WriteBrief(h) \/ BriefRefused(h)

Next ==
  \/ \E t \in Turns : TurnStep(t)
  \/ \E c \in DOMAIN contracts : ProposeRefinement(c) \/ \E u \in Users : Correct(u, c)
  \/ \E r \in Rules : RejectRefinement(r)
  \/ \E h \in Handlers : JobStep(h)
  \/ DeleteSpecialist \/ DeleteConversation

Spec == Init /\ [][Next]_vars

-----------------------------------------------------------------------------
\* A permission is never added without a run of the version it is added to having
\* been denied it, however revisions and refinements overlap.
WideningNeedsDenial ==
  \A c \in DOMAIN contracts :
    LET parent == contracts[c].parent
    IN parent # 0 =>
         \A d \in contracts[c].scope \ contracts[parent].scope : <<parent, d>> \in denials

\* Revising a contract buys no budget: a turn routed when the task had used up its
\* ceiling is not admitted, whichever version it was routed to and whatever is
\* revised meanwhile, as long as no conversation is deleted with runs of the task.
SpentStaysSpent == specialist => late \cap runs = {}

\* As long as its specialist is there a task is governed by some active version,
\* also when two revisions of the same version overlap.
GovernedUnlessDeleted == specialist => Active # {}

\* When versions are written one at a time and no brief is refused, there is one
\* active version and the specialist's brief holds its rules.
VersionsInStep ==
  specialist /\ ~disturbed /\ InProgress = {} =>
    \E c \in Active : Active = {c} /\ brief = contracts[c].rules

-----------------------------------------------------------------------------
\* "Concurrent starts cannot both slip under a run ceiling" (budget.ts:92): a run
\* is admitted only below the ceiling of the version that governs it.
RunCeiling ==
  [][\A t \in runs' \ runs : Cardinality(runs) < contracts[turn[t].version].limit]_vars
=============================================================================
