-------------------------- MODULE ContractsProofs --------------------------
(***************************************************************************)
(* What Contracts keeps for every number of turns, users, operators, hosts *)
(* and versions.                                                           *)
(***************************************************************************)
EXTENDS Contracts, SequenceTheorems, FiniteSetTheorems, WellFoundedInduction, TLAPS

\* The calls that have a version to store, for which Room keeps a place.
Writing == {h \in Handlers : job[h].phase \in {"revising", "refining"}}

\* What a call carries from its snapshot to its mutation: a version that follows one
\* that is stored, and the evidence for every host it adds.
JobsFit ==
  \A h \in Writing :
    LET next == job[h].next
    IN /\ next \in Versions /\ next.status = "active"
       /\ next.parent \in DOMAIN contracts
       /\ \A d \in next.scope \ contracts[next.parent].scope : <<next.parent, d>> \in denials

RulesFit == \A h \in Handlers : job[h].phase = "refining" => job[h].rule \in Rules

RoomKept == Len(contracts) + Cardinality(Writing) <= MaxVersions

TurnsFit == \A t \in Turns : turn[t].phase # "idle" => turn[t].version \in DOMAIN contracts

TypeInv == TypeOK /\ TurnsFit /\ JobsFit /\ RulesFit /\ RoomKept

\* What storing a version does to the versions that are there.
LEMMA SupersedeKeeps ==
  ASSUME contracts \in Seq(Versions), NEW next \in Versions, next.parent \in DOMAIN contracts
  PROVE  /\ Supersede(next) \in Seq(Versions)
         /\ Len(Supersede(next)) = Len(contracts) + 1
         /\ DOMAIN Supersede(next) = DOMAIN contracts \cup {Len(contracts) + 1}
         /\ Supersede(next)[Len(contracts) + 1] = next
         /\ \A c \in DOMAIN contracts :
              Supersede(next)[c] = IF c = next.parent
                                   THEN [contracts[c] EXCEPT !.status = "deprecated"]
                                   ELSE contracts[c]
<1> DEFINE retired == [contracts[next.parent] EXCEPT !.status = "deprecated"]
           kept == [contracts EXCEPT ![next.parent] = retired]
<1>1. DOMAIN contracts = 1 .. Len(contracts) /\ Len(contracts) \in Nat
  BY LenProperties
<1>2. contracts[next.parent] \in Versions
  BY <1>1, ElementOfSeq
<1>3. retired \in Versions
  BY <1>2 DEF Versions
<1>4. /\ kept \in Seq(Versions)
      /\ Len(kept) = Len(contracts)
      /\ \A j \in 1 .. Len(contracts) : kept[j] = IF j = next.parent THEN retired ELSE contracts[j]
  BY <1>1, <1>3, ExceptSeq
<1>5. Supersede(next) = Append(kept, next)
  BY DEF Supersede
<1> HIDE DEF kept, retired
<1>6. /\ Append(kept, next) \in Seq(Versions)
      /\ Len(Append(kept, next)) = Len(kept) + 1
      /\ \A i \in 1 .. Len(kept) : Append(kept, next)[i] = kept[i]
      /\ Append(kept, next)[Len(kept) + 1] = next
  BY <1>4, AppendProperties
<1>7. DOMAIN Append(kept, next) = 1 .. Len(kept) + 1
  BY <1>6, LenProperties
<1> QED
  BY <1>1, <1>4, <1>5, <1>6, <1>7 DEF retired

\* The version a revision is about to store.
LEMMA RevisedType ==
  ASSUME NEW v \in Versions, NEW p \in Ids, NEW scope \in SUBSET Domains, NEW limit \in Limits
  PROVE  [v EXCEPT !.parent = p, !.scope = scope, !.limit = limit] \in Versions
<1>1. p \in 0 .. MaxVersions
  BY BoundsAssumption DEF Ids
<1> QED
  BY <1>1 DEF Versions

\* The version a refinement is about to store.
LEMMA RefinedType ==
  ASSUME NEW v \in Versions, NEW p \in Ids, NEW r \in Rules
  PROVE  [v EXCEPT !.parent = p, !.rules = @ \cup {r}] \in Versions
<1>1. p \in 0 .. MaxVersions
  BY BoundsAssumption DEF Ids
<1> HIDE DEF Rules
<1> QED
  BY <1>1 DEF Versions

\* What deleting the specialist does to them.
LEMMA RetireKeeps ==
  ASSUME contracts \in Seq(Versions),
         contracts' = [c \in DOMAIN contracts |-> [contracts[c] EXCEPT !.status = "deprecated"]]
  PROVE  /\ contracts' \in Seq(Versions)
         /\ Len(contracts') = Len(contracts)
         /\ DOMAIN contracts' = DOMAIN contracts
<1>1. DOMAIN contracts = 1 .. Len(contracts) /\ Len(contracts) \in Nat
  BY LenProperties
<1>2. ASSUME NEW c \in DOMAIN contracts
      PROVE  [contracts[c] EXCEPT !.status = "deprecated"] \in Versions
  <2>1. contracts[c] \in Versions
    BY <1>1, ElementOfSeq
  <2> QED
    BY <2>1 DEF Versions
<1>3. contracts' \in [1 .. Len(contracts) -> Versions]
  BY <1>1, <1>2
<1> QED
  BY <1>1, <1>3

\* The calls in progress are finitely many.
LEMMA WritingFinite == IsFiniteSet(Handlers) /\ IsFiniteSet(Writing)
<1>1. IsFiniteSet(Handlers)
  BY OperatorsAssumption, FS_AddElement DEF Handlers
<1> QED
  BY <1>1, FS_Subset DEF Writing

\* The promotion's first version has the types.
LEMMA TypeInit == Init => TypeInv
<1> SUFFICES ASSUME Init PROVE TypeInv
  OBVIOUS
<1>1. PICK scope \in SUBSET Domains, limit \in Limits :
        contracts = <<[parent |-> 0, scope |-> scope, limit |-> limit, rules |-> {},
                       status |-> "active"]>>
  BY DEF Init
<1>2. [parent |-> 0, scope |-> scope, limit |-> limit, rules |-> {}, status |-> "active"]
        \in Versions
  BY BoundsAssumption DEF Versions
<1>3. contracts \in Seq(Versions) /\ Len(contracts) = 1 /\ DOMAIN contracts = {1}
  BY <1>1, <1>2
<1>4. Writing = {}
  BY DEF Init, Writing, Idle
<1>5. TypeOK
  <2>1. /\ Len(contracts) \in Ids
        /\ \A c \in DOMAIN contracts : contracts[c].parent < c
    BY <1>1, <1>3, BoundsAssumption DEF Ids
  <2>2. turn \in [Turns -> [phase : {"idle", "routed", "checked", "running", "over"},
                           version : 0 .. Len(contracts), on : {"specialist", "elsewhere"}]]
    BY <1>3 DEF Init
  <2>3. job \in [Handlers -> [phase : {"idle", "revising", "refining", "briefing"},
                             next : Versions \cup {NoVersion},
                             rule : Rules \cup {<<0, {}>>}]]
    BY DEF Init, Idle
  <2> QED
    BY <1>3, <2>1, <2>2, <2>3 DEF Init, TypeOK
<1>6. TurnsFit /\ JobsFit /\ RulesFit
  BY <1>4 DEF TurnsFit, JobsFit, RulesFit, Init, Idle
<1>7. RoomKept
  BY <1>3, <1>4, FS_EmptySet, BoundsAssumption DEF RoomKept
<1> QED
  BY <1>5, <1>6, <1>7 DEF TypeInv

\* The types.
LEMMA TypeStep == TypeInv /\ [Next]_vars => TypeOK'
<1> SUFFICES ASSUME TypeInv, [Next]_vars PROVE TypeOK'
  OBVIOUS
<1>0. DOMAIN contracts = 1 .. Len(contracts) /\ Len(contracts) \in Nat
  BY LenProperties DEF TypeInv, TypeOK
<1>D. DOMAIN contracts \subseteq Ids
  BY <1>0, BoundsAssumption DEF TypeInv, TypeOK, Ids
<1>V. \A c \in DOMAIN contracts : contracts[c] \in Versions
  BY <1>0, ElementOfSeq DEF TypeInv, TypeOK
<1> DEFINE TurnRecords(n) == [phase : {"idle", "routed", "checked", "running", "over"},
                              version : 0 .. n, on : {"specialist", "elsewhere"}]
           JobRecords == [phase : {"idle", "revising", "refining", "briefing"},
                          next : Versions \cup {NoVersion}, rule : Rules \cup {<<0, {}>>}]
<1>T. turn \in [Turns -> TurnRecords(Len(contracts))] /\ job \in [Handlers -> JobRecords]
  BY DEF TypeInv, TypeOK
<1>I. Idle \in JobRecords
  BY DEF Idle
<1>1. CASE UNCHANGED vars
  BY <1>1 DEF vars, feedback, agent, TypeInv, TypeOK
<1>2. ASSUME NEW t \in Turns, Route(t) PROVE TypeOK'
  <2>1. PICK c \in DOMAIN contracts :
          turn' = [turn EXCEPT ![t] = [@ EXCEPT !.phase = "routed", !.version = c]]
    BY <1>2 DEF Route, Active
  <2>2. [turn[t] EXCEPT !.phase = "routed", !.version = c] \in TurnRecords(Len(contracts))
    <3>1. c \in 0 .. Len(contracts)
      BY <1>0
    <3>2. turn[t] \in TurnRecords(Len(contracts))
      BY <1>T
    <3> DEFINE n == Len(contracts)
    <3> HIDE DEF n
    <3>3. c \in 0 .. n /\ turn[t] \in TurnRecords(n)
      BY <3>1, <3>2 DEF n
    <3>4. [turn[t] EXCEPT !.phase = "routed", !.version = c] \in TurnRecords(n)
      BY <3>3
    <3> QED
      BY <3>4 DEF n
  <2>3. turn' \in [Turns -> TurnRecords(Len(contracts))]
    BY <1>T, <2>1, <2>2
  <2> QED
    BY <1>2, <2>3 DEF Route, feedback, agent, TypeInv, TypeOK
<1>3. ASSUME NEW t \in Turns, CheckBudget(t) PROVE TypeOK'
  <2>1. PICK on \in {"elsewhere", "specialist"} :
          turn' = [turn EXCEPT ![t] = [@ EXCEPT !.phase = "checked", !.on = on]]
    BY <1>3 DEF CheckBudget
  <2>2. [turn[t] EXCEPT !.phase = "checked", !.on = on] \in TurnRecords(Len(contracts))
    BY <1>T
  <2>3. turn' \in [Turns -> TurnRecords(Len(contracts))]
    BY <1>T, <2>1, <2>2
  <2> QED
    BY <1>3, <2>3 DEF CheckBudget, feedback, agent, TypeInv, TypeOK
<1>4. ASSUME NEW t \in Turns, RefuseOverBudget(t) PROVE TypeOK'
  <2>1. turn' \in [Turns -> TurnRecords(Len(contracts))]
    BY <1>4, <1>T DEF RefuseOverBudget
  <2> QED
    BY <1>4, <2>1 DEF RefuseOverBudget, feedback, agent, TypeInv, TypeOK
<1>5. ASSUME NEW t \in Turns, Admit(t) PROVE TypeOK'
  <2>1. turn' \in [Turns -> TurnRecords(Len(contracts))]
    BY <1>5, <1>T DEF Admit
  <2> QED
    BY <1>5, <2>1 DEF Admit, feedback, agent, TypeInv, TypeOK
<1>6. ASSUME NEW t \in Turns, NotAdmitted(t) PROVE TypeOK'
  <2>1. turn' \in [Turns -> TurnRecords(Len(contracts))]
    BY <1>6, <1>T DEF NotAdmitted
  <2> QED
    BY <1>6, <2>1 DEF NotAdmitted, feedback, agent, TypeInv, TypeOK
<1>7. ASSUME NEW t \in Turns, EndRun(t) PROVE TypeOK'
  <2>1. turn' \in [Turns -> TurnRecords(Len(contracts))]
    BY <1>7, <1>T DEF EndRun
  <2>2. turn[t].version \in DOMAIN contracts
    BY <1>7 DEF EndRun, TypeInv, TurnsFit
  <2>3. denials' \subseteq (DOMAIN contracts) \X Domains
    BY <1>7, <2>2 DEF EndRun, TypeInv, TypeOK
  <2> QED
    BY <1>7, <2>1, <2>3 DEF EndRun, feedback, agent, TypeInv, TypeOK
<1>8. ASSUME NEW u \in Users, NEW c \in DOMAIN contracts, Correct(u, c) PROVE TypeOK'
  BY <1>8 DEF Correct, agent, TypeInv, TypeOK
<1>9. ASSUME NEW c \in DOMAIN contracts, ProposeRefinement(c) PROVE TypeOK'
  BY <1>9 DEF ProposeRefinement, agent, TypeInv, TypeOK
<1>10. ASSUME NEW r \in Rules, RejectRefinement(r) PROVE TypeOK'
  BY <1>10 DEF RejectRefinement, agent, TypeInv, TypeOK
<1>11. ASSUME NEW h \in Handlers, NEW c \in DOMAIN contracts, NEW scope \in SUBSET Domains,
              NEW limit \in Limits, BeginRevise(h, c, scope, limit)
       PROVE  TypeOK'
  <2>1. [contracts[c] EXCEPT !.parent = c, !.scope = scope, !.limit = limit] \in Versions
    BY <1>V, <1>D, RevisedType
  <2>2. job' \in [Handlers -> JobRecords]
    BY <1>11, <1>T, <2>1 DEF BeginRevise, Begin
  <2> QED
    BY <1>11, <2>2 DEF BeginRevise, Begin, feedback, agent, TypeInv, TypeOK
<1>12. ASSUME NEW h \in Handlers, NEW r \in Rules, BeginRefine(h, r) PROVE TypeOK'
  <2>1. r[1] \in DOMAIN contracts
    BY <1>12 DEF BeginRefine, Active
  <2>2. [contracts[r[1]] EXCEPT !.parent = r[1], !.rules = @ \cup {r}] \in Versions
    BY <1>V, <1>D, <2>1, RefinedType
  <2>3. job' \in [Handlers -> JobRecords]
    BY <1>12, <1>T, <2>2 DEF BeginRefine, Begin
  <2> QED
    BY <1>12, <2>3 DEF BeginRefine, Begin, feedback, agent, TypeInv, TypeOK
<1>13. ASSUME NEW h \in Handlers, WriteVersion(h) PROVE TypeOK'
  <2> DEFINE next == job[h].next
  <2>1. next \in Versions /\ next.parent \in DOMAIN contracts
    BY <1>13 DEF WriteVersion, TypeInv, JobsFit, Writing
  <2>2. /\ contracts' \in Seq(Versions)
        /\ Len(contracts') = Len(contracts) + 1
        /\ DOMAIN contracts' = DOMAIN contracts \cup {Len(contracts) + 1}
        /\ contracts'[Len(contracts) + 1] = next
        /\ \A c \in DOMAIN contracts : contracts'[c].parent = contracts[c].parent
    <3>1. contracts' = Supersede(next)
      BY <1>13 DEF WriteVersion
    <3>2. \A c \in DOMAIN contracts : [contracts[c] EXCEPT !.status = "deprecated"].parent
                                       = contracts[c].parent
      BY <1>V DEF Versions
    <3>3. contracts \in Seq(Versions)
      BY DEF TypeInv, TypeOK
    <3> QED
      BY <2>1, <3>1, <3>2, <3>3, SupersedeKeeps
  <2>3. Len(contracts') \in Ids
    <3>1. h \in Writing
      BY <1>13 DEF WriteVersion, Writing
    <3>2. Cardinality(Writing) \in Nat /\ Cardinality(Writing) # 0
      BY <3>1, WritingFinite, FS_CardinalityType, FS_EmptySet
    <3> QED
      BY <1>0, <2>2, <3>2, BoundsAssumption DEF TypeInv, RoomKept, Ids
  <2>4. \A c \in DOMAIN contracts' : contracts'[c].parent < c
    BY <1>0, <2>1, <2>2 DEF TypeInv, TypeOK
  <2>5. turn' \in [Turns -> TurnRecords(Len(contracts'))]
    BY <1>13, <1>0, <1>T, <2>2 DEF WriteVersion
  <2>6. job' \in [Handlers -> JobRecords]
    BY <1>13, <1>T, <1>I DEF WriteVersion
  <2>7. proposals' \in [Rules -> {"none", "pending", "applied", "rejected"}]
    BY <1>13 DEF WriteVersion, TypeInv, TypeOK
  <2> HIDE DEF next
  <2> QED
    BY <1>13, <2>2, <2>3, <2>4, <2>5, <2>6, <2>7 DEF WriteVersion, agent, TypeInv, TypeOK
<1>14. ASSUME NEW h \in Handlers, WriteBrief(h) PROVE TypeOK'
  <2>1. job' \in [Handlers -> JobRecords]
    BY <1>14, <1>T, <1>I DEF WriteBrief
  <2>2. job[h].next \in Versions \cup {NoVersion}
    BY <1>T
  <2>3. brief' \subseteq Rules
    BY <1>14, <2>2 DEF WriteBrief, BriefOf, Versions, NoVersion
  <2> QED
    BY <1>14, <2>1, <2>3 DEF WriteBrief, feedback, TypeInv, TypeOK
<1>15. ASSUME NEW h \in Handlers, BriefRefused(h) PROVE TypeOK'
  <2>1. job' \in [Handlers -> JobRecords]
    BY <1>15, <1>T, <1>I DEF BriefRefused
  <2> QED
    BY <1>15, <2>1 DEF BriefRefused, feedback, agent, TypeInv, TypeOK
<1>16. ASSUME DeleteSpecialist PROVE TypeOK'
  <2>1. /\ contracts' \in Seq(Versions)
        /\ Len(contracts') = Len(contracts)
        /\ DOMAIN contracts' = DOMAIN contracts
    BY <1>16, RetireKeeps DEF DeleteSpecialist, TypeInv, TypeOK
  <2>2. \A c \in DOMAIN contracts' : contracts'[c].parent = contracts[c].parent
    BY <1>16, <1>V, <2>1 DEF DeleteSpecialist, Versions
  <2> QED
    BY <1>16, <2>1, <2>2 DEF DeleteSpecialist, feedback, TypeInv, TypeOK
<1>17. ASSUME DeleteConversation PROVE TypeOK'
  BY <1>17 DEF DeleteConversation, feedback, agent, TypeInv, TypeOK
<1> HIDE DEF TurnRecords, JobRecords
<1> QED
  BY <1>1, <1>2, <1>3, <1>4, <1>5, <1>6, <1>7, <1>8, <1>9, <1>10, <1>11, <1>12, <1>13, <1>14,
     <1>15, <1>16, <1>17
     DEF Next, TurnStep, JobStep

\* The steps that neither write a version nor a brief nor advance a call.
Quiet == /\ UNCHANGED <<contracts, job, specialist, brief, disturbed>>
         /\ denials \subseteq denials'

\* Every step is quiet, or one that writes a version, a brief or a call's progress.
LEMMA QuietSteps ==
  ASSUME [Next]_vars
  PROVE  \/ Quiet
         \/ \E h \in Handlers, c \in DOMAIN contracts, scope \in SUBSET Domains, limit \in Limits :
              BeginRevise(h, c, scope, limit)
         \/ \E h \in Handlers, r \in Rules : BeginRefine(h, r)
         \/ \E h \in Handlers : WriteVersion(h) \/ WriteBrief(h) \/ BriefRefused(h)
         \/ DeleteSpecialist
<1> USE DEF Quiet, agent
<1>1. CASE UNCHANGED vars
  BY <1>1 DEF vars
<1>2. ASSUME NEW t \in Turns, TurnStep(t) PROVE Quiet
  BY <1>2 DEF TurnStep, Route, CheckBudget, RefuseOverBudget, Admit, NotAdmitted, EndRun
<1>3. ASSUME NEW c \in DOMAIN contracts, NEW u \in Users, ProposeRefinement(c) \/ Correct(u, c)
      PROVE  Quiet
  BY <1>3 DEF ProposeRefinement, Correct
<1>4. ASSUME NEW c \in DOMAIN contracts, ProposeRefinement(c) PROVE Quiet
  BY <1>4 DEF ProposeRefinement
<1>5. ASSUME NEW r \in Rules, RejectRefinement(r) PROVE Quiet
  BY <1>5 DEF RejectRefinement
<1>6. ASSUME DeleteConversation PROVE Quiet
  BY <1>6 DEF DeleteConversation
<1> HIDE DEF Quiet
<1> QED
  BY <1>1, <1>2, <1>3, <1>4, <1>5, <1>6 DEF Next, JobStep

\* A turn that has been routed keeps a version that is stored.
LEMMA TurnsFitStep == TypeInv /\ [Next]_vars => TurnsFit'
<1> SUFFICES ASSUME TypeInv, [Next]_vars, NEW t \in Turns, (turn[t].phase # "idle")'
             PROVE  (turn[t].version \in DOMAIN contracts)'
  BY DEF TurnsFit
<1>1. DOMAIN contracts \subseteq DOMAIN contracts'
  <2>1. CASE UNCHANGED contracts
    BY <2>1
  <2>2. ASSUME NEW h \in Handlers, WriteVersion(h) PROVE DOMAIN contracts \subseteq DOMAIN contracts'
    BY <2>2, SupersedeKeeps DEF WriteVersion, TypeInv, TypeOK, JobsFit, Writing
  <2>3. ASSUME DeleteSpecialist PROVE DOMAIN contracts \subseteq DOMAIN contracts'
    BY <2>3, RetireKeeps DEF DeleteSpecialist, TypeInv, TypeOK
  <2> QED
    BY <2>1, <2>2, <2>3, QuietSteps
       DEF Quiet, BeginRevise, BeginRefine, Begin, WriteBrief, BriefRefused, agent
<1>2. turn[t].phase # "idle" => turn[t].version \in DOMAIN contracts
  BY DEF TypeInv, TurnsFit
<1>3. CASE turn' = turn
  BY <1>1, <1>2, <1>3
<1>4. ASSUME NEW x \in Turns, TurnStep(x) PROVE (turn[t].version \in DOMAIN contracts)'
  <2>1. turn \in [Turns -> [phase : {"idle", "routed", "checked", "running", "over"},
                           version : 0 .. Len(contracts), on : {"specialist", "elsewhere"}]]
    BY DEF TypeInv, TypeOK
  <2>2. CASE Route(x)
    BY <1>1, <1>2, <2>1, <2>2 DEF Route, Active
  <2>3. CASE turn[x].phase # "idle" /\ turn'[t].version = turn[t].version
             /\ (t = x \/ turn'[t] = turn[t])
    BY <1>1, <1>2, <2>3
  <2>4. CASE CheckBudget(x)
    BY <2>1, <2>3, <2>4 DEF CheckBudget
  <2>5. CASE RefuseOverBudget(x) \/ Admit(x) \/ NotAdmitted(x) \/ EndRun(x)
    BY <2>1, <2>3, <2>5 DEF RefuseOverBudget, Admit, NotAdmitted, EndRun
  <2> QED
    BY <1>4, <2>2, <2>4, <2>5 DEF TurnStep
<1> QED
  BY <1>3, <1>4
     DEF Next, JobStep, vars, Correct, ProposeRefinement, RejectRefinement, BeginRevise,
         BeginRefine, Begin, WriteVersion, WriteBrief, BriefRefused, DeleteSpecialist,
         DeleteConversation, agent

\* What the calls carry stays right: versions are never removed, never change but
\* for their status, and denials only grow.
LEMMA JobsFitStep == TypeInv /\ [Next]_vars => JobsFit' /\ RulesFit'
<1> SUFFICES ASSUME TypeInv, [Next]_vars PROVE JobsFit' /\ RulesFit'
  OBVIOUS
<1> DEFINE Fits(next) ==
             /\ next \in Versions /\ next.status = "active"
             /\ next.parent \in DOMAIN contracts
             /\ \A d \in next.scope \ contracts[next.parent].scope : <<next.parent, d>> \in denials
<1>0. DOMAIN contracts = 1 .. Len(contracts) /\ Len(contracts) \in Nat
  BY LenProperties DEF TypeInv, TypeOK
<1>V. /\ \A c \in DOMAIN contracts : contracts[c] \in Versions
      /\ DOMAIN contracts \subseteq Ids
  BY <1>0, ElementOfSeq, BoundsAssumption DEF TypeInv, TypeOK, Ids
<1>J. job \in [Handlers -> [phase : {"idle", "revising", "refining", "briefing"},
                           next : Versions \cup {NoVersion}, rule : Rules \cup {<<0, {}>>}]]
  BY DEF TypeInv, TypeOK
<1>F. \A h \in Writing : Fits(job[h].next)
  BY DEF TypeInv, JobsFit
<1>1. ASSUME DOMAIN contracts \subseteq DOMAIN contracts', denials \subseteq denials',
             \A c \in DOMAIN contracts : contracts'[c].scope = contracts[c].scope,
             NEW next, Fits(next)
      PROVE  Fits(next)'
  BY <1>1
<1>2. ASSUME UNCHANGED contracts, denials \subseteq denials'
      PROVE  /\ DOMAIN contracts \subseteq DOMAIN contracts'
             /\ \A c \in DOMAIN contracts : contracts'[c].scope = contracts[c].scope
  BY <1>2
<1>3. CASE Quiet
  BY <1>1, <1>2, <1>3, <1>F DEF Quiet, JobsFit, RulesFit, Writing, TypeInv
<1>4. ASSUME NEW h \in Handlers, NEW c \in DOMAIN contracts, NEW scope \in SUBSET Domains,
             NEW limit \in Limits, BeginRevise(h, c, scope, limit)
      PROVE  JobsFit' /\ RulesFit'
  <2> DEFINE next == [contracts[c] EXCEPT !.parent = c, !.scope = scope, !.limit = limit]
  <2>1. next \in Versions
    BY <1>V, RevisedType
  <2>2. next.status = "active" /\ next.parent = c /\ next.scope = scope
    BY <1>V, <1>4 DEF BeginRevise, Active, Versions
  <2>3. Fits(next)
    BY <1>4, <2>1, <2>2 DEF BeginRevise, Justified
  <2>4. /\ job' = [job EXCEPT ![h] = [phase |-> "revising", next |-> next, rule |-> <<0, {}>>]]
        /\ UNCHANGED <<contracts, denials>>
    BY <1>4 DEF BeginRevise, Begin
  <2> HIDE DEF next, Fits
  <2>5. ASSUME NEW k \in Writing' PROVE Fits(job'[k].next)
    BY <1>F, <1>J, <2>3, <2>4 DEF Writing
  <2>6. RulesFit'
    BY <1>J, <2>4 DEF RulesFit, TypeInv
  <2> USE DEF Fits
  <2> QED
    BY <2>4, <2>5, <2>6 DEF JobsFit
<1>5. ASSUME NEW h \in Handlers, NEW r \in Rules, BeginRefine(h, r)
      PROVE  JobsFit' /\ RulesFit'
  <2> DEFINE c == r[1]
             next == [contracts[c] EXCEPT !.parent = c, !.rules = @ \cup {r}]
  <2>0. c \in DOMAIN contracts
    BY <1>5 DEF BeginRefine, Active
  <2>1. next \in Versions
    BY <1>V, <2>0, RefinedType
  <2>2. next.status = "active" /\ next.parent = c /\ next.scope = contracts[c].scope
    BY <1>V, <1>5, <2>0 DEF BeginRefine, Active, Versions
  <2>3. Fits(next)
    BY <2>0, <2>1, <2>2
  <2>4. /\ job' = [job EXCEPT ![h] = [phase |-> "refining", next |-> next, rule |-> r]]
        /\ UNCHANGED <<contracts, denials>>
    BY <1>5 DEF BeginRefine, Begin
  <2> HIDE DEF next, Fits
  <2>5. ASSUME NEW k \in Writing' PROVE Fits(job'[k].next)
    BY <1>F, <1>J, <2>3, <2>4 DEF Writing
  <2>6. RulesFit'
    BY <1>J, <2>4 DEF RulesFit, TypeInv
  <2> USE DEF Fits
  <2> QED
    BY <2>4, <2>5, <2>6 DEF JobsFit
<1>6. ASSUME NEW h \in Handlers, WriteVersion(h) PROVE JobsFit' /\ RulesFit'
  <2>1. job[h].next \in Versions /\ job[h].next.parent \in DOMAIN contracts
    BY <1>6, <1>F DEF WriteVersion, Writing
  <2>2. /\ DOMAIN contracts \subseteq DOMAIN contracts'
        /\ \A c \in DOMAIN contracts : contracts'[c].scope = contracts[c].scope
        /\ denials' = denials
    <3>1. contracts \in Seq(Versions)
      BY DEF TypeInv, TypeOK
    <3>2. \A c \in DOMAIN contracts : [contracts[c] EXCEPT !.status = "deprecated"].scope
                                       = contracts[c].scope
      BY <1>V DEF Versions
    <3>3. contracts' = Supersede(job[h].next) /\ denials' = denials
      BY <1>6 DEF WriteVersion
    <3> DEFINE next == job[h].next
    <3> HIDE DEF next
    <3>4. /\ DOMAIN Supersede(next) = DOMAIN contracts \cup {Len(contracts) + 1}
          /\ \A c \in DOMAIN contracts :
               Supersede(next)[c] = IF c = next.parent
                                    THEN [contracts[c] EXCEPT !.status = "deprecated"]
                                    ELSE contracts[c]
      BY <2>1, <3>1, SupersedeKeeps DEF next
    <3>5. \A c \in DOMAIN contracts : Supersede(next)[c].scope = contracts[c].scope
      BY <3>2, <3>4
    <3> QED
      BY <3>3, <3>4, <3>5 DEF next
  <2>3. /\ job'[h].phase \in {"idle", "briefing"}
        /\ \A k \in Handlers \ {h} : job'[k] = job[k]
    BY <1>6, <1>J DEF WriteVersion, Idle
  <2>4. \A k \in Writing' : k \in Writing /\ job'[k] = job[k]
    BY <2>3 DEF Writing
  <2> QED
    BY <1>1, <1>F, <2>2, <2>3, <2>4 DEF JobsFit, RulesFit, TypeInv
<1>7. ASSUME NEW h \in Handlers, WriteBrief(h) \/ BriefRefused(h) PROVE JobsFit' /\ RulesFit'
  <2>1. /\ job' = [job EXCEPT ![h] = Idle]
        /\ UNCHANGED <<contracts, denials>>
    BY <1>7 DEF WriteBrief, BriefRefused
  <2>2. \A k \in Writing' : k \in Writing /\ job'[k] = job[k]
    BY <1>J, <2>1 DEF Writing, Idle
  <2>3. RulesFit'
    BY <1>J, <2>1 DEF RulesFit, TypeInv, Idle
  <2> QED
    BY <1>F, <2>1, <2>2, <2>3 DEF JobsFit
<1>8. ASSUME DeleteSpecialist PROVE JobsFit' /\ RulesFit'
  <2>1. /\ DOMAIN contracts \subseteq DOMAIN contracts'
        /\ \A c \in DOMAIN contracts : contracts'[c].scope = contracts[c].scope
        /\ UNCHANGED <<job, denials>>
    BY <1>8, <1>V DEF DeleteSpecialist, Versions
  <2> QED
    BY <1>1, <1>F, <2>1 DEF JobsFit, RulesFit, Writing, TypeInv
<1> QED
  BY <1>3, <1>4, <1>5, <1>6, <1>7, <1>8, QuietSteps

\* Room counts the calls that will store a version, so there is a place for each.
LEMMA RoomKeptStep == TypeInv /\ [Next]_vars => RoomKept'
<1> SUFFICES ASSUME TypeInv, [Next]_vars PROVE RoomKept'
  OBVIOUS
<1>0. Len(contracts) \in Nat
  BY LenProperties DEF TypeInv, TypeOK
<1>C. IsFiniteSet(Writing) /\ Cardinality(Writing) \in Nat
  BY WritingFinite, FS_CardinalityType
<1>R. Len(contracts) + Cardinality(Writing) <= MaxVersions /\ MaxVersions \in Nat
  BY BoundsAssumption DEF TypeInv, RoomKept
<1>J. job \in [Handlers -> [phase : {"idle", "revising", "refining", "briefing"},
                           next : Versions \cup {NoVersion}, rule : Rules \cup {<<0, {}>>}]]
  BY DEF TypeInv, TypeOK
<1>1. CASE Writing' = Writing /\ Len(contracts') = Len(contracts)
  BY <1>1, <1>R DEF RoomKept
<1>2. CASE Quiet
  BY <1>1, <1>2 DEF Quiet, Writing
<1>3. ASSUME NEW h \in Handlers, NEW phase, NEW next, NEW rule, Begin(h, phase, next, rule),
             phase \in {"revising", "refining"}
      PROVE  RoomKept'
  <2>1. Writing' = Writing \cup {h} /\ h \notin Writing
    BY <1>3, <1>J DEF Begin, Writing
  <2>2. Cardinality(Writing') = Cardinality(Writing) + 1
    BY <2>1, <1>C, FS_AddElement
  <2>3. Len(contracts) + Cardinality(Writing) < MaxVersions
    BY <1>3 DEF Begin, Room, Writing
  <2>4. contracts' = contracts
    BY <1>3 DEF Begin
  <2> QED
    BY <2>2, <2>3, <2>4, <1>0, <1>C, <1>R DEF RoomKept
<1>4. ASSUME NEW h \in Handlers, WriteVersion(h) PROVE RoomKept'
  <2>1. Writing' = Writing \ {h} /\ h \in Writing
    BY <1>4, <1>J DEF WriteVersion, Writing, Idle
  <2>2. Cardinality(Writing') = Cardinality(Writing) - 1
    BY <2>1, <1>C, FS_RemoveElement
  <2>3. Len(contracts') = Len(contracts) + 1
    BY <1>4, <2>1, SupersedeKeeps DEF WriteVersion, TypeInv, TypeOK, JobsFit
  <2> QED
    BY <2>2, <2>3, <1>0, <1>C, <1>R DEF RoomKept
<1>5. ASSUME NEW h \in Handlers, WriteBrief(h) \/ BriefRefused(h) PROVE RoomKept'
  BY <1>1, <1>5, <1>J DEF WriteBrief, BriefRefused, Writing, Idle
<1>6. ASSUME DeleteSpecialist PROVE RoomKept'
  BY <1>1, <1>6, RetireKeeps DEF DeleteSpecialist, Writing, TypeInv, TypeOK
<1> QED
  BY <1>2, <1>3, <1>4, <1>5, <1>6, QuietSteps DEF BeginRevise, BeginRefine

\* Together the parts are inductive.
LEMMA TypeInvHolds == Spec => []TypeInv
<1>1. TypeInv /\ [Next]_vars => TypeInv'
  BY TypeStep, TurnsFitStep, JobsFitStep, RoomKeptStep DEF TypeInv
<1> QED
  BY <1>1, TypeInit, PTL DEF Spec

\* Every variable keeps its type, and the bound on versions is never exceeded.
THEOREM TypeCorrect == Spec => []TypeOK
<1>1. TypeInv => TypeOK
  BY DEF TypeInv
<1> QED
  BY <1>1, TypeInvHolds, PTL

-----------------------------------------------------------------------------
\* A step leaves the versions that are stored as they are, but for their status, and
\* what has been denied stays denied.
LEMMA HistoryStays ==
  ASSUME TypeInv, [Next]_vars
  PROVE  /\ DOMAIN contracts \subseteq DOMAIN contracts'
         /\ denials \subseteq denials'
         /\ \A c \in DOMAIN contracts : /\ contracts'[c].parent = contracts[c].parent
                                       /\ contracts'[c].scope = contracts[c].scope
                                       /\ contracts'[c].limit = contracts[c].limit
                                       /\ contracts'[c].rules = contracts[c].rules
<1>V. \A c \in DOMAIN contracts : contracts[c] \in Versions
  BY LenProperties, ElementOfSeq DEF TypeInv, TypeOK
<1>1. CASE UNCHANGED contracts /\ denials \subseteq denials'
  BY <1>1
<1>2. ASSUME NEW h \in Handlers, WriteVersion(h)
      PROVE  /\ DOMAIN contracts \subseteq DOMAIN contracts'
             /\ \A c \in DOMAIN contracts :
                  contracts'[c] = IF c = job[h].next.parent
                                  THEN [contracts[c] EXCEPT !.status = "deprecated"]
                                  ELSE contracts[c]
             /\ denials' = denials
  <2> DEFINE next == job[h].next
  <2>1. next \in Versions /\ next.parent \in DOMAIN contracts /\ contracts \in Seq(Versions)
    BY <1>2 DEF WriteVersion, TypeInv, TypeOK, JobsFit, Writing
  <2>2. contracts' = Supersede(next) /\ denials' = denials
    BY <1>2 DEF WriteVersion
  <2> HIDE DEF next
  <2>3. /\ DOMAIN Supersede(next) = DOMAIN contracts \cup {Len(contracts) + 1}
        /\ \A c \in DOMAIN contracts :
             Supersede(next)[c] = IF c = next.parent
                                  THEN [contracts[c] EXCEPT !.status = "deprecated"]
                                  ELSE contracts[c]
    BY <2>1, SupersedeKeeps
  <2> QED
    BY <2>2, <2>3 DEF next
<1>3. ASSUME NEW c \in DOMAIN contracts
      PROVE  LET retired == [contracts[c] EXCEPT !.status = "deprecated"]
             IN /\ retired.parent = contracts[c].parent
                /\ retired.scope = contracts[c].scope
                /\ retired.limit = contracts[c].limit
                /\ retired.rules = contracts[c].rules
  BY <1>V DEF Versions
<1>4. CASE DeleteSpecialist
  <2>1. /\ contracts' = [c \in DOMAIN contracts |-> [contracts[c] EXCEPT !.status = "deprecated"]]
        /\ denials' = denials
    BY <1>4 DEF DeleteSpecialist
  <2> QED
    BY <1>3, <2>1
<1>5. CASE \E h \in Handlers : WriteVersion(h)
  BY <1>2, <1>3, <1>5
<1> QED
  BY <1>1, <1>4, <1>5, QuietSteps
     DEF Quiet, BeginRevise, BeginRefine, Begin, WriteBrief, BriefRefused

\* Widening: a step adds at most one version, and the call that stores it has carried
\* the evidence since it read the parent.
LEMMA WideningStep == TypeInv /\ WideningNeedsDenial /\ [Next]_vars => WideningNeedsDenial'
<1> SUFFICES ASSUME TypeInv, WideningNeedsDenial, [Next]_vars, NEW c \in DOMAIN contracts',
                    contracts'[c].parent # 0,
                    NEW d \in contracts'[c].scope \ contracts'[contracts'[c].parent].scope
             PROVE  <<contracts'[c].parent, d>> \in denials'
  BY DEF WideningNeedsDenial
<1>0. DOMAIN contracts = 1 .. Len(contracts) /\ Len(contracts) \in Nat
  BY LenProperties DEF TypeInv, TypeOK
<1>1. CASE c \in DOMAIN contracts
  <2>1. contracts[c].parent < c /\ contracts[c].parent \in Nat
    <3>1. contracts[c] \in Versions
      BY <1>0, <1>1, ElementOfSeq DEF TypeInv, TypeOK
    <3>2. contracts[c].parent \in Nat
      BY <3>1, BoundsAssumption DEF Versions
    <3> QED
      BY <1>1, <3>2 DEF TypeInv, TypeOK
  <2>2. contracts'[c].parent = contracts[c].parent
    BY <1>1, HistoryStays
  <2>3. contracts[c].parent \in DOMAIN contracts
    BY <1>0, <1>1, <2>1, <2>2
  <2>4. d \in contracts[c].scope \ contracts[contracts[c].parent].scope
    BY <1>1, <2>2, <2>3, HistoryStays
  <2> QED
    BY <1>1, <2>2, <2>4, HistoryStays DEF WideningNeedsDenial
<1>2. CASE c \notin DOMAIN contracts
  <2>1. PICK h \in Handlers : WriteVersion(h)
    BY <1>2, QuietSteps, RetireKeeps
       DEF Quiet, BeginRevise, BeginRefine, Begin, WriteBrief, BriefRefused, DeleteSpecialist,
           TypeInv, TypeOK
  <2> DEFINE next == job[h].next
  <2>2. /\ next \in Versions /\ next.parent \in DOMAIN contracts
        /\ \A x \in next.scope \ contracts[next.parent].scope : <<next.parent, x>> \in denials
    BY <2>1 DEF WriteVersion, TypeInv, JobsFit, Writing
  <2>3. contracts'[c] = next
    BY <1>2, <2>1, <2>2, SupersedeKeeps DEF WriteVersion, TypeInv, TypeOK
  <2>4. contracts'[next.parent].scope = contracts[next.parent].scope /\ denials \subseteq denials'
    BY <2>2, HistoryStays
  <2> HIDE DEF next
  <2> QED
    BY <2>2, <2>3, <2>4
<1> QED
  BY <1>1, <1>2

\* A scope is only ever widened by a host that a run of the version it comes from was
\* denied, for any number of overlapping revisions and refinements.
THEOREM WideningHolds == Spec => []WideningNeedsDenial
<1>1. Init => WideningNeedsDenial
  BY DEF Init, WideningNeedsDenial
<1> QED
  BY <1>1, WideningStep, TypeInvHolds, PTL DEF Spec

\* What is stored last is active, so the specialist's task is never left ungoverned.
LEMMA GovernedStep == TypeInv /\ GovernedUnlessDeleted /\ [Next]_vars => GovernedUnlessDeleted'
<1> SUFFICES ASSUME TypeInv, GovernedUnlessDeleted, [Next]_vars, specialist'
             PROVE  Active' # {}
  BY DEF GovernedUnlessDeleted
<1>1. CASE UNCHANGED <<contracts, specialist>>
  BY <1>1 DEF GovernedUnlessDeleted, Active
<1>2. ASSUME NEW h \in Handlers, WriteVersion(h) PROVE Active' # {}
  <2>1. /\ job[h].next \in Versions /\ job[h].next.parent \in DOMAIN contracts
        /\ job[h].next.status = "active"
    BY <1>2 DEF WriteVersion, TypeInv, JobsFit, Writing
  <2>2. /\ Len(contracts) + 1 \in DOMAIN contracts'
        /\ contracts'[Len(contracts) + 1] = job[h].next
    BY <1>2, <2>1, SupersedeKeeps DEF WriteVersion, TypeInv, TypeOK
  <2> QED
    BY <2>1, <2>2 DEF Active
<1> QED
  BY <1>1, <1>2, QuietSteps
     DEF Quiet, BeginRevise, BeginRefine, Begin, WriteBrief, BriefRefused, DeleteSpecialist,
         agent

\* While its specialist is there, a task has a version in force.
THEOREM GovernedHolds == Spec => []GovernedUnlessDeleted
<1>1. Init => GovernedUnlessDeleted
  BY DEF Init, GovernedUnlessDeleted, Active
<1> QED
  BY <1>1, GovernedStep, TypeInvHolds, PTL DEF Spec

-----------------------------------------------------------------------------
\* While no jobs have overlapped there is at most one, and what it carries follows
\* from the version in force and the brief as they are.
Lone == \A h, k \in InProgress : h = k

InForce(c) == Active = {c} /\ brief = contracts[c].rules

Calm ==
  /\ InProgress = {} => \E c \in Active : InForce(c)
  /\ \A h \in Handlers :
       LET next == job[h].next
       IN /\ job[h].phase = "revising" => InForce(next.parent) /\ next.rules = brief
          /\ job[h].phase = "refining" => Active = {next.parent}
          /\ job[h].phase = "briefing" =>
               Active = {Len(contracts)} /\ contracts[Len(contracts)].rules = next.rules

InStepInv == ~disturbed => Lone /\ (specialist => Calm)

\* It holds after the promotion ...
LEMMA InStepInit == Init => InStepInv
<1> SUFFICES ASSUME Init PROVE Lone /\ Calm
  BY DEF InStepInv
<1>1. \A h \in Handlers : job[h].phase = "idle"
  BY DEF Init, Idle
<1>2. Active = {1} /\ contracts[1].rules = {} /\ brief = {}
  BY DEF Init, Active
<1> QED
  BY <1>1, <1>2 DEF Lone, Calm, InForce, InProgress

\* Storing a version puts it in force in its parent's stead.
LEMMA StoredInForce ==
  ASSUME TypeInv, NEW h \in Handlers, WriteVersion(h), Active = {job[h].next.parent}
  PROVE  /\ Active' = {Len(contracts')}
         /\ contracts'[Len(contracts')].rules = job[h].next.rules
<1> DEFINE next == job[h].next
           new == Len(contracts) + 1
<1>1. /\ next \in Versions /\ next.parent \in DOMAIN contracts /\ next.status = "active"
      /\ contracts \in Seq(Versions)
  BY DEF WriteVersion, TypeInv, TypeOK, JobsFit, Writing
<1>2. contracts' = Supersede(next) /\ Active = {next.parent}
  BY DEF WriteVersion
<1> HIDE DEF next
<1>3. /\ Len(contracts') = new /\ DOMAIN contracts' = DOMAIN contracts \cup {new}
      /\ contracts'[new] = next
      /\ \A c \in DOMAIN contracts :
           contracts'[c] = IF c = next.parent
                           THEN [contracts[c] EXCEPT !.status = "deprecated"]
                           ELSE contracts[c]
  BY <1>1, <1>2, SupersedeKeeps
<1>4. contracts[next.parent] \in Versions
  BY <1>1, ElementOfSeq, LenProperties
<1>5. contracts'[next.parent].status # "active"
  BY <1>1, <1>3, <1>4 DEF Versions
<1>6. ASSUME NEW c \in DOMAIN contracts PROVE contracts'[c].status # "active"
  <2>1. CASE c = next.parent
    BY <1>5, <2>1
  <2>2. CASE c # next.parent
    <3>1. contracts'[c] = contracts[c]
      BY <1>3, <2>2
    <3>2. contracts[c].status # "active"
      BY <1>2, <2>2 DEF Active
    <3> QED
      BY <3>1, <3>2
  <2> QED
    BY <2>1, <2>2
<1>7. Active' = {new}
  BY <1>1, <1>3, <1>6 DEF Active
<1> QED
  BY <1>3, <1>7 DEF next

\* ... and no step breaks it: a second job, or a refused brief, sets disturbed.
LEMMA InStepStep == TypeInv /\ InStepInv /\ [Next]_vars => InStepInv'
<1> SUFFICES ASSUME TypeInv, InStepInv, [Next]_vars, ~disturbed'
             PROVE  Lone' /\ (specialist' => Calm')
  BY DEF InStepInv
<1>J. job \in [Handlers -> [phase : {"idle", "revising", "refining", "briefing"},
                           next : Versions \cup {NoVersion}, rule : Rules \cup {<<0, {}>>}]]
  BY DEF TypeInv, TypeOK
<1>V. \A c \in DOMAIN contracts : contracts[c] \in Versions
  BY LenProperties, ElementOfSeq DEF TypeInv, TypeOK
<1>1. CASE Quiet
  BY <1>1 DEF Quiet, InStepInv, Lone, Calm, InForce, InProgress, Active
<1>2. ASSUME NEW h \in Handlers, NEW phase \in {"revising", "refining"}, NEW next, NEW rule,
             Begin(h, phase, next, rule), UNCHANGED agent,
             next.parent \in Active,
             phase = "revising" => next.rules = contracts[next.parent].rules
      PROVE  Lone' /\ (specialist' => Calm')
  <2>1. ~disturbed /\ InProgress = {}
    BY <1>2 DEF Begin
  <2>2. /\ job' = [job EXCEPT ![h] = [phase |-> phase, next |-> next, rule |-> rule]]
        /\ UNCHANGED <<contracts, brief, specialist>>
    BY <1>2 DEF Begin, agent
  <2>3. \A k \in Handlers : job[k].phase = "idle"
    BY <2>1 DEF InProgress
  <2>4. job'[h].phase = phase /\ job'[h].next = next
    BY <1>J, <2>2
  <2>5. \A k \in Handlers \ {h} : job'[k].phase = "idle"
    BY <1>J, <2>2, <2>3
  <2>6. InProgress' = {h}
    BY <2>4, <2>5 DEF InProgress
  <2>7. specialist => InForce(next.parent)
    BY <1>2, <2>1 DEF InStepInv, Calm, InForce
  <2>8. Active' = Active
    BY <2>2 DEF Active
  <2> QED
    BY <1>2, <2>2, <2>4, <2>5, <2>6, <2>7, <2>8 DEF Lone, Calm, InForce
<1>3. ASSUME NEW h \in Handlers, NEW c \in DOMAIN contracts, NEW scope \in SUBSET Domains,
             NEW limit \in Limits, BeginRevise(h, c, scope, limit)
      PROVE  Lone' /\ (specialist' => Calm')
  <2> DEFINE next == [contracts[c] EXCEPT !.parent = c, !.scope = scope, !.limit = limit]
  <2>1. next.parent = c /\ next.rules = contracts[c].rules
    BY <1>V DEF Versions
  <2>2. /\ Begin(h, "revising", next, <<0, {}>>) /\ UNCHANGED agent
        /\ c \in Active
    BY <1>3 DEF BeginRevise, Begin
  <2> HIDE DEF next
  <2> QED
    BY <1>2, <2>1, <2>2
<1>4. ASSUME NEW h \in Handlers, NEW r \in Rules, BeginRefine(h, r)
      PROVE  Lone' /\ (specialist' => Calm')
  <2> DEFINE next == [contracts[r[1]] EXCEPT !.parent = r[1], !.rules = @ \cup {r}]
  <2>1. r[1] \in Active /\ Begin(h, "refining", next, r) /\ UNCHANGED agent
    BY <1>4 DEF BeginRefine, Begin
  <2>2. next.parent = r[1]
    BY <1>V, <2>1 DEF Versions, Active
  <2> HIDE DEF next
  <2> QED
    BY <1>2, <2>1, <2>2
<1>5. ASSUME NEW h \in Handlers, WriteVersion(h) PROVE Lone' /\ (specialist' => Calm')
  <2>1. /\ ~disturbed /\ UNCHANGED <<brief, specialist>>
        /\ job[h].phase \in {"revising", "refining"}
    BY <1>5 DEF WriteVersion, agent
  <2>2. \A k \in Handlers \ {h} : job[k].phase = "idle"
    BY <2>1 DEF InStepInv, Lone, InProgress
  <2>3. \A k \in Handlers \ {h} : job'[k].phase = "idle"
    BY <1>5, <1>J, <2>2 DEF WriteVersion
  <2>4. Lone'
    BY <2>3 DEF Lone, InProgress
  <2>5. ASSUME specialist
        PROVE  /\ Active' = {Len(contracts')}
               /\ contracts'[Len(contracts')].rules = job[h].next.rules
    BY <1>5, <2>1, <2>5, StoredInForce DEF InStepInv, Calm, InForce
  <2>6. CASE job[h].phase = "revising"
    <3>1. job'[h].phase = "idle"
      BY <1>5, <1>J, <2>6 DEF WriteVersion, Idle
    <3>2. InProgress' = {}
      BY <2>3, <3>1 DEF InProgress
    <3>3. specialist => job[h].next.rules = brief
      BY <2>1, <2>6 DEF InStepInv, Calm
    <3> QED
      BY <2>1, <2>3, <2>4, <2>5, <3>1, <3>2, <3>3 DEF Calm, InForce
  <2>7. CASE job[h].phase = "refining"
    <3>1. job'[h].phase = "briefing" /\ job'[h].next = job[h].next
      BY <1>5, <1>J, <2>7 DEF WriteVersion
    <3>2. h \in InProgress'
      BY <3>1 DEF InProgress
    <3> QED
      BY <2>1, <2>3, <2>4, <2>5, <3>1, <3>2 DEF Calm, InForce
  <2> QED
    BY <2>1, <2>6, <2>7
<1>6. ASSUME NEW h \in Handlers, WriteBrief(h) PROVE Lone' /\ (specialist' => Calm')
  <2>1. /\ ~disturbed /\ specialist /\ job[h].phase = "briefing"
        /\ brief' = job[h].next.rules /\ job' = [job EXCEPT ![h] = Idle]
        /\ UNCHANGED <<contracts, specialist>>
    BY <1>6 DEF WriteBrief, BriefOf
  <2>2. \A k \in Handlers : job'[k].phase = "idle"
    BY <1>J, <2>1 DEF InStepInv, Lone, InProgress, Idle
  <2>3. Active' = {Len(contracts)} /\ contracts[Len(contracts)].rules = brief'
    BY <2>1 DEF InStepInv, Calm, Active
  <2> QED
    BY <2>1, <2>2, <2>3 DEF Lone, Calm, InForce, InProgress
<1>7. ASSUME NEW h \in Handlers, BriefRefused(h) PROVE FALSE
  BY <1>7 DEF BriefRefused
<1>8. CASE DeleteSpecialist
  BY <1>8 DEF DeleteSpecialist, InStepInv, Lone, InProgress
<1> QED
  BY <1>1, <1>3, <1>4, <1>5, <1>6, <1>7, <1>8, QuietSteps

\* When versions are written one at a time and no brief is refused, the one version in
\* force and the specialist's brief agree on the rules.
THEOREM InStepHolds == Spec => []VersionsInStep
<1>1. InStepInv => VersionsInStep
  BY DEF InStepInv, Calm, InForce, VersionsInStep
<1> QED
  BY <1>1, InStepInit, InStepStep, TypeInvHolds, PTL DEF Spec

-----------------------------------------------------------------------------
(* The run ceiling survives revisions: every version is of one lineage.     *)

LEMMA LeastOf ==
  ASSUME NEW S \in SUBSET Nat, S # {}
  PROVE  \E m \in S : \A n \in S : m <= n
<1>1. PICK m \in S : \A n \in S : <<n, m>> \notin OpToRel(<, Nat)
  BY NatLessThanWellFounded, WFMin
<1>2. \A n \in S : ~ (n < m)
  BY <1>1 DEF OpToRel
<1> QED
  BY <1>2

\* The recursion along smaller numbers that Ancestry is defined by has a solution: no
\* number is the first up to which it has none.
LEMMA ChainExists ==
  ASSUME NEW c \in Nat, NEW P, \A i \in 1 .. c : P[i] \in 0 .. i - 1
  PROVE  \E up : up = [i \in 0 .. c |-> IF i = 0 THEN {} ELSE {i} \cup up[P[i]]]
<1> DEFINE Step(n, f) == \A i \in 0 .. n : f[i] = IF i = 0 THEN {} ELSE {i} \cup f[P[i]]
           Bad == {n \in 0 .. c : ~\E f : Step(n, f)}
<1>1. Bad = {}
  <2> SUFFICES ASSUME Bad # {} PROVE FALSE
    OBVIOUS
  <2>1. PICK n \in Bad : \A m \in Bad : n <= m
    <3>1. Bad \subseteq Nat
      OBVIOUS
    <3> HIDE DEF Bad
    <3> QED
      BY <3>1, LeastOf
  <2>2. CASE n = 0
    <3>1. Step(0, [i \in {0} |-> {}])
      OBVIOUS
    <3> QED
      BY <2>2, <3>1
  <2>3. CASE n # 0
    <3>1. n \in 0 .. c
      OBVIOUS
    <3>2. n - 1 \in 0 .. c /\ n - 1 \notin Bad /\ n \in 1 .. c
      <4> HIDE DEF Bad
      <4> QED
        BY <2>1, <2>3, <3>1
    <3>3. PICK f : Step(n - 1, f)
      BY <3>2
    <3> DEFINE g == [i \in 0 .. n |-> IF i = n THEN {n} \cup f[P[n]] ELSE f[i]]
    <3>4. Step(n, g)
      <4> SUFFICES ASSUME NEW i \in 0 .. n PROVE g[i] = IF i = 0 THEN {} ELSE {i} \cup g[P[i]]
        OBVIOUS
      <4>1. i # 0 => P[i] \in 0 .. i - 1
        BY <3>2
      <4>2. CASE i = n
        <5>1. g[P[n]] = f[P[n]]
          BY <3>2, <4>1, <4>2
        <5> QED
          BY <2>3, <3>2, <4>2, <5>1
      <4>3. CASE i # n
        <5>1. i \in 0 .. n - 1
          BY <3>2, <4>3
        <5>2. i # 0 => g[P[i]] = f[P[i]]
          BY <3>2, <4>1, <4>3
        <5> QED
          BY <3>3, <4>3, <5>1, <5>2
      <4> QED
        BY <4>2, <4>3
    <3> QED
      BY <3>4
  <2> QED
    BY <2>2, <2>3
<1>2. \E f : Step(c, f)
  <2>1. c \in 0 .. c
    OBVIOUS
  <2> HIDE DEF Step
  <2> QED
    BY <1>1, <2>1
<1>3. PICK f : Step(c, f)
  BY <1>2
<1> DEFINE up == [i \in 0 .. c |-> f[i]]
<1>4. up = [i \in 0 .. c |-> IF i = 0 THEN {} ELSE {i} \cup up[P[i]]]
  <2> SUFFICES ASSUME NEW i \in 0 .. c PROVE up[i] = IF i = 0 THEN {} ELSE {i} \cup up[P[i]]
    OBVIOUS
  <2>1. CASE i = 0
    BY <1>3, <2>1
  <2>2. CASE i # 0
    <3>1. i \in 1 .. c /\ P[i] \in 0 .. c
      BY <2>2
    <3> QED
      BY <1>3, <2>2, <3>1
  <2> QED
    BY <2>1, <2>2
<1> QED
  BY <1>4

\* Only the version stored at promotion has no parent.
Rooted == \A c \in DOMAIN contracts : contracts[c].parent = 0 => c = 1

\* contractLineage finds the whole task from any of its versions.
LEMMA OneLineage ==
  ASSUME TypeInv, Rooted
  PROVE  \A c \in DOMAIN contracts : Lineage(c) = DOMAIN contracts
<1>1. DOMAIN contracts = 1 .. Len(contracts) /\ Len(contracts) \in Nat
  BY LenProperties DEF TypeInv, TypeOK
<1>2. ASSUME NEW i \in DOMAIN contracts
      PROVE  contracts[i].parent \in 0 .. i - 1 /\ (i # 1 => contracts[i].parent \in 1 .. i - 1)
  <2>1. contracts[i].parent \in Nat /\ contracts[i].parent < i
    <3>1. contracts[i] \in Versions
      BY <1>1, ElementOfSeq DEF TypeInv, TypeOK
    <3> QED
      BY <3>1, BoundsAssumption DEF Versions, TypeInv, TypeOK
  <2>2. i # 1 => contracts[i].parent # 0
    BY DEF Rooted
  <2> QED
    BY <1>1, <2>1, <2>2
<1>3. ASSUME NEW c \in DOMAIN contracts PROVE 1 \in Ancestry(c)
  <2> DEFINE P == [i \in 1 .. c |-> contracts[i].parent]
             Goes(f) == f = [i \in 0 .. c |-> IF i = 0 THEN {} ELSE {i} \cup f[contracts[i].parent]]
             up == CHOOSE f : Goes(f)
  <2>1. c \in Nat /\ c \in 1 .. c /\ 1 .. c \subseteq DOMAIN contracts
    BY <1>1
  <2>2. \A i \in 1 .. c : P[i] \in 0 .. i - 1 /\ P[i] = contracts[i].parent
    BY <1>2, <2>1
  <2>3. \E f : Goes(f)
    <3>1. PICK f : f = [i \in 0 .. c |-> IF i = 0 THEN {} ELSE {i} \cup f[P[i]]]
      <4> HIDE DEF P
      <4> QED
        BY <2>1, <2>2, ChainExists
    <3>2. \A i \in 0 .. c : (IF i = 0 THEN {} ELSE {i} \cup f[P[i]])
                              = (IF i = 0 THEN {} ELSE {i} \cup f[contracts[i].parent])
      <4> SUFFICES ASSUME NEW i \in 0 .. c, i # 0 PROVE P[i] = contracts[i].parent
        OBVIOUS
      <4>1. i \in 1 .. c
        BY <2>1
      <4> HIDE DEF P
      <4> QED
        BY <2>2, <4>1
    <3> HIDE DEF P
    <3>3. f = [i \in 0 .. c |-> IF i = 0 THEN {} ELSE {i} \cup f[contracts[i].parent]]
      BY <3>1, <3>2
    <3> QED
      BY <3>3
  <2>4. Goes(up)
    <3> HIDE DEF Goes
    <3> QED
      BY <2>3
  <2>5. Ancestry(c) = up[c]
    BY DEF Ancestry
  <2> DEFINE Bad == {i \in 1 .. c : 1 \notin up[i]}
  <2> HIDE DEF up
  <2>6. \A i \in 1 .. c : up[i] = {i} \cup up[contracts[i].parent]
    <3>1. \A i \in 0 .. c : up[i] = IF i = 0 THEN {} ELSE {i} \cup up[contracts[i].parent]
      BY <2>4
    <3>2. \A i \in 1 .. c : i \in 0 .. c /\ i # 0
      BY <2>1
    <3> QED
      BY <3>1, <3>2
  <2>7. Bad = {}
    <3> SUFFICES ASSUME Bad # {} PROVE FALSE
      OBVIOUS
    <3>1. PICK i \in Bad : \A j \in Bad : i <= j
      <4>1. Bad \subseteq Nat
        BY <2>1
      <4> HIDE DEF Bad
      <4> QED
        BY <4>1, LeastOf
    <3>2. i # 1
      BY <2>6
    <3>3. contracts[i].parent \in 1 .. i - 1
      BY <1>2, <2>1, <3>2
    <3>4. contracts[i].parent \in 1 .. c /\ contracts[i].parent < i
      BY <2>1, <3>3
    <3>5. 1 \in up[contracts[i].parent]
      BY <2>1, <3>1, <3>4
    <3> QED
      BY <2>6, <3>5
  <2> QED
    BY <2>1, <2>5, <2>7
<1> QED
  BY <1>3 DEF Lineage

\* What a turn routed at the ceiling keeps until a conversation takes runs of the task with
\* it: the runs only grow in number, the limit of the version it was routed to stays, so its
\* budget check refuses it.
LateHeld ==
  \A t \in late : /\ t \notin runs /\ turn[t].phase \in {"routed", "over"}
                  /\ Cardinality(runs) >= contracts[turn[t].version].limit

RunsFit == IsFiniteSet(runs) /\ \A t \in runs : turn[t].phase \in {"running", "over"}

SpentInv == Rooted /\ RunsFit /\ (specialist => LateHeld)

LEMMA RootedStep == TypeInv /\ Rooted /\ [Next]_vars => Rooted'
<1> SUFFICES ASSUME TypeInv, Rooted, [Next]_vars, NEW c \in DOMAIN contracts',
                    contracts'[c].parent = 0
             PROVE  c = 1
  BY DEF Rooted
<1>1. CASE c \in DOMAIN contracts
  BY <1>1, HistoryStays DEF Rooted
<1>2. CASE c \notin DOMAIN contracts
  <2>1. PICK h \in Handlers : WriteVersion(h)
    BY <1>2, QuietSteps, RetireKeeps
       DEF Quiet, BeginRevise, BeginRefine, Begin, WriteBrief, BriefRefused, DeleteSpecialist,
           TypeInv, TypeOK
  <2>2. job[h].next \in Versions /\ job[h].next.parent \in DOMAIN contracts
    BY <2>1 DEF WriteVersion, TypeInv, JobsFit, Writing
  <2>3. c = Len(contracts) + 1 /\ contracts'[c] = job[h].next
    BY <1>2, <2>1, <2>2, SupersedeKeeps DEF WriteVersion, TypeInv, TypeOK
  <2>4. 0 \notin DOMAIN contracts
    BY LenProperties DEF TypeInv, TypeOK
  <2> QED
    BY <2>2, <2>3, <2>4
<1> QED
  BY <1>1, <1>2

\* How a step moves the turns: not at all, one of them, or none but its runs go
\* with a deletion.
LEMMA TurnSteps ==
  ASSUME TypeInv, [Next]_vars
  PROVE  \/ UNCHANGED <<runs, turn, late, specialist>>
         \/ \E t \in Turns : TurnStep(t)
         \/ DeleteSpecialist
         \/ DeleteConversation
<1>1. ASSUME NEW h \in Handlers, JobStep(h) PROVE UNCHANGED <<runs, turn, late, specialist>>
  BY <1>1 DEF JobStep, BeginRevise, BeginRefine, Begin, WriteVersion, WriteBrief, BriefRefused,
              agent
<1>2. ASSUME NEW c \in DOMAIN contracts, NEW u \in Users, ProposeRefinement(c) \/ Correct(u, c)
      PROVE  UNCHANGED <<runs, turn, late, specialist>>
  BY <1>2 DEF ProposeRefinement, Correct, agent
<1>3. ASSUME NEW c \in DOMAIN contracts, ProposeRefinement(c)
      PROVE  UNCHANGED <<runs, turn, late, specialist>>
  BY <1>3 DEF ProposeRefinement, agent
<1>4. ASSUME NEW r \in Rules, RejectRefinement(r)
      PROVE  UNCHANGED <<runs, turn, late, specialist>>
  BY <1>4 DEF RejectRefinement, agent
<1>5. CASE UNCHANGED vars
  BY <1>5 DEF vars, agent
<1> QED
  BY <1>1, <1>2, <1>3, <1>4, <1>5 DEF Next

LEMMA RunsFitStep == TypeInv /\ RunsFit /\ [Next]_vars => RunsFit'
<1> SUFFICES ASSUME TypeInv, RunsFit, [Next]_vars PROVE RunsFit'
  OBVIOUS
<1>1. /\ turn \in [Turns -> [phase : {"idle", "routed", "checked", "running", "over"},
                            version : 0 .. Len(contracts), on : {"specialist", "elsewhere"}]]
      /\ runs \subseteq Turns
  BY DEF TypeInv, TypeOK
<1>2. CASE UNCHANGED <<runs, turn, late, specialist>>
  BY <1>2 DEF RunsFit
<1>3. CASE DeleteSpecialist \/ DeleteConversation
  <2>1. runs' \subseteq runs /\ turn' = turn
    BY <1>3 DEF DeleteSpecialist, DeleteConversation
  <2>2. IsFiniteSet(runs')
    BY <2>1, FS_Subset DEF RunsFit
  <2> QED
    BY <2>1, <2>2 DEF RunsFit
<1>4. ASSUME NEW t \in Turns, Admit(t) PROVE RunsFit'
  <2>1. IsFiniteSet(runs')
    BY <1>4, FS_AddElement DEF Admit, RunsFit
  <2> QED
    BY <1>1, <1>4, <2>1 DEF Admit, RunsFit
<1>5. ASSUME NEW t \in Turns,
             Route(t) \/ CheckBudget(t) \/ RefuseOverBudget(t) \/ NotAdmitted(t) \/ EndRun(t)
      PROVE  RunsFit'
  <2>1. runs' = runs
    BY <1>5 DEF Route, CheckBudget, RefuseOverBudget, NotAdmitted, EndRun
  <2>2. t \in runs => turn[t].phase \in {"running", "over"}
    BY DEF RunsFit
  <2>3. turn'[t].phase = "over" \/ turn[t].phase \in {"idle", "routed"}
    BY <1>1, <1>5 DEF Route, CheckBudget, RefuseOverBudget, NotAdmitted, EndRun
  <2>4. \A x \in Turns : x # t => turn'[x] = turn[x]
    BY <1>1, <1>5 DEF Route, CheckBudget, RefuseOverBudget, NotAdmitted, EndRun
  <2> QED
    BY <1>1, <2>1, <2>2, <2>3, <2>4 DEF RunsFit
<1> QED
  BY <1>2, <1>3, <1>4, <1>5, TurnSteps DEF TurnStep

\* All runs of the task count for each of its versions.
LEMMA AllSpent ==
  ASSUME TypeInv, Rooted, RunsFit
  PROVE  \A c \in DOMAIN contracts : Spent(c) = runs
<1> SUFFICES ASSUME NEW c \in DOMAIN contracts, NEW t \in runs
             PROVE  turn[t].version \in Lineage(c)
  BY DEF Spent
<1>1. t \in Turns /\ turn[t].phase # "idle"
  BY DEF TypeInv, TypeOK, RunsFit
<1> QED
  BY <1>1, OneLineage DEF TypeInv, TurnsFit

LEMMA LateHeldStep ==
  ASSUME TypeInv, SpentInv, [Next]_vars, specialist'
  PROVE  LateHeld'
<1>1. /\ turn \in [Turns -> [phase : {"idle", "routed", "checked", "running", "over"},
                            version : 0 .. Len(contracts), on : {"specialist", "elsewhere"}]]
      /\ runs \subseteq Turns /\ late \subseteq Turns
  BY DEF TypeInv, TypeOK
<1>0. CASE DeleteConversation
  BY <1>0 DEF DeleteConversation, LateHeld
<1> SUFFICES ASSUME ~DeleteConversation PROVE LateHeld'
  BY <1>0
<1>2. specialist /\ LateHeld /\ IsFiniteSet(runs)
  <2>1. CASE UNCHANGED <<runs, turn, late, specialist>>
    BY <2>1 DEF SpentInv, RunsFit
  <2>2. ASSUME NEW t \in Turns, TurnStep(t) PROVE specialist
    BY <2>2 DEF TurnStep, Route, CheckBudget, RefuseOverBudget, Admit, NotAdmitted, EndRun, agent
  <2>3. ~DeleteSpecialist
    BY DEF DeleteSpecialist
  <2> QED
    BY <2>1, <2>2, <2>3, TurnSteps DEF SpentInv, RunsFit
<1>3. \A t \in late : /\ turn[t].version \in DOMAIN contracts
                      /\ contracts'[turn[t].version].limit = contracts[turn[t].version].limit
                      /\ contracts[turn[t].version].limit \in Nat
  <2> SUFFICES ASSUME NEW t \in late
               PROVE  /\ turn[t].version \in DOMAIN contracts
                      /\ contracts'[turn[t].version].limit = contracts[turn[t].version].limit
                      /\ contracts[turn[t].version].limit \in Nat
    OBVIOUS
  <2>1. turn[t].phase # "idle"
    BY <1>2 DEF LateHeld
  <2>2. turn[t].version \in DOMAIN contracts
    BY <1>1, <2>1 DEF TypeInv, TurnsFit
  <2>3. contracts[turn[t].version] \in Versions
    BY <2>2, LenProperties, ElementOfSeq DEF TypeInv, TypeOK
  <2> QED
    BY <2>2, <2>3, HistoryStays, LimitsAssumption DEF Versions
<1>4. Cardinality(runs) \in Nat
  BY <1>2, FS_CardinalityType
<1>5. CASE UNCHANGED <<runs, turn, late, specialist>>
  BY <1>3, <1>2, <1>5 DEF LateHeld
<1>6. ASSUME NEW t \in Turns, Route(t) PROVE LateHeld'
  <2>1. PICK c \in Active :
          /\ turn' = [turn EXCEPT ![t] = [@ EXCEPT !.phase = "routed", !.version = c]]
          /\ late' = IF Cardinality(runs) >= contracts[c].limit THEN late \cup {t} ELSE late
    BY <1>6 DEF Route
  <2>2. t \notin late /\ t \notin runs /\ UNCHANGED <<contracts, runs>>
    BY <1>2, <1>6 DEF Route, LateHeld, SpentInv, RunsFit
  <2>3. turn'[t].phase = "routed" /\ turn'[t].version = c
    BY <1>1, <2>1
  <2>4. \A x \in Turns : x # t => turn'[x] = turn[x]
    BY <1>1, <2>1
  <2>5. ASSUME NEW x \in late'
        PROVE  /\ x \notin runs' /\ turn'[x].phase \in {"routed", "over"}
               /\ Cardinality(runs') >= contracts'[turn'[x].version].limit
    <3>1. CASE x = t
      BY <2>1, <2>2, <2>3, <2>5, <3>1
    <3>2. CASE x # t
      <4>1. x \in late /\ x \in Turns /\ turn'[x] = turn[x]
        BY <1>1, <2>1, <2>4, <2>5, <3>2
      <4> QED
        BY <1>2, <2>2, <4>1 DEF LateHeld
    <3> QED
      BY <3>1, <3>2
  <2> QED
    BY <2>5 DEF LateHeld
<1>7. ASSUME NEW t \in Turns, CheckBudget(t) PROVE LateHeld'
  <2>1. t \notin late
    <3> SUFFICES ASSUME t \in late PROVE FALSE
      OBVIOUS
    <3>1. Cardinality(runs) >= contracts[turn[t].version].limit
      BY <1>2 DEF LateHeld
    <3>2. Spent(turn[t].version) = runs
      BY <1>3, AllSpent DEF SpentInv
    <3> QED
      BY <1>7, <3>1, <3>2 DEF CheckBudget, AtCeiling
  <2>2. \A x \in Turns : x # t => turn'[x] = turn[x]
    BY <1>1, <1>7 DEF CheckBudget
  <2>3. UNCHANGED <<contracts, runs, late>>
    BY <1>7 DEF CheckBudget
  <2> QED
    BY <1>1, <1>2, <2>1, <2>2, <2>3 DEF LateHeld
<1>8. ASSUME NEW t \in Turns, RefuseOverBudget(t) \/ NotAdmitted(t) \/ EndRun(t) PROVE LateHeld'
  <2>1. /\ turn'[t].phase = "over" /\ turn'[t].version = turn[t].version
        /\ \A x \in Turns : x # t => turn'[x] = turn[x]
    BY <1>1, <1>8 DEF RefuseOverBudget, NotAdmitted, EndRun
  <2>2. UNCHANGED <<contracts, runs, late>>
    BY <1>8 DEF RefuseOverBudget, NotAdmitted, EndRun
  <2> QED
    BY <1>1, <1>2, <2>1, <2>2 DEF LateHeld
<1>9. ASSUME NEW t \in Turns, Admit(t) PROVE LateHeld'
  <2>1. turn[t].phase = "checked" /\ runs' = runs \cup {t} /\ UNCHANGED <<contracts, late>>
    BY <1>9 DEF Admit
  <2>2. t \notin late
    BY <1>2, <2>1 DEF LateHeld
  <2>3. \A x \in Turns : x # t => turn'[x] = turn[x]
    BY <1>1, <1>9 DEF Admit
  <2>4. Cardinality(runs') \in Nat /\ Cardinality(runs') >= Cardinality(runs)
    <3>1. Cardinality(runs') = IF t \in runs THEN Cardinality(runs) ELSE Cardinality(runs) + 1
      BY <1>2, <2>1, FS_AddElement
    <3> QED
      BY <1>4, <3>1
  <2>5. ASSUME NEW x \in late'
        PROVE  /\ x \notin runs' /\ turn'[x].phase \in {"routed", "over"}
               /\ Cardinality(runs') >= contracts'[turn'[x].version].limit
    <3>1. x \in late /\ x # t /\ x \in Turns /\ turn'[x] = turn[x]
      BY <1>1, <2>1, <2>2, <2>3, <2>5
    <3>2. /\ x \notin runs /\ turn[x].phase \in {"routed", "over"}
          /\ Cardinality(runs) >= contracts[turn[x].version].limit
      BY <1>2, <3>1 DEF LateHeld
    <3>3. contracts[turn[x].version].limit \in Nat
      BY <1>3, <3>1
    <3>4. Cardinality(runs') >= contracts[turn[x].version].limit
      BY <1>4, <2>4, <3>2, <3>3
    <3> QED
      BY <2>1, <3>1, <3>2, <3>4
  <2> QED
    BY <2>5 DEF LateHeld
<1>10. ~DeleteSpecialist
  BY DEF DeleteSpecialist
<1> QED
  BY <1>5, <1>6, <1>7, <1>8, <1>9, <1>10, TurnSteps DEF TurnStep

\* A turn routed when the task had used up its ceiling is not admitted while the specialist
\* is there and no conversation with runs of the task is deleted, for any number of turns, versions and overlapping revisions: each version's
\* budget check counts the runs of all of them.
THEOREM SpentHolds == Spec => []SpentStaysSpent
<1>1. Init => SpentInv
  <2> SUFFICES ASSUME Init PROVE SpentInv
    OBVIOUS
  <2>1. runs = {} /\ late = {} /\ DOMAIN contracts = {1}
    BY DEF Init
  <2> QED
    BY <2>1, FS_EmptySet DEF SpentInv, Rooted, RunsFit, LateHeld
<1>2. TypeInv /\ SpentInv /\ [Next]_vars => SpentInv'
  BY RootedStep, RunsFitStep, LateHeldStep DEF SpentInv
<1>3. SpentInv => SpentStaysSpent
  BY DEF SpentInv, LateHeld, SpentStaysSpent
<1> QED
  BY <1>1, <1>2, <1>3, TypeInvHolds, PTL DEF Spec
=============================================================================
