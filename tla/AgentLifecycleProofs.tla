------------------------ MODULE AgentLifecycleProofs ------------------------
(***************************************************************************)
(* What AgentLifecycle keeps for every number of Agents, principals, turns *)
(* and operator calls, crashes and rejected mutations.                     *)
(***************************************************************************)
EXTENDS AgentLifecycle, TLAPS

\* What becomes of the operator calls: a record of each stays a record.
LEMMA NoCallType == NoCall \in CallRecords
  BY DEF NoCall, CallRecords

LEMMA ServedType ==
  ASSUME call \in [Calls -> CallRecords], NEW t \in Turns
  PROVE  Served(t) \in [Calls -> CallRecords]
<1>1. ASSUME NEW c \in Calls PROVE [call[c] EXCEPT !.awaiting = @ \ {t}] \in CallRecords
  BY DEF CallRecords
<1> QED
  BY <1>1 DEF Served

LEMMA WaitType ==
  ASSUME NEW r \in CallRecords, NEW S \in SUBSET Turns,
         NEW p \in {"draining", "finishing"}
  PROVE  [r EXCEPT !.phase = p, !.awaiting = S] \in CallRecords
  BY DEF CallRecords

\* A table of turns by Agent and principal stays one when an entry is set.
LEMMA TableType ==
  ASSUME NEW f \in [Agents -> [Users -> Turns \cup {NoTurn}]],
         NEW a, NEW u, NEW x \in Turns \cup {NoTurn}
  PROVE  [f EXCEPT ![a][u] = x] \in [Agents -> [Users -> Turns \cup {NoTurn}]]
<1>1. ASSUME NEW b \in Agents PROVE [f[b] EXCEPT ![u] = x] \in [Users -> Turns \cup {NoTurn}]
  OBVIOUS
<1> QED
  BY <1>1

LEMMA ForgetType ==
  ASSUME execution \in [Agents -> [Users -> Turns \cup {NoTurn}]],
         NEW t \in Turns, Forget(t)
  PROVE  execution' \in [Agents -> [Users -> Turns \cup {NoTurn}]]
<1>1. [execution EXCEPT ![agent[t]][user[t]] = NoTurn]
        \in [Agents -> [Users -> Turns \cup {NoTurn}]]
  BY TableType
<1> QED
  BY <1>1 DEF Forget

\* Whatever has begun has been addressed to an Agent, by a principal.
Addressed ==
  /\ \A t \in Turns : phase[t] # "idle" => agent[t] \in Agents /\ user[t] \in Users
  /\ \A c \in Calls : call[c].phase # "idle" => call[c].agent \in Agents
  /\ \A c \in Calls : call[c].phase = "checked" => call[c].user \in Users

TypeInv == TypeOK /\ Addressed

LEMMA TypeInit == Init => TypeInv
  BY NoTurnAssumption, BoundsAssumption
     DEF Init, TypeInv, TypeOK, Addressed, NoCall, Phases, CallRecords, Absent, Unsettled,
         Settled

\* Each action keeps the types.
LEMMA TypeStep == TypeInv /\ [Next]_vars => TypeOK'
<1> SUFFICES ASSUME TypeInv, [Next]_vars PROVE TypeOK'
  OBVIOUS
<1> USE BoundsAssumption
        DEF TypeInv, TypeOK, Absent, Unsettled, Settled, Phases, store, turn, place, bounds
<1>1. CASE UNCHANGED vars
  BY <1>1 DEF vars
<1>2. ASSUME NEW a \in Agents, CreateAgent(a) PROVE TypeOK'
  BY <1>2 DEF CreateAgent
<1>3. ASSUME NEW a \in Agents, StartAgent(a) PROVE TypeOK'
  BY <1>3 DEF StartAgent
<1>4. ASSUME NEW t \in Turns, NEW a \in Agents, NEW u \in Users, SendMessage(t, a, u)
      PROVE  TypeOK'
  BY <1>4 DEF SendMessage
<1>5. ASSUME NEW t \in Turns, Route(t) PROVE TypeOK'
  BY <1>5 DEF Route
<1>6. ASSUME NEW t \in Turns, TurnAway(t) PROVE TypeOK'
  BY <1>6 DEF TurnAway
<1>7. ASSUME NEW t \in Turns, Admit(t) PROVE TypeOK'
  <2>1. execution' \in [Agents -> [Users -> Turns \cup {NoTurn}]]
    BY <1>7, TableType DEF Admit
  <2>2. resume' \in [Turns -> Turns \cup {NoTurn}]
    BY <1>7 DEF Admit, Resume, Addressed
  <2>3. call' \in [Calls -> CallRecords]
    BY <1>7, ServedType DEF Admit
  <2> QED
    BY <2>1, <2>2, <2>3, <1>7 DEF Admit
<1>8. ASSUME NEW t \in Turns, RefuseAdmission(t) PROVE TypeOK'
  BY <1>8, ServedType DEF RefuseAdmission
<1>9. ASSUME NEW t \in Turns, StartRun(t) PROVE TypeOK'
  BY <1>9, ServedType DEF StartRun
<1>10. ASSUME NEW t \in Turns, Launch(t) PROVE TypeOK'
  BY <1>10 DEF Launch
<1>11. ASSUME NEW t \in Turns, RunnerEnds(t) PROVE TypeOK'
  BY <1>11 DEF RunnerEnds
<1>12. ASSUME NEW t \in Turns, Succeed(t) PROVE TypeOK'
  <2>1. threads' \in [Agents -> [Users -> Turns \cup {NoTurn}]]
    BY <1>12, TableType DEF Succeed
  <2>2. call' \in [Calls -> CallRecords]
    BY <1>12, ServedType DEF Succeed
  <2>3. status' \in [Agents -> Absent \cup {"ready", "busy", "error", "stopped"}]
    BY <1>12 DEF Succeed, BadgeAfterSuccess
  <2>4. runs' \in [Turns -> {"none"} \cup Unsettled \cup Settled] /\ phase' \in [Turns -> Phases]
    BY <1>12 DEF Succeed, AfterOutcome
  <2> QED
    BY <2>1, <2>2, <2>3, <2>4, <1>12 DEF Succeed
<1>13. ASSUME NEW t \in Turns, FailRun(t) PROVE TypeOK'
  BY <1>13, ServedType DEF FailRun, BadgeAfterFailure
<1>14. ASSUME NEW t \in Turns, EndRun(t) PROVE TypeOK'
  <2>1. execution' \in [Agents -> [Users -> Turns \cup {NoTurn}]]
    BY <1>14, ForgetType DEF EndRun
  <2> QED
    BY <2>1, <1>14 DEF EndRun, Forget
<1>15. ASSUME NEW t \in Turns, StoreFault(t) PROVE TypeOK'
  <2>1. execution' \in [Agents -> [Users -> Turns \cup {NoTurn}]]
    BY <1>15, ForgetType DEF StoreFault
  <2>2. call' \in [Calls -> CallRecords]
    BY <1>15, ServedType DEF StoreFault
  <2>3. phase' \in [Turns -> Phases]
    BY <1>15 DEF StoreFault, Forget
  <2> QED
    BY <2>1, <2>2, <2>3, <1>15 DEF StoreFault
<1>16. ASSUME NEW c \in Calls, NEW a \in Agents, NEW kind \in {"stop", "delete"},
             BeginCancel(c, kind, a)
      PROVE  TypeOK'
  BY <1>16 DEF BeginCancel, Live, On, CallRecords
<1>17. ASSUME NEW c \in Calls, NEW a \in Agents, NEW u \in Users, BeginReset(c, a, u)
      PROVE  TypeOK'
  BY <1>17 DEF BeginReset, CallRecords, NoCall
<1>18. ASSUME NEW c \in Calls, AwaitExecutions(c) PROVE TypeOK'
  <2>1. Awaited(call[c].agent) \in SUBSET Turns
    BY <1>18 DEF AwaitExecutions, Awaited, Addressed
  <2>2. [call[c] EXCEPT !.phase = "draining", !.awaiting = Awaited(call[c].agent)]
          \in CallRecords
    BY <2>1, WaitType
  <2> QED
    BY <2>2, <1>18 DEF AwaitExecutions
<1>19. ASSUME NEW c \in Calls, Drained(c) PROVE TypeOK'
  BY <1>19, WaitType DEF Drained, NoLongerCancelling
<1>20. ASSUME NEW c \in Calls, FinishStop(c) PROVE TypeOK'
  BY <1>20, NoCallType DEF FinishStop
<1>21. ASSUME NEW c \in Calls, FinishDelete(c) PROVE TypeOK'
  BY <1>21, NoCallType DEF FinishDelete, RunsWithout
<1>22. ASSUME NEW c \in Calls, ArchiveFails(c) PROVE TypeOK'
  BY <1>22, NoCallType DEF ArchiveFails
<1>23. ASSUME NEW c \in Calls, FinishReset(c) PROVE TypeOK'
  <2>1. call[c].agent \in Agents /\ call[c].user \in Users
    BY <1>23 DEF FinishReset, Addressed
  <2>2. threads' \in [Agents -> [Users -> Turns \cup {NoTurn}]]
    <3>1. [threads EXCEPT ![call[c].agent][call[c].user] = NoTurn]
            \in [Agents -> [Users -> Turns \cup {NoTurn}]]
      BY TableType
    <3> QED
      BY <3>1, <1>23 DEF FinishReset
  <2> QED
    BY <2>2, <1>23, NoCallType DEF FinishReset
<1>24. CASE Crash
  <2>1. call' \in [Calls -> CallRecords]
    BY <1>24, NoCallType DEF Crash
  <2>2. phase' \in [Turns -> Phases]
    BY <1>24 DEF Crash
  <2>3. execution' \in [Agents -> [Users -> Turns \cup {NoTurn}]]
    BY <1>24 DEF Crash
  <2>4. crashes' \in 0 .. MaxCrashes
    BY <1>24 DEF Crash
  <2>5. status' = status /\ runs' = runs /\ threads' = threads /\ agent' = agent
        /\ user' = user /\ resume' = resume /\ faults' = faults
        /\ cancelling' = {} /\ killed' = {} /\ up' = FALSE
    BY <1>24 DEF Crash
  <2> HIDE DEF Phases, Absent, Unsettled, Settled
  <2> QED
    BY <2>1, <2>2, <2>3, <2>4, <2>5
<1>25. CASE Restart
  BY <1>25 DEF Restart, Reaped
<1> QED
  BY <1>1, <1>2, <1>3, <1>4, <1>5, <1>6, <1>7, <1>8, <1>9, <1>10, <1>11, <1>12,
     <1>13, <1>14, <1>15, <1>16, <1>17, <1>18, <1>19, <1>20, <1>21, <1>22, <1>23,
     <1>24, <1>25 DEF Next, TurnStep, CallStep

\* Each action keeps what has begun addressed.
LEMMA AddressedStep == TypeInv /\ [Next]_vars => Addressed'
<1> SUFFICES ASSUME TypeInv, [Next]_vars PROVE Addressed'
  OBVIOUS
<1> USE DEF store, turn, place, bounds, TypeInv, TypeOK, Addressed, CallRecords
<1>1. CASE UNCHANGED <<phase, agent, user, call>>
  BY <1>1
<1>2. ASSUME NEW t \in Turns, NEW a \in Agents, NEW u \in Users, SendMessage(t, a, u)
      PROVE  Addressed'
  BY <1>2 DEF SendMessage
<1>3. ASSUME NEW t \in Turns, Route(t) PROVE Addressed'
  BY <1>3 DEF Route
<1>4. ASSUME NEW t \in Turns, TurnAway(t) PROVE Addressed'
  BY <1>4 DEF TurnAway
<1>5. ASSUME NEW t \in Turns, Admit(t) PROVE Addressed'
  BY <1>5 DEF Admit, Served
<1>6. ASSUME NEW t \in Turns, RefuseAdmission(t) PROVE Addressed'
  BY <1>6 DEF RefuseAdmission, Served
<1>7. ASSUME NEW t \in Turns, StartRun(t) PROVE Addressed'
  BY <1>7 DEF StartRun, Served
<1>8. ASSUME NEW t \in Turns, Launch(t) PROVE Addressed'
  BY <1>8 DEF Launch
<1>9. ASSUME NEW t \in Turns, RunnerEnds(t) PROVE Addressed'
  BY <1>9 DEF RunnerEnds
<1>10. ASSUME NEW t \in Turns, Succeed(t) PROVE Addressed'
  BY <1>10 DEF Succeed, Served
<1>11. ASSUME NEW t \in Turns, FailRun(t) PROVE Addressed'
  BY <1>11 DEF FailRun, Served
<1>12. ASSUME NEW t \in Turns, EndRun(t) PROVE Addressed'
  BY <1>12 DEF EndRun, Forget
<1>13. ASSUME NEW t \in Turns, StoreFault(t) PROVE Addressed'
  BY <1>13 DEF StoreFault, Forget, Served
<1>14. ASSUME NEW c \in Calls, NEW a \in Agents, NEW kind \in {"stop", "delete"},
             BeginCancel(c, kind, a)
      PROVE  Addressed'
  BY <1>14 DEF BeginCancel, Live, On, NoCall
<1>15. ASSUME NEW c \in Calls, NEW a \in Agents, NEW u \in Users, BeginReset(c, a, u)
      PROVE  Addressed'
  BY <1>15 DEF BeginReset, NoCall
<1>16. ASSUME NEW c \in Calls, AwaitExecutions(c) PROVE Addressed'
  BY <1>16 DEF AwaitExecutions
<1>17. ASSUME NEW c \in Calls, Drained(c) PROVE Addressed'
  BY <1>17 DEF Drained, NoLongerCancelling
<1>18. ASSUME NEW c \in Calls, FinishStop(c) PROVE Addressed'
  BY <1>18 DEF FinishStop, NoCall
<1>19. ASSUME NEW c \in Calls, FinishDelete(c) PROVE Addressed'
  BY <1>19 DEF FinishDelete, RunsWithout, NoCall
<1>20. ASSUME NEW c \in Calls, ArchiveFails(c) PROVE Addressed'
  BY <1>20 DEF ArchiveFails, NoCall
<1>21. ASSUME NEW c \in Calls, FinishReset(c) PROVE Addressed'
  BY <1>21 DEF FinishReset, NoCall
<1>22. CASE Crash
  BY <1>22 DEF Crash, NoCall
<1> QED
  BY <1>1, <1>2, <1>3, <1>4, <1>5, <1>6, <1>7, <1>8, <1>9, <1>10, <1>11, <1>12, <1>13,
     <1>14, <1>15, <1>16, <1>17, <1>18, <1>19, <1>20, <1>21, <1>22
     DEF Next, TurnStep, CallStep, vars, CreateAgent, StartAgent, Restart

LEMMA TypeInvInvariant == Spec => []TypeInv
<1>1. TypeInv /\ [Next]_vars => TypeInv'
  BY TypeStep, AddressedStep DEF TypeInv
<1> QED
  BY TypeInit, <1>1, PTL DEF Spec

\* Every variable keeps its type, whatever the Agents, principals, turns and calls.
THEOREM TypeCorrect == Spec => []TypeOK
  BY TypeInvInvariant, PTL DEF TypeInv

\* executeRun's phases and the store's record agree: a run is recorded by the
\* admission, is open while its execution works, has its outcome when the evidence
\* is gathered; and a process that is down executes nothing.
PhaseFits ==
  \A t \in Turns :
    /\ phase[t] \in {"idle", "routing", "admitting"} => runs[t] = "none"
    /\ phase[t] \in {"starting", "setup", "live", "succeeding", "failing", "cancelled"}
         => runs[t] \in {"none"} \cup Unsettled
    /\ phase[t] = "evidence" => ~InFlight(t)
    /\ ~up => phase[t] \in {"idle", "over"}

\* Each action keeps the phase of a turn and its record together.
LEMMA PhaseFitsStep ==
  TypeInv /\ PhaseFits /\ RunsHaveAgents /\ [Next]_vars
  => PhaseFits'
<1> SUFFICES ASSUME TypeInv, PhaseFits, RunsHaveAgents, [Next]_vars PROVE PhaseFits'
  OBVIOUS
<1> USE DEF store, turn, place, bounds, TypeInv, TypeOK, PhaseFits, Phases, Absent,
        Unsettled, Settled, InFlight
<1>1. CASE UNCHANGED <<phase, runs, up>>
  BY <1>1
<1>2. ASSUME NEW t \in Turns, NEW a \in Agents, NEW u \in Users, SendMessage(t, a, u)
      PROVE  PhaseFits'
  BY <1>2 DEF SendMessage
<1>3. ASSUME NEW t \in Turns, Route(t) PROVE PhaseFits'
  BY <1>3 DEF Route
<1>4. ASSUME NEW t \in Turns, TurnAway(t) PROVE PhaseFits'
  BY <1>4 DEF TurnAway
<1>5. ASSUME NEW t \in Turns, Admit(t) PROVE PhaseFits'
  BY <1>5 DEF Admit
<1>6. ASSUME NEW t \in Turns, RefuseAdmission(t) PROVE PhaseFits'
  BY <1>6 DEF RefuseAdmission
<1>7. ASSUME NEW t \in Turns, StartRun(t) PROVE PhaseFits'
  BY <1>7 DEF StartRun
<1>8. ASSUME NEW t \in Turns, Launch(t) PROVE PhaseFits'
  BY <1>8 DEF Launch
<1>9. ASSUME NEW t \in Turns, RunnerEnds(t) PROVE PhaseFits'
  BY <1>9 DEF RunnerEnds
<1>10. ASSUME NEW t \in Turns, Succeed(t) PROVE PhaseFits'
  BY <1>10 DEF Succeed, AfterOutcome, RunsHaveAgents
<1>11. ASSUME NEW t \in Turns, FailRun(t) PROVE PhaseFits'
  BY <1>11 DEF FailRun
<1>12. ASSUME NEW t \in Turns, EndRun(t) PROVE PhaseFits'
  BY <1>12 DEF EndRun, Forget
<1>13. ASSUME NEW t \in Turns, StoreFault(t) PROVE PhaseFits'
  BY <1>13 DEF StoreFault, Forget
<1>14. ASSUME NEW c \in Calls, FinishDelete(c) PROVE PhaseFits'
  BY <1>14 DEF FinishDelete, RunsWithout
<1>15. CASE Crash
  BY <1>15 DEF Crash
<1>16. CASE Restart
  BY <1>16 DEF Restart, Reaped
<1> QED
  BY <1>1, <1>2, <1>3, <1>4, <1>5, <1>6, <1>7, <1>8, <1>9, <1>10, <1>11, <1>12, <1>13,
     <1>14, <1>15, <1>16
     DEF Next, TurnStep, CallStep, vars, CreateAgent, StartAgent, BeginCancel,
         BeginReset, AwaitExecutions, Drained, FinishStop, ArchiveFails, FinishReset

\* Two runs in flight of one principal on one Agent stay impossible: only the admission
\* opens a run, and it looks for one first.
LEMMA OneRunStep ==
  TypeInv /\ PhaseFits /\ OneRunPerPrincipal /\ [Next]_vars
  => OneRunPerPrincipal'
<1> SUFFICES ASSUME TypeInv, PhaseFits, OneRunPerPrincipal, [Next]_vars
             PROVE  OneRunPerPrincipal'
  OBVIOUS
<1> USE DEF store, turn, place, bounds, OneRunPerPrincipal, TypeInv, TypeOK,
        PhaseFits, Absent, Unsettled, Settled, InFlight
<1>1. CASE UNCHANGED <<phase, runs, agent, user>>
  BY <1>1
<1>2. ASSUME NEW t \in Turns, NEW a \in Agents, NEW u \in Users, SendMessage(t, a, u)
      PROVE  OneRunPerPrincipal'
  BY <1>2 DEF SendMessage
<1>3. ASSUME NEW t \in Turns, Route(t) PROVE OneRunPerPrincipal'
  BY <1>3 DEF Route
<1>4. ASSUME NEW t \in Turns, TurnAway(t) PROVE OneRunPerPrincipal'
  BY <1>4 DEF TurnAway
<1>5. ASSUME NEW t \in Turns, Admit(t) PROVE OneRunPerPrincipal'
  BY <1>5 DEF Admit, AlreadyRunning, On
<1>6. ASSUME NEW t \in Turns, RefuseAdmission(t) PROVE OneRunPerPrincipal'
  BY <1>6 DEF RefuseAdmission
<1>7. ASSUME NEW t \in Turns, StartRun(t) PROVE OneRunPerPrincipal'
  BY <1>7 DEF StartRun
<1>8. ASSUME NEW t \in Turns, Launch(t) PROVE OneRunPerPrincipal'
  BY <1>8 DEF Launch
<1>9. ASSUME NEW t \in Turns, RunnerEnds(t) PROVE OneRunPerPrincipal'
  BY <1>9 DEF RunnerEnds
<1>10. ASSUME NEW t \in Turns, Succeed(t) PROVE OneRunPerPrincipal'
  <2>1. agent' = agent /\ user' = user /\ \A x \in Turns : InFlight(x)' => InFlight(x)
    BY <1>10 DEF Succeed
  <2> QED
    BY <2>1
<1>11. ASSUME NEW t \in Turns, FailRun(t) PROVE OneRunPerPrincipal'
  BY <1>11 DEF FailRun
<1>12. ASSUME NEW t \in Turns, EndRun(t) PROVE OneRunPerPrincipal'
  BY <1>12 DEF EndRun, Forget
<1>13. ASSUME NEW t \in Turns, StoreFault(t) PROVE OneRunPerPrincipal'
  BY <1>13 DEF StoreFault, Forget
<1>14. ASSUME NEW c \in Calls, FinishDelete(c) PROVE OneRunPerPrincipal'
  BY <1>14 DEF FinishDelete, RunsWithout, On
<1>15. CASE Crash
  BY <1>15 DEF Crash
<1>16. CASE Restart
  BY <1>16 DEF Restart, Reaped
<1> QED
  BY <1>1, <1>2, <1>3, <1>4, <1>5, <1>6, <1>7, <1>8, <1>9, <1>10, <1>11, <1>12, <1>13,
     <1>14, <1>15, <1>16
     DEF Next, TurnStep, CallStep, vars, CreateAgent, StartAgent, BeginCancel,
         BeginReset, AwaitExecutions, Drained, FinishStop, ArchiveFails, FinishReset

\* No action leaves a run without its Agent.
LEMMA RecordsStep ==
  TypeInv /\ PhaseFits /\ RunsHaveAgents /\ [Next]_vars
  => RunsHaveAgents'
<1> SUFFICES ASSUME TypeInv, PhaseFits, RunsHaveAgents, [Next]_vars
             PROVE  RunsHaveAgents'
  OBVIOUS
<1> USE DEF store, turn, place, bounds, RunsHaveAgents, TypeInv, TypeOK, Addressed,
        PhaseFits, Absent, Unsettled, Settled, InFlight
<1>1. CASE UNCHANGED <<phase, runs, agent, status>>
  BY <1>1
<1>2. ASSUME NEW a \in Agents, CreateAgent(a) PROVE RunsHaveAgents'
  BY <1>2 DEF CreateAgent
<1>3. ASSUME NEW a \in Agents, StartAgent(a) PROVE RunsHaveAgents'
  BY <1>3 DEF StartAgent
<1>4. ASSUME NEW t \in Turns, NEW a \in Agents, NEW u \in Users, SendMessage(t, a, u)
      PROVE  RunsHaveAgents'
  BY <1>4 DEF SendMessage, Runnable
<1>5. ASSUME NEW t \in Turns, Route(t) PROVE RunsHaveAgents'
  BY <1>5 DEF Route
<1>6. ASSUME NEW t \in Turns, TurnAway(t) PROVE RunsHaveAgents'
  BY <1>6 DEF TurnAway
<1>7. ASSUME NEW t \in Turns, Admit(t) PROVE RunsHaveAgents'
  BY <1>7 DEF Admit, Runnable
<1>8. ASSUME NEW t \in Turns, RefuseAdmission(t) PROVE RunsHaveAgents'
  BY <1>8 DEF RefuseAdmission
<1>9. ASSUME NEW t \in Turns, StartRun(t) PROVE RunsHaveAgents'
  BY <1>9 DEF StartRun
<1>10. ASSUME NEW t \in Turns, Launch(t) PROVE RunsHaveAgents'
  BY <1>10 DEF Launch
<1>11. ASSUME NEW t \in Turns, RunnerEnds(t) PROVE RunsHaveAgents'
  BY <1>11 DEF RunnerEnds
<1>12. ASSUME NEW t \in Turns, Succeed(t) PROVE RunsHaveAgents'
  BY <1>12 DEF Succeed, BadgeAfterSuccess
<1>13. ASSUME NEW t \in Turns, FailRun(t) PROVE RunsHaveAgents'
  BY <1>13 DEF FailRun, BadgeAfterFailure
<1>14. ASSUME NEW t \in Turns, EndRun(t) PROVE RunsHaveAgents'
  BY <1>14 DEF EndRun, Forget
<1>15. ASSUME NEW t \in Turns, StoreFault(t) PROVE RunsHaveAgents'
  BY <1>15 DEF StoreFault, Forget
<1>16. ASSUME NEW c \in Calls, FinishStop(c) PROVE RunsHaveAgents'
  BY <1>16 DEF FinishStop
<1>17. ASSUME NEW c \in Calls, FinishDelete(c) PROVE RunsHaveAgents'
  BY <1>17 DEF FinishDelete, RunsWithout, On
<1>18. CASE Crash
  BY <1>18 DEF Crash
<1>19. CASE Restart
  BY <1>19 DEF Restart, Reaped
<1> QED
  BY <1>1, <1>2, <1>3, <1>4, <1>5, <1>6, <1>7, <1>8, <1>9, <1>10, <1>11, <1>12, <1>13,
     <1>14, <1>15, <1>16, <1>17, <1>18, <1>19
     DEF Next, TurnStep, CallStep, vars, BeginCancel, BeginReset, AwaitExecutions,
         Drained, ArchiveFails, FinishReset

\* A badge set to busy is set by a run in flight, and is replaced before that run is
\* the last to end.
LEMMA BusyStep == TypeInv /\ PhaseFits /\ BusyHasRun /\ [Next]_vars => BusyHasRun'
<1> SUFFICES ASSUME TypeInv, PhaseFits, BusyHasRun, [Next]_vars PROVE BusyHasRun'
  OBVIOUS
<1> USE DEF store, turn, place, bounds, BusyHasRun, On, TypeInv, TypeOK, Addressed,
        PhaseFits, Absent, Unsettled, Settled, InFlight
<1>1. CASE UNCHANGED <<phase, runs, agent, status>>
  BY <1>1
<1>2. ASSUME NEW a \in Agents, CreateAgent(a) PROVE BusyHasRun'
  BY <1>2 DEF CreateAgent
<1>3. ASSUME NEW a \in Agents, StartAgent(a) PROVE BusyHasRun'
  BY <1>3 DEF StartAgent
<1>4. ASSUME NEW t \in Turns, NEW a \in Agents, NEW u \in Users, SendMessage(t, a, u)
      PROVE  BusyHasRun'
  BY <1>4 DEF SendMessage
<1>5. ASSUME NEW t \in Turns, Route(t) PROVE BusyHasRun'
  BY <1>5 DEF Route
<1>6. ASSUME NEW t \in Turns, TurnAway(t) PROVE BusyHasRun'
  BY <1>6 DEF TurnAway
<1>7. ASSUME NEW t \in Turns, Admit(t) PROVE BusyHasRun'
  BY <1>7 DEF Admit
<1>8. ASSUME NEW t \in Turns, RefuseAdmission(t) PROVE BusyHasRun'
  BY <1>8 DEF RefuseAdmission
<1>9. ASSUME NEW t \in Turns, StartRun(t) PROVE BusyHasRun'
  BY <1>9 DEF StartRun
<1>10. ASSUME NEW t \in Turns, Launch(t) PROVE BusyHasRun'
  BY <1>10 DEF Launch
<1>11. ASSUME NEW t \in Turns, RunnerEnds(t) PROVE BusyHasRun'
  BY <1>11 DEF RunnerEnds
<1>12. ASSUME NEW t \in Turns, Succeed(t) PROVE BusyHasRun'
  BY <1>12 DEF Succeed, BadgeAfterSuccess
<1>13. ASSUME NEW t \in Turns, FailRun(t) PROVE BusyHasRun'
  BY <1>13 DEF FailRun, BadgeAfterFailure
<1>14. ASSUME NEW t \in Turns, EndRun(t) PROVE BusyHasRun'
  BY <1>14 DEF EndRun, Forget
<1>15. ASSUME NEW t \in Turns, StoreFault(t) PROVE BusyHasRun'
  BY <1>15 DEF StoreFault, Forget
<1>16. ASSUME NEW c \in Calls, FinishStop(c) PROVE BusyHasRun'
  BY <1>16 DEF FinishStop
<1>17. ASSUME NEW c \in Calls, FinishDelete(c) PROVE BusyHasRun'
  BY <1>17 DEF FinishDelete, RunsWithout
<1>18. CASE Crash
  BY <1>18 DEF Crash
<1>19. CASE Restart
  BY <1>19 DEF Restart, Reaped
<1> QED
  BY <1>1, <1>2, <1>3, <1>4, <1>5, <1>6, <1>7, <1>8, <1>9, <1>10, <1>11, <1>12, <1>13,
     <1>14, <1>15, <1>16, <1>17, <1>18, <1>19
     DEF Next, TurnStep, CallStep, vars, BeginCancel, BeginReset, AwaitExecutions,
         Drained, ArchiveFails, FinishReset

\* An execution whose run is open stays in activeExecutions until it is over.
LEMMA TrackedStep ==
  TypeInv /\ PhaseFits /\ OneRunPerPrincipal /\ UnsettledIsTracked /\ [Next]_vars
  => UnsettledIsTracked'
<1> SUFFICES ASSUME TypeInv, PhaseFits, OneRunPerPrincipal, UnsettledIsTracked,
                    [Next]_vars
             PROVE  UnsettledIsTracked'
  OBVIOUS
<1> USE DEF store, turn, place, bounds, UnsettledIsTracked, TypeInv, TypeOK,
        Addressed, PhaseFits, Absent, Unsettled, Settled, InFlight
<1>1. CASE UNCHANGED <<phase, runs, agent, user, execution>>
  BY <1>1
<1>2. ASSUME NEW t \in Turns, NEW a \in Agents, NEW u \in Users, SendMessage(t, a, u)
      PROVE  UnsettledIsTracked'
  BY <1>2 DEF SendMessage
<1>3. ASSUME NEW t \in Turns, Route(t) PROVE UnsettledIsTracked'
  BY <1>3 DEF Route
<1>4. ASSUME NEW t \in Turns, TurnAway(t) PROVE UnsettledIsTracked'
  BY <1>4 DEF TurnAway
<1>5. ASSUME NEW t \in Turns, Admit(t) PROVE UnsettledIsTracked'
  BY <1>5 DEF Admit, AlreadyRunning, On
<1>6. ASSUME NEW t \in Turns, RefuseAdmission(t) PROVE UnsettledIsTracked'
  BY <1>6 DEF RefuseAdmission
<1>7. ASSUME NEW t \in Turns, StartRun(t) PROVE UnsettledIsTracked'
  BY <1>7 DEF StartRun
<1>8. ASSUME NEW t \in Turns, Launch(t) PROVE UnsettledIsTracked'
  BY <1>8 DEF Launch
<1>9. ASSUME NEW t \in Turns, RunnerEnds(t) PROVE UnsettledIsTracked'
  BY <1>9 DEF RunnerEnds
<1>10. ASSUME NEW t \in Turns, Succeed(t) PROVE UnsettledIsTracked'
  BY <1>10 DEF Succeed, AfterOutcome
<1>11. ASSUME NEW t \in Turns, FailRun(t) PROVE UnsettledIsTracked'
  BY <1>11 DEF FailRun
<1>12. ASSUME NEW t \in Turns, EndRun(t) PROVE UnsettledIsTracked'
  BY <1>12 DEF EndRun, Forget
<1>13. ASSUME NEW t \in Turns, StoreFault(t) PROVE UnsettledIsTracked'
  <2>1. CASE phase[t] \in {"admitting", "succeeding"}
    BY <2>1, <1>13 DEF StoreFault
  <2>2. CASE phase[t] \in {"starting", "failing", "cancelled"}
    <3>1. Forget(t) /\ runs' = runs /\ agent' = agent /\ user' = user
      BY <2>2, <1>13 DEF StoreFault
    <3> SUFFICES ASSUME NEW x \in Turns, InFlight(x)', phase'[x] # "over"
                 PROVE  execution'[agent[x]][user[x]] = x
      BY <3>1
    <3>2. x # t /\ execution[agent[x]][user[x]] = x
      BY <3>1 DEF Forget
    <3> QED
      BY <3>1, <3>2 DEF Forget
  <2> QED
    BY <2>1, <2>2, <1>13 DEF StoreFault
<1>14. ASSUME NEW c \in Calls, FinishDelete(c) PROVE UnsettledIsTracked'
  BY <1>14 DEF FinishDelete, RunsWithout, On
<1>15. CASE Crash
  BY <1>15 DEF Crash
<1>16. CASE Restart
  BY <1>16 DEF Restart, Reaped
<1> QED
  BY <1>1, <1>2, <1>3, <1>4, <1>5, <1>6, <1>7, <1>8, <1>9, <1>10, <1>11, <1>12, <1>13,
     <1>14, <1>15, <1>16
     DEF Next, TurnStep, CallStep, vars, CreateAgent, StartAgent, BeginCancel,
         BeginReset, AwaitExecutions, Drained, FinishStop, ArchiveFails, FinishReset

\* Only a rejected mutation ends an execution before its run.
LEMMA OrphanStep ==
  TypeInv /\ PhaseFits /\ OrphanNeedsStoreFault /\ [Next]_vars
  => OrphanNeedsStoreFault'
<1> SUFFICES ASSUME TypeInv, PhaseFits, OrphanNeedsStoreFault, [Next]_vars
             PROVE  OrphanNeedsStoreFault'
  OBVIOUS
<1> USE BoundsAssumption DEF store, turn, place, bounds, OrphanNeedsStoreFault,
        TypeInv, TypeOK, PhaseFits, Absent, Unsettled, Settled, InFlight
<1>1. CASE UNCHANGED <<phase, runs, up, faults>>
  BY <1>1
<1>2. ASSUME NEW t \in Turns, NEW a \in Agents, NEW u \in Users, SendMessage(t, a, u)
      PROVE  OrphanNeedsStoreFault'
  BY <1>2 DEF SendMessage
<1>3. ASSUME NEW t \in Turns, Route(t) PROVE OrphanNeedsStoreFault'
  BY <1>3 DEF Route
<1>4. ASSUME NEW t \in Turns, TurnAway(t) PROVE OrphanNeedsStoreFault'
  BY <1>4 DEF TurnAway
<1>5. ASSUME NEW t \in Turns, Admit(t) PROVE OrphanNeedsStoreFault'
  BY <1>5 DEF Admit
<1>6. ASSUME NEW t \in Turns, RefuseAdmission(t) PROVE OrphanNeedsStoreFault'
  BY <1>6 DEF RefuseAdmission
<1>7. ASSUME NEW t \in Turns, StartRun(t) PROVE OrphanNeedsStoreFault'
  BY <1>7 DEF StartRun
<1>8. ASSUME NEW t \in Turns, Launch(t) PROVE OrphanNeedsStoreFault'
  BY <1>8 DEF Launch
<1>9. ASSUME NEW t \in Turns, RunnerEnds(t) PROVE OrphanNeedsStoreFault'
  BY <1>9 DEF RunnerEnds
<1>10. ASSUME NEW t \in Turns, Succeed(t) PROVE OrphanNeedsStoreFault'
  BY <1>10 DEF Succeed, AfterOutcome
<1>11. ASSUME NEW t \in Turns, FailRun(t) PROVE OrphanNeedsStoreFault'
  BY <1>11 DEF FailRun
<1>12. ASSUME NEW t \in Turns, EndRun(t) PROVE OrphanNeedsStoreFault'
  BY <1>12 DEF EndRun, Forget
<1>13. ASSUME NEW t \in Turns, StoreFault(t) PROVE OrphanNeedsStoreFault'
  BY <1>13 DEF StoreFault, Forget
<1>14. ASSUME NEW c \in Calls, FinishDelete(c) PROVE OrphanNeedsStoreFault'
  BY <1>14 DEF FinishDelete, RunsWithout
<1>15. CASE Crash
  BY <1>15 DEF Crash
<1>16. CASE Restart
  BY <1>16 DEF Restart, Reaped
<1> QED
  BY <1>1, <1>2, <1>3, <1>4, <1>5, <1>6, <1>7, <1>8, <1>9, <1>10, <1>11, <1>12, <1>13,
     <1>14, <1>15, <1>16
     DEF Next, TurnStep, CallStep, vars, CreateAgent, StartAgent, BeginCancel,
         BeginReset, AwaitExecutions, Drained, FinishStop, ArchiveFails, FinishReset

\* Whoever requests a cancellation is there until it is taken back.
LEMMA CancellationStep ==
  TypeInv /\ CancellationIsOwned /\ [Next]_vars
  => CancellationIsOwned'
<1> SUFFICES ASSUME TypeInv, CancellationIsOwned, [Next]_vars
             PROVE  CancellationIsOwned'
  OBVIOUS
<1> USE DEF store, turn, place, bounds, CancellationIsOwned, TypeInv, TypeOK,
        CallRecords
<1>1. CASE UNCHANGED <<cancelling, call>>
  BY <1>1
<1>2. ASSUME NEW t \in Turns, Admit(t) PROVE CancellationIsOwned'
  BY <1>2 DEF Admit, Served
<1>3. ASSUME NEW t \in Turns, RefuseAdmission(t) PROVE CancellationIsOwned'
  BY <1>3 DEF RefuseAdmission, Served
<1>4. ASSUME NEW t \in Turns, StartRun(t) PROVE CancellationIsOwned'
  BY <1>4 DEF StartRun, Served
<1>5. ASSUME NEW t \in Turns, Succeed(t) PROVE CancellationIsOwned'
  BY <1>5 DEF Succeed, Served
<1>6. ASSUME NEW t \in Turns, FailRun(t) PROVE CancellationIsOwned'
  BY <1>6 DEF FailRun, Served
<1>7. ASSUME NEW t \in Turns, StoreFault(t) PROVE CancellationIsOwned'
  BY <1>7 DEF StoreFault, Forget, Served
<1>8. ASSUME NEW c \in Calls, NEW a \in Agents, NEW kind \in {"stop", "delete"},
             BeginCancel(c, kind, a)
      PROVE  CancellationIsOwned'
  <2>1. call[c].phase = "idle" /\ call'[c].phase = "killing" /\ call'[c].agent = a
        /\ \A d \in Calls \ {c} : call'[d] = call[d]
    BY <1>8 DEF BeginCancel, NoCall
  <2>2. cancelling' = cancelling \cup {a}
    BY <1>8 DEF BeginCancel
  <2> QED
    BY <2>1, <2>2
<1>9. ASSUME NEW c \in Calls, NEW a \in Agents, NEW u \in Users, BeginReset(c, a, u)
      PROVE  CancellationIsOwned'
  <2>1. call[c].phase = "idle" /\ \A d \in Calls \ {c} : call'[d] = call[d]
    BY <1>9 DEF BeginReset, NoCall
  <2>2. cancelling' = cancelling
    BY <1>9 DEF BeginReset
  <2>3. ASSUME NEW b \in cancelling
        PROVE  \E d \in Calls : call'[d].agent = b /\ call'[d].phase \in {"killing", "draining"}
    <3>1. PICK d \in Calls : call[d].agent = b /\ call[d].phase \in {"killing", "draining"}
      BY <2>3
    <3>2. d # c
      BY <3>1, <2>1
    <3> QED
      BY <3>1, <3>2, <2>1
  <2> QED
    BY <2>2, <2>3
<1>10. ASSUME NEW c \in Calls, AwaitExecutions(c) PROVE CancellationIsOwned'
  BY <1>10 DEF AwaitExecutions
<1>11. ASSUME NEW c \in Calls, Drained(c) PROVE CancellationIsOwned'
  BY <1>11 DEF Drained, NoLongerCancelling
<1>12. ASSUME NEW c \in Calls, FinishStop(c) PROVE CancellationIsOwned'
  BY <1>12 DEF FinishStop, NoCall
<1>13. ASSUME NEW c \in Calls, FinishDelete(c) PROVE CancellationIsOwned'
  BY <1>13 DEF FinishDelete, RunsWithout, NoCall
<1>14. ASSUME NEW c \in Calls, ArchiveFails(c) PROVE CancellationIsOwned'
  BY <1>14 DEF ArchiveFails, NoCall
<1>15. ASSUME NEW c \in Calls, FinishReset(c) PROVE CancellationIsOwned'
  BY <1>15 DEF FinishReset, NoCall
<1>16. CASE Crash
  BY <1>16 DEF Crash, NoCall
<1> QED
  BY <1>1, <1>2, <1>3, <1>4, <1>5, <1>6, <1>7, <1>8, <1>9, <1>10, <1>11, <1>12, <1>13,
     <1>14, <1>15, <1>16
     DEF Next, TurnStep, CallStep, vars, CreateAgent, StartAgent, SendMessage, Route,
         TurnAway, Launch, RunnerEnds, EndRun, Restart

\* What a stop or a delete knows of the runs that were open when it was called:
\* they are admitted, on its Agent, and awaited unless a mutation was rejected.
StopWaits ==
  \A c \in Calls :
    /\ call[c].phase \in {"killing", "draining", "finishing"}
         => \A t \in call[c].earlier : /\ agent[t] = call[c].agent
                                       /\ phase[t] \notin {"idle", "routing", "admitting"}
    /\ call[c].phase = "draining"
         => \A t \in call[c].earlier : InFlight(t) /\ faults = 0 => t \in call[c].awaiting

\* From the request to the wait and its end, a stop keeps count of the runs before it.
LEMMA StopWaitsStep ==
  TypeInv /\ PhaseFits /\ RunsHaveAgents /\ UnsettledIsTracked /\
  OrphanNeedsStoreFault /\ StopWaits /\ StopOutlastsEarlierRuns /\ [Next]_vars
  => (StopWaits /\ StopOutlastsEarlierRuns)'
<1> SUFFICES ASSUME TypeInv, PhaseFits, RunsHaveAgents, UnsettledIsTracked,
                    OrphanNeedsStoreFault, StopWaits, StopOutlastsEarlierRuns,
                    [Next]_vars
             PROVE  (StopWaits /\ StopOutlastsEarlierRuns)'
  OBVIOUS
<1> USE BoundsAssumption DEF store, turn, place, bounds, StopWaits,
        StopOutlastsEarlierRuns, TypeInv, TypeOK, Addressed, PhaseFits, CallRecords,
        Absent, Unsettled, Settled, InFlight
<1>1. CASE UNCHANGED <<phase, runs, agent, faults, call>>
  BY <1>1
<1>2. ASSUME NEW t \in Turns, NEW a \in Agents, NEW u \in Users, SendMessage(t, a, u)
      PROVE  (StopWaits /\ StopOutlastsEarlierRuns)'
  BY <1>2 DEF SendMessage
<1>3. ASSUME NEW t \in Turns, Route(t)
      PROVE  (StopWaits /\ StopOutlastsEarlierRuns)'
  BY <1>3 DEF Route
<1>4. ASSUME NEW t \in Turns, TurnAway(t)
      PROVE  (StopWaits /\ StopOutlastsEarlierRuns)'
  BY <1>4 DEF TurnAway
<1>5. ASSUME NEW t \in Turns, Admit(t)
      PROVE  (StopWaits /\ StopOutlastsEarlierRuns)'
  BY <1>5 DEF Admit, Served
<1>6. ASSUME NEW t \in Turns, RefuseAdmission(t)
      PROVE  (StopWaits /\ StopOutlastsEarlierRuns)'
  BY <1>6 DEF RefuseAdmission, Served
<1>7. ASSUME NEW t \in Turns, StartRun(t)
      PROVE  (StopWaits /\ StopOutlastsEarlierRuns)'
  BY <1>7 DEF StartRun, Served
<1>8. ASSUME NEW t \in Turns, Launch(t)
      PROVE  (StopWaits /\ StopOutlastsEarlierRuns)'
  BY <1>8 DEF Launch
<1>9. ASSUME NEW t \in Turns, RunnerEnds(t)
      PROVE  (StopWaits /\ StopOutlastsEarlierRuns)'
  BY <1>9 DEF RunnerEnds
<1>10. ASSUME NEW t \in Turns, Succeed(t)
      PROVE  (StopWaits /\ StopOutlastsEarlierRuns)'
  <2>1. \A x \in Turns : InFlight(x)' => InFlight(x)
    BY <1>10 DEF Succeed
  <2>2. \A x \in Turns : agent'[x] = agent[x] /\ phase'[x] \in {phase[x], "evidence"}
    BY <1>10 DEF Succeed, AfterOutcome
  <2>3. \A d \in Calls : /\ call'[d].phase = call[d].phase /\ call'[d].agent = call[d].agent
                         /\ call'[d].earlier = call[d].earlier
                         /\ call[d].phase = "draining" => call'[d].awaiting = call[d].awaiting
    BY <1>10 DEF Succeed, Served
  <2>4. faults' = faults /\ phase[t] = "succeeding"
    BY <1>10 DEF Succeed
  <2> QED
    BY <2>1, <2>2, <2>3, <2>4
<1>11. ASSUME NEW t \in Turns, FailRun(t)
      PROVE  (StopWaits /\ StopOutlastsEarlierRuns)'
  BY <1>11 DEF FailRun, Served
<1>12. ASSUME NEW t \in Turns, EndRun(t)
      PROVE  (StopWaits /\ StopOutlastsEarlierRuns)'
  BY <1>12 DEF EndRun, Forget
<1>13. ASSUME NEW t \in Turns, StoreFault(t)
      PROVE  (StopWaits /\ StopOutlastsEarlierRuns)'
  BY <1>13 DEF StoreFault, Forget, Served
<1>14. ASSUME NEW c \in Calls, NEW a \in Agents, NEW kind \in {"stop", "delete"},
             BeginCancel(c, kind, a)
      PROVE  (StopWaits /\ StopOutlastsEarlierRuns)'
  BY <1>14 DEF BeginCancel, Live, On, NoCall
<1>15. ASSUME NEW c \in Calls, NEW a \in Agents, NEW u \in Users, BeginReset(c, a, u)
      PROVE  (StopWaits /\ StopOutlastsEarlierRuns)'
  BY <1>15 DEF BeginReset, NoCall
<1>16. ASSUME NEW c \in Calls, AwaitExecutions(c)
      PROVE  (StopWaits /\ StopOutlastsEarlierRuns)'
  <2>1. ASSUME NEW t \in call[c].earlier, InFlight(t), faults = 0
        PROVE  t \in Awaited(call[c].agent)
    <3>1. agent[t] = call[c].agent /\ agent[t] \in Agents /\ user[t] \in Users /\ up
      BY <2>1, <1>16 DEF AwaitExecutions
    <3>2. execution[agent[t]][user[t]] = t
      BY <2>1, <3>1 DEF UnsettledIsTracked, OrphanNeedsStoreFault
    <3> QED
      BY <2>1, <3>1, <3>2, NoTurnAssumption DEF Awaited
  <2>2. call'[c].awaiting = Awaited(call[c].agent) /\ call'[c].phase = "draining"
        /\ call'[c].agent = call[c].agent /\ call'[c].earlier = call[c].earlier
        /\ call[c].phase = "killing" /\ \A d \in Calls \ {c} : call'[d] = call[d]
    BY <1>16 DEF AwaitExecutions
  <2>3. runs' = runs /\ phase' = phase /\ agent' = agent /\ faults' = faults
    BY <1>16 DEF AwaitExecutions
  <2>4. ASSUME NEW d \in Calls \ {c}
        PROVE  /\ call'[d].phase \in {"killing", "draining", "finishing"}
                    => \A t \in call'[d].earlier :
                         /\ agent'[t] = call'[d].agent
                         /\ phase'[t] \notin {"idle", "routing", "admitting"}
               /\ call'[d].phase = "draining"
                    => \A t \in call'[d].earlier :
                         runs'[t] \in Unsettled /\ faults' = 0 => t \in call'[d].awaiting
               /\ call'[d].phase = "finishing" /\ faults' = 0
                    => \A t \in call'[d].earlier : runs'[t] \notin Unsettled
    BY <2>2, <2>3
  <2>5. /\ \A t \in call'[c].earlier :
             /\ agent'[t] = call'[c].agent
             /\ phase'[t] \notin {"idle", "routing", "admitting"}
             /\ runs'[t] \in Unsettled /\ faults' = 0 => t \in call'[c].awaiting
        /\ call'[c].phase = "draining"
    BY <2>1, <2>2, <2>3
  <2> QED
    BY <2>4, <2>5
<1>17. ASSUME NEW c \in Calls, Drained(c)
      PROVE  (StopWaits /\ StopOutlastsEarlierRuns)'
  BY <1>17 DEF Drained, NoLongerCancelling, OrphanNeedsStoreFault
<1>18. ASSUME NEW c \in Calls, FinishStop(c)
      PROVE  (StopWaits /\ StopOutlastsEarlierRuns)'
  BY <1>18 DEF FinishStop, NoCall
<1>19. ASSUME NEW c \in Calls, FinishDelete(c)
      PROVE  (StopWaits /\ StopOutlastsEarlierRuns)'
  BY <1>19 DEF FinishDelete, RunsWithout, NoCall
<1>20. ASSUME NEW c \in Calls, ArchiveFails(c)
      PROVE  (StopWaits /\ StopOutlastsEarlierRuns)'
  BY <1>20 DEF ArchiveFails, NoCall
<1>21. ASSUME NEW c \in Calls, FinishReset(c)
      PROVE  (StopWaits /\ StopOutlastsEarlierRuns)'
  BY <1>21 DEF FinishReset, NoCall
<1>22. CASE Crash
  BY <1>22 DEF Crash, NoCall
<1>23. CASE Restart
  BY <1>23 DEF Restart, Reaped
<1> QED
  BY <1>1, <1>2, <1>3, <1>4, <1>5, <1>6, <1>7, <1>8, <1>9, <1>10, <1>11, <1>12, <1>13,
     <1>14, <1>15, <1>16, <1>17, <1>18, <1>19, <1>20, <1>21, <1>22, <1>23
     DEF Next, TurnStep, CallStep, vars, CreateAgent, StartAgent

\* A principal's thread on an Agent was begun by one of that principal's turns
\* there, and so was the thread a turn resumes.
ThreadsFit ==
  /\ \A a \in Agents, u \in Users :
       LET x == threads[a][u]
       IN x # NoTurn => /\ phase[x] \notin {"idle", "routing", "admitting"}
                        /\ agent[x] = a /\ user[x] = u
  /\ \A t \in Turns :
       LET x == resume[t]
       IN x # NoTurn => /\ phase[t] \notin {"idle", "routing", "admitting"}
                        /\ phase[x] \notin {"idle", "routing", "admitting"}
                        /\ agent[x] = agent[t] /\ user[x] = user[t]

\* Resuming, storing and dropping a thread keep it with its principal.
LEMMA ThreadsFitStep == TypeInv /\ ThreadsFit /\ [Next]_vars => ThreadsFit'
<1> SUFFICES ASSUME TypeInv, ThreadsFit, [Next]_vars PROVE ThreadsFit'
  OBVIOUS
<1> USE NoTurnAssumption DEF store, turn, place, bounds, ThreadsFit, TypeInv, TypeOK,
        Addressed, Phases
<1>1. CASE UNCHANGED <<phase, agent, user, resume, threads>>
  BY <1>1
<1>2. ASSUME NEW t \in Turns, NEW a \in Agents, NEW u \in Users, SendMessage(t, a, u)
      PROVE  ThreadsFit'
  BY <1>2 DEF SendMessage
<1>3. ASSUME NEW t \in Turns, Route(t) PROVE ThreadsFit'
  BY <1>3 DEF Route
<1>4. ASSUME NEW t \in Turns, TurnAway(t) PROVE ThreadsFit'
  BY <1>4 DEF TurnAway
<1>5. ASSUME NEW t \in Turns, Admit(t) PROVE ThreadsFit'
  BY <1>5 DEF Admit, Resume
<1>6. ASSUME NEW t \in Turns, RefuseAdmission(t) PROVE ThreadsFit'
  BY <1>6 DEF RefuseAdmission
<1>7. ASSUME NEW t \in Turns, StartRun(t) PROVE ThreadsFit'
  BY <1>7 DEF StartRun
<1>8. ASSUME NEW t \in Turns, Launch(t) PROVE ThreadsFit'
  BY <1>8 DEF Launch
<1>9. ASSUME NEW t \in Turns, RunnerEnds(t) PROVE ThreadsFit'
  BY <1>9 DEF RunnerEnds
<1>10. ASSUME NEW t \in Turns, Succeed(t) PROVE ThreadsFit'
  <2>1. agent' = agent /\ user' = user /\ resume' = resume /\ agent[t] \in Agents /\ user[t] \in Users
    BY <1>10 DEF Succeed
  <2>2. \A x \in Turns : phase[x] \notin {"idle", "routing", "admitting"}
                         => phase'[x] \notin {"idle", "routing", "admitting"}
    BY <1>10 DEF Succeed, AfterOutcome
  <2>3. phase[t] = "succeeding" /\ phase'[t] = "evidence"
    BY <1>10 DEF Succeed, AfterOutcome
  <2>4. \A a \in Agents, u \in Users :
          \/ threads'[a][u] = threads[a][u]
          \/ a = agent[t] /\ u = user[t]
             /\ threads'[a][u] = IF resume[t] = NoTurn THEN t ELSE resume[t]
    <3>1. threads' = threads \/
          threads' = [threads EXCEPT ![agent[t]][user[t]] =
                        IF resume[t] = NoTurn THEN t ELSE resume[t]]
      BY <1>10 DEF Succeed
    <3> HIDE DEF ThreadsFit, Addressed
    <3> QED
      BY <3>1, <2>1
  <2> HIDE DEF TypeInv, TypeOK, Addressed, Phases
  <2>5. \A a \in Agents, u \in Users : threads[a][u] \in Turns \cup {NoTurn}
    BY DEF TypeInv, TypeOK
  <2>6. \A x \in Turns : resume[x] \in Turns \cup {NoTurn}
    BY DEF TypeInv, TypeOK
  <2> QED
    BY <2>1, <2>2, <2>3, <2>4, <2>5, <2>6
<1>11. ASSUME NEW t \in Turns, FailRun(t) PROVE ThreadsFit'
  BY <1>11 DEF FailRun
<1>12. ASSUME NEW t \in Turns, EndRun(t) PROVE ThreadsFit'
  BY <1>12 DEF EndRun, Forget
<1>13. ASSUME NEW t \in Turns, StoreFault(t) PROVE ThreadsFit'
  BY <1>13 DEF StoreFault, Forget
<1>14. ASSUME NEW c \in Calls, FinishDelete(c) PROVE ThreadsFit'
  BY <1>14 DEF FinishDelete, RunsWithout
<1>15. ASSUME NEW c \in Calls, FinishReset(c) PROVE ThreadsFit'
  <2>1. \A a \in Agents, u \in Users : threads'[a][u] \in {threads[a][u], NoTurn}
    <3>1. threads' = threads \/
          threads' = [threads EXCEPT ![call[c].agent][call[c].user] = NoTurn]
      BY <1>15 DEF FinishReset
    <3>2. threads \in [Agents -> [Users -> Turns \cup {NoTurn}]]
      OBVIOUS
    <3>3. call[c].agent \in Agents /\ call[c].user \in Users
      BY <1>15 DEF FinishReset
    <3> HIDE DEF TypeInv, TypeOK, ThreadsFit, Addressed
    <3> QED
      BY <3>1, <3>2, <3>3
  <2>2. agent' = agent /\ user' = user /\ resume' = resume /\ phase' = phase
    BY <1>15 DEF FinishReset
  <2> QED
    BY <2>1, <2>2
<1>16. CASE Crash
  BY <1>16 DEF Crash
<1> QED
  BY <1>1, <1>2, <1>3, <1>4, <1>5, <1>6, <1>7, <1>8, <1>9, <1>10, <1>11, <1>12, <1>13,
     <1>14, <1>15, <1>16
     DEF Next, TurnStep, CallStep, vars, CreateAgent, StartAgent, BeginCancel,
         BeginReset, AwaitExecutions, Drained, FinishStop, ArchiveFails, Restart

\* Only an execution that is still working stores an outcome.
LEMMA OutcomesStep ==
  TypeInv /\ PhaseFits /\ [Next]_vars
  => (\A x \in Turns : runs[x] \in Settled => runs'[x] \in {runs[x], "none"})
<1> SUFFICES ASSUME TypeInv, PhaseFits, [Next]_vars
             PROVE  (\A x \in Turns : runs[x] \in Settled => runs'[x] \in {runs[x], "none"})
  OBVIOUS
<1> USE DEF store, turn, place, bounds, TypeInv, TypeOK, PhaseFits, Phases, Absent,
        Unsettled, Settled, InFlight
<1>1. CASE UNCHANGED <<runs, phase>>
  BY <1>1
<1>2. ASSUME NEW t \in Turns, NEW a \in Agents, NEW u \in Users, SendMessage(t, a, u)
      PROVE  (\A x \in Turns : runs[x] \in Settled => runs'[x] \in {runs[x], "none"})
  BY <1>2 DEF SendMessage
<1>3. ASSUME NEW t \in Turns, Route(t)
      PROVE  (\A x \in Turns : runs[x] \in Settled => runs'[x] \in {runs[x], "none"})
  BY <1>3 DEF Route
<1>4. ASSUME NEW t \in Turns, TurnAway(t)
      PROVE  (\A x \in Turns : runs[x] \in Settled => runs'[x] \in {runs[x], "none"})
  BY <1>4 DEF TurnAway
<1>5. ASSUME NEW t \in Turns, Admit(t)
      PROVE  (\A x \in Turns : runs[x] \in Settled => runs'[x] \in {runs[x], "none"})
  BY <1>5 DEF Admit
<1>6. ASSUME NEW t \in Turns, RefuseAdmission(t)
      PROVE  (\A x \in Turns : runs[x] \in Settled => runs'[x] \in {runs[x], "none"})
  BY <1>6 DEF RefuseAdmission
<1>7. ASSUME NEW t \in Turns, StartRun(t)
      PROVE  (\A x \in Turns : runs[x] \in Settled => runs'[x] \in {runs[x], "none"})
  BY <1>7 DEF StartRun
<1>8. ASSUME NEW t \in Turns, Launch(t)
      PROVE  (\A x \in Turns : runs[x] \in Settled => runs'[x] \in {runs[x], "none"})
  BY <1>8 DEF Launch
<1>9. ASSUME NEW t \in Turns, RunnerEnds(t)
      PROVE  (\A x \in Turns : runs[x] \in Settled => runs'[x] \in {runs[x], "none"})
  BY <1>9 DEF RunnerEnds
<1>10. ASSUME NEW t \in Turns, Succeed(t)
      PROVE  (\A x \in Turns : runs[x] \in Settled => runs'[x] \in {runs[x], "none"})
  BY <1>10 DEF Succeed
<1>11. ASSUME NEW t \in Turns, FailRun(t)
      PROVE  (\A x \in Turns : runs[x] \in Settled => runs'[x] \in {runs[x], "none"})
  BY <1>11 DEF FailRun
<1>12. ASSUME NEW t \in Turns, EndRun(t)
      PROVE  (\A x \in Turns : runs[x] \in Settled => runs'[x] \in {runs[x], "none"})
  BY <1>12 DEF EndRun, Forget
<1>13. ASSUME NEW t \in Turns, StoreFault(t)
      PROVE  (\A x \in Turns : runs[x] \in Settled => runs'[x] \in {runs[x], "none"})
  BY <1>13 DEF StoreFault, Forget
<1>14. ASSUME NEW c \in Calls, FinishDelete(c)
      PROVE  (\A x \in Turns : runs[x] \in Settled => runs'[x] \in {runs[x], "none"})
  BY <1>14 DEF FinishDelete, RunsWithout, On
<1>15. CASE Crash
  BY <1>15 DEF Crash
<1>16. CASE Restart
  BY <1>16 DEF Restart, Reaped
<1> QED
  BY <1>1, <1>2, <1>3, <1>4, <1>5, <1>6, <1>7, <1>8, <1>9, <1>10, <1>11, <1>12, <1>13,
     <1>14, <1>15, <1>16
     DEF Next, TurnStep, CallStep, vars, CreateAgent, StartAgent, BeginCancel,
         BeginReset, AwaitExecutions, Drained, FinishStop, ArchiveFails, FinishReset

\* The inductive invariant: the safety invariants, and what makes them inductive.
LifecycleInv ==
  /\ TypeInv
  /\ PhaseFits
  /\ RunsHaveAgents
  /\ OneRunPerPrincipal
  /\ BusyHasRun
  /\ UnsettledIsTracked
  /\ OrphanNeedsStoreFault
  /\ CancellationIsOwned
  /\ StopWaits
  /\ StopOutlastsEarlierRuns
  /\ ThreadsFit

LEMMA LifecycleInit == Init => LifecycleInv
<1> SUFFICES ASSUME Init PROVE LifecycleInv
  OBVIOUS
<1>1. TypeInv
  BY TypeInit
<1>2. PhaseFits /\ RunsHaveAgents /\ OneRunPerPrincipal /\ UnsettledIsTracked
      /\ OrphanNeedsStoreFault
  BY DEF Init, PhaseFits, RunsHaveAgents, OneRunPerPrincipal, UnsettledIsTracked,
         OrphanNeedsStoreFault, InFlight, Unsettled
<1>3. BusyHasRun
  BY DEF Init, BusyHasRun
<1>4. CancellationIsOwned /\ StopWaits /\ StopOutlastsEarlierRuns
  BY DEF Init, NoCall, CancellationIsOwned, StopWaits, StopOutlastsEarlierRuns
<1>5. ThreadsFit
  BY DEF Init, ThreadsFit
<1> QED
  BY <1>1, <1>2, <1>3, <1>4, <1>5 DEF LifecycleInv

LEMMA LifecycleInvariant == Spec => []LifecycleInv
<1>1. LifecycleInv /\ [Next]_vars => LifecycleInv'
  BY TypeStep, AddressedStep, PhaseFitsStep, OneRunStep, RecordsStep, BusyStep, TrackedStep,
     OrphanStep, CancellationStep, StopWaitsStep, ThreadsFitStep
     DEF LifecycleInv, TypeInv
<1> QED
  BY LifecycleInit, <1>1, PTL DEF Spec

\* sendMessage's admission refuses a second run of a principal and gives it no thread but
\* its own, whatever else is going on: no run and no thread is ever shared.
THEOREM RunsKeptApartHolds == Spec => []RunsKeptApart
<1>1. LifecycleInv => ThreadsNotShared
  BY DEF LifecycleInv, ThreadsNotShared, ThreadsFit, OneRunPerPrincipal, TypeInv, TypeOK
<1>2. LifecycleInv => RunsKeptApart
  BY <1>1 DEF LifecycleInv, RunsKeptApart
<1> QED
  BY <1>2, LifecycleInvariant, PTL

\* No interleaving of outcomes, stops, deletions and restarts leaves an Agent busy with
\* nothing in flight, a run open without an execution (but for a mutation that the store
\* rejected), or a run without its Agent.
THEOREM StoreTellsTruthHolds == Spec => []StoreTellsTruth
<1>1. LifecycleInv => StoreTellsTruth
  BY DEF LifecycleInv, StoreTellsTruth
<1> QED
  BY <1>1, LifecycleInvariant, PTL

\* activeExecutions always leads a stop to the execution of an open run.
THEOREM TrackedHolds == Spec => []UnsettledIsTracked
  BY LifecycleInvariant, PTL DEF LifecycleInv

\* cancelExecution returns after the outcome of every run that was open when it was
\* called, and its request never outlives the call that made it.
THEOREM StopsReachTheirRunsHolds == Spec => []StopsReachTheirRuns
<1>1. LifecycleInv => StopsReachTheirRuns
  BY DEF LifecycleInv, StopsReachTheirRuns
<1> QED
  BY <1>1, LifecycleInvariant, PTL

\* An outcome the caller has seen is never replaced by another.
THEOREM OutcomesHold == Spec => OutcomesAreFinal
<1>1. LifecycleInv /\ [Next]_vars
      => [\A t \in Turns : runs[t] \in Settled => runs'[t] \in {runs[t], "none"}]_vars
  BY OutcomesStep DEF LifecycleInv
<1> QED
  BY <1>1, LifecycleInvariant, PTL DEF Spec, OutcomesAreFinal

-----------------------------------------------------------------------------
(* What a stop or a delete waits for: the half of NothingHangs that is a     *)
(* matter of every state.                                                    *)

Executing == {"starting", "setup", "live", "succeeding", "failing", "cancelled", "evidence"}

\* An entry of activeExecutions is an execution of that principal on that Agent, and it has
\* not ended.
EntriesRun ==
  \A a \in Agents, u \in Users :
    LET t == execution[a][u]
    IN t # NoTurn => phase[t] \in Executing /\ agent[t] = a /\ user[t] = u

\* runner.cancel is waited for on behalf of containers that were told to stop, and then
\* executions are, which have begun: never a turn that has yet to be admitted.
WaitsFit ==
  \A c \in Calls :
    /\ call[c].phase = "killing" =>
         \A t \in call[c].awaiting :
           /\ phase[t] \in (Executing \ {"starting", "setup"}) \cup {"over"}
           /\ phase[t] = "live" => t \in killed
    /\ call[c].phase = "draining" =>
         \A t \in call[c].awaiting : phase[t] \in Executing \cup {"over"}

\* What an execution that ends leaves in activeExecutions: other turns only.
LEMMA ForgetKeeps ==
  ASSUME TypeInv, EntriesRun, NEW t \in Turns, phase[t] # "idle", Forget(t), UNCHANGED place
  PROVE  EntriesRun'
<1>1. /\ execution \in [Agents -> [Users -> Turns \cup {NoTurn}]] /\ phase \in [Turns -> Phases]
      /\ agent[t] \in Agents /\ user[t] \in Users /\ UNCHANGED <<agent, user>>
  BY DEF TypeInv, TypeOK, Addressed, place
<1>2. phase' = [phase EXCEPT ![t] = "over"]
  BY DEF Forget
<1>3. ASSUME NEW a \in Agents, NEW u \in Users, execution'[a][u] # NoTurn
      PROVE  execution'[a][u] = execution[a][u] /\ execution[a][u] # t
  <2>1. CASE execution[agent[t]][user[t]] = t
    <3>1. execution' = [execution EXCEPT ![agent[t]][user[t]] = NoTurn]
      BY <2>1 DEF Forget
    <3>2. ~(a = agent[t] /\ u = user[t])
      BY <1>1, <1>3, <3>1
    <3>3. execution'[a][u] = execution[a][u]
      BY <1>1, <3>1, <3>2
    <3> QED
      BY <1>3, <3>2, <3>3 DEF EntriesRun
  <2>2. CASE execution[agent[t]][user[t]] # t
    <3>1. execution' = execution
      BY <2>2 DEF Forget
    <3> QED
      BY <1>3, <2>2, <3>1 DEF EntriesRun
  <2> QED
    BY <2>1, <2>2
<1> SUFFICES ASSUME NEW a \in Agents, NEW u \in Users, execution'[a][u] # NoTurn
             PROVE  /\ phase'[execution'[a][u]] \in Executing
                    /\ agent'[execution'[a][u]] = a /\ user'[execution'[a][u]] = u
  BY DEF EntriesRun
<1>4. execution'[a][u] = execution[a][u] /\ execution[a][u] # t /\ execution[a][u] \in Turns
  BY <1>1, <1>3
<1>5. phase'[execution[a][u]] = phase[execution[a][u]]
  BY <1>1, <1>2, <1>4
<1> QED
  BY <1>1, <1>4, <1>5 DEF EntriesRun

\* Each action keeps the entries.
LEMMA EntriesStep == TypeInv /\ EntriesRun /\ [Next]_vars => EntriesRun'
<1> SUFFICES ASSUME TypeInv, EntriesRun, [Next]_vars PROVE EntriesRun'
  OBVIOUS
<1> USE NoTurnAssumption DEF store, turn, place, bounds, EntriesRun, TypeInv, TypeOK, Addressed,
        Executing
<1>1. CASE UNCHANGED <<phase, agent, user, execution>>
  BY <1>1
<1>2. ASSUME NEW t \in Turns, NEW a \in Agents, NEW u \in Users, SendMessage(t, a, u)
      PROVE  EntriesRun'
  BY <1>2 DEF SendMessage
<1>3. ASSUME NEW t \in Turns, Route(t) PROVE EntriesRun'
  BY <1>3 DEF Route
<1>4. ASSUME NEW t \in Turns, TurnAway(t) PROVE EntriesRun'
  BY <1>4 DEF TurnAway
<1>5. ASSUME NEW t \in Turns, Admit(t) PROVE EntriesRun'
  BY <1>5 DEF Admit
<1>6. ASSUME NEW t \in Turns, RefuseAdmission(t) PROVE EntriesRun'
  BY <1>6 DEF RefuseAdmission
<1>7. ASSUME NEW t \in Turns, StartRun(t) PROVE EntriesRun'
  BY <1>7 DEF StartRun
<1>8. ASSUME NEW t \in Turns, Launch(t) PROVE EntriesRun'
  BY <1>8 DEF Launch
<1>9. ASSUME NEW t \in Turns, RunnerEnds(t) PROVE EntriesRun'
  BY <1>9 DEF RunnerEnds
<1>10. ASSUME NEW t \in Turns, Succeed(t) PROVE EntriesRun'
  BY <1>10 DEF Succeed, AfterOutcome
<1>11. ASSUME NEW t \in Turns, FailRun(t) PROVE EntriesRun'
  BY <1>11 DEF FailRun
<1>12. ASSUME NEW t \in Turns, EndRun(t) PROVE EntriesRun'
  BY <1>12, ForgetKeeps DEF EndRun
<1>13. ASSUME NEW t \in Turns, StoreFault(t) PROVE EntriesRun'
  <2>1. UNCHANGED place
    BY <1>13 DEF StoreFault
  <2>2. CASE Forget(t) /\ phase[t] # "idle"
    BY <2>1, <2>2, ForgetKeeps
  <2>3. CASE /\ UNCHANGED execution
             /\ \/ phase[t] = "admitting" /\ phase' = [phase EXCEPT ![t] = "over"]
                \/ phase[t] = "succeeding" /\ phase' = [phase EXCEPT ![t] = "failing"]
    <3>1. /\ \A x \in Turns : x # t => phase'[x] = phase[x]
          /\ phase[t] \in Executing => phase'[t] = "failing"
      BY <2>3
    <3>2. ASSUME NEW a \in Agents, NEW u \in Users, execution[a][u] # NoTurn
          PROVE  execution[a][u] \in Turns /\ phase'[execution[a][u]] \in Executing
      BY <3>1, <3>2
    <3> QED
      BY <2>1, <2>3, <3>2
  <2> QED
    BY <1>13, <2>2, <2>3 DEF StoreFault
<1>14. CASE Crash
  BY <1>14 DEF Crash
<1> QED
  BY <1>1, <1>2, <1>3, <1>4, <1>5, <1>6, <1>7, <1>8,
     <1>9, <1>10, <1>11, <1>12, <1>13, <1>14
     DEF Next, TurnStep, CallStep, vars, CreateAgent, StartAgent, BeginCancel, BeginReset,
         AwaitExecutions, Drained, FinishStop, FinishDelete, ArchiveFails, FinishReset, Restart

\* A turn that is awaited goes forward, and a call takes on what its phase allows.
LEMMA WaitsStep == TypeInv /\ EntriesRun /\ WaitsFit /\ [Next]_vars => WaitsFit'
<1> SUFFICES ASSUME TypeInv, EntriesRun, WaitsFit, [Next]_vars PROVE WaitsFit'
  OBVIOUS
<1> USE NoTurnAssumption DEF store, turn, place, bounds, WaitsFit, TypeInv, TypeOK, Addressed,
        CallRecords, Executing
<1>1. CASE UNCHANGED <<phase, killed, call>>
  BY <1>1
<1>2. ASSUME NEW t \in Turns, NEW a \in Agents, NEW u \in Users, SendMessage(t, a, u)
      PROVE  WaitsFit'
  BY <1>2 DEF SendMessage
<1>3. ASSUME NEW t \in Turns, Route(t) PROVE WaitsFit'
  BY <1>3 DEF Route
<1>4. ASSUME NEW t \in Turns, TurnAway(t) PROVE WaitsFit'
  BY <1>4 DEF TurnAway
<1>5. ASSUME NEW t \in Turns, Admit(t) PROVE WaitsFit'
  BY <1>5 DEF Admit, Served
<1>6. ASSUME NEW t \in Turns, RefuseAdmission(t) PROVE WaitsFit'
  BY <1>6 DEF RefuseAdmission, Served
<1>7. ASSUME NEW t \in Turns, StartRun(t) PROVE WaitsFit'
  BY <1>7 DEF StartRun, Served
<1>8. ASSUME NEW t \in Turns, Launch(t) PROVE WaitsFit'
  BY <1>8 DEF Launch
<1>9. ASSUME NEW t \in Turns, RunnerEnds(t) PROVE WaitsFit'
  BY <1>9 DEF RunnerEnds
<1>10. ASSUME NEW t \in Turns, Succeed(t) PROVE WaitsFit'
  BY <1>10 DEF Succeed, Served, AfterOutcome
<1>11. ASSUME NEW t \in Turns, FailRun(t) PROVE WaitsFit'
  BY <1>11 DEF FailRun, Served
<1>12. ASSUME NEW t \in Turns, EndRun(t) PROVE WaitsFit'
  BY <1>12 DEF EndRun, Forget
<1>13. ASSUME NEW t \in Turns, StoreFault(t) PROVE WaitsFit'
  BY <1>13 DEF StoreFault, Forget, Served
<1>14. ASSUME NEW c \in Calls, NEW a \in Agents, NEW kind \in {"stop", "delete"},
             BeginCancel(c, kind, a)
      PROVE  WaitsFit'
  BY <1>14 DEF BeginCancel, Live, On
<1>15. ASSUME NEW c \in Calls, NEW a \in Agents, NEW u \in Users, BeginReset(c, a, u)
      PROVE  WaitsFit'
  BY <1>15 DEF BeginReset, NoCall
<1>16. ASSUME NEW c \in Calls, AwaitExecutions(c) PROVE WaitsFit'
  <2>1. ASSUME NEW t \in Awaited(call[c].agent) PROVE phase[t] \in Executing
    BY <1>16, <2>1 DEF AwaitExecutions, EntriesRun, Awaited
  <2>2. call'[c].phase = "draining" /\ call'[c].awaiting = Awaited(call[c].agent)
        /\ \A d \in Calls \ {c} : call'[d] = call[d]
    BY <1>16 DEF AwaitExecutions
  <2>3. UNCHANGED <<phase, killed>>
    BY <1>16 DEF AwaitExecutions
  <2> QED
    BY <2>1, <2>2, <2>3
<1>17. ASSUME NEW c \in Calls, Drained(c) PROVE WaitsFit'
  BY <1>17 DEF Drained, NoCall
<1>18. ASSUME NEW c \in Calls, FinishStop(c) PROVE WaitsFit'
  BY <1>18 DEF FinishStop, NoCall
<1>19. ASSUME NEW c \in Calls, FinishDelete(c) PROVE WaitsFit'
  BY <1>19 DEF FinishDelete, NoCall
<1>20. ASSUME NEW c \in Calls, ArchiveFails(c) PROVE WaitsFit'
  BY <1>20 DEF ArchiveFails, NoCall
<1>21. ASSUME NEW c \in Calls, FinishReset(c) PROVE WaitsFit'
  BY <1>21 DEF FinishReset, NoCall
<1>22. CASE Crash
  BY <1>22 DEF Crash, NoCall
<1> QED
  BY <1>1, <1>2, <1>3, <1>4, <1>5, <1>6, <1>7, <1>8, <1>9, <1>10, <1>11, <1>12, <1>13,
     <1>14, <1>15, <1>16, <1>17, <1>18, <1>19, <1>20, <1>21, <1>22
     DEF Next, TurnStep, CallStep, vars, CreateAgent, StartAgent, Restart

\* cancelExecution never waits for what need not happen. While runner.cancel has not returned,
\* the containers in its way have been told to stop; afterwards it waits for executions that
\* have begun, none of which waits for a stop or a delete (Queued: a mutation waits for a
\* reset's, at most). So no circle of waits can hold NothingHangs up.
THEOREM WaitsAreForTheEnding == Spec => []WaitsFit
<1>1. Init => EntriesRun /\ WaitsFit
  BY DEF Init, EntriesRun, WaitsFit, NoCall
<1>2. LifecycleInv /\ EntriesRun /\ WaitsFit /\ [Next]_vars => EntriesRun' /\ WaitsFit'
  BY EntriesStep, WaitsStep DEF LifecycleInv
<1> QED
  BY <1>1, <1>2, LifecycleInvariant, PTL DEF Spec
=============================================================================
