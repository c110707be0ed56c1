--------------------------- MODULE AgentLifecycle ---------------------------
(***************************************************************************)
(* apps/server/src/agent-service.ts: Agents, the runs principals start on  *)
(* them, and the operator calls that stop, delete, start and reset them.   *)
(*                                                                         *)
(* The server is one event loop, so a step is the code between two awaits. *)
(* A `store.mutate` is one step taken at any time after the handler        *)
(* reaches it (JsonStore shows that it is atomic), together with the code  *)
(* that follows it up to the next await; a `store.snapshot` belongs to the *)
(* step that reads it, and what was read may be stale when it is used.     *)
(* The runner is the container runner as executeRun and cancelExecution    *)
(* see it; which Agent a prompt is routed to is left open.                 *)
(***************************************************************************)
EXTENDS Naturals, FiniteSets

CONSTANTS Agents, Users,
          Turns,           \* calls of sendMessage; a turn's run has the turn's name
          Calls,           \* operator calls that may be in progress together
          NoTurn, NoAgent, NoUser,
          MaxCrashes,      \* bound: how often the process may die
          MaxFaults        \* bound: how many mutations the store may reject

ASSUME NoTurnAssumption == NoTurn \notin Turns
ASSUME NoAgentAssumption == NoAgent \notin Agents
ASSUME NoUserAssumption == NoUser \notin Users
ASSUME BoundsAssumption == MaxCrashes \in Nat /\ MaxFaults \in Nat

VARIABLES status,     \* store: agent.status ("unborn" and "deleted": no record)
          runs,       \* store: run.status ("none": no record)
          threads,    \* store: agent.codexThreads, a thread named by the turn that began it
          phase,      \* how far a sendMessage call, and the execution it becomes, is
          agent, user,\* the Agent and the principal of a turn
          resume,     \* the thread its run resumes
          execution,  \* activeExecutions
          cancelling, \* cancellationRequests
          killed,     \* turns whose container has been told to stop
          call,       \* operator calls in progress
          up,         \* the process is running
          crashes, faults

vars == <<status, runs, threads, phase, agent, user, resume, execution, cancelling, killed, call,
          up, crashes, faults>>
store == <<status, runs, threads>>
turn == <<phase, agent, user, resume>>
place == <<agent, user, resume>>
bounds == <<up, crashes, faults>>

Absent == {"unborn", "deleted"}
Unsettled == {"queued", "running"}
Settled == {"completed", "failed", "cancelled"}

InFlight(t) == runs[t] \in Unsettled
On(a) == {t \in Turns : agent[t] = a}
Live(a) == {t \in On(a) : phase[t] = "live"}

NoCall == [phase |-> "idle", kind |-> "none", agent |-> NoAgent, user |-> NoUser,
           awaiting |-> {}, earlier |-> {}]

Phases == {"idle", "routing", "admitting", "starting", "setup", "live", "succeeding",
           "failing", "cancelled", "evidence", "over"}
CallRecords == [phase : {"idle", "killing", "draining", "finishing", "checked"},
                kind : {"none", "stop", "delete", "reset"},
                agent : Agents \cup {NoAgent}, user : Users \cup {NoUser},
                awaiting : SUBSET Turns, earlier : SUBSET Turns]

TypeOK ==
  /\ status \in [Agents -> Absent \cup {"ready", "busy", "error", "stopped"}]
  /\ runs \in [Turns -> {"none"} \cup Unsettled \cup Settled]
  /\ threads \in [Agents -> [Users -> Turns \cup {NoTurn}]]
  /\ phase \in [Turns -> Phases]
  /\ agent \in [Turns -> Agents \cup {NoAgent}]
  /\ user \in [Turns -> Users \cup {NoUser}]
  /\ resume \in [Turns -> Turns \cup {NoTurn}]
  /\ execution \in [Agents -> [Users -> Turns \cup {NoTurn}]]
  /\ cancelling \subseteq Agents
  /\ killed \subseteq Turns
  /\ call \in [Calls -> CallRecords]
  /\ up \in BOOLEAN
  /\ crashes \in 0 .. MaxCrashes
  /\ faults \in 0 .. MaxFaults

Init ==
  /\ status = [a \in Agents |-> "unborn"]
  /\ runs = [t \in Turns |-> "none"]
  /\ threads = [a \in Agents |-> [u \in Users |-> NoTurn]]
  /\ phase = [t \in Turns |-> "idle"]
  /\ agent = [t \in Turns |-> NoAgent]
  /\ user = [t \in Turns |-> NoUser]
  /\ resume = [t \in Turns |-> NoTurn]
  /\ execution = [a \in Agents |-> [u \in Users |-> NoTurn]]
  /\ cancelling = {} /\ killed = {}
  /\ call = [c \in Calls |-> NoCall]
  /\ up = TRUE /\ crashes = 0 /\ faults = 0

-----------------------------------------------------------------------------
(* What the actions below decide, each after the slip it could have been.   *)

\* The admission's two refusals: 404 or 409 for the Agent ...
Runnable(a) == status[a] \notin Absent \cup {"stopped"}

\* ... and 409 for a principal with a run in flight on it.
AlreadyStarted(a, u) == \E t \in On(a) : user[t] = u /\ runs[t] = "running"
AlreadyRunning(a, u) == \E t \in On(a) : user[t] = u /\ InFlight(t)

\* resumeThread: the thread is the principal's, and a routed turn gets none.
Resume(a, u) == {NoTurn, threads[a][u]}

\* The badge after a run has completed, and after one has not.
BadgeIfAnyOther(t) ==
  IF \E x \in On(agent[t]) \ {t} : runs[x] # "none" THEN "busy" ELSE "ready"
BadgeAfterSuccess(t) ==
  IF \E x \in On(agent[t]) \ {t} : InFlight(x) THEN "busy" ELSE "ready"

BadgeFailed(t) == IF phase[t] = "cancelled" THEN "ready" ELSE "failed"
BadgeAfterFailure(t) == IF phase[t] = "cancelled" THEN "ready" ELSE "error"

\* Where executeRun goes once the outcome is stored.
AfterOutcomeUnguarded == {"evidence", "failing"}   \* recordEvidence may throw
AfterOutcome == {"evidence"}

\* cancelExecution waits on the execution of every principal ...
AwaitedOne(a) == {CHOOSE t \in {execution[a][u] : u \in Users} : TRUE} \ {NoTurn}
Awaited(a) == {execution[a][u] : u \in Users} \ {NoTurn}

\* ... and takes its request back in `finally`.
NoLongerCancelling(a) == cancelling \ {a}

\* The container ends by itself at the latest when codexTimeoutMs is over.
EndsIfKilled(t) == t \in killed
Ends(t) == TRUE

\* deleteAgent keeps no run of the Agent, settled or not.
RunsWithout(a) == [t \in Turns |-> IF t \in On(a) THEN "none" ELSE runs[t]]

\* A reset queues its mutation in the step that reads the badge, so only a turn
\* whose own mutation was queued before can still come first (store.ts: FIFO).
Writing(t) == phase[t] \in {"admitting", "starting", "succeeding", "failing", "cancelled"}
Queued(t) == \A c \in Calls : call[c].phase = "checked" => t \in call[c].awaiting
Served(t) == [c \in Calls |-> IF call[c].phase = "checked"
                             THEN [call[c] EXCEPT !.awaiting = @ \ {t}] ELSE call[c]]

\* The runs that initialize() finds in flight.
Reaped == Unsettled

-----------------------------------------------------------------------------
CreateAgent(a) ==
  /\ up /\ status[a] = "unborn"
  /\ status' = [status EXCEPT ![a] = "ready"]
  /\ UNCHANGED <<runs, threads, turn, execution, cancelling, killed, call, bounds>>

\* sendMessage up to its first await: the addressed Agent exists and is not stopped.
SendMessage(t, a, u) ==
  /\ up /\ phase[t] = "idle"
  /\ Runnable(a)
  /\ phase' = [phase EXCEPT ![t] = "routing"]
  /\ agent' = [agent EXCEPT ![t] = a]
  /\ user' = [user EXCEPT ![t] = u]
  /\ UNCHANGED <<store, resume, execution, cancelling, killed, call, bounds>>

\* Routing and delegation: the turn stays where it was addressed, or goes to an
\* Agent this step reads as "ready" (a continuation or a specialist) ...
Route(t) ==
  /\ up /\ phase[t] = "routing"
  /\ \E a \in {agent[t]} \cup {s \in Agents : status[s] = "ready"} :
       agent' = [agent EXCEPT ![t] = a]
  /\ phase' = [phase EXCEPT ![t] = "admitting"]
  /\ UNCHANGED <<store, user, resume, execution, cancelling, killed, call, bounds>>

\* ... or it is refused (budget) or answered by a session of its own (split).
TurnAway(t) ==
  /\ up /\ phase[t] = "routing"
  /\ phase' = [phase EXCEPT ![t] = "over"]
  /\ UNCHANGED <<store, place, execution, cancelling, killed, call, bounds>>

Admit(t) ==
  LET a == agent[t]  u == user[t]
  IN /\ up /\ phase[t] = "admitting" /\ Queued(t)
     /\ Runnable(a)
     /\ ~AlreadyRunning(a, u)
     /\ runs' = [runs EXCEPT ![t] = "queued"]
     /\ status' = [status EXCEPT ![a] = "busy"]
     /\ \E thread \in Resume(a, u) : resume' = [resume EXCEPT ![t] = thread]
     /\ phase' = [phase EXCEPT ![t] = "starting"]
     /\ execution' = [execution EXCEPT ![a][u] = t]
     /\ call' = Served(t)
     /\ UNCHANGED <<threads, agent, user, cancelling, killed, bounds>>

RefuseAdmission(t) ==
  /\ up /\ phase[t] = "admitting" /\ Queued(t)
  /\ ~Runnable(agent[t]) \/ AlreadyRunning(agent[t], user[t])
  /\ phase' = [phase EXCEPT ![t] = "over"]
  /\ call' = Served(t)
  /\ UNCHANGED <<store, place, execution, cancelling, killed, bounds>>

-----------------------------------------------------------------------------
\* The execution's promise settles, and `finally` forgets it unless a later run
\* of the same principal has taken its place.
ForgetAlways(t) ==
  /\ execution' = [execution EXCEPT ![agent[t]][user[t]] = NoTurn]
  /\ phase' = [phase EXCEPT ![t] = "over"]
Forget(t) ==
  /\ IF execution[agent[t]][user[t]] = t
     THEN execution' = [execution EXCEPT ![agent[t]][user[t]] = NoTurn]
     ELSE UNCHANGED execution
  /\ phase' = [phase EXCEPT ![t] = "over"]

\* executeRun marks the run running, then looks for a cancellation request.
StartRun(t) ==
  /\ up /\ phase[t] = "starting" /\ Queued(t)
  /\ runs' = [runs EXCEPT ![t] = IF @ = "none" THEN @ ELSE "running"]
  /\ phase' = [phase EXCEPT ![t] =
                            IF agent[t] \in cancelling THEN "cancelled" ELSE "setup"]
  /\ call' = Served(t)
  /\ UNCHANGED <<status, threads, place, execution, cancelling, killed, bounds>>

\* ensureFor and the runner's own preparation; only then can cancel() reach it.
Launch(t) ==
  /\ up /\ phase[t] = "setup"
  /\ \E p \in {"live", "failing"} : phase' = [phase EXCEPT ![t] = p]
  /\ UNCHANGED <<store, place, execution, cancelling, killed, call, bounds>>

RunnerEnds(t) ==
  /\ up /\ phase[t] = "live"
  /\ Ends(t)
  /\ \E p \in (IF t \in killed THEN {"cancelled"} ELSE {"succeeding", "failing"}) :
       phase' = [phase EXCEPT ![t] = p]
  /\ killed' = killed \ {t}
  /\ UNCHANGED <<store, place, execution, cancelling, call, bounds>>

\* The success mutation returns early when the Agent has been deleted meanwhile.
Succeed(t) ==
  LET a == agent[t]  u == user[t]
  IN /\ up /\ phase[t] = "succeeding" /\ Queued(t)
     /\ IF runs[t] = "none" \/ status[a] \in Absent
        THEN UNCHANGED store
        ELSE /\ runs' = [runs EXCEPT ![t] = "completed"]
             /\ status' = [status EXCEPT ![a] = BadgeAfterSuccess(t)]
             /\ threads' = [threads EXCEPT ![a][u] =
                              IF resume[t] = NoTurn THEN t ELSE resume[t]]
     /\ \E p \in AfterOutcome : phase' = [phase EXCEPT ![t] = p]
     /\ call' = Served(t)
     /\ UNCHANGED <<place, execution, cancelling, killed, bounds>>

FailRun(t) ==
  LET a == agent[t]
  IN /\ up /\ phase[t] \in {"failing", "cancelled"} /\ Queued(t)
     /\ runs' = [runs EXCEPT ![t] =
                   IF @ = "none" THEN @
                   ELSE IF phase[t] = "cancelled" THEN "cancelled" ELSE "failed"]
     /\ status' = [status EXCEPT ![a] =
                     IF @ \in Absent \cup {"stopped"} THEN @ ELSE BadgeAfterFailure(t)]
     /\ phase' = [phase EXCEPT ![t] = "evidence"]
     /\ call' = Served(t)
     /\ UNCHANGED <<threads, place, execution, cancelling, killed, bounds>>

\* Evidence, the governance pass and the trace are done.
EndRun(t) ==
  /\ up /\ phase[t] = "evidence"
  /\ Forget(t)
  /\ UNCHANGED <<store, place, cancelling, killed, call, bounds>>

\* A mutation of this turn is rejected by the store (JsonStore: a full disk).
\* A refused admission reaches the caller; the two mutations of executeRun that
\* nothing catches end the execution; a rejected success is caught as a failure.
StoreFault(t) ==
  /\ up /\ faults < MaxFaults /\ Queued(t)
  /\ faults' = faults + 1
  /\ \/ /\ phase[t] = "admitting"
        /\ phase' = [phase EXCEPT ![t] = "over"]
        /\ UNCHANGED execution
     \/ /\ phase[t] \in {"starting", "failing", "cancelled"}
        /\ Forget(t)
     \/ /\ phase[t] = "succeeding"
        /\ phase' = [phase EXCEPT ![t] = "failing"]
        /\ UNCHANGED execution
  /\ call' = Served(t)
  /\ UNCHANGED <<store, place, cancelling, killed, up, crashes>>

-----------------------------------------------------------------------------
\* startAgent: setStatus(id, "ready").
StartAgent(a) ==
  /\ up /\ status[a] \notin Absent \cup {"busy"}
  /\ status' = [status EXCEPT ![a] = "ready"]
  /\ UNCHANGED <<runs, threads, turn, execution, cancelling, killed, call, bounds>>

\* stopAgent and deleteAgent: request the cancellation and stop the containers
\* that are running now.
BeginCancel(c, kind, a) ==
  /\ up /\ call[c] = NoCall
  /\ status[a] \notin Absent
  /\ cancelling' = cancelling \cup {a}
  /\ killed' = killed \cup Live(a)
  /\ call' = [call EXCEPT ![c] = [phase |-> "killing", kind |-> kind, agent |-> a,
                                  user |-> NoUser, awaiting |-> Live(a),
                                  earlier |-> {t \in On(a) : InFlight(t)}]]
  /\ UNCHANGED <<store, turn, execution, bounds>>

\* runner.cancel has returned; the executions known now are awaited.
AwaitExecutions(c) ==
  /\ up /\ call[c].phase = "killing"
  /\ \A t \in call[c].awaiting : phase[t] # "live"
  /\ call' = [call EXCEPT ![c] = [@ EXCEPT !.phase = "draining",
                                               !.awaiting = Awaited(call[c].agent)]]
  /\ UNCHANGED <<store, turn, execution, cancelling, killed, bounds>>

Drained(c) ==
  /\ up /\ call[c].phase = "draining"
  /\ \A t \in call[c].awaiting : phase[t] = "over"
  /\ cancelling' = NoLongerCancelling(call[c].agent)
  /\ call' = [call EXCEPT ![c] = [@ EXCEPT !.phase = "finishing", !.awaiting = {}]]
  /\ UNCHANGED <<store, turn, execution, killed, bounds>>

\* setStatus(id, "stopped"), whatever the status has become; 404 if it is gone.
FinishStop(c) ==
  LET a == call[c].agent
  IN /\ up /\ call[c].phase = "finishing" /\ call[c].kind = "stop"
     /\ status' = [status EXCEPT ![a] = IF @ \in Absent THEN @ ELSE "stopped"]
     /\ call' = [call EXCEPT ![c] = NoCall]
     /\ UNCHANGED <<runs, threads, turn, execution, cancelling, killed, bounds>>

\* Archive the workspace, then drop the Agent, its messages and its runs.
FinishDelete(c) ==
  LET a == call[c].agent
  IN /\ up /\ call[c].phase = "finishing" /\ call[c].kind = "delete"
     /\ status' = [status EXCEPT ![a] = "deleted"]
     /\ runs' = RunsWithout(a)
     /\ threads' = [threads EXCEPT ![a] = [u \in Users |-> NoTurn]]
     /\ call' = [call EXCEPT ![c] = NoCall]
     /\ UNCHANGED <<turn, execution, cancelling, killed, bounds>>

\* The workspace cannot be archived: deleteAgent throws and the Agent stays.
ArchiveFails(c) ==
  /\ up /\ call[c].phase = "finishing" /\ call[c].kind = "delete"
  /\ call' = [call EXCEPT ![c] = NoCall]
  /\ UNCHANGED <<store, turn, execution, cancelling, killed, bounds>>

\* resetSession reads the badge, then clears the principal's thread in a mutation
\* that does not read it again.
BeginReset(c, a, u) ==
  /\ up /\ call[c] = NoCall
  /\ status[a] \notin Absent \cup {"busy"}
  /\ call' = [call EXCEPT ![c] = [NoCall EXCEPT !.phase = "checked", !.kind = "reset",
                                                !.agent = a, !.user = u,
                                                !.awaiting = {t \in Turns : Writing(t)}]]
  /\ UNCHANGED <<store, turn, execution, cancelling, killed, bounds>>

FinishReset(c) ==
  LET a == call[c].agent  u == call[c].user
  IN /\ up /\ call[c].phase = "checked"
     /\ threads' = IF status[a] \in Absent THEN threads ELSE [threads EXCEPT ![a][u] = NoTurn]
     /\ call' = [call EXCEPT ![c] = NoCall]
     /\ UNCHANGED <<status, runs, turn, execution, cancelling, killed, bounds>>

-----------------------------------------------------------------------------
\* The process dies with everything that is not in the store.
Crash ==
  /\ up /\ crashes < MaxCrashes
  /\ up' = FALSE
  /\ crashes' = crashes + 1
  /\ phase' = [t \in Turns |-> IF phase[t] = "idle" THEN "idle" ELSE "over"]
  /\ execution' = [a \in Agents |-> [u \in Users |-> NoTurn]]
  /\ cancelling' = {} /\ killed' = {}
  /\ call' = [c \in Calls |-> NoCall]
  /\ UNCHANGED <<store, place, faults>>

\* initialize(): reap what was in flight before serving.
Restart ==
  /\ ~up
  /\ up' = TRUE
  /\ runs' = [t \in Turns |-> IF runs[t] \in Reaped THEN "cancelled" ELSE runs[t]]
  /\ status' = [a \in Agents |-> IF status[a] = "busy" THEN "ready" ELSE status[a]]
  /\ UNCHANGED <<threads, turn, execution, cancelling, killed, call, crashes, faults>>

-----------------------------------------------------------------------------
TurnStep(t) ==
  \/ Route(t) \/ TurnAway(t) \/ Admit(t) \/ RefuseAdmission(t)
  \/ StartRun(t) \/ Launch(t) \/ RunnerEnds(t) \/ Succeed(t) \/ FailRun(t) \/ EndRun(t)

CallStep(c) ==
  \/ AwaitExecutions(c) \/ Drained(c) \/ FinishStop(c) \/ FinishDelete(c)
  \/ ArchiveFails(c) \/ FinishReset(c)

Next ==
  \/ \E a \in Agents : CreateAgent(a) \/ StartAgent(a)
  \/ \E t \in Turns, a \in Agents, u \in Users : SendMessage(t, a, u)
  \/ \E t \in Turns : TurnStep(t) \/ StoreFault(t)
  \/ \E c \in Calls, a \in Agents :
       \/ \E kind \in {"stop", "delete"} : BeginCancel(c, kind, a)
       \/ \E u \in Users : BeginReset(c, a, u)
  \/ \E c \in Calls : CallStep(c)
  \/ Crash \/ Restart

Spec == Init /\ [][Next]_vars

\* The event loop resumes every handler whose await is over, and a container ends
\* at the latest when its time is up, so each turn and each call keeps moving.
FairSpec ==
  /\ Spec
  /\ \A t \in Turns : WF_vars(TurnStep(t))
  /\ \A c \in Calls : WF_vars(CallStep(c))

-----------------------------------------------------------------------------
\* A principal never has two runs in flight on one Agent, however two sends, a
\* delegation and a restart interleave.
OneRunPerPrincipal ==
  \A t, x \in Turns :
    /\ InFlight(t) /\ InFlight(x)
    /\ agent[t] = agent[x] /\ user[t] = user[x]
    => t = x

\* Two runs in flight never write to the same Codex thread: threads follow the
\* principal, and no principal resumes another's.
ThreadsNotShared ==
  \A t, x \in Turns :
    InFlight(t) /\ InFlight(x) /\ t # x /\ resume[t] # NoTurn
      => resume[t] # resume[x]

\* One principal, one run, one thread: neither with itself nor with another does a
\* principal ever share an Agent's run or its Codex thread.
RunsKeptApart == OneRunPerPrincipal /\ ThreadsNotShared

\* An Agent shown as busy really has a run in flight: it can never be left in the
\* one state that refuses edits, resets and starts with nothing to wait for.
BusyHasRun ==
  \A a \in Agents : status[a] = "busy" => \E t \in On(a) : InFlight(t)

\* A run the store shows in flight has an execution behind it, or a mutation that
\* executeRun does not guard was rejected; restarts leave no such run behind.
OrphanNeedsStoreFault ==
  \A t \in Turns : up /\ InFlight(t) /\ phase[t] = "over" => faults > 0

\* No record outlives its Agent: deletion and admission cannot cross.
RunsHaveAgents ==
  \A t \in Turns : runs[t] # "none" => status[agent[t]] \notin Absent

\* What the store shows is so, at every moment of an outcome, a stop, a deletion and a
\* restart: a busy Agent has a run, a run in flight its execution, a record its Agent.
StoreTellsTruth == BusyHasRun /\ OrphanNeedsStoreFault /\ RunsHaveAgents

\* While an execution has not stored its outcome, activeExecutions leads to it,
\* so that a stop can wait for it: an earlier execution of the same principal,
\* still in its evidence pass, never removes it.
UnsettledIsTracked ==
  \A t \in Turns : InFlight(t) /\ phase[t] # "over"
                     => execution[agent[t]][user[t]] = t

\* A stop or a delete that has finished waiting has outlasted every run that was
\* in flight when it was called, the ones still in setup included.
StopOutlastsEarlierRuns ==
  \A c \in Calls : call[c].phase = "finishing" /\ faults = 0
                     => \A t \in call[c].earlier : ~InFlight(t)

\* No cancellation request is left behind to kill the runs of a later start.
CancellationIsOwned ==
  \A a \in cancelling : \E c \in Calls : call[c].agent = a
                                           /\ call[c].phase \in {"killing", "draining"}

\* A stop or a delete ends the runs it was called on, all of them and no later one.
StopsReachTheirRuns == StopOutlastsEarlierRuns /\ CancellationIsOwned

\* A run that has an outcome keeps it: what comes after (evidence, the governance
\* pass, a restart) never changes what the caller already saw.
OutcomesAreFinal ==
  [][\A t \in Turns : runs[t] \in Settled => runs'[t] \in {runs[t], "none"}]_vars

\* Every run reaches an outcome while the process lives and the store works.
RunsSettle ==
  \A t \in Turns : InFlight(t) ~> (~InFlight(t) \/ ~up \/ faults > 0)

\* stopAgent, deleteAgent and resetSession always return.
CallsReturn == \A c \in Calls : call[c] # NoCall ~> call[c] = NoCall

\* Runs and the calls that wait for them end together: neither can hang on the other.
NothingHangs == RunsSettle /\ CallsReturn
=============================================================================
