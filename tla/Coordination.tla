---------------------------- MODULE Coordination ----------------------------
(***************************************************************************)
(* One coordination session (codify/coordination.ts), the plan that the    *)
(* planner's reply gave it (codify/planner.ts) and everything that advances*)
(* it: splitIntoSession, which starts runSessionToCompletion in the        *)
(* background and waits for its first run, and the calls of                *)
(* POST /sessions/:id/advance, one wave each. A session with a plan runs   *)
(* each of its steps as a turn; a session without one (plan = <<>>) repeats*)
(* its goal turn after turn.                                               *)
(*                                                                         *)
(* A wave is planned from a snapshot of the session; every claim and every *)
(* settlement is one store mutation, taken at any time after the handler   *)
(* reaches it. Which contract recognises an instruction is left open, and  *)
(* so is whether the chosen Agent accepts it and how its run ends.         *)
(***************************************************************************)
EXTENDS Naturals, Sequences, FiniteSets

CONSTANTS Participants,  \* the session's Agents
          Contracted,    \* those that may hold an active contract
          Fallback,      \* the Agent a split request was addressed to
          Replies,       \* what the planning model may answer
          Callers,       \* calls of /advance
          Background, NoAgent,
          GoalTurns,     \* maxTurns of a session without a plan
          MaxAdvances,   \* bound: calls of /advance on a session with a plan
          MaxTroubles    \* bound: participants deleted, restarts and mutations that the
                         \* store rejects, together

ASSUME RepliesAssumption ==
  Replies \subseteq [lines : Seq([index : Nat, after : SUBSET Nat]), short : BOOLEAN]
ASSUME AgentsAssumption == Contracted \subseteq Participants /\ Fallback \in Participants
ASSUME BackgroundAssumption == Background \notin Callers
ASSUME NoAgentAssumption == NoAgent \notin Participants
ASSUME BoundsAssumption ==
  GoalTurns \in Nat \ {0} /\ MaxAdvances \in Nat /\ MaxTroubles \in Nat

VARIABLES plan,     \* store: session.plan
          turns,    \* store: session.turns
          status,   \* store: session.status
          done,     \* store: session.state.done
          gone,     \* store: deleted participants
          driver,   \* runSessionToCompletion and the advanceSession calls
          task,     \* the runSessionTurn calls of each driver, by step
          split,    \* splitIntoSession
          sent,     \* history: a step's run was dispatched
          crashes, faults

vars == <<plan, turns, status, done, gone, driver, task, split, sent, crashes, faults>>
session == <<plan, turns, status, done>>

-----------------------------------------------------------------------------
(* parsePlan: the lines of a reply that name a step, by its number, and the *)
(* steps it comes after. Anything odd makes the request one piece of work.  *)

MaxSteps == 5
Single == <<>>

LineOf(reply, i) ==
  CHOOSE line \in {reply.lines[k] : k \in DOMAIN reply.lines} : line.index = i

\* 1 .. n with no gaps, or the numbers mean something other than they appear to.
Numbered(reply) ==
  {reply.lines[k].index : k \in DOMAIN reply.lines} = DOMAIN reply.lines

\* short: the fragments cover less than half of the request.
Splits(reply) == Len(reply.lines) \in 2 .. MaxSteps /\ Numbered(reply) /\ ~reply.short

ParsePlanAnyOrder(reply) ==
  IF Splits(reply)
  THEN [i \in DOMAIN reply.lines |-> LineOf(reply, i).after \cap DOMAIN reply.lines]
  ELSE Single

\* A dependency may only point backwards.
ParsePlan(reply) ==
  IF Splits(reply)
  THEN [i \in DOMAIN reply.lines |-> LineOf(reply, i).after \cap 1 .. i - 1]
  ELSE Single

\* A request that is not split has no session; without a plan, a session has a goal.
Plans == {Single} \cup {ParsePlan(reply) : reply \in Replies}

-----------------------------------------------------------------------------
Drivers == Callers \cup {Background}
Slots == {0} \cup UNION {DOMAIN p : p \in Plans}   \* 0: the turn of a goal
Over == [phase |-> "over", rounds |-> 0, before |-> 0]
NoTask == [phase |-> "none", agent |-> NoAgent, index |-> 0]

MaxTurns == IF plan = <<>> THEN GoalTurns
            ELSE IF 2 * Len(plan) > 12 THEN 12 ELSE 2 * Len(plan)

\* The ceiling on the turns holds although claimTurn does not look at it: the settlement
\* that reaches it ends the session before anyone can claim again.
TypeOK ==
  /\ plan \in Plans
  /\ turns \in Seq([step : Slots, agent : Participants,
                    status : {"claimed", "completed", "failed"}])
  /\ Len(turns) <= MaxTurns
  /\ status \in {"active", "completed", "stopped", "failed"}
  /\ done \in BOOLEAN
  /\ gone \subseteq Participants
  /\ driver \in [Drivers -> [phase : {"idle", "planned", "wave", "over"},
                             rounds : Nat, before : Nat]]
  /\ task \in [Drivers -> [Slots ->
                 [phase : {"none", "planned", "claiming", "claimed", "running"},
                  agent : Participants \cup {NoAgent}, index : Nat]]]
  /\ split \in {"none", "waiting", "answered", "stopping", "single"}
  /\ sent \in BOOLEAN
  /\ crashes \in Nat /\ faults \in Nat

Init ==
  /\ plan \in Plans
  /\ done \in (IF plan = <<>> THEN BOOLEAN ELSE {FALSE})
  /\ turns = <<>> /\ status = "active" /\ gone = {}
  /\ driver = [d \in Drivers |->
                IF d = Background /\ plan = <<>> THEN Over ELSE [Over EXCEPT !.phase = "idle"]]
  /\ task = [d \in Drivers |-> [s \in Slots |-> NoTask]]
  /\ split = IF plan = <<>> THEN "none" ELSE "waiting"
  /\ sent = FALSE /\ crashes = 0 /\ faults = 0

-----------------------------------------------------------------------------
(* The rules on a session's turns, each after the slip it could have been.  *)

With(ts, outcomes) == {i \in DOMAIN ts : ts[i].status \in outcomes}
StepsWith(ts, outcomes) == {ts[i].step : i \in With(ts, outcomes)}

\* readySteps and pendingSteps: the dependencies have completed, nobody has taken the
\* step.
Ready(completed) == {s \in DOMAIN plan \ completed : plan[s] \subseteq completed}
Pending(ts) ==
  Ready(StepsWith(ts, {"completed"})) \ StepsWith(ts, {"claimed", "completed", "failed"})

\* shouldStop, in its order, for a session that is active.
PlanVerdict(ts) ==
  IF StepsWith(ts, {"completed", "failed"}) = DOMAIN plan
  THEN IF With(ts, {"failed"}) # {} THEN "failed" ELSE "completed"
  ELSE IF With(ts, {"claimed"}) = {} /\ Pending(ts) = {} THEN "failed" ELSE "active"

TwoFailures(ts) ==
  Len(ts) >= 2 /\ ts[Len(ts)].status = "failed" /\ ts[Len(ts) - 1].status = "failed"

VerdictPastCeiling(ts, met) ==
  IF Len(ts) > MaxTurns THEN "stopped"
  ELSE IF TwoFailures(ts) THEN "failed"
  ELSE IF met THEN "completed"
  ELSE IF plan = <<>> THEN "active" ELSE PlanVerdict(ts)
Verdict(ts, met) ==
  IF Len(ts) >= MaxTurns THEN "stopped"
  ELSE IF TwoFailures(ts) THEN "failed"
  ELSE IF met THEN "completed"
  ELSE IF plan = <<>> THEN "active" ELSE PlanVerdict(ts)

\* claimTurn's refusals for a session that is active.
ClaimableAnew(s, a) ==
  IF s = 0 THEN With(turns, {"claimed"}) = {}
  ELSE \A i \in With(turns, {"claimed"}) : turns[i].step # s /\ turns[i].agent # a
ClaimableByStep(s, a) == s = 0 \/ \A i \in DOMAIN turns : turns[i].step # s
Claimable(s, a) ==
  IF s = 0 THEN With(turns, {"claimed"}) = {}
  ELSE /\ \A i \in DOMAIN turns : turns[i].step # s
       /\ \A i \in With(turns, {"claimed"}) : turns[i].agent # a

\* settleTurn closes the turn and judges the session again unless it is already over.
Settled(i, outcome) == [turns EXCEPT ![i].status = outcome]
StatusAfter(ts, met) == IF status = "active" THEN Verdict(ts, met) ELSE status

\* selectParticipant, for the session's participants that exist: one whose contract
\* recognises the instruction; else the Agent a split request was addressed to; else
\* whoever has gone longest without a turn, which the order of their ids decides.
Available == Participants \ gone
TurnsOf(a) == {i \in DOMAIN turns : turns[i].agent = a}
LongestIdle ==
  {a \in Available : \A b \in Available : \A i \in TurnsOf(a) : \E j \in TurnsOf(b) : i <= j}
Choices ==
  (Available \cap Contracted)
    \cup IF plan # <<>> /\ Fallback \in Available THEN {Fallback} ELSE LongestIdle

\* The Agents a wave must avoid.
EverBusy == {turns[i].agent : i \in DOMAIN turns}
Busy == {turns[i].agent : i \in With(turns, {"claimed"})}

\* onDispatch tells splitIntoSession of the first run.
AnswersNobody(d) == split
Answers(d) == IF d = Background /\ split = "waiting" THEN "answered" ELSE split

-----------------------------------------------------------------------------
\* planWave: a participant is chosen for every pending step; a step whose participant has
\* a turn, or got an earlier step of the wave, is deferred.
IsWave(wave, chosen) ==
  /\ \A s, x \in wave : chosen[s] = chosen[x] => s = x
  /\ \A s \in wave : chosen[s] \notin Busy
  /\ \A s \in Pending(turns) \ wave :
       \/ Choices = {}
       \/ (Busy \cup {chosen[x] : x \in {y \in wave : y < s}}) \cap Choices # {}

Waves ==
  IF status # "active" \/ Verdict(turns, done) # "active" THEN {<<>>}
  ELSE LET wanted == IF plan = <<>> THEN {0} ELSE Pending(turns)
       IN {f \in UNION {[w -> Choices] : w \in SUBSET wanted} :
             IF plan = <<>> THEN f # <<>> \/ Choices = {} ELSE IsWave(DOMAIN f, f)}

PlanWave(d) ==
  /\ driver[d].phase = "idle"
  /\ \/ d = Background \/ plan = <<>>
     \/ Cardinality({c \in Callers : driver[c].phase # "idle"}) < MaxAdvances
  /\ \E wave \in Waves :
       task' = [task EXCEPT ![d] =
                  [s \in Slots |-> IF s \in DOMAIN wave
                                   THEN [phase |-> "planned", agent |-> wave[s], index |-> 0]
                                   ELSE NoTask]]
  /\ driver' = [driver EXCEPT ![d].phase = "planned", ![d].before = Len(turns)]
  /\ UNCHANGED <<session, gone, split, sent, crashes, faults>>

\* Every runSessionTurn of the wave looks its Agent up first. One that is gone
\* rejects the whole wave, while its other turns go on.
Launch(d) ==
  LET planned == {s \in Slots : task[d][s].phase = "planned"}
      lost == {s \in planned : task[d][s].agent \in gone}
  IN /\ driver[d].phase = "planned"
     /\ task' = [task EXCEPT ![d] =
                   [s \in Slots |-> IF s \in lost THEN NoTask
                                    ELSE IF s \in planned
                                         THEN [task[d][s] EXCEPT !.phase = "claiming"]
                                         ELSE task[d][s]]]
     /\ driver' = [driver EXCEPT ![d] = IF lost = {} THEN [@ EXCEPT !.phase = "wave"] ELSE Over]
     /\ UNCHANGED <<session, gone, split, sent, crashes, faults>>

Claim(d, s) ==
  /\ task[d][s].phase = "claiming"
  /\ status = "active" /\ Claimable(s, task[d][s].agent)
  /\ turns' = Append(turns, [step |-> s, agent |-> task[d][s].agent, status |-> "claimed"])
  /\ task' = [task EXCEPT ![d][s].phase = "claimed", ![d][s].index = Len(turns) + 1]
  /\ UNCHANGED <<plan, status, done, gone, driver, split, sent, crashes, faults>>

MoreTrouble == Cardinality(gone) + crashes + faults < MaxTroubles

\* A mutation the store rejects; `database` stays as it was.
Reject == MoreTrouble /\ faults' = faults + 1

\* Whether claimTurn refused or the store did, somebody else is taken to run the step.
LoseClaim(d, s) ==
  /\ task[d][s].phase = "claiming"
  /\ \/ (status # "active" \/ ~Claimable(s, task[d][s].agent)) /\ UNCHANGED faults
     \/ Reject
  /\ task' = [task EXCEPT ![d][s] = NoTask]
  /\ UNCHANGED <<session, gone, driver, split, sent, crashes>>

\* sendMessage starts a run ...
Dispatch(d, s) ==
  /\ task[d][s].phase = "claimed"
  /\ task[d][s].agent \notin gone
  /\ task' = [task EXCEPT ![d][s].phase = "running"]
  /\ sent' = TRUE
  /\ split' = Answers(d)
  /\ UNCHANGED <<session, gone, driver, crashes, faults>>

\* ... which ends, perhaps with a line that marks the goal as met or takes the mark
\* back; or it refuses, the Agent being busy, stopped, gone or over its budget. A turn
\* whose settlement the store rejects is settled again, as failed, whatever its run did.
Settle(d, s, outcome, met) ==
  /\ task[d][s].phase = "running" \/ (task[d][s].phase = "claimed" /\ outcome = "failed")
  /\ met # done => outcome = "completed"
  /\ turns' = Settled(task[d][s].index, outcome)
  /\ status' = StatusAfter(turns', met)
  /\ done' = met
  /\ task' = [task EXCEPT ![d][s] = NoTask]
  /\ UNCHANGED <<plan, gone, driver, split, sent, crashes, faults>>

\* The store rejects that one too: the turn stays claimed, and the call that made the wave
\* is rejected while the wave's other turns go on.
LeaveClaimed(d, s) ==
  /\ task[d][s].phase \in {"claimed", "running"}
  /\ Reject
  /\ task' = [task EXCEPT ![d][s] = NoTask]
  /\ driver' = [driver EXCEPT ![d] = Over]
  /\ UNCHANGED <<session, gone, split, sent, crashes>>

\* advanceSession returns to its caller, or to runSessionToCompletion's loop.
EndWave(d) ==
  /\ driver[d].phase = "wave"
  /\ \A s \in Slots : task[d][s].phase = "none"
  /\ LET more == /\ d = Background
                 /\ status = "active" /\ Len(turns) # driver[d].before
                 /\ driver[d].rounds < MaxTurns
     IN driver' = [driver EXCEPT ![d] =
                     IF more THEN [phase |-> "idle", rounds |-> @.rounds + 1, before |-> 0]
                     ELSE Over]
  /\ UNCHANGED <<session, gone, task, split, sent, crashes, faults>>

-----------------------------------------------------------------------------
\* splitIntoSession has waited for a first run that did not come ...
GiveUp ==
  /\ split = "waiting" /\ driver[Background].phase = "over"
  /\ split' = "stopping"
  /\ UNCHANGED <<session, gone, driver, task, sent, crashes, faults>>

\* ... so it stops the session, and sendMessage runs the request as one turn, or fails
\* with the stop.
FallBack ==
  /\ split = "stopping"
  /\ \/ status' = "stopped" /\ split' = "single" /\ UNCHANGED faults
     \/ Reject /\ split' = "none" /\ UNCHANGED status
  /\ UNCHANGED <<plan, turns, done, gone, driver, task, sent, crashes>>

\* POST /sessions/:id/stop: unconditional.
StopSession ==
  /\ status' = "stopped"
  /\ UNCHANGED <<plan, turns, done, gone, driver, task, split, sent, crashes, faults>>

DeleteAgent(a) ==
  /\ a \notin gone /\ MoreTrouble
  /\ gone' = gone \cup {a}
  /\ UNCHANGED <<session, driver, task, split, sent, crashes, faults>>

\* The process dies and restarts; initialize() leaves sessions as they are.
Crash ==
  /\ MoreTrouble
  /\ crashes' = crashes + 1
  /\ driver' = [d \in Drivers |-> IF d # Background /\ driver[d].phase = "idle"
                                  THEN driver[d] ELSE Over]
  /\ task' = [d \in Drivers |-> [s \in Slots |-> NoTask]]
  /\ split' = "none"
  /\ UNCHANGED <<session, gone, sent, faults>>

TaskStep(d, s) ==
  \/ Claim(d, s) \/ LoseClaim(d, s) \/ Dispatch(d, s) \/ LeaveClaimed(d, s)
  \/ \E outcome \in {"completed", "failed"}, met \in BOOLEAN : Settle(d, s, outcome, met)

DriverStep(d) == PlanWave(d) \/ Launch(d) \/ EndWave(d)

SplitStep == GiveUp \/ FallBack

Next ==
  \/ \E d \in Drivers : DriverStep(d)
  \/ \E d \in Drivers, s \in Slots : TaskStep(d, s)
  \/ SplitStep \/ StopSession \/ Crash
  \/ \E a \in Participants : DeleteAgent(a)

Spec == Init /\ [][Next]_vars

\* The event loop resumes every handler whose await is over, and every run ends
\* (AgentLifecycle, RunsSettle). Nobody has to call /advance.
FairSpec ==
  /\ Spec
  /\ WF_vars(DriverStep(Background)) /\ WF_vars(SplitStep)
  /\ \A c \in Callers : WF_vars(Launch(c)) /\ WF_vars(EndWave(c))
  /\ \A d \in Drivers, s \in Slots : WF_vars(TaskStep(d, s))

-----------------------------------------------------------------------------
\* No step runs twice, whichever calls advance the session.
StepsRunOnce ==
  plan # <<>> => \A i, j \in DOMAIN turns : turns[i].step = turns[j].step => i = j

\* Neither two turns of one Agent nor, without a plan, any two turns are in flight
\* together.
TurnsDoNotOverlap ==
  \A i, j \in With(turns, {"claimed"}) :
    plan = <<>> \/ turns[i].agent = turns[j].agent => i = j

\* Nothing but the session's own background calls has touched it, and the store took
\* whatever they wrote.
Undisturbed ==
  gone = {} /\ crashes = 0 /\ faults = 0 /\ \A c \in Callers : driver[c].phase = "idle"

\* A request falls back to a single turn only if none of its steps has run.
FallbackIsAlone == split = "single" /\ Undisturbed => ~sent

\* The background calls bring every plan to a verdict, whatever fails or is
\* refused, as long as nothing else takes a hand in it.
PlansFinish == <>(plan = <<>> \/ status # "active" \/ ~Undisturbed)

\* The session keeps the promises of PlanExecution: a step starts once all the steps it
\* depends on have completed and never in a session that is over; the verdict speaks of
\* the whole plan, and one that has been given is replaced by an operator's stop only.
Abstract == INSTANCE PlanExecution WITH
  verdict <- status, met <- done,
  steps <- [s \in DOMAIN plan |->
              IF s \notin StepsWith(turns, {"claimed", "completed", "failed"}) THEN "waiting"
              ELSE IF s \in StepsWith(turns, {"claimed"}) THEN "running"
              ELSE IF s \in StepsWith(turns, {"completed"}) THEN "completed" ELSE "failed"]

ImplementsPlan == Abstract!Spec

=============================================================================
