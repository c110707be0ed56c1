------------------------- MODULE CoordinationProofs -------------------------
(***************************************************************************)
(* What a coordination session keeps for every number of participants,     *)
(* callers, crashes and rejected mutations, and for every reply of the     *)
(* planning model.                                                         *)
(***************************************************************************)
EXTENDS Coordination, FiniteSetTheorems, SequenceTheorems, TLAPS

Turn == [step : Slots, agent : Participants, status : {"claimed", "completed", "failed"}]
Work == [phase : {"none", "planned", "claiming", "claimed", "running"},
         agent : Participants \cup {NoAgent}, index : Nat]
Round == [phase : {"idle", "planned", "wave", "over"}, rounds : Nat, before : Nat]

\* The slots of this session, and the calls that hold a turn of it.
Own == IF plan = <<>> THEN {0} ELSE DOMAIN plan
Holds(d, s) == task[d][s].phase \in {"claimed", "running"}

\* TypeOK without its ceiling, which the other parts imply.
TypesFit ==
  /\ plan \in Plans
  /\ turns \in Seq(Turn)
  /\ status \in {"active", "completed", "stopped", "failed"}
  /\ done \in BOOLEAN
  /\ gone \subseteq Participants
  /\ driver \in [Drivers -> Round]
  /\ task \in [Drivers -> [Slots -> Work]]
  /\ split \in {"none", "waiting", "answered", "stopping", "single"}
  /\ sent \in BOOLEAN
  /\ crashes \in Nat /\ faults \in Nat

\* A call works on a slot of this session, for one of its participants; what it waits to
\* claim has its dependencies behind it; what it holds is a turn in flight, nobody else's.
TasksFit ==
  /\ \A d \in Drivers, s \in Slots :
       /\ task[d][s].phase # "none" => s \in Own /\ task[d][s].agent \in Participants
       /\ task[d][s].phase \in {"planned", "claiming"} /\ plan # <<>>
            => plan[s] \subseteq StepsWith(turns, {"completed"})
       /\ Holds(d, s) => /\ task[d][s].index \in DOMAIN turns
                         /\ turns[task[d][s].index].step = s
                         /\ turns[task[d][s].index].status = "claimed"
  /\ \A d, e \in Drivers, s, x \in Slots :
       Holds(d, s) /\ Holds(e, x) /\ task[d][s].index = task[e][x].index => d = e /\ s = x

\* An active session has room for a turn, and nobody has marked its plan as met.
RoomFits ==
  /\ \A i \in DOMAIN turns : turns[i].step \in Own
  /\ plan = <<>> => Len(turns) <= GoalTurns
  /\ plan = <<>> /\ status = "active" /\ With(turns, {"claimed"}) = {} => Len(turns) < GoalTurns
  /\ plan # <<>> /\ done => status # "active"

SessionInv == TypesFit /\ TasksFit /\ RoomFits /\ StepsRunOnce /\ TurnsDoNotOverlap

-----------------------------------------------------------------------------
\* parsePlan, for any reply: a plan has two to five steps, numbered from one, and a step
\* depends on earlier ones only.
LEMMA PlanShape ==
  ASSUME NEW p \in Plans, p # <<>>
  PROVE  /\ Len(p) \in 2 .. MaxSteps /\ DOMAIN p = 1 .. Len(p)
         /\ \A s \in DOMAIN p : p[s] \subseteq 1 .. s - 1
<1>1. PICK reply \in Replies : p = ParsePlan(reply)
  BY DEF Plans, Single
<1>2. Splits(reply) /\ p = [i \in DOMAIN reply.lines |-> LineOf(reply, i).after \cap 1 .. i - 1]
  BY <1>1 DEF ParsePlan, Single
<1>3. reply.lines \in Seq([index : Nat, after : SUBSET Nat])
  BY RepliesAssumption
<1>4. DOMAIN reply.lines = 1 .. Len(reply.lines) /\ Len(reply.lines) \in 2 .. MaxSteps
  BY <1>2, <1>3, LenProperties DEF Splits
<1>5. DOMAIN p = 1 .. Len(reply.lines) /\ \A s \in DOMAIN p : p[s] \subseteq 1 .. s - 1
  BY <1>2, <1>4
<1>6. p \in Seq(SUBSET Nat)
  <2>1. p \in [1 .. Len(reply.lines) -> SUBSET Nat]
    <3>1. \A s \in 1 .. Len(reply.lines) : p[s] \subseteq Nat
      BY <1>4, <1>5 DEF MaxSteps
    <3> QED
      BY <1>2, <1>4, <3>1
  <2> QED
    BY <1>4, <2>1, SeqDef DEF MaxSteps
<1>7. Len(p) = Len(reply.lines)
  BY <1>4, <1>5, <1>6, LenProperties DEF MaxSteps
<1> QED
  BY <1>4, <1>5, <1>7

LEMMA SlotsShape == /\ 0 \in Slots /\ Slots \subseteq Nat
                    /\ \A p \in Plans : DOMAIN p \subseteq Slots /\ 0 \notin DOMAIN p
<1>1. \A p \in Plans : DOMAIN p \subseteq Nat \ {0}
  <2> TAKE p \in Plans
  <2>1. CASE p = <<>>
    BY <2>1
  <2>2. CASE p # <<>>
    BY <2>2, PlanShape DEF MaxSteps
  <2> QED
    BY <2>1, <2>2
<1> QED
  BY <1>1 DEF Slots

\* A claim adds a turn in flight; a settlement changes the outcome of one turn.
LEMMA Claimed ==
  ASSUME NEW ts \in Seq(Turn), NEW t \in Turn
  PROVE  /\ Append(ts, t) \in Seq(Turn) /\ Len(Append(ts, t)) = Len(ts) + 1
         /\ Len(ts) \in Nat /\ DOMAIN ts = 1 .. Len(ts)
         /\ DOMAIN Append(ts, t) = 1 .. Len(ts) + 1
         /\ \A i \in DOMAIN ts : Append(ts, t)[i] = ts[i] /\ ts[i] \in Turn
         /\ Append(ts, t)[Len(ts) + 1] = t
<1>1. /\ Append(ts, t) \in Seq(Turn) /\ Len(Append(ts, t)) = Len(ts) + 1
      /\ \A i \in 1 .. Len(ts) : Append(ts, t)[i] = ts[i]
      /\ Append(ts, t)[Len(ts) + 1] = t
  BY AppendProperties
<1>2. Len(ts) \in Nat /\ DOMAIN ts = 1 .. Len(ts) /\ DOMAIN Append(ts, t) = 1 .. Len(ts) + 1
  BY <1>1, LenProperties
<1> QED
  BY <1>1, <1>2, ElementOfSeq

LEMMA Closed ==
  ASSUME turns \in Seq(Turn), NEW i \in DOMAIN turns, NEW outcome \in {"completed", "failed"}
  PROVE  /\ Settled(i, outcome) \in Seq(Turn) /\ Len(Settled(i, outcome)) = Len(turns)
         /\ Len(turns) \in Nat /\ DOMAIN turns = 1 .. Len(turns)
         /\ DOMAIN Settled(i, outcome) = DOMAIN turns
         /\ \A j \in DOMAIN turns :
              /\ Settled(i, outcome)[j].step = turns[j].step
              /\ Settled(i, outcome)[j].agent = turns[j].agent
              /\ Settled(i, outcome)[j].status = IF j = i THEN outcome ELSE turns[j].status
<1>1. DOMAIN turns = 1 .. Len(turns) /\ Len(turns) \in Nat
  BY LenProperties
<1>2. \A j \in DOMAIN turns : turns[j] \in Turn
  BY <1>1, ElementOfSeq
<1> DEFINE t == [turns[i] EXCEPT !.status = outcome]
<1>3. t \in Turn /\ t.step = turns[i].step /\ t.agent = turns[i].agent /\ t.status = outcome
  BY <1>2 DEF Turn
<1>4. Settled(i, outcome) = [turns EXCEPT ![i] = t]
  BY DEF Settled
<1> HIDE DEF t
<1>5. /\ [turns EXCEPT ![i] = t] \in Seq(Turn) /\ Len([turns EXCEPT ![i] = t]) = Len(turns)
      /\ \A j \in 1 .. Len(turns) : [turns EXCEPT ![i] = t][j] = IF j = i THEN t ELSE turns[j]
  BY <1>1, <1>3, ExceptSeq
<1> QED
  BY <1>1, <1>3, <1>4, <1>5, LenProperties

-----------------------------------------------------------------------------
\* The next state by what a step does to the session: nothing but perhaps a stop, one claim,
\* or one settlement.
Quiet ==
  /\ UNCHANGED <<plan, turns, done>>
  /\ status' = status \/ status' = "stopped"

LEMMA SessionStep ==
  ASSUME [Next]_vars
  PROVE  \/ Quiet
         \/ \E d \in Drivers, s \in Slots : Claim(d, s)
         \/ \E d \in Drivers, s \in Slots, outcome \in {"completed", "failed"}, met \in BOOLEAN :
              Settle(d, s, outcome, met)
BY DEF Next, vars, session, DriverStep, TaskStep, SplitStep, PlanWave, Launch, EndWave, LoseClaim,
       Dispatch, LeaveClaimed, GiveUp, FallBack, StopSession, DeleteAgent, Crash, Quiet

\* What a wave hands out: pending steps, or the goal, to participants.
LEMMA WaveShape ==
  ASSUME plan \in Plans, NEW wave \in Waves, NEW s \in DOMAIN wave
  PROVE  /\ wave[s] \in Participants /\ s \in Own
         /\ plan # <<>> => plan[s] \subseteq StepsWith(turns, {"completed"})
<1>1. Choices \subseteq Participants
  BY AgentsAssumption DEF Choices, Available, LongestIdle
<1>2. wave # <<>>
  OBVIOUS
<1>3. PICK w \in SUBSET (IF plan = <<>> THEN {0} ELSE Pending(turns)) : wave \in [w -> Choices]
  BY <1>2 DEF Waves
<1>4. wave[s] \in Participants /\ s \in (IF plan = <<>> THEN {0} ELSE Pending(turns))
  BY <1>1, <1>3
<1>5. plan # <<>> => s \in DOMAIN plan /\ plan[s] \subseteq StepsWith(turns, {"completed"})
  BY <1>4 DEF Pending, Ready
<1> QED
  BY <1>4, <1>5 DEF Own

LEMMA TypesStep == TypesFit /\ TasksFit /\ [Next]_vars => TypesFit'
<1> SUFFICES ASSUME TypesFit, TasksFit, [Next]_vars PROVE TypesFit'
  OBVIOUS
<1>1. CASE UNCHANGED vars
  BY <1>1 DEF TypesFit, vars
<1>2. NoTask \in Work /\ Over \in Round
  BY DEF NoTask, Work, Over, Round
<1>3. /\ task \in [Drivers -> [Slots -> Work]]
      /\ driver \in [Drivers -> Round]
      /\ \A d \in Drivers, s \in Slots : task[d][s] \in Work
      /\ turns \in Seq(Turn) /\ Len(turns) \in Nat
  BY LenProperties DEF TypesFit
<1>4. ASSUME NEW d \in Drivers, PlanWave(d) PROVE TypesFit'
  <2>1. PICK wave \in Waves :
          task' = [task EXCEPT ![d] =
                     [s \in Slots |-> IF s \in DOMAIN wave
                                      THEN [phase |-> "planned", agent |-> wave[s], index |-> 0]
                                      ELSE NoTask]]
    BY <1>4 DEF PlanWave
  <2>2. ASSUME NEW s \in Slots, s \in DOMAIN wave
        PROVE  [phase |-> "planned", agent |-> wave[s], index |-> 0] \in Work
    BY <2>2, WaveShape DEF TypesFit, Work
  <2>3. task' \in [Drivers -> [Slots -> Work]]
    BY <1>2, <1>3, <2>1, <2>2
  <2>4. driver' \in [Drivers -> Round]
    BY <1>3, <1>4 DEF PlanWave, Round
  <2> QED
    BY <1>4, <2>3, <2>4 DEF PlanWave, TypesFit, session
<1>5. ASSUME NEW d \in Drivers, Launch(d) PROVE TypesFit'
  <2> DEFINE planned == {s \in Slots : task[d][s].phase = "planned"}
             lost == {s \in planned : task[d][s].agent \in gone}
             after == [s \in Slots |-> IF s \in lost THEN NoTask
                                       ELSE IF s \in planned
                                            THEN [task[d][s] EXCEPT !.phase = "claiming"]
                                            ELSE task[d][s]]
  <2>1. task' = [task EXCEPT ![d] = after]
    BY <1>5 DEF Launch
  <2>2. \A s \in Slots : [task[d][s] EXCEPT !.phase = "claiming"] \in Work
    BY <1>3 DEF Work
  <2>3. after \in [Slots -> Work]
    BY <1>2, <1>3, <2>2
  <2> HIDE DEF after
  <2>4. task' \in [Drivers -> [Slots -> Work]]
    BY <1>3, <2>1, <2>3
  <2>5. driver' = [driver EXCEPT ![d].phase = "wave"] \/ driver' = [driver EXCEPT ![d] = Over]
    BY <1>5 DEF Launch
  <2>6. driver' \in [Drivers -> Round]
    <3>1. [driver[d] EXCEPT !.phase = "wave"] \in Round
      BY <1>3 DEF Round
    <3> QED
      BY <1>2, <1>3, <2>5, <3>1
  <2> QED
    BY <1>5, <2>4, <2>6 DEF Launch, TypesFit, session
<1>6. ASSUME NEW d \in Drivers, EndWave(d) PROVE TypesFit'
  <2>1. \/ driver' = [driver EXCEPT ![d] = [phase |-> "idle", rounds |-> driver[d].rounds + 1,
                                            before |-> 0]]
        \/ driver' = [driver EXCEPT ![d] = Over]
    BY <1>6 DEF EndWave
  <2>2. [phase |-> "idle", rounds |-> driver[d].rounds + 1, before |-> 0] \in Round
    BY <1>3 DEF Round
  <2>3. driver' \in [Drivers -> Round]
    BY <1>2, <1>3, <2>1, <2>2
  <2> QED
    BY <1>6, <2>3 DEF EndWave, TypesFit, session
<1>7. ASSUME NEW d \in Drivers, NEW s \in Slots, Claim(d, s) PROVE TypesFit'
  <2> DEFINE t == [step |-> s, agent |-> task[d][s].agent, status |-> "claimed"]
  <2>1. t \in Turn
    BY <1>7 DEF Claim, TasksFit, Turn
  <2>2. turns' = Append(turns, t)
    BY <1>7 DEF Claim
  <2> HIDE DEF t
  <2>3. turns' \in Seq(Turn)
    BY <1>3, <2>1, <2>2, Claimed
  <2>4. task' \in [Drivers -> [Slots -> Work]]
    <3> DEFINE n == Len(turns) + 1
    <3>1. n \in Nat
      BY <1>3
    <3> HIDE DEF n
    <3>2. [task[d][s] EXCEPT !.phase = "claimed", !.index = n] \in Work
      BY <1>3, <3>1 DEF Work
    <3>3. [task[d][s] EXCEPT !.phase = "claimed", !.index = Len(turns) + 1] \in Work
      BY <3>2 DEF n
    <3>4. task' = [task EXCEPT ![d] = [task[d] EXCEPT ![s] =
                     [task[d][s] EXCEPT !.phase = "claimed", !.index = Len(turns) + 1]]]
      BY <1>3, <1>7 DEF Claim
    <3> QED
      BY <1>3, <3>3, <3>4
  <2> QED
    BY <1>7, <2>3, <2>4 DEF Claim, TypesFit
<1>8. ASSUME NEW d \in Drivers, NEW s \in Slots, LoseClaim(d, s) \/ LeaveClaimed(d, s)
      PROVE  TypesFit'
  <2>1. task' = [task EXCEPT ![d][s] = NoTask]
    BY <1>8 DEF LoseClaim, LeaveClaimed
  <2>2. task' \in [Drivers -> [Slots -> Work]]
    BY <1>2, <1>3, <2>1
  <2>3. driver' \in [Drivers -> Round]
    BY <1>2, <1>3, <1>8 DEF LoseClaim, LeaveClaimed
  <2>4. faults' \in Nat
    BY <1>8 DEF LoseClaim, LeaveClaimed, Reject, TypesFit
  <2> QED
    BY <1>8, <2>2, <2>3, <2>4 DEF LoseClaim, LeaveClaimed, TypesFit, session
<1>9. ASSUME NEW d \in Drivers, NEW s \in Slots, Dispatch(d, s) PROVE TypesFit'
  <2>1. [task[d][s] EXCEPT !.phase = "running"] \in Work
    BY <1>3 DEF Work
  <2>2. task' \in [Drivers -> [Slots -> Work]]
    BY <1>3, <1>9, <2>1 DEF Dispatch
  <2> QED
    BY <1>9, <2>2 DEF Dispatch, Answers, TypesFit, session
<1>10. ASSUME NEW d \in Drivers, NEW s \in Slots, NEW outcome \in {"completed", "failed"},
              NEW met \in BOOLEAN, Settle(d, s, outcome, met)
       PROVE  TypesFit'
  <2>1. task[d][s].index \in DOMAIN turns
    BY <1>10 DEF Settle, TasksFit, Holds
  <2>2. turns' \in Seq(Turn)
    BY <1>3, <1>10, <2>1, Closed DEF Settle
  <2>3. status' \in {"active", "completed", "stopped", "failed"}
    BY <1>10 DEF Settle, StatusAfter, Verdict, PlanVerdict, TypesFit
  <2>4. task' \in [Drivers -> [Slots -> Work]]
    BY <1>2, <1>3, <1>10 DEF Settle
  <2> QED
    BY <1>10, <2>2, <2>3, <2>4 DEF Settle, TypesFit
<1>11. CASE SplitStep \/ StopSession \/ (\E a \in Participants : DeleteAgent(a))
  BY <1>11 DEF SplitStep, GiveUp, FallBack, Reject, StopSession, DeleteAgent, TypesFit,
                session
<1>12. CASE Crash
  <2>1. crashes' \in Nat
    BY <1>12 DEF Crash, TypesFit
  <2>2. driver' \in [Drivers -> Round] /\ task' \in [Drivers -> [Slots -> Work]]
    BY <1>2, <1>3, <1>12 DEF Crash
  <2> QED
    BY <1>12, <2>1, <2>2 DEF Crash, TypesFit, session
<1> QED
  BY <1>1, <1>4, <1>5, <1>6, <1>7, <1>8, <1>9, <1>10, <1>11, <1>12
     DEF Next, DriverStep, TaskStep

-----------------------------------------------------------------------------
\* What a claim and a settlement find and leave.
LEMMA ClaimFinds ==
  ASSUME TypesFit, TasksFit, NEW d \in Drivers, NEW s \in Slots, Claim(d, s)
  PROVE  LET n == Len(turns)
         IN /\ n \in Nat /\ DOMAIN turns = 1 .. n /\ DOMAIN turns' = 1 .. n + 1
            /\ Len(turns') = n + 1
            /\ \A i \in 1 .. n : turns'[i] = turns[i]
            /\ turns'[n + 1].step = s /\ turns'[n + 1].status = "claimed"
            /\ turns'[n + 1].agent = task[d][s].agent
            /\ s \in Own /\ status = "active" /\ status' = "active"
            /\ plan' = plan /\ done' = done
            /\ plan = <<>> => s = 0
            /\ plan # <<>> => s \in DOMAIN plan /\ s # 0
            /\ Claimable(s, task[d][s].agent)
<1> DEFINE t == [step |-> s, agent |-> task[d][s].agent, status |-> "claimed"]
<1>1. t \in Turn /\ s \in Own
  BY DEF Claim, TasksFit, Turn
<1>2. turns' = Append(turns, t) /\ t.step = s /\ t.agent = task[d][s].agent /\ t.status = "claimed"
  BY DEF Claim
<1> HIDE DEF t
<1>3. /\ Len(turns) \in Nat /\ DOMAIN turns = 1 .. Len(turns)
      /\ DOMAIN turns' = 1 .. Len(turns) + 1 /\ Len(turns') = Len(turns) + 1
      /\ \A i \in 1 .. Len(turns) : turns'[i] = turns[i]
      /\ turns'[Len(turns) + 1] = t
  BY <1>1, <1>2, Claimed DEF TypesFit
<1>4. plan # <<>> => s \in DOMAIN plan /\ s # 0
  BY <1>1, SlotsShape DEF Own, TypesFit
<1> QED
  BY <1>1, <1>2, <1>3, <1>4 DEF Claim, Own

LEMMA SettleFinds ==
  ASSUME TypesFit, TasksFit, NEW d \in Drivers, NEW s \in Slots,
         NEW outcome \in {"completed", "failed"}, NEW met \in BOOLEAN, Settle(d, s, outcome, met)
  PROVE  LET k == task[d][s].index
         IN /\ k \in DOMAIN turns /\ turns[k].step = s /\ turns[k].status = "claimed"
            /\ Len(turns) \in Nat /\ DOMAIN turns = 1 .. Len(turns)
            /\ DOMAIN turns' = DOMAIN turns /\ Len(turns') = Len(turns)
            /\ \A j \in DOMAIN turns :
                 /\ turns'[j].step = turns[j].step /\ turns'[j].agent = turns[j].agent
                 /\ turns'[j].status = IF j = k THEN outcome ELSE turns[j].status
            /\ plan' = plan /\ done' = met /\ status' = StatusAfter(turns', met)
<1>1. /\ task[d][s].index \in DOMAIN turns
      /\ turns[task[d][s].index].step = s /\ turns[task[d][s].index].status = "claimed"
  BY DEF Settle, TasksFit, Holds
<1>2. turns' = Settled(task[d][s].index, outcome)
  BY DEF Settle
<1> QED
  BY <1>1, <1>2, Closed DEF Settle, TypesFit

LEMMA TurnsStep ==
  SessionInv /\ [Next]_vars => RoomFits' /\ StepsRunOnce' /\ TurnsDoNotOverlap'
<1> SUFFICES ASSUME SessionInv, [Next]_vars PROVE RoomFits' /\ StepsRunOnce' /\ TurnsDoNotOverlap'
  OBVIOUS
<1> USE DEF SessionInv
<1>1. CASE Quiet
  <2>1. With(turns, {"claimed"})' = With(turns, {"claimed"}) /\ Own' = Own
    BY <1>1 DEF Quiet, With, Own
  <2> QED
    BY <1>1, <2>1 DEF Quiet, RoomFits, StepsRunOnce, TurnsDoNotOverlap
<1>2. ASSUME NEW d \in Drivers, NEW s \in Slots, Claim(d, s)
      PROVE  RoomFits' /\ StepsRunOnce' /\ TurnsDoNotOverlap'
  <2> DEFINE n == Len(turns)
  <2>1. /\ n \in Nat /\ DOMAIN turns = 1 .. n /\ DOMAIN turns' = 1 .. n + 1
        /\ Len(turns') = n + 1
        /\ \A i \in 1 .. n : turns'[i] = turns[i]
        /\ turns'[n + 1].step = s /\ turns'[n + 1].status = "claimed"
        /\ turns'[n + 1].agent = task[d][s].agent
    BY <1>2, ClaimFinds
  <2>2. /\ s \in Own /\ status = "active" /\ status' = "active" /\ plan' = plan /\ done' = done
        /\ plan = <<>> => s = 0
        /\ plan # <<>> => s # 0
        /\ Claimable(s, task[d][s].agent)
    BY <1>2, ClaimFinds
  <2>3. n < GoalTurns \/ plan # <<>>
    BY <2>2 DEF RoomFits, Claimable
  <2>4. n + 1 \in With(turns, {"claimed"})'
    BY <2>1 DEF With
  <2>5. RoomFits'
    <3>1. \A i \in DOMAIN turns' : turns'[i].step \in Own'
      BY <2>1, <2>2 DEF RoomFits, Own
    <3>2. plan' = <<>> => Len(turns') <= GoalTurns
      BY <2>1, <2>2, <2>3, BoundsAssumption
    <3> QED
      BY <2>2, <2>4, <3>1, <3>2 DEF RoomFits
  <2>6. StepsRunOnce'
    <3>1. plan # <<>> => \A i \in 1 .. n : turns[i].step # s
      BY <2>1, <2>2 DEF Claimable
    <3>2. ASSUME plan' # <<>>, NEW i \in DOMAIN turns', NEW j \in DOMAIN turns',
                 turns'[i].step = turns'[j].step
          PROVE  i = j
      BY <2>1, <2>2, <3>1, <3>2 DEF StepsRunOnce
    <3> QED
      BY <3>2 DEF StepsRunOnce
  <2>7. TurnsDoNotOverlap'
    <3>1. \A i \in 1 .. n : turns[i].status = "claimed"
             => plan # <<>> /\ turns[i].agent # task[d][s].agent
      BY <2>1, <2>2 DEF Claimable, With
    <3>2. ASSUME NEW i \in DOMAIN turns', NEW j \in DOMAIN turns',
                 turns'[i].status = "claimed", turns'[j].status = "claimed",
                 plan' = <<>> \/ turns'[i].agent = turns'[j].agent
          PROVE  i = j
      BY <2>1, <2>2, <3>1, <3>2 DEF TurnsDoNotOverlap, With
    <3> QED
      BY <3>2 DEF TurnsDoNotOverlap, With
  <2> QED
    BY <2>5, <2>6, <2>7
<1>3. ASSUME NEW d \in Drivers, NEW s \in Slots, NEW outcome \in {"completed", "failed"},
             NEW met \in BOOLEAN, Settle(d, s, outcome, met)
      PROVE  RoomFits' /\ StepsRunOnce' /\ TurnsDoNotOverlap'
  <2> DEFINE k == task[d][s].index
  <2>1. /\ k \in DOMAIN turns /\ turns[k].step = s /\ turns[k].status = "claimed"
        /\ DOMAIN turns' = DOMAIN turns /\ Len(turns') = Len(turns) /\ Len(turns) \in Nat
        /\ \A j \in DOMAIN turns :
             /\ turns'[j].step = turns[j].step /\ turns'[j].agent = turns[j].agent
             /\ turns'[j].status = IF j = k THEN outcome ELSE turns[j].status
        /\ plan' = plan /\ done' = met /\ status' = StatusAfter(turns', met)
    BY <1>3, SettleFinds
  <2> HIDE DEF k
  <2>2. \A i \in DOMAIN turns' : turns'[i].status = "claimed" => turns[i].status = "claimed"
    BY <2>1
  <2>3. status' = "active" => Len(turns') < MaxTurns /\ ~met
    BY <2>1, BoundsAssumption DEF StatusAfter, Verdict, RoomFits, MaxTurns
  <2>4. RoomFits'
    BY <2>1, <2>3 DEF RoomFits, MaxTurns, Own
  <2>5. StepsRunOnce' /\ TurnsDoNotOverlap'
    BY <2>1, <2>2 DEF StepsRunOnce, TurnsDoNotOverlap, With
  <2> QED
    BY <2>4, <2>5
<1> QED
  BY <1>1, <1>2, <1>3, SessionStep

-----------------------------------------------------------------------------
\* A task keeps fitting while the turns it speaks of stay: unless a step gives the call a new
\* phase, or touches the turn it holds.
Kept(d, s) == task'[d][s] = task[d][s] \/ task'[d][s] = NoTask

Fits(d, s) ==
  /\ task[d][s].phase # "none" => s \in Own /\ task[d][s].agent \in Participants
  /\ task[d][s].phase \in {"planned", "claiming"} /\ plan # <<>>
       => plan[s] \subseteq StepsWith(turns, {"completed"})
  /\ Holds(d, s) => /\ task[d][s].index \in DOMAIN turns
                    /\ turns[task[d][s].index].step = s
                    /\ turns[task[d][s].index].status = "claimed"

Apart(d, s, e, x) ==
  Holds(d, s) /\ Holds(e, x) /\ task[d][s].index = task[e][x].index => d = e /\ s = x

LEMMA FitsDef == TasksFit <=> /\ \A d \in Drivers, s \in Slots : Fits(d, s)
                              /\ \A d, e \in Drivers, s, x \in Slots : Apart(d, s, e, x)
BY DEF TasksFit, Fits, Apart

\* A completed step stays completed.
LEMMA CompletedStays ==
  ASSUME TypesFit, TasksFit, [Next]_vars
  PROVE  StepsWith(turns, {"completed"}) \subseteq StepsWith(turns, {"completed"})'
<1>1. CASE Quiet
  BY <1>1 DEF Quiet, StepsWith, With
<1>2. ASSUME NEW d \in Drivers, NEW s \in Slots, Claim(d, s)
      PROVE  StepsWith(turns, {"completed"}) \subseteq StepsWith(turns, {"completed"})'
  <2>1. \A i \in DOMAIN turns : i \in DOMAIN turns' /\ turns'[i] = turns[i]
    BY <1>2, ClaimFinds
  <2> QED
    BY <2>1 DEF StepsWith, With
<1>3. ASSUME NEW d \in Drivers, NEW s \in Slots, NEW outcome \in {"completed", "failed"},
             NEW met \in BOOLEAN, Settle(d, s, outcome, met)
      PROVE  StepsWith(turns, {"completed"}) \subseteq StepsWith(turns, {"completed"})'
  <2>1. \A i \in DOMAIN turns :
          /\ i \in DOMAIN turns' /\ turns'[i].step = turns[i].step
          /\ turns[i].status = "completed" => turns'[i].status = "completed"
    BY <1>3, SettleFinds
  <2> QED
    BY <2>1 DEF StepsWith, With
<1> QED
  BY <1>1, <1>2, <1>3, SessionStep

LEMMA TasksStep == SessionInv /\ [Next]_vars => TasksFit'
<1> SUFFICES ASSUME SessionInv, [Next]_vars PROVE TasksFit'
  OBVIOUS
<1> USE DEF SessionInv
<1>1. /\ \A d \in Drivers, s \in Slots : Fits(d, s)
      /\ \A d, e \in Drivers, s, x \in Slots : Apart(d, s, e, x)
      /\ task \in [Drivers -> [Slots -> Work]]
  BY FitsDef DEF TypesFit
<1>2. StepsWith(turns, {"completed"}) \subseteq StepsWith(turns, {"completed"})'
  BY CompletedStays
<1>3. NoTask.phase = "none"
  BY DEF NoTask
<1>4. plan' = plan
  BY SessionStep DEF Quiet, Claim, Settle
\* Every call either keeps what it had or lets it go, and the turns stay.
<1>5. ASSUME turns' = turns, \A d \in Drivers, s \in Slots :
               \/ Kept(d, s)
               \/ /\ task[d][s].phase = "planned" /\ task'[d][s].phase = "claiming"
                  /\ task'[d][s].agent = task[d][s].agent
               \/ /\ task[d][s].phase = "claimed" /\ task'[d][s].phase = "running"
                  /\ task'[d][s].index = task[d][s].index
                  /\ task'[d][s].agent = task[d][s].agent
      PROVE  TasksFit'
  <2>1. ASSUME NEW d \in Drivers, NEW s \in Slots PROVE Fits(d, s)'
    BY <1>1, <1>2, <1>3, <1>4, <1>5 DEF Fits, Holds, Own, Kept
  <2>2. ASSUME NEW d \in Drivers, NEW s \in Slots
        PROVE  Holds(d, s)' => Holds(d, s) /\ task'[d][s].index = task[d][s].index
    BY <1>3, <1>5 DEF Holds, Kept
  <2>3. ASSUME NEW d \in Drivers, NEW e \in Drivers, NEW s \in Slots, NEW x \in Slots
        PROVE  Apart(d, s, e, x)'
    BY <1>1, <2>2 DEF Apart
  <2> QED
    BY <2>1, <2>3 DEF TasksFit, Fits, Apart
<1>6. ASSUME NEW d \in Drivers, PlanWave(d) PROVE TasksFit'
  <2>1. PICK wave \in Waves :
          task' = [task EXCEPT ![d] =
                     [s \in Slots |-> IF s \in DOMAIN wave
                                      THEN [phase |-> "planned", agent |-> wave[s], index |-> 0]
                                      ELSE NoTask]]
    BY <1>6 DEF PlanWave
  <2>2. turns' = turns
    BY <1>6 DEF PlanWave, session
  <2>3. ASSUME NEW e \in Drivers, NEW s \in Slots
        PROVE  \/ Kept(e, s)
               \/ /\ s \in DOMAIN wave
                  /\ task'[e][s] = [phase |-> "planned", agent |-> wave[s], index |-> 0]
    <3>1. CASE e = d
      BY <1>1, <2>1, <3>1 DEF Kept
    <3>2. CASE e # d
      BY <1>1, <2>1, <3>2 DEF Kept
    <3> QED
      BY <3>1, <3>2
  <2>4. ASSUME NEW e \in Drivers, NEW s \in Slots PROVE Fits(e, s)'
    <3>1. CASE Kept(e, s)
      BY <1>1, <1>3, <1>4, <2>2, <3>1 DEF Fits, Holds, Own, Kept, StepsWith, With
    <3>2. ASSUME s \in DOMAIN wave,
                 task'[e][s] = [phase |-> "planned", agent |-> wave[s], index |-> 0]
          PROVE  Fits(e, s)'
      <4>1. /\ wave[s] \in Participants /\ s \in Own
            /\ plan # <<>> => plan[s] \subseteq StepsWith(turns, {"completed"})
        BY <3>2, WaveShape DEF TypesFit
      <4> QED
        BY <1>2, <1>4, <3>2, <4>1 DEF Fits, Holds, Own
    <3> QED
      BY <2>3, <3>1, <3>2
  <2>5. ASSUME NEW e \in Drivers, NEW s \in Slots
        PROVE  Holds(e, s)' => Holds(e, s) /\ task'[e][s].index = task[e][s].index
    <3>1. CASE Kept(e, s)
      BY <1>3, <3>1 DEF Holds, Kept
    <3>2. CASE task'[e][s] = [phase |-> "planned", agent |-> wave[s], index |-> 0]
      BY <3>2 DEF Holds
    <3> QED
      BY <2>3, <3>1, <3>2
  <2>6. ASSUME NEW b \in Drivers, NEW e \in Drivers, NEW s \in Slots, NEW x \in Slots
        PROVE  Apart(b, s, e, x)'
    BY <1>1, <2>5 DEF Apart
  <2> QED
    BY <2>4, <2>6 DEF TasksFit, Fits, Apart
<1>7. ASSUME NEW d \in Drivers, Launch(d) PROVE TasksFit'
  <2> DEFINE planned == {s \in Slots : task[d][s].phase = "planned"}
             lost == {s \in planned : task[d][s].agent \in gone}
  <2>1. /\ task' = [task EXCEPT ![d] =
                      [s \in Slots |-> IF s \in lost THEN NoTask
                                       ELSE IF s \in planned
                                            THEN [task[d][s] EXCEPT !.phase = "claiming"]
                                            ELSE task[d][s]]]
        /\ turns' = turns
    BY <1>7 DEF Launch, session
  <2>2. ASSUME NEW e \in Drivers, NEW s \in Slots
        PROVE  \/ Kept(e, s)
               \/ /\ task[e][s].phase = "planned" /\ task'[e][s].phase = "claiming"
                  /\ task'[e][s].agent = task[e][s].agent
    <3>1. CASE e # d
      BY <1>1, <2>1, <3>1 DEF Kept
    <3>2. CASE e = d
      <4>1. task'[e][s] = IF s \in lost THEN NoTask
                          ELSE IF s \in planned THEN [task[d][s] EXCEPT !.phase = "claiming"]
                          ELSE task[d][s]
        BY <1>1, <2>1, <3>2
      <4>2. task[d][s] \in Work
        BY <1>1
      <4> QED
        BY <3>2, <4>1, <4>2 DEF Kept, Work
    <3> QED
      BY <3>1, <3>2
  <2> QED
    BY <1>5, <2>1, <2>2
<1>8. ASSUME NEW d \in Drivers, NEW s \in Slots, LoseClaim(d, s) \/ LeaveClaimed(d, s)
      PROVE  TasksFit'
  <2>1. turns' = turns /\ \A e \in Drivers, x \in Slots : Kept(e, x)
    BY <1>1, <1>8 DEF LoseClaim, LeaveClaimed, Kept, session
  <2> QED
    BY <1>5, <2>1
<1>9. ASSUME NEW d \in Drivers, NEW s \in Slots, Dispatch(d, s) PROVE TasksFit'
  <2>1. /\ turns' = turns /\ task[d][s].phase = "claimed"
        /\ task' = [task EXCEPT ![d][s].phase = "running"]
        /\ task[d][s] \in Work
    BY <1>1, <1>9 DEF Dispatch, session
  <2>2. ASSUME NEW e \in Drivers, NEW x \in Slots
        PROVE  \/ Kept(e, x)
               \/ /\ task[e][x].phase = "claimed" /\ task'[e][x].phase = "running"
                  /\ task'[e][x].index = task[e][x].index
                  /\ task'[e][x].agent = task[e][x].agent
    <3>1. CASE e = d /\ x = s
      BY <1>1, <2>1, <3>1 DEF Work
    <3>2. CASE ~(e = d /\ x = s)
      BY <1>1, <2>1, <3>2 DEF Kept
    <3> QED
      BY <3>1, <3>2
  <2> QED
    BY <1>5, <2>1, <2>2
<1>10. ASSUME NEW d \in Drivers, NEW s \in Slots, Claim(d, s) PROVE TasksFit'
  <2> DEFINE n == Len(turns)
  <2>1. /\ n \in Nat /\ DOMAIN turns = 1 .. n /\ DOMAIN turns' = 1 .. n + 1
        /\ \A i \in 1 .. n : turns'[i] = turns[i]
        /\ turns'[n + 1].step = s /\ turns'[n + 1].status = "claimed"
        /\ s \in Own
    BY <1>10, ClaimFinds
  <2>2. /\ task'[d][s].phase = "claimed" /\ task'[d][s].index = n + 1
        /\ task'[d][s].agent = task[d][s].agent
        /\ task[d][s].phase = "claiming"
    <3>1. task[d][s] \in Work
      BY <1>1
    <3> QED
      BY <1>1, <1>10, <3>1 DEF Claim, Work
  <2>3. ASSUME NEW e \in Drivers, NEW x \in Slots, ~(e = d /\ x = s)
        PROVE  task'[e][x] = task[e][x]
    BY <1>1, <1>10, <2>3 DEF Claim
  <2> HIDE DEF n
  <2>4. ASSUME NEW e \in Drivers, NEW x \in Slots PROVE Fits(e, x)'
    <3>1. CASE e = d /\ x = s
      BY <1>1, <1>4, <2>1, <2>2, <3>1 DEF Fits, Holds, Own
    <3>2. CASE ~(e = d /\ x = s)
      <4>1. Fits(e, x) /\ task'[e][x] = task[e][x]
        BY <1>1, <2>3, <3>2
      <4> QED
        BY <1>2, <1>4, <2>1, <4>1 DEF Fits, Holds, Own
    <3> QED
      BY <3>1, <3>2
  <2>5. ASSUME NEW b \in Drivers, NEW e \in Drivers, NEW y \in Slots, NEW x \in Slots
        PROVE  Apart(b, y, e, x)'
    <3>1. \A c \in Drivers, z \in Slots : ~(c = d /\ z = s) /\ Holds(c, z)'
             => Holds(c, z) /\ task'[c][z].index = task[c][z].index
                /\ task'[c][z].index \in 1 .. n
      BY <1>1, <2>1, <2>3 DEF Holds, Fits
    <3> QED
      BY <1>1, <2>1, <2>2, <3>1 DEF Apart
  <2> QED
    BY <2>4, <2>5 DEF TasksFit, Fits, Apart
<1>11. ASSUME NEW d \in Drivers, NEW s \in Slots, NEW outcome \in {"completed", "failed"},
              NEW met \in BOOLEAN, Settle(d, s, outcome, met)
       PROVE  TasksFit'
  <2> DEFINE k == task[d][s].index
  <2>1. /\ k \in DOMAIN turns /\ DOMAIN turns' = DOMAIN turns
        /\ \A j \in DOMAIN turns :
             /\ turns'[j].step = turns[j].step
             /\ turns'[j].status = IF j = k THEN outcome ELSE turns[j].status
    BY <1>11, SettleFinds
  <2>2. Holds(d, s) /\ task'[d][s] = NoTask
    BY <1>1, <1>11 DEF Settle, Holds
  <2>3. ASSUME NEW e \in Drivers, NEW x \in Slots, ~(e = d /\ x = s)
        PROVE  task'[e][x] = task[e][x]
    BY <1>1, <1>11, <2>3 DEF Settle
  <2>4. ASSUME NEW e \in Drivers, NEW x \in Slots PROVE Fits(e, x)'
    <3>1. CASE e = d /\ x = s
      BY <1>3, <2>2, <3>1 DEF Fits, Holds
    <3>2. CASE ~(e = d /\ x = s)
      <4>1. Fits(e, x) /\ task'[e][x] = task[e][x] /\ Apart(e, x, d, s)
        BY <1>1, <2>3, <3>2
      <4>2. Holds(e, x) => task[e][x].index # k
        BY <2>2, <3>2, <4>1 DEF Apart
      <4> QED
        BY <1>2, <1>4, <2>1, <4>1, <4>2 DEF Fits, Holds, Own
    <3> QED
      BY <3>1, <3>2
  <2>5. ASSUME NEW b \in Drivers, NEW e \in Drivers, NEW y \in Slots, NEW x \in Slots
        PROVE  Apart(b, y, e, x)'
    <3>1. \A c \in Drivers, z \in Slots : Holds(c, z)'
             => Holds(c, z) /\ task'[c][z].index = task[c][z].index
      BY <1>3, <2>2, <2>3 DEF Holds
    <3> QED
      BY <1>1, <3>1 DEF Apart
  <2> QED
    BY <2>4, <2>5 DEF TasksFit, Fits, Apart
<1>12. CASE \/ SplitStep \/ StopSession \/ \E a \in Participants : DeleteAgent(a)
            \/ \E d \in Drivers : EndWave(d) \/ UNCHANGED vars
  <2>1. turns' = turns /\ task' = task
    BY <1>12 DEF SplitStep, GiveUp, FallBack, StopSession, DeleteAgent, EndWave, session, vars
  <2> QED
    BY <1>5, <2>1 DEF Kept
<1>13. CASE Crash
  <2>1. turns' = turns /\ \A e \in Drivers, x \in Slots : Kept(e, x)
    BY <1>13 DEF Crash, Kept, session
  <2> QED
    BY <1>5, <2>1
<1>14. CASE UNCHANGED vars
  BY <1>5, <1>14 DEF Kept, vars
<1> QED
  BY <1>6, <1>7, <1>8, <1>9, <1>10, <1>11, <1>12, <1>13, <1>14 DEF Next, DriverStep, TaskStep

-----------------------------------------------------------------------------
LEMMA SessionInit == Init => SessionInv
<1> SUFFICES ASSUME Init PROVE SessionInv
  OBVIOUS
<1>1. turns = <<>> /\ DOMAIN turns = {} /\ turns \in Seq(Turn) /\ Len(turns) = 0
  BY EmptySeq DEF Init
<1>2. NoTask \in Work /\ Over \in Round /\ [Over EXCEPT !.phase = "idle"] \in Round
  BY DEF NoTask, Work, Over, Round
<1>3. TypesFit
  <2>1. done \in BOOLEAN
    BY Zenon DEF Init
  <2>2. driver \in [Drivers -> Round]
    BY <1>2 DEF Init
  <2>3. task \in [Drivers -> [Slots -> Work]]
    BY <1>2 DEF Init
  <2>4. /\ plan \in Plans /\ status = "active" /\ gone = {} /\ split \in {"none", "waiting"}
        /\ sent = FALSE /\ crashes = 0 /\ faults = 0
    BY DEF Init
  <2> QED
    BY <1>1, <2>1, <2>2, <2>3, <2>4 DEF TypesFit
<1>4. \A d \in Drivers, s \in Slots : task[d][s].phase = "none"
  BY DEF Init, NoTask
<1>5. TasksFit
  BY <1>4 DEF TasksFit, Holds
<1>6. RoomFits
  <2>1. plan # <<>> => ~done
    BY Zenon DEF Init
  <2>2. 0 <= GoalTurns /\ 0 < GoalTurns
    BY BoundsAssumption
  <2> QED
    BY <1>1, <2>1, <2>2 DEF RoomFits
<1>7. StepsRunOnce /\ TurnsDoNotOverlap
  BY <1>1 DEF StepsRunOnce, TurnsDoNotOverlap, With
<1> QED
  BY <1>3, <1>5, <1>6, <1>7 DEF SessionInv

\* The invariant the theorems below rest on.
THEOREM SessionInvariant == Spec => []SessionInv
<1>1. SessionInv /\ [Next]_vars => SessionInv'
  BY TypesStep, TasksStep, TurnsStep DEF SessionInv
<1> QED
  BY <1>1, SessionInit, PTL DEF Spec

\* A plan has fewer turns than its ceiling, however they are taken: each of its steps has one.
LEMMA Ceiling ==
  ASSUME SessionInv
  PROVE  /\ Len(turns) \in Nat /\ DOMAIN turns = 1 .. Len(turns)
         /\ Len(turns) <= MaxTurns
         /\ plan # <<>> => Len(turns) < MaxTurns
<1> USE DEF SessionInv
<1>1. Len(turns) \in Nat /\ DOMAIN turns = 1 .. Len(turns)
  BY LenProperties DEF TypesFit
<1>2. CASE plan = <<>>
  BY <1>1, <1>2 DEF RoomFits, MaxTurns
<1>3. CASE plan # <<>>
  <2> DEFINE n == Len(turns)  m == Len(plan)
             f == [i \in 1 .. n |-> turns[i].step]
  <2>1. m \in 2 .. MaxSteps /\ DOMAIN plan = 1 .. m
    BY <1>3, PlanShape DEF TypesFit
  <2>2. n \in Nat /\ f \in Injection(1 .. n, 1 .. m)
    BY <1>1, <1>3, <2>1 DEF RoomFits, Own, StepsRunOnce, Injection, IsInjective
  <2> HIDE DEF f, n, m
  <2>3. m \in Nat
    BY <2>1 DEF MaxSteps
  <2>4. /\ IsFiniteSet(1 .. m)
        /\ Cardinality(1 .. n) = (IF 1 > n THEN 0 ELSE n - 1 + 1)
        /\ Cardinality(1 .. m) = (IF 1 > m THEN 0 ELSE m - 1 + 1)
    BY <2>2, <2>3, FS_Interval
  <2>5. Cardinality(1 .. n) <= Cardinality(1 .. m)
    BY <2>2, <2>4, FS_Injection
  <2>6. n <= m
    BY <2>2, <2>3, <2>4, <2>5
  <2> QED
    BY <1>1, <1>3, <2>1, <2>6 DEF MaxTurns, MaxSteps, n, m
<1> QED
  BY <1>2, <1>3

\* Every value of a session is of the kind the code gives it, and it never has more turns
\* than its ceiling, although claimTurn does not compare the two.
THEOREM TypeCorrect == Spec => []TypeOK
<1>1. SessionInv => TypeOK
  BY Ceiling DEF SessionInv, TypesFit, TypeOK, Turn, Work, Round
<1> QED
  BY <1>1, SessionInvariant, PTL

\* No step of a plan runs twice, however many calls advance the session.
THEOREM StepsRunOnceHolds == Spec => []StepsRunOnce
<1>1. SessionInv => StepsRunOnce
  BY DEF SessionInv
<1> QED
  BY <1>1, SessionInvariant, PTL

\* No two turns of one Agent, and without a plan no two turns at all, are in flight together.
THEOREM TurnsDoNotOverlapHolds == Spec => []TurnsDoNotOverlap
<1>1. SessionInv => TurnsDoNotOverlap
  BY DEF SessionInv
<1> QED
  BY <1>1, SessionInvariant, PTL

-----------------------------------------------------------------------------
(* The fallback of splitIntoSession.                                        *)

\* What only the background calls have touched: theirs are the only turns in progress, once
\* they are over nothing is, and a request that has a run does not wait for its first one.
AloneFits ==
  Undisturbed =>
    /\ \A d \in Drivers, s \in Slots :
         task[d][s].phase # "none"
           => d = Background /\ driver[Background].phase \in {"planned", "wave"}
    /\ split \in {"stopping", "single"} => driver[Background].phase = "over" /\ ~sent
    /\ sent => split # "waiting"

\* Nothing undoes a disturbance: an Agent stays gone, a crash and a rejection are counted, a
\* caller never becomes idle again.
LEMMA UndisturbedBefore ==
  ASSUME TypesFit, [Next]_vars, Undisturbed'
  PROVE  /\ Undisturbed /\ gone' = {} /\ crashes' = crashes /\ ~Crash /\ ~Reject
         /\ \A c \in Callers : driver'[c].phase = "idle"
<1>1. \A c \in Callers : driver'[c].phase = "idle"
  BY DEF Undisturbed
<1>2. gone' = {} /\ crashes' = 0 /\ faults' = 0
  BY DEF Undisturbed
<1>3. /\ driver \in [Drivers -> Round] /\ Callers \subseteq Drivers
      /\ crashes \in Nat /\ faults \in Nat
  BY DEF TypesFit, Drivers
<1>4. ~Reject /\ ~Crash
  BY <1>2, <1>3 DEF Reject, Crash
<1>5. UNCHANGED <<gone, crashes, faults>>
  <2>1. ASSUME NEW d \in Drivers, DriverStep(d) PROVE UNCHANGED <<gone, crashes, faults>>
    BY <2>1 DEF DriverStep, PlanWave, Launch, EndWave
  <2>2. ASSUME NEW d \in Drivers, NEW s \in Slots, TaskStep(d, s)
        PROVE  UNCHANGED <<gone, crashes, faults>>
    BY <1>4, <2>2 DEF TaskStep, Claim, LoseClaim, Dispatch, LeaveClaimed, Settle
  <2>3. CASE SplitStep \/ StopSession \/ UNCHANGED vars
    BY <1>4, <2>3 DEF SplitStep, GiveUp, FallBack, StopSession, vars
  <2>4. ASSUME NEW a \in Participants, DeleteAgent(a) PROVE FALSE
    BY <1>2, <2>4 DEF DeleteAgent
  <2> QED
    BY <1>4, <2>1, <2>2, <2>3, <2>4 DEF Next
<1>6. ASSUME NEW c \in Callers, driver[c].phase # "idle" PROVE FALSE
  <2>1. c \in Drivers /\ c # Background
    BY BackgroundAssumption DEF Drivers
  <2>2. ASSUME NEW d \in Drivers, PlanWave(d) PROVE FALSE
    BY <1>1, <1>3, <1>6, <2>1, <2>2 DEF PlanWave, Round
  <2>3. ASSUME NEW d \in Drivers, Launch(d) PROVE FALSE
    <3>1. driver' = [driver EXCEPT ![d] = [@ EXCEPT !.phase = "wave"]]
          \/ driver' = [driver EXCEPT ![d] = Over]
      BY <2>3 DEF Launch
    <3> QED
      BY <1>1, <1>3, <1>6, <2>1, <3>1 DEF Round, Over
  <2>4. ASSUME NEW d \in Drivers, EndWave(d) PROVE FALSE
    <3>1. driver'[c] = driver[c] \/ driver'[c] = Over
      BY <1>3, <2>1, <2>4 DEF EndWave
    <3> QED
      BY <1>1, <1>6, <3>1 DEF Over
  <2>5. ASSUME NEW d \in Drivers, NEW s \in Slots, TaskStep(d, s) PROVE UNCHANGED driver
    BY <1>4, <2>5 DEF TaskStep, Claim, LoseClaim, Dispatch, LeaveClaimed, Settle
  <2>6. SplitStep \/ StopSession \/ (\E a \in Participants : DeleteAgent(a)) \/ UNCHANGED vars
          => UNCHANGED driver
    BY DEF SplitStep, GiveUp, FallBack, StopSession, DeleteAgent, vars
  <2>7. ~UNCHANGED driver
    BY <1>1, <1>6
  <2> QED
    BY <1>4, <2>2, <2>3, <2>4, <2>5, <2>6, <2>7 DEF Next, DriverStep
<1> QED
  BY <1>1, <1>2, <1>4, <1>5, <1>6 DEF Undisturbed

LEMMA AloneStep == TypesFit /\ AloneFits /\ [Next]_vars => AloneFits'
<1> SUFFICES ASSUME TypesFit, AloneFits, [Next]_vars, Undisturbed'
             PROVE  AloneFits'
  BY DEF AloneFits
<1>1. /\ Undisturbed /\ gone' = {} /\ gone = {} /\ ~Crash /\ ~Reject
      /\ \A c \in Callers : driver'[c].phase = "idle" /\ driver[c].phase = "idle"
  BY UndisturbedBefore DEF Undisturbed
<1>2. /\ driver \in [Drivers -> Round] /\ task \in [Drivers -> [Slots -> Work]]
      /\ Background \in Drivers /\ Drivers = Callers \cup {Background}
  BY DEF TypesFit, Drivers
<1>3. /\ \A e \in Drivers, x \in Slots :
           task[e][x].phase # "none"
             => e = Background /\ driver[Background].phase \in {"planned", "wave"}
      /\ split \in {"stopping", "single"} => driver[Background].phase = "over" /\ ~sent
      /\ sent => split # "waiting"
  BY <1>1 DEF AloneFits
<1>4. ASSUME NEW d \in Drivers, PlanWave(d) PROVE AloneFits'
  <2>1. driver'[d].phase = "planned" /\ driver[d].phase = "idle"
    BY <1>2, <1>4 DEF PlanWave, Round
  <2>2. d = Background
    BY <1>1, <1>2, <2>1
  <2>3. \A e \in Drivers, x \in Slots : e # d => task'[e][x] = task[e][x]
    BY <1>2, <1>4 DEF PlanWave
  <2> QED
    BY <1>2, <1>3, <1>4, <2>1, <2>2, <2>3 DEF PlanWave, AloneFits
<1>5. ASSUME NEW d \in Drivers, Launch(d) PROVE AloneFits'
  <2>1. driver[d].phase = "planned"
    BY <1>5 DEF Launch
  <2>2. d = Background
    BY <1>1, <1>2, <2>1
  <2>3. driver' = [driver EXCEPT ![d] = [@ EXCEPT !.phase = "wave"]]
    BY <1>1, <1>5 DEF Launch
  <2>4. driver'[Background].phase = "wave"
    BY <1>2, <2>2, <2>3 DEF Round
  <2>5. \A e \in Drivers, x \in Slots : e # d => task'[e][x] = task[e][x]
    BY <1>2, <1>5 DEF Launch
  <2>6. UNCHANGED <<split, sent>>
    BY <1>5 DEF Launch
  <2> QED
    BY <1>2, <1>3, <2>1, <2>2, <2>4, <2>5, <2>6 DEF AloneFits
<1>6. ASSUME NEW d \in Drivers, EndWave(d) PROVE AloneFits'
  <2>1. driver[d].phase = "wave" /\ UNCHANGED <<task, split, sent>>
    BY <1>6 DEF EndWave
  <2>2. d = Background
    BY <1>1, <1>2, <2>1
  <2>3. \A x \in Slots : task[Background][x].phase = "none"
    BY <1>6, <2>2 DEF EndWave
  <2>4. \A e \in Drivers, x \in Slots : task'[e][x].phase = "none"
    BY <1>3, <2>1, <2>3
  <2>5. split \notin {"stopping", "single"}
    BY <1>3, <2>1, <2>2
  <2> QED
    BY <1>3, <2>1, <2>4, <2>5 DEF AloneFits
<1>7. ASSUME NEW d \in Drivers, NEW s \in Slots, TaskStep(d, s) PROVE AloneFits'
  <2>1. task[d][s].phase # "none"
    BY <1>7 DEF TaskStep, Claim, LoseClaim, Dispatch, LeaveClaimed, Settle
  <2>2. d = Background /\ driver[Background].phase \in {"planned", "wave"}
    BY <1>3, <2>1
  <2>3. UNCHANGED driver
    BY <1>1, <1>7 DEF TaskStep, Claim, LoseClaim, Dispatch, LeaveClaimed, Settle
  <2>4. \A e \in Drivers, x \in Slots : e # d => task'[e][x] = task[e][x]
    BY <1>2, <1>7 DEF TaskStep, Claim, LoseClaim, Dispatch, LeaveClaimed, Settle
  <2>5. split \notin {"stopping", "single"}
    BY <1>3, <2>2
  <2>6. /\ split' = split \/ (split = "waiting" /\ split' = "answered")
        /\ sent' = sent \/ split' # "waiting"
    BY <1>7, <2>2 DEF TaskStep, Claim, LoseClaim, Dispatch, LeaveClaimed, Settle, Answers
  <2> QED
    BY <1>2, <1>3, <2>2, <2>3, <2>4, <2>5, <2>6 DEF AloneFits
<1>8. CASE GiveUp
  BY <1>3, <1>8 DEF GiveUp, AloneFits
<1>9. CASE FallBack
  BY <1>1, <1>3, <1>9 DEF FallBack, AloneFits
<1>10. CASE StopSession \/ (\E a \in Participants : DeleteAgent(a)) \/ UNCHANGED vars
  BY <1>3, <1>10 DEF StopSession, DeleteAgent, vars, session, AloneFits
<1>11. ~Crash
  BY <1>1
<1>12. ASSUME NEW d \in Drivers, DriverStep(d) PROVE AloneFits'
  BY <1>4, <1>5, <1>6, <1>12 DEF DriverStep
<1>13. CASE SplitStep
  BY <1>8, <1>9, <1>13 DEF SplitStep
<1> QED
  BY <1>7, <1>10, <1>11, <1>12, <1>13 DEF Next

LEMMA AloneInvariant == Spec => [](SessionInv /\ AloneFits)
<1>1. Init => AloneFits
  BY DEF Init, AloneFits, NoTask
<1>2. SessionInv /\ AloneFits /\ [Next]_vars => AloneFits'
  BY AloneStep DEF SessionInv
<1> QED
  BY <1>1, <1>2, SessionInvariant, PTL DEF Spec

\* When splitIntoSession gives up on a session and nothing but its own background calls has
\* touched that session, none of its steps has run, and none will: the single turn that the
\* request falls back to does no work twice.
THEOREM FallbackIsAloneHolds == Spec => []FallbackIsAlone
<1>1. AloneFits => FallbackIsAlone
  BY DEF AloneFits, FallbackIsAlone
<1> QED
  BY <1>1, AloneInvariant, PTL

-----------------------------------------------------------------------------
(* The session implements PlanExecution.                                    *)

OutcomeIn(ts, s) ==
  IF s \notin StepsWith(ts, {"claimed", "completed", "failed"}) THEN "waiting"
  ELSE IF s \in StepsWith(ts, {"claimed"}) THEN "running"
  ELSE IF s \in StepsWith(ts, {"completed"}) THEN "completed" ELSE "failed"

OutcomesOf(ts) == [s \in DOMAIN plan |-> OutcomeIn(ts, s)]

Once(ts) == \A i, j \in DOMAIN ts : ts[i].step = ts[j].step => i = j

LEMMA TurnsTyped ==
  ASSUME NEW ts \in Seq(Turn)
  PROVE  \A i \in DOMAIN ts : ts[i].status \in {"claimed", "completed", "failed"}
<1>1. \A i \in DOMAIN ts : ts[i] \in Turn
  BY ElementOfSeq, LenProperties
<1> QED
  BY <1>1 DEF Turn

\* Where no step has two turns, a step's outcome is that of its turn.
LEMMA OutcomeShape ==
  ASSUME NEW ts \in Seq(Turn), Once(ts)
  PROVE  /\ \A s : (\A i \in DOMAIN ts : ts[i].step # s) => OutcomeIn(ts, s) = "waiting"
         /\ \A i \in DOMAIN ts :
              /\ ts[i].status = "claimed" => OutcomeIn(ts, ts[i].step) = "running"
              /\ ts[i].status # "claimed" => OutcomeIn(ts, ts[i].step) = ts[i].status
<1>1. \A i \in DOMAIN ts : ts[i].status \in {"claimed", "completed", "failed"}
  BY TurnsTyped
<1>2. \A s : (\A i \in DOMAIN ts : ts[i].step # s) => OutcomeIn(ts, s) = "waiting"
  BY DEF OutcomeIn, StepsWith, With
<1>3. ASSUME NEW i \in DOMAIN ts, NEW X \in SUBSET {"claimed", "completed", "failed"}
      PROVE  ts[i].step \in StepsWith(ts, X) <=> ts[i].status \in X
  BY <1>3 DEF Once, StepsWith, With
<1>4. ASSUME NEW i \in DOMAIN ts
      PROVE  /\ ts[i].status = "claimed" => OutcomeIn(ts, ts[i].step) = "running"
             /\ ts[i].status # "claimed" => OutcomeIn(ts, ts[i].step) = ts[i].status
  <2>1. /\ ts[i].step \in StepsWith(ts, {"claimed", "completed", "failed"})
        /\ ts[i].step \in StepsWith(ts, {"claimed"}) <=> ts[i].status = "claimed"
        /\ ts[i].step \in StepsWith(ts, {"completed"}) <=> ts[i].status = "completed"
    BY <1>1, <1>3
  <2> QED
    BY <1>1, <2>1 DEF OutcomeIn
<1> QED
  BY <1>2, <1>4

\* The dependencies of a plan point backwards, so a plan in which nothing runs and nothing
\* is ready is finished, or one of its steps has failed.
LEMMA StuckMeansFailed ==
  ASSUME plan \in Plans, plan # <<>>, NEW ts \in Seq(Turn),
         With(ts, {"claimed"}) = {}, Pending(ts) = {},
         \A i \in DOMAIN ts : ts[i].step \in DOMAIN plan,
         StepsWith(ts, {"completed", "failed"}) # DOMAIN plan
  PROVE  \E i \in DOMAIN ts : ts[i].status = "failed"
<1> SUFFICES ASSUME \A i \in DOMAIN ts : ts[i].status # "failed" PROVE FALSE
  OBVIOUS
<1> DEFINE C == StepsWith(ts, {"completed"})
<1>1. \A i \in DOMAIN ts : ts[i].status = "completed"
  <2>1. \A i \in DOMAIN ts : ts[i].status \in {"claimed", "completed", "failed"}
    BY TurnsTyped
  <2> QED
    BY <2>1 DEF With
<1>2. /\ StepsWith(ts, {"completed", "failed"}) = C
      /\ StepsWith(ts, {"claimed", "completed", "failed"}) = C
      /\ C \subseteq DOMAIN plan
  BY <1>1 DEF StepsWith, With
<1> HIDE DEF C
<1>3. /\ Len(plan) \in 2 .. 5 /\ DOMAIN plan = 1 .. Len(plan)
      /\ \A s \in DOMAIN plan : plan[s] \subseteq 1 .. s - 1
  BY PlanShape DEF MaxSteps
<1>4. PICK m \in DOMAIN plan \ C : \A x \in DOMAIN plan \ C : m <= x
  <2> DEFINE U == DOMAIN plan \ C
  <2>1. U # {} /\ U \subseteq 1 .. 5
    <3>1. C # DOMAIN plan
      BY <1>2
    <3>2. \E x \in DOMAIN plan : x \notin C
      BY <1>2, <3>1
    <3>3. DOMAIN plan \subseteq 1 .. 5
      BY <1>3
    <3> QED
      BY <3>2, <3>3
  <2> HIDE DEF U
  <2>2. \E m \in U : \A x \in U : m <= x
    <3>1. CASE 1 \in U
      BY <2>1, <3>1
    <3>2. CASE 1 \notin U /\ 2 \in U
      BY <2>1, <3>2
    <3>3. CASE 1 \notin U /\ 2 \notin U /\ 3 \in U
      BY <2>1, <3>3
    <3>4. CASE 1 \notin U /\ 2 \notin U /\ 3 \notin U /\ 4 \in U
      BY <2>1, <3>4
    <3>5. CASE 1 \notin U /\ 2 \notin U /\ 3 \notin U /\ 4 \notin U
      <4>1. \A x \in U : x = 5
        BY <2>1, <3>5
      <4>2. PICK m \in U : m = 5
        BY <2>1, <4>1
      <4>3. \A x \in U : m <= x
        BY <4>1, <4>2
      <4> QED
        BY <4>3
    <3> QED
      BY <3>1, <3>2, <3>3, <3>4, <3>5
  <2> QED
    BY <2>2 DEF U
<1>5. plan[m] \subseteq C
  <2> SUFFICES ASSUME NEW x \in plan[m], x \notin C PROVE FALSE
    OBVIOUS
  <2>1. x \in 1 .. m - 1 /\ m \in 1 .. Len(plan)
    BY <1>3
  <2>2. x \in DOMAIN plan \ C /\ ~(m <= x)
    BY <1>3, <2>1
  <2> QED
    BY <1>4, <2>2
<1>6. m \in Pending(ts)
  BY <1>2, <1>5 DEF Pending, Ready, C
<1> QED
  BY <1>6

\* What the settlement of a step says of the whole plan.
LEMMA VerdictFits ==
  ASSUME SessionInv, SessionInv', plan # <<>>, status = "active",
         NEW d \in Drivers, NEW s \in Slots,
         NEW outcome \in {"completed", "failed"}, NEW met \in BOOLEAN, Settle(d, s, outcome, met)
  PROVE  \/ status' = "active"
         \/ /\ status' = "completed" /\ outcome = "completed"
            /\ met \/ \A x \in DOMAIN plan : OutcomeIn(turns', x) = "completed"
         \/ /\ status' = "failed"
            /\ \E x \in DOMAIN plan : OutcomeIn(turns', x) = "failed"
<1> DEFINE k == task[d][s].index
<1>1. /\ k \in DOMAIN turns /\ DOMAIN turns' = DOMAIN turns /\ turns'[k].status = outcome
      /\ plan' = plan /\ status' = StatusAfter(turns', met)
  BY SettleFinds DEF SessionInv
<1> HIDE DEF k
<1>2. /\ turns' \in Seq(Turn) /\ Once(turns')
      /\ \A i \in DOMAIN turns' : turns'[i].step \in DOMAIN plan
  BY <1>1 DEF SessionInv, TypesFit, StepsRunOnce, Once, RoomFits, Own
<1>3. Len(turns') < MaxTurns /\ Len(turns') \in Nat /\ DOMAIN turns' = 1 .. Len(turns')
  <2>1. Len(turns) < MaxTurns /\ Len(turns') = Len(turns)
    BY Ceiling, SettleFinds DEF SessionInv
  <2> QED
    BY <1>2, <2>1, LenProperties
<1>4. ASSUME NEW i \in DOMAIN turns', turns'[i].status = "failed"
      PROVE  \E x \in DOMAIN plan : OutcomeIn(turns', x) = "failed"
  <2>1. OutcomeIn(turns', turns'[i].step) = "failed"
    BY <1>2, <1>4, OutcomeShape
  <2> QED
    BY <1>2, <2>1
<1>5. met => outcome = "completed"
  BY DEF Settle, SessionInv, RoomFits
<1>6. MaxTurns \in Nat
  <2>1. Len(plan) \in 2 .. MaxSteps
    BY PlanShape DEF SessionInv, TypesFit
  <2> QED
    BY <2>1 DEF MaxTurns, MaxSteps
<1>7. CASE TwoFailures(turns')
  <2>1. status' = "failed"
    BY <1>1, <1>3, <1>6, <1>7 DEF StatusAfter, Verdict
  <2>2. Len(turns') \in DOMAIN turns' /\ turns'[Len(turns')].status = "failed"
    BY <1>3, <1>7 DEF TwoFailures
  <2> QED
    BY <1>4, <2>1, <2>2
<1>8. CASE ~TwoFailures(turns') /\ met
  BY <1>1, <1>3, <1>5, <1>6, <1>8 DEF StatusAfter, Verdict
<1>9. CASE ~TwoFailures(turns') /\ ~met
  <2>1. status' = PlanVerdict(turns')
    BY <1>1, <1>3, <1>6, <1>9 DEF StatusAfter, Verdict
  <2>2. CASE StepsWith(turns', {"completed", "failed"}) = DOMAIN plan /\ With(turns', {"failed"}) = {}
    <3>1. status' = "completed"
      BY <2>1, <2>2 DEF PlanVerdict
    <3>2. \A i \in DOMAIN turns' : turns'[i].status # "failed"
      BY <2>2 DEF With
    <3>3. ASSUME NEW x \in DOMAIN plan PROVE OutcomeIn(turns', x) = "completed"
      <4>1. PICK i \in DOMAIN turns' : turns'[i].step = x /\ turns'[i].status \in {"completed", "failed"}
        BY <2>2, <3>3 DEF StepsWith, With
      <4> QED
        BY <1>2, <3>2, <4>1, OutcomeShape
    <3>4. outcome = "completed"
      BY <1>1, <3>2
    <3> QED
      BY <3>1, <3>3, <3>4
  <2>3. CASE StepsWith(turns', {"completed", "failed"}) = DOMAIN plan /\ With(turns', {"failed"}) # {}
    <3>1. status' = "failed"
      BY <2>1, <2>3 DEF PlanVerdict
    <3>2. PICK i \in DOMAIN turns' : turns'[i].status = "failed"
      BY <2>3 DEF With
    <3> QED
      BY <1>4, <3>1, <3>2
  <2>4. CASE /\ StepsWith(turns', {"completed", "failed"}) # DOMAIN plan
             /\ With(turns', {"claimed"}) = {} /\ Pending(turns') = {}
    <3>1. status' = "failed"
      BY <2>1, <2>4 DEF PlanVerdict
    <3>2. PICK i \in DOMAIN turns' : turns'[i].status = "failed"
      BY <1>2, <2>4, StuckMeansFailed DEF SessionInv, TypesFit
    <3> QED
      BY <1>4, <3>1, <3>2
  <2>5. CASE /\ StepsWith(turns', {"completed", "failed"}) # DOMAIN plan
             /\ ~(With(turns', {"claimed"}) = {} /\ Pending(turns') = {})
    BY <2>1, <2>5 DEF PlanVerdict
  <2> QED
    BY <2>2, <2>3, <2>4, <2>5
<1> QED
  BY <1>7, <1>8, <1>9

\* A step whose turns a change leaves alone keeps its outcome.
LEMMA OutcomeKept ==
  ASSUME NEW ts \in Seq(Turn), NEW us \in Seq(Turn), Once(ts), Once(us), NEW x,
         \A i \in DOMAIN ts : i \in DOMAIN us /\ us[i].step = ts[i].step
                             /\ (ts[i].step = x => us[i].status = ts[i].status),
         \A i \in DOMAIN us : us[i].step = x => i \in DOMAIN ts
  PROVE  OutcomeIn(us, x) = OutcomeIn(ts, x)
<1>1. CASE \E i \in DOMAIN ts : ts[i].step = x
  BY <1>1, OutcomeShape
<1>2. CASE ~\E i \in DOMAIN ts : ts[i].step = x
  BY <1>2, OutcomeShape
<1> QED
  BY <1>1, <1>2

-----------------------------------------------------------------------------
LEMMA AbstractStep ==
  SessionInv /\ SessionInv' /\ [Next]_vars
    => [Abstract!Next]_<<plan, OutcomesOf(turns), done, status>>
<1> SUFFICES ASSUME SessionInv, SessionInv', [Next]_vars
             PROVE  [Abstract!Next]_<<plan, OutcomesOf(turns), done, status>>
  OBVIOUS
<1> USE DEF OutcomesOf
<1>1. CASE Quiet
  <2>1. OutcomesOf(turns)' = OutcomesOf(turns) /\ plan' = plan /\ done' = done
    BY <1>1 DEF Quiet, OutcomeIn, StepsWith, With
  <2>2. CASE status' = status
    BY <2>1, <2>2
  <2>3. CASE status' = "stopped"
    BY <2>1, <2>3 DEF Abstract!Next, Abstract!Stop, OutcomeIn
  <2> QED
    BY <1>1, <2>2, <2>3 DEF Quiet
<1>2. ASSUME NEW d \in Drivers, NEW s \in Slots, Claim(d, s), plan = <<>>
      PROVE  UNCHANGED <<plan, OutcomesOf(turns), done, status>>
  BY <1>2 DEF Claim
<1>3. ASSUME NEW d \in Drivers, NEW s \in Slots, NEW outcome \in {"completed", "failed"},
             NEW met \in BOOLEAN, Settle(d, s, outcome, met), plan = <<>>
      PROVE  Abstract!WithoutPlan
  <2>1. /\ plan' = plan /\ done' \in BOOLEAN /\ status' = StatusAfter(turns', met)
        /\ status' \in {"active", "completed", "failed", "stopped"}
    BY <1>3 DEF Settle, SessionInv, TypesFit
  <2>2. status = "active" \/ status' = status
    BY <2>1 DEF StatusAfter
  <2> QED
    BY <1>3, <2>1, <2>2 DEF Abstract!WithoutPlan
<1>4. Once(turns) \/ plan = <<>>
  BY DEF SessionInv, StepsRunOnce, Once
<1>5. turns \in Seq(Turn) /\ turns' \in Seq(Turn) /\ plan' = plan
  BY SessionStep DEF SessionInv, TypesFit, Quiet, Claim, Settle
<1>6. Once(turns') \/ plan = <<>>
  BY <1>5 DEF SessionInv, StepsRunOnce, Once
<1>7. ASSUME NEW d \in Drivers, NEW s \in Slots, Claim(d, s), plan # <<>>
      PROVE  s \in DOMAIN plan /\ Abstract!Start(s)
  <2> DEFINE n == Len(turns)
  <2>1. /\ n \in Nat /\ DOMAIN turns = 1 .. n /\ DOMAIN turns' = 1 .. n + 1
        /\ \A i \in 1 .. n : turns'[i] = turns[i]
        /\ turns'[n + 1].step = s /\ turns'[n + 1].status = "claimed"
        /\ s \in DOMAIN plan /\ s # 0 /\ status = "active" /\ status' = status /\ done' = done
        /\ Claimable(s, task[d][s].agent)
    BY <1>7, ClaimFinds DEF SessionInv
  <2> HIDE DEF n
  <2>2. OutcomeIn(turns, s) = "waiting"
    BY <1>4, <1>5, <1>7, <2>1, OutcomeShape DEF Claimable
  <2>3. OutcomeIn(turns', s) = "running"
    <3>1. n + 1 \in DOMAIN turns'
      BY <2>1
    <3> QED
      BY <1>5, <1>6, <1>7, <2>1, <3>1, OutcomeShape
  <2>4. ASSUME NEW x \in plan[s] PROVE x \in DOMAIN plan /\ OutcomeIn(turns, x) = "completed"
    <3>1. x \in StepsWith(turns, {"completed"})
      BY <1>7, <2>4 DEF Claim, SessionInv, TasksFit
    <3>2. PICK i \in DOMAIN turns : turns[i].step = x /\ turns[i].status = "completed"
      BY <3>1 DEF StepsWith, With
    <3> QED
      BY <1>4, <1>5, <1>7, <3>2, OutcomeShape DEF SessionInv, RoomFits, Own
  <2>5. ASSUME NEW x \in DOMAIN plan, x # s PROVE OutcomeIn(turns', x) = OutcomeIn(turns, x)
    <3>1. /\ \A i \in DOMAIN turns : i \in DOMAIN turns' /\ turns'[i] = turns[i]
          /\ \A i \in DOMAIN turns' : turns'[i].step = x => i \in DOMAIN turns
      BY <2>1, <2>5
    <3> QED
      BY <1>4, <1>5, <1>6, <1>7, <3>1, OutcomeKept
  <2>6. OutcomesOf(turns') = [OutcomesOf(turns) EXCEPT ![s] = "running"]
    BY <2>1, <2>3, <2>5
  <2> QED
    BY <1>5, <2>1, <2>2, <2>4, <2>6 DEF Abstract!Start, OutcomeIn
<1>8. ASSUME NEW d \in Drivers, NEW s \in Slots, NEW outcome \in {"completed", "failed"},
             NEW met \in BOOLEAN, Settle(d, s, outcome, met), plan # <<>>
      PROVE  s \in DOMAIN plan /\ Abstract!Finish(s, outcome)
  <2> DEFINE k == task[d][s].index
  <2>1. /\ k \in DOMAIN turns /\ turns[k].step = s /\ turns[k].status = "claimed"
        /\ DOMAIN turns' = DOMAIN turns
        /\ \A j \in DOMAIN turns :
             /\ turns'[j].step = turns[j].step
             /\ turns'[j].status = IF j = k THEN outcome ELSE turns[j].status
        /\ done' = met /\ status' = StatusAfter(turns', met)
    BY <1>8, SettleFinds DEF SessionInv
  <2> HIDE DEF k
  <2>2. s \in DOMAIN plan
    BY <1>8, <2>1 DEF SessionInv, RoomFits, Own
  <2>3. OutcomeIn(turns, s) = "running" /\ OutcomeIn(turns', s) = outcome
    BY <1>4, <1>5, <1>6, <1>8, <2>1, OutcomeShape
  <2>4. ASSUME NEW x \in DOMAIN plan, x # s PROVE OutcomeIn(turns', x) = OutcomeIn(turns, x)
    <3>1. \A i \in DOMAIN turns : /\ turns'[i].step = turns[i].step
                                  /\ turns[i].step = x => turns'[i].status = turns[i].status
      BY <2>1, <2>4
    <3> QED
      BY <1>4, <1>5, <1>6, <1>8, <2>1, <3>1, OutcomeKept
  <2>5. OutcomesOf(turns') = [OutcomesOf(turns) EXCEPT ![s] = outcome]
    BY <2>2, <2>3, <2>4
  <2>6. done' \in BOOLEAN /\ (outcome = "failed" => done' = done)
    BY <1>8, <2>1 DEF Settle
  <2>7. \/ status' = status
        \/ /\ status = "active" /\ outcome = "completed" /\ status' = "completed"
           /\ done' \/ \A x \in DOMAIN plan : OutcomesOf(turns')[x] = "completed"
        \/ /\ status = "active" /\ status' = "failed"
           /\ \E x \in DOMAIN plan : OutcomesOf(turns')[x] = "failed"
    <3>1. CASE status # "active"
      BY <2>1, <3>1 DEF StatusAfter
    <3>2. CASE status = "active"
      BY <1>8, <2>1, <3>2, VerdictFits
    <3> QED
      BY <3>1, <3>2
  <2> QED
    BY <1>5, <2>2, <2>3, <2>5, <2>6, <2>7 DEF Abstract!Finish, OutcomeIn
<1> QED
  BY <1>1, <1>2, <1>3, <1>7, <1>8, SessionStep DEF Abstract!Next, OutcomeIn

LEMMA AbstractInit == Init => Abstract!Init
<1> SUFFICES ASSUME Init PROVE Abstract!Init
  OBVIOUS
<1>1. turns = <<>> /\ DOMAIN turns = {} /\ plan \in Plans /\ status = "active"
  BY DEF Init
<1>2. done \in BOOLEAN
  BY Zenon DEF Init
<1>3. \A s : OutcomeIn(turns, s) = "waiting"
  BY <1>1 DEF OutcomeIn, StepsWith, With
<1> QED
  BY <1>1, <1>2, <1>3 DEF Abstract!Init, OutcomeIn

\* The session implements PlanExecution, for every reply of the planning model and however
\* many calls advance it: a step starts after the steps it depends on, in a session that is
\* active; a verdict speaks of the whole plan and stands until an operator's stop.
THEOREM Refinement == Spec => ImplementsPlan
<1>1. SessionInv /\ SessionInv' /\ [Next]_vars
        => [Abstract!Next]_<<plan,
             [s \in DOMAIN plan |->
                IF s \notin StepsWith(turns, {"claimed", "completed", "failed"}) THEN "waiting"
                ELSE IF s \in StepsWith(turns, {"claimed"}) THEN "running"
                ELSE IF s \in StepsWith(turns, {"completed"}) THEN "completed" ELSE "failed"],
             done, status>>
  BY AbstractStep DEF OutcomesOf, OutcomeIn
<1> QED
  BY <1>1, AbstractInit, SessionInvariant, PTL DEF Spec, ImplementsPlan, Abstract!Spec

-----------------------------------------------------------------------------
(* The loop of runSessionToCompletion: what PlansFinish needs of every state. *)

\* A session that is active with nothing in flight was judged to have work left.
VerdictCurrent ==
  plan # <<>> /\ status = "active" /\ With(turns, {"claimed"}) = {}
    => Verdict(turns, done) = "active"

Intends(s) == task[Background][s].phase \in {"planned", "claiming"}
InWave == driver[Background].phase \in {"planned", "wave"}

\* There have been no more rounds than turns, every turn in flight belongs to the loop ...
RoundsFit ==
  /\ driver[Background].phase = "idle" => driver[Background].rounds <= Len(turns)
  /\ InWave => /\ driver[Background].rounds <= driver[Background].before
               /\ driver[Background].before <= Len(turns)

ClaimsHeld ==
  \A i \in With(turns, {"claimed"}) :
    \E s \in Slots : Holds(Background, s) /\ task[Background][s].index = i

\* ... and a wave that has added no turn yet still means to claim one, which claimTurn will
\* not refuse.
WaveWorks ==
  InWave /\ Len(turns) = driver[Background].before => \E s \in Slots : Intends(s)

IntentsFit ==
  \A s \in Slots : Intends(s) =>
    /\ \A i \in DOMAIN turns : turns[i].step # s
    /\ \A i \in With(turns, {"claimed"}) : turns[i].agent # task[Background][s].agent
    /\ \A x \in Slots :
         Intends(x) /\ task[Background][x].agent = task[Background][s].agent => x = s

LoopFits ==
  Undisturbed /\ plan # <<>> =>
    /\ RoundsFit /\ ClaimsHeld
    /\ status = "active" => driver[Background].phase # "over" /\ WaveWorks /\ IntentsFit

\* The loop leaves no session behind that is still active, and each of its waves adds a turn.
NeverAbandoned ==
  Undisturbed /\ plan # <<>> /\ status = "active" => driver[Background].phase # "over"

WavesAddTurns ==
  EndWave(Background) /\ Undisturbed /\ plan # <<>> /\ status = "active"
    => Len(turns) > driver[Background].before

LEMMA VerdictStep == SessionInv /\ VerdictCurrent /\ [Next]_vars => VerdictCurrent'
<1> SUFFICES ASSUME SessionInv, VerdictCurrent, [Next]_vars, plan' # <<>>, status' = "active",
                    With(turns, {"claimed"})' = {}
             PROVE  Verdict(turns, done)' = "active"
  BY DEF VerdictCurrent
<1>1. plan' = plan
  BY SessionStep DEF Quiet, Claim, Settle
<1>2. Verdict(turns, done)' = Verdict(turns', done')
  BY <1>1 DEF Verdict, MaxTurns, TwoFailures, PlanVerdict, Pending, Ready, StepsWith, With
<1>3. CASE Quiet
  <2>1. turns' = turns /\ done' = done /\ status = "active"
    BY <1>3 DEF Quiet
  <2>2. With(turns, {"claimed"}) = {}
    BY <2>1 DEF With
  <2> QED
    BY <1>1, <1>2, <2>1, <2>2 DEF VerdictCurrent
<1>4. ASSUME NEW d \in Drivers, NEW s \in Slots, Claim(d, s) PROVE FALSE
  <2>1. /\ Len(turns) \in Nat /\ DOMAIN turns' = 1 .. Len(turns) + 1
        /\ turns'[Len(turns) + 1].status = "claimed"
    BY <1>4, ClaimFinds DEF SessionInv
  <2> QED
    BY <2>1 DEF With
<1>5. ASSUME NEW d \in Drivers, NEW s \in Slots, NEW outcome \in {"completed", "failed"},
             NEW met \in BOOLEAN, Settle(d, s, outcome, met)
      PROVE  Verdict(turns', done') = "active"
  BY <1>5 DEF Settle, StatusAfter
<1> QED
  BY <1>2, <1>3, <1>4, <1>5, SessionStep

\* What planWave hands out while nothing is in flight: at least one step, each of them never
\* taken before and to an Agent of its own.
LEMMA WaveFits ==
  ASSUME SessionInv, plan # <<>>, status = "active", gone = {},
         With(turns, {"claimed"}) = {}, Verdict(turns, done) = "active", NEW wave \in Waves
  PROVE  /\ \E s \in DOMAIN wave : s \in Slots
         /\ \A s \in DOMAIN wave : \A i \in DOMAIN turns : turns[i].step # s
         /\ \A s, x \in DOMAIN wave : wave[s] = wave[x] => s = x
<1>1. PICK w \in SUBSET Pending(turns) : wave \in [w -> Choices] /\ IsWave(DOMAIN wave, wave)
  BY DEF Waves
<1>2. Busy = {}
  BY DEF Busy
<1>3. Fallback \in Choices
  BY AgentsAssumption DEF Choices, Available
<1>4. PlanVerdict(turns) = "active"
  BY DEF Verdict
<1>5. Pending(turns) # {}
  BY <1>4 DEF PlanVerdict
<1>6. ASSUME NEW s \in Pending(turns)
      PROVE  s \in Slots /\ \A i \in DOMAIN turns : turns[i].step # s
  <2>1. \A i \in DOMAIN turns : turns[i].status \in {"claimed", "completed", "failed"}
    BY TurnsTyped DEF SessionInv, TypesFit
  <2>2. s \in DOMAIN plan /\ s \notin StepsWith(turns, {"claimed", "completed", "failed"})
    BY <1>6 DEF Pending, Ready
  <2> QED
    BY <2>1, <2>2, SlotsShape DEF StepsWith, With, SessionInv, TypesFit
<1>7. DOMAIN wave # {}
  <2> SUFFICES ASSUME DOMAIN wave = {} PROVE FALSE
    OBVIOUS
  <2>1. PICK s \in Pending(turns) : TRUE
    BY <1>5
  <2>2. \/ Choices = {}
        \/ (Busy \cup {wave[x] : x \in {y \in DOMAIN wave : y < s}}) \cap Choices # {}
    BY <1>1, <2>1 DEF IsWave
  <2>3. Busy \cup {wave[x] : x \in {y \in DOMAIN wave : y < s}} = {}
    BY <1>2
  <2> QED
    BY <1>3, <2>2, <2>3
<1> QED
  BY <1>1, <1>6, <1>7 DEF IsWave

LEMMA LoopStep ==
  SessionInv /\ AloneFits /\ VerdictCurrent /\ LoopFits /\ [Next]_vars => LoopFits'
<1> SUFFICES ASSUME SessionInv, AloneFits, VerdictCurrent, LoopFits, [Next]_vars,
                    Undisturbed', plan' # <<>>
             PROVE  LoopFits'
  BY DEF LoopFits
<1> DEFINE B == Background
<1>1. /\ Undisturbed /\ gone' = {} /\ gone = {} /\ ~Crash /\ ~Reject
      /\ \A c \in Callers : driver'[c].phase = "idle" /\ driver[c].phase = "idle"
  BY UndisturbedBefore DEF Undisturbed, SessionInv
<1>2. /\ driver \in [Drivers -> Round] /\ task \in [Drivers -> [Slots -> Work]]
      /\ B \in Drivers /\ Drivers = Callers \cup {B}
      /\ \A s \in Slots : task[B][s] \in Work
  BY DEF SessionInv, TypesFit, Drivers
<1>3. \A d \in Drivers, s \in Slots : task[d][s].phase # "none" => d = B /\ InWave
  BY <1>1 DEF AloneFits, InWave
<1>4. plan' = plan /\ (status' = "active" => status = "active")
  BY SessionStep DEF Quiet, Claim, Settle, StatusAfter
<1>5. /\ RoundsFit /\ ClaimsHeld
      /\ status = "active" => driver[B].phase # "over" /\ WaveWorks /\ IntentsFit
  BY <1>1, <1>4 DEF LoopFits
<1>6. Len(turns) \in Nat /\ DOMAIN turns = 1 .. Len(turns) /\ Len(turns) < MaxTurns
  BY <1>4, Ceiling
<1>7. driver[B] \in Round
  BY <1>2
<1>8. CASE UNCHANGED <<turns, task, driver>>
  <2>1. RoundsFit' /\ ClaimsHeld'
    BY <1>5, <1>8 DEF RoundsFit, InWave, ClaimsHeld, Holds, With
  <2>2. status' = "active" => driver'[B].phase # "over" /\ WaveWorks' /\ IntentsFit'
    BY <1>4, <1>5, <1>8 DEF WaveWorks, InWave, IntentsFit, Intends, With
  <2> QED
    BY <2>1, <2>2 DEF LoopFits
\* The next wave: nothing is in flight, so the session was judged to have a step to run.
<1>9. ASSUME PlanWave(B) PROVE LoopFits'
  <2>1. PICK wave \in Waves :
          task' = [task EXCEPT ![B] =
                     [s \in Slots |-> IF s \in DOMAIN wave
                                      THEN [phase |-> "planned", agent |-> wave[s], index |-> 0]
                                      ELSE NoTask]]
    BY <1>9 DEF PlanWave
  <2>2. /\ driver[B].phase = "idle" /\ turns' = turns /\ status' = status
        /\ driver' = [driver EXCEPT ![B].phase = "planned", ![B].before = Len(turns)]
    BY <1>9 DEF PlanWave, session
  <2>3. /\ driver'[B].phase = "planned" /\ driver'[B].before = Len(turns)
        /\ driver'[B].rounds = driver[B].rounds
    BY <1>2, <1>7, <2>2 DEF Round
  <2>4. With(turns, {"claimed"}) = {} /\ With(turns', {"claimed"}) = {}
    BY <1>2, <1>3, <1>5, <2>2 DEF ClaimsHeld, Holds, InWave
  <2>5. RoundsFit' /\ ClaimsHeld'
    BY <1>5, <1>6, <2>2, <2>3, <2>4 DEF RoundsFit, InWave, ClaimsHeld, With
  <2>6. \A s \in Slots :
          task'[B][s] = IF s \in DOMAIN wave
                        THEN [phase |-> "planned", agent |-> wave[s], index |-> 0] ELSE NoTask
    BY <1>2, <2>1
  <2>7. \A s \in Slots : /\ Intends(s)' <=> s \in DOMAIN wave
                         /\ s \in DOMAIN wave => task'[B][s].agent = wave[s]
    <3> TAKE s \in Slots
    <3>1. CASE s \in DOMAIN wave
      <4>1. task'[B][s] = [phase |-> "planned", agent |-> wave[s], index |-> 0]
        BY <2>6, <3>1
      <4> QED
        BY <3>1, <4>1 DEF Intends
    <3>2. CASE s \notin DOMAIN wave
      <4>1. task'[B][s] = NoTask
        BY <2>6, <3>2
      <4> QED
        BY <3>2, <4>1 DEF Intends, NoTask
    <3> QED
      BY <3>1, <3>2
  <2>8. ASSUME status' = "active" PROVE WaveWorks' /\ IntentsFit'
    <3>1. Verdict(turns, done) = "active"
      BY <1>4, <2>4, <2>8 DEF VerdictCurrent
    <3>2. /\ \E s \in DOMAIN wave : s \in Slots
          /\ \A s \in DOMAIN wave : \A i \in DOMAIN turns : turns[i].step # s
          /\ \A s, x \in DOMAIN wave : wave[s] = wave[x] => s = x
      BY <1>1, <1>4, <2>4, <2>8, <3>1, WaveFits
    <3>3. WaveWorks'
      BY <2>7, <3>2 DEF WaveWorks
    <3>4. IntentsFit'
      BY <2>2, <2>4, <2>7, <3>2 DEF IntentsFit, With
    <3> QED
      BY <3>3, <3>4
  <2> QED
    BY <2>3, <2>5, <2>8 DEF LoopFits
<1>10. ASSUME Launch(B) PROVE LoopFits'
  <2> DEFINE planned == {s \in Slots : task[B][s].phase = "planned"}
  <2>1. /\ turns' = turns /\ status' = status /\ driver[B].phase = "planned"
        /\ driver' = [driver EXCEPT ![B] = [@ EXCEPT !.phase = "wave"]]
        /\ task' = [task EXCEPT ![B] =
                      [s \in Slots |-> IF s \in planned
                                       THEN [task[B][s] EXCEPT !.phase = "claiming"]
                                       ELSE task[B][s]]]
    BY <1>1, <1>10 DEF Launch, session
  <2>2. /\ driver'[B].phase = "wave" /\ driver'[B].before = driver[B].before
        /\ driver'[B].rounds = driver[B].rounds
    BY <1>2, <1>7, <2>1 DEF Round
  <2>3. \A s \in Slots : task'[B][s] = IF s \in planned
                                       THEN [task[B][s] EXCEPT !.phase = "claiming"]
                                       ELSE task[B][s]
    BY <1>2, <2>1
  <2>4. \A s \in Slots : /\ Intends(s)' <=> Intends(s)
                         /\ Holds(B, s)' <=> Holds(B, s)
                         /\ task'[B][s].agent = task[B][s].agent
                         /\ task'[B][s].index = task[B][s].index
    BY <1>2, <2>3 DEF Intends, Holds, Work
  <2>5. RoundsFit' /\ ClaimsHeld'
    BY <1>5, <2>1, <2>2, <2>4 DEF RoundsFit, InWave, ClaimsHeld, With
  <2>6. status' = "active" => WaveWorks' /\ IntentsFit'
    BY <1>5, <2>1, <2>2, <2>4 DEF WaveWorks, InWave, IntentsFit, With
  <2> QED
    BY <2>2, <2>5, <2>6 DEF LoopFits
\* A wave is over once it has nothing to claim and nothing in flight, so it has added a turn;
\* and there is room for the next, because the turns of a plan stay below its ceiling.
<1>11. ASSUME EndWave(B) PROVE LoopFits'
  <2>1. /\ driver[B].phase = "wave" /\ UNCHANGED <<turns, task, status>>
        /\ \A s \in Slots : task[B][s].phase = "none"
    BY <1>11 DEF EndWave, session
  <2>2. ClaimsHeld' /\ IntentsFit'
    BY <1>5, <2>1 DEF ClaimsHeld, Holds, IntentsFit, Intends, With
  <2>3. CASE status = "active"
    <3>1. Len(turns) # driver[B].before
      BY <1>5, <2>1, <2>3 DEF WaveWorks, InWave, Intends
    <3>2. driver[B].rounds + 1 <= Len(turns) /\ driver[B].rounds < MaxTurns
      <4>1. driver[B].rounds \in Nat /\ driver[B].before \in Nat
        BY <1>7 DEF Round
      <4>2. driver[B].rounds <= driver[B].before /\ driver[B].before <= Len(turns)
        BY <1>5, <2>1 DEF RoundsFit, InWave
      <4>3. MaxTurns \in Nat
        <5>1. Len(plan) \in 2 .. MaxSteps
          BY <1>4, PlanShape DEF SessionInv, TypesFit
        <5> QED
          BY <1>4, <5>1 DEF MaxTurns, MaxSteps
      <4> QED
        BY <1>6, <3>1, <4>1, <4>2, <4>3
    <3>3. driver' = [driver EXCEPT ![B] = [phase |-> "idle", rounds |-> driver[B].rounds + 1,
                                           before |-> 0]]
      BY <1>11, <2>3, <3>1, <3>2 DEF EndWave
    <3>4. driver'[B] = [phase |-> "idle", rounds |-> driver[B].rounds + 1, before |-> 0]
      BY <1>2, <3>3
    <3>5. RoundsFit' /\ WaveWorks'
      BY <2>1, <3>2, <3>4 DEF RoundsFit, WaveWorks, InWave
    <3> QED
      BY <2>2, <3>4, <3>5 DEF LoopFits
  <2>4. CASE status # "active"
    <3>1. driver' = [driver EXCEPT ![B] = Over]
      BY <1>11, <2>4 DEF EndWave
    <3>2. driver'[B].phase = "over"
      BY <1>2, <3>1 DEF Over
    <3> QED
      BY <2>1, <2>2, <2>4, <3>2 DEF LoopFits, RoundsFit, InWave
  <2> QED
    BY <2>3, <2>4
<1>12. ASSUME NEW s \in Slots, Claim(B, s) PROVE LoopFits'
  <2> DEFINE n == Len(turns)
  <2>1. /\ n \in Nat /\ DOMAIN turns = 1 .. n /\ DOMAIN turns' = 1 .. n + 1
        /\ Len(turns') = n + 1
        /\ \A i \in 1 .. n : turns'[i] = turns[i]
        /\ turns'[n + 1].step = s /\ turns'[n + 1].status = "claimed"
        /\ turns'[n + 1].agent = task[B][s].agent
        /\ status = "active"
    BY <1>2, <1>12, ClaimFinds DEF SessionInv
  <2>2. /\ task[B][s].phase = "claiming" /\ driver' = driver
        /\ task' = [task EXCEPT ![B] = [task[B] EXCEPT ![s] =
                      [task[B][s] EXCEPT !.phase = "claimed", !.index = n + 1]]]
    BY <1>2, <1>12 DEF Claim
  <2>3. task'[B][s].phase = "claimed" /\ task'[B][s].index = n + 1
    BY <1>2, <2>2 DEF Work
  <2>4. \A x \in Slots : x # s => task'[B][x] = task[B][x]
    BY <1>2, <2>2
  <2>5. InWave /\ Intends(s)
    BY <1>2, <1>3, <2>2 DEF Intends
  <2> HIDE DEF n
  <2>6. RoundsFit'
    <3>1. driver[B].rounds \in Nat /\ driver[B].before \in Nat
      BY <1>7 DEF Round
    <3>2. driver[B].rounds <= driver[B].before /\ driver[B].before <= n
      BY <1>5, <2>5 DEF RoundsFit, n
    <3> QED
      BY <2>1, <2>2, <2>5, <3>1, <3>2 DEF RoundsFit, InWave
  <2>7. ClaimsHeld'
    <3>1. ASSUME NEW i \in With(turns, {"claimed"})'
          PROVE  \E x \in Slots : Holds(B, x)' /\ task'[B][x].index = i
      <4>1. CASE i = n + 1
        BY <2>3, <4>1 DEF Holds
      <4>2. CASE i \in 1 .. n
        <5>1. PICK x \in Slots : Holds(B, x) /\ task[B][x].index = i
          BY <1>5, <2>1, <3>1, <4>2 DEF ClaimsHeld, With
        <5>2. x # s
          BY <2>2, <5>1 DEF Holds
        <5> QED
          BY <2>4, <5>1, <5>2 DEF Holds
      <4> QED
        BY <2>1, <3>1, <4>1, <4>2 DEF With
    <3> QED
      BY <3>1 DEF ClaimsHeld
  <2>8. WaveWorks'
    <3>1. Len(turns') # driver[B].before
      BY <1>5, <1>7, <2>1, <2>5 DEF RoundsFit, Round, n
    <3> QED
      BY <2>2, <3>1 DEF WaveWorks
  <2>9. IntentsFit'
    <3>1. ASSUME NEW x \in Slots, Intends(x)'
          PROVE  x # s /\ Intends(x) /\ task'[B][x] = task[B][x]
      BY <2>3, <2>4, <3>1 DEF Intends
    <3>2. IntentsFit
      BY <1>5, <2>1
    <3>3. ASSUME NEW x \in Slots, Intends(x)'
          PROVE  /\ \A i \in DOMAIN turns' : turns'[i].step # x
                 /\ \A i \in With(turns, {"claimed"})' : turns'[i].agent # task'[B][x].agent
      BY <2>1, <2>5, <3>1, <3>2, <3>3 DEF IntentsFit, With
    <3>4. ASSUME NEW x \in Slots, NEW y \in Slots, Intends(x)', Intends(y)',
                 task'[B][y].agent = task'[B][x].agent
          PROVE  y = x
      BY <3>1, <3>2, <3>4 DEF IntentsFit
    <3> QED
      BY <3>3, <3>4 DEF IntentsFit
  <2> QED
    BY <2>2, <2>5, <2>6, <2>7, <2>8, <2>9 DEF LoopFits, InWave
\* Nothing is in the way of what the wave still means to claim.
<1>13. ASSUME NEW s \in Slots, LoseClaim(B, s) PROVE LoopFits'
  <2>1. /\ task[B][s].phase = "claiming" /\ UNCHANGED <<turns, status, driver>>
        /\ status # "active" \/ ~Claimable(s, task[B][s].agent)
        /\ task' = [task EXCEPT ![B] = [task[B] EXCEPT ![s] = NoTask]]
    BY <1>1, <1>2, <1>13 DEF LoseClaim, session
  <2>2. status # "active"
    <3>1. Intends(s)
      BY <2>1 DEF Intends
    <3>2. s # 0
      BY <1>2, <1>4, <2>1, SlotsShape DEF SessionInv, TypesFit, TasksFit, Own
    <3>3. IntentsFit => Claimable(s, task[B][s].agent)
      BY <3>1, <3>2 DEF IntentsFit, Claimable
    <3> QED
      BY <1>5, <2>1, <3>3
  <2>3. \A x \in Slots : x # s => task'[B][x] = task[B][x]
    BY <1>2, <2>1
  <2>4. RoundsFit'
    BY <1>5, <2>1 DEF RoundsFit, InWave
  <2>5. ClaimsHeld'
    <3>1. \A x \in Slots : Holds(B, x) => x # s
      BY <2>1 DEF Holds
    <3> QED
      BY <1>5, <2>1, <2>3, <3>1 DEF ClaimsHeld, Holds, With
  <2> QED
    BY <2>1, <2>2, <2>4, <2>5 DEF LoopFits
<1>14. ASSUME NEW s \in Slots, Dispatch(B, s) PROVE LoopFits'
  <2>1. /\ task[B][s].phase = "claimed" /\ UNCHANGED <<turns, status, driver>>
        /\ task' = [task EXCEPT ![B] = [task[B] EXCEPT ![s] =
                                          [task[B][s] EXCEPT !.phase = "running"]]]
    BY <1>2, <1>14 DEF Dispatch, session
  <2>2. \A x \in Slots : x # s => task'[B][x] = task[B][x]
    BY <1>2, <2>1
  <2>3. task'[B][s].phase = "running" /\ task'[B][s].index = task[B][s].index
    BY <1>2, <2>1 DEF Work
  <2>4. \A x \in Slots : /\ Holds(B, x)' <=> Holds(B, x)
                         /\ task'[B][x].index = task[B][x].index
                         /\ Intends(x)' <=> Intends(x)
                         /\ Intends(x) => task'[B][x].agent = task[B][x].agent
    BY <2>1, <2>2, <2>3 DEF Holds, Intends
  <2>5. RoundsFit' /\ ClaimsHeld'
    BY <1>5, <2>1, <2>4 DEF RoundsFit, InWave, ClaimsHeld, With
  <2>6. status' = "active" => WaveWorks' /\ IntentsFit'
    BY <1>5, <2>1, <2>4 DEF WaveWorks, InWave, IntentsFit, With
  <2> QED
    BY <1>5, <2>1, <2>5, <2>6 DEF LoopFits
<1>15. ASSUME NEW s \in Slots, NEW outcome \in {"completed", "failed"},
              NEW met \in BOOLEAN, Settle(B, s, outcome, met)
       PROVE  LoopFits'
  <2> DEFINE k == task[B][s].index
  <2>1. /\ k \in DOMAIN turns /\ DOMAIN turns' = DOMAIN turns /\ Len(turns') = Len(turns)
        /\ \A j \in DOMAIN turns :
             /\ turns'[j].step = turns[j].step /\ turns'[j].agent = turns[j].agent
             /\ turns'[j].status = IF j = k THEN outcome ELSE turns[j].status
    BY <1>2, <1>15, SettleFinds DEF SessionInv
  <2>2. /\ Holds(B, s) /\ driver' = driver
        /\ task' = [task EXCEPT ![B] = [task[B] EXCEPT ![s] = NoTask]]
    BY <1>2, <1>15 DEF Settle, Holds
  <2>3. \A x \in Slots : x # s => task'[B][x] = task[B][x]
    BY <1>2, <2>2
  <2>4. task'[B][s].phase = "none" /\ ~Intends(s) /\ ~Intends(s)'
    BY <1>2, <2>2 DEF NoTask, Intends, Holds
  <2>5. With(turns, {"claimed"})' = With(turns, {"claimed"}) \ {k}
    BY <2>1 DEF With
  <2> HIDE DEF k
  <2>6. RoundsFit'
    BY <1>5, <2>1, <2>2 DEF RoundsFit, InWave
  <2>7. ClaimsHeld'
    <3>1. ASSUME NEW i \in With(turns, {"claimed"})'
          PROVE  \E x \in Slots : Holds(B, x)' /\ task'[B][x].index = i
      <4>1. i \in With(turns, {"claimed"}) /\ i # k
        BY <2>5, <3>1
      <4>2. PICK x \in Slots : Holds(B, x) /\ task[B][x].index = i
        BY <1>5, <4>1 DEF ClaimsHeld
      <4>3. x # s
        BY <4>1, <4>2 DEF k
      <4> QED
        BY <2>3, <4>2, <4>3 DEF Holds
    <3> QED
      BY <3>1 DEF ClaimsHeld
  <2>8. ASSUME status' = "active" PROVE WaveWorks' /\ IntentsFit'
    <3>1. \A x \in Slots : /\ Intends(x)' <=> Intends(x)
                           /\ Intends(x) => task'[B][x].agent = task[B][x].agent
      BY <2>3, <2>4 DEF Intends
    <3>2. WaveWorks /\ IntentsFit
      BY <1>4, <1>5, <2>8
    <3> QED
      BY <2>1, <2>2, <2>5, <3>1, <3>2 DEF WaveWorks, InWave, IntentsFit, With
  <2> QED
    BY <1>4, <1>5, <2>2, <2>6, <2>7, <2>8 DEF LoopFits
\* The calls of the operators are idle, before and after.
<1>16. ASSUME NEW d \in Drivers, DriverStep(d) PROVE LoopFits'
  <2>1. CASE d = B
    BY <1>9, <1>10, <1>11, <1>16, <2>1 DEF DriverStep
  <2>2. CASE d # B
    <3>1. driver[d].phase = "idle" /\ driver'[d].phase = "idle"
      BY <1>1, <1>2, <2>2
    <3>2. PlanWave(d)
      BY <1>16, <3>1 DEF DriverStep, Launch, EndWave
    <3>3. driver'[d].phase = "planned"
      BY <1>2, <3>2 DEF PlanWave, Round
    <3> QED
      BY <3>1, <3>3
  <2> QED
    BY <2>1, <2>2
<1>17. ASSUME NEW d \in Drivers, NEW s \in Slots, TaskStep(d, s) PROVE LoopFits'
  <2>1. task[d][s].phase # "none"
    BY <1>17 DEF TaskStep, Claim, LoseClaim, Dispatch, LeaveClaimed, Settle
  <2>2. d = B /\ ~LeaveClaimed(d, s)
    BY <1>1, <1>3, <2>1 DEF LeaveClaimed
  <2> QED
    BY <1>12, <1>13, <1>14, <1>15, <1>17, <2>2 DEF TaskStep
<1>18. CASE SplitStep \/ StopSession \/ (\E a \in Participants : DeleteAgent(a)) \/ UNCHANGED vars
  BY <1>8, <1>18 DEF SplitStep, GiveUp, FallBack, StopSession, DeleteAgent, session, vars
<1> QED
  BY <1>1, <1>16, <1>17, <1>18 DEF Next

LEMMA LoopInit == Init => VerdictCurrent /\ LoopFits
<1> SUFFICES ASSUME Init PROVE VerdictCurrent /\ LoopFits
  OBVIOUS
<1>1. /\ turns = <<>> /\ DOMAIN turns = {} /\ Len(turns) = 0 /\ plan \in Plans
      /\ \A s \in Slots : ~Intends(s)
  BY BackgroundAssumption DEF Init, Intends, NoTask, Drivers
<1>2. plan # <<>> => /\ driver[Background].phase = "idle" /\ driver[Background].rounds = 0
                     /\ ~done
  BY Zenon DEF Init, Drivers, Over
<1>3. VerdictCurrent
  <2> SUFFICES ASSUME plan # <<>> PROVE Verdict(turns, done) = "active"
    BY DEF VerdictCurrent
  <2>1. /\ Len(plan) \in 2 .. 5 /\ DOMAIN plan = 1 .. Len(plan)
        /\ \A s \in DOMAIN plan : plan[s] \subseteq 1 .. s - 1
    BY <1>1, PlanShape DEF MaxSteps
  <2>2. 1 \in Pending(turns)
    <3>1. 1 \in DOMAIN plan /\ plan[1] = {}
      BY <2>1
    <3> QED
      BY <1>1, <3>1 DEF Pending, Ready, StepsWith, With
  <2>3. StepsWith(turns, {"completed", "failed"}) # DOMAIN plan
    BY <1>1, <2>1 DEF StepsWith, With
  <2>4. PlanVerdict(turns) = "active"
    BY <2>2, <2>3 DEF PlanVerdict
  <2>5. ~(Len(turns) >= MaxTurns) /\ ~TwoFailures(turns)
    BY <1>1, <2>1 DEF MaxTurns, TwoFailures
  <2> QED
    BY <1>2, <2>4, <2>5 DEF Verdict
<1>4. With(turns, {"claimed"}) = {}
  BY <1>1 DEF With
<1> QED
  BY <1>1, <1>2, <1>3, <1>4 DEF LoopFits, RoundsFit, InWave, ClaimsHeld, WaveWorks, IntentsFit
\* What runSessionToCompletion keeps true of a session that only its own loop touches.
LEMMA LoopInvariant == Spec => [](SessionInv /\ VerdictCurrent /\ LoopFits)
<1>1. SessionInv /\ AloneFits /\ VerdictCurrent /\ LoopFits /\ [Next]_vars
        => VerdictCurrent' /\ LoopFits'
  BY LoopStep, VerdictStep
<1> QED
  BY <1>1, LoopInit, AloneInvariant, PTL DEF Spec

\* As long as nobody else takes a hand in a session with a plan and the store takes what its
\* loop writes, the loop does not end before the session has its verdict: neither an empty
\* wave, nor a wave that claims nothing, nor the ceiling on its rounds leaves it active with
\* nobody to advance it. What PlansFinish needs beyond this is fairness alone.
THEOREM PlanNeverAbandoned == Spec => []NeverAbandoned
<1>1. LoopFits => NeverAbandoned
  BY DEF LoopFits, NeverAbandoned
<1> QED
  BY <1>1, LoopInvariant, PTL

\* Each wave of such a session ends with more turns than it began with; there are never as
\* many as the ceiling (Ceiling), so the loop cannot go round for ever.
THEOREM EveryWaveAddsTurns == Spec => [][WavesAddTurns]_vars
<1>1. LoopFits /\ SessionInv => WavesAddTurns
  <2> SUFFICES ASSUME LoopFits, SessionInv, EndWave(Background), Undisturbed, plan # <<>>,
                      status = "active"
               PROVE  Len(turns) > driver[Background].before
    BY DEF WavesAddTurns
  <2>1. /\ driver[Background].phase = "wave"
        /\ \A s \in Slots : task[Background][s].phase = "none"
    BY DEF EndWave
  <2>2. /\ driver[Background].before <= Len(turns)
        /\ Len(turns) # driver[Background].before
    BY <2>1 DEF LoopFits, RoundsFit, WaveWorks, InWave, Intends
  <2>3. Len(turns) \in Nat /\ driver[Background].before \in Nat
    <3>1. Background \in Drivers /\ driver[Background] \in Round
      BY DEF SessionInv, TypesFit, Drivers
    <3> QED
      BY <3>1, Ceiling DEF Round
  <2> QED
    BY <2>2, <2>3
<1>2. LoopFits /\ SessionInv /\ [Next]_vars => [WavesAddTurns]_vars
  BY <1>1
<1> QED
  BY <1>2, LoopInvariant, PTL DEF Spec
=============================================================================
