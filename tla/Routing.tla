------------------------------ MODULE Routing ------------------------------
(***************************************************************************)
(* How a message finds its contract and its Agent: the governance path of  *)
(* AgentService.sendMessage with CodifyService.route, from the follow-up   *)
(* test to the admission. One message is handled at a time; what others do *)
(* meanwhile is what it can read: the status of the Agents, the active     *)
(* contracts, the answers that arrive. Every read is a snapshot of its own *)
(* and the admission is a mutation of its own, so all of it may change     *)
(* between them.                                                           *)
(*                                                                         *)
(* A prompt stands for how well it matches each exemplar, on its best      *)
(* channel and relative to that channel's threshold: below NearScore it is *)
(* unfamiliar, from Line on it is recognised.                              *)
(***************************************************************************)
EXTENDS Integers, Sequences, Functions, FiniteSetsExt

CONSTANTS Users, Agents, Contracts, NoContract, NoAgent,
          Conversations, \* the Agents that somebody writes to
          Stored,        \* the contracts in the order of the store
          OwnerOf,       \* the specialist of each contract
          Exemplars,     \* the exemplars of each contract
          Prompts, NearScore, Line,
          TieMargin,     \* config.codifyTieMargin
          MaxAnswers,    \* bound: answers in the transcripts
          MaxChanges     \* bound: Agents stopped or started, contracts changed

ASSUME StoredAssumption ==
  Stored \in Seq(Contracts) /\ Range(Stored) = Contracts /\ IsInjective(Stored)
ASSUME OwnerAssumption ==
  Conversations \subseteq Agents /\ OwnerOf \in [Contracts -> Agents] /\ NoAgent \notin Agents
ASSUME NoContractAssumption == NoContract \notin Contracts
ASSUME PromptAssumption ==
  \A c \in Contracts :
    IsFiniteSet(Exemplars[c]) /\ \A p \in Prompts : \A e \in Exemplars[c] : p[e] \in Nat
ASSUME ScoreAssumption ==
  NearScore \in Nat \ {0} /\ Line \in Nat /\ NearScore <= Line /\ TieMargin \in Nat
ASSUME BoundAssumption == MaxAnswers \in Nat /\ MaxChanges \in Nat

VARIABLES status,    \* of each Agent
          active,    \* the active contracts
          messages,  \* the assistant messages, in the order they arrived
          runs,      \* admitted, not answered yet
          turn,      \* the message that is being handled
          changes    \* how often operators changed what it reads

vars == <<status, active, messages, runs, turn, changes>>

Decisions == {"none", "routed", "principal_bound", "user_override", "unmatched"}
NoTurn == [phase |-> "idle"]
Turns ==
  [phase : {"sent", "recorded", "decided", "placed"}, user : Users, addressed : Agents,
   prompt : Prompts, forceAdHoc : BOOLEAN, followUp : BOOLEAN, routeAgent : Agents,
   decision : Decisions, contract : Contracts \cup {NoContract}, known : SUBSET Contracts,
   executor : Agents]

TypeOK ==
  /\ status \in [Agents -> {"ready", "busy", "error", "stopped"}]
  /\ active \subseteq Contracts
  /\ \A i \in DOMAIN messages : messages[i] \in [user : Users, conversation : Agents, by : Agents]
  /\ runs \subseteq [user : Users, conversation : Agents, by : Agents]
  /\ Len(messages) + Cardinality(runs) <= MaxAnswers
  /\ turn \in Turns \cup {NoTurn} /\ changes \in 0 .. MaxChanges
  /\ turn # NoTurn => (turn.contract # NoContract) = (turn.decision \in {"routed", "principal_bound"})

Init ==
  /\ status = [a \in Agents |-> "ready"]
  /\ active \in SUBSET Contracts
  /\ messages = <<>> /\ runs = {} /\ turn = NoTurn /\ changes = 0

-----------------------------------------------------------------------------
(* The rules, each after the slip that its mutant puts in its place.        *)

\* bestMatch: the best of the contract's exemplars.
Confidence(c, p) == Max({p[e] : e \in Exemplars[c]} \cup {0})
Matched(c, p) == Confidence(c, p) >= Line

\* route: one pass in the order of the store. A contract replaces the best only by more,
\* and then the best becomes the runner-up.
Nobody == [best |-> NoContract, runnerUp |-> NoContract]
Score(c, p) == IF c = NoContract THEN -1 ELSE Confidence(c, p)

AfterContractForgetting(p, seen, c) ==
  IF ~Matched(c, p) THEN seen
  ELSE IF Score(c, p) > Score(seen.best, p) THEN [seen EXCEPT !.best = c]
  ELSE IF Score(c, p) > Score(seen.runnerUp, p) THEN [seen EXCEPT !.runnerUp = c]
  ELSE seen
AfterContract(p, seen, c) ==
  IF ~Matched(c, p) THEN seen
  ELSE IF Score(c, p) > Score(seen.best, p) THEN [best |-> c, runnerUp |-> seen.best]
  ELSE IF Score(c, p) > Score(seen.runnerUp, p) THEN [seen EXCEPT !.runnerUp = c]
  ELSE seen

Ranked(known, p) ==
  LET seen[i \in 0 .. Len(Stored)] ==
        IF i = 0 THEN Nobody
        ELSE IF Stored[i] \in known THEN AfterContract(p, seen[i - 1], Stored[i])
        ELSE seen[i - 1]
  IN seen[Len(Stored)]

\* Two that scored almost the same: neither.
Tie(known, p) ==
  LET r == Ranked(known, p)
  IN /\ r.runnerUp # NoContract /\ TieMargin > 0
     /\ Score(r.best, p) - Score(r.runnerUp, p) < TieMargin
Best(known, p) == IF Tie(known, p) THEN NoContract ELSE Ranked(known, p).best

\* ownContract: the first active contract whose specialist the Agent is.
OwnContract(known, a) ==
  LET own == {i \in DOMAIN Stored : Stored[i] \in known /\ OwnerOf[Stored[i]] = a}
  IN IF own = {} THEN NoContract ELSE Stored[Min(own)]

\* Without a match, or when the caller declines one, an Agent is still held to its own.
HeldAlways(t, own) == TRUE
HeldUnlessAdHoc(t, own) == own # NoContract /\ ~t.forceAdHoc
HeldToItsOwn(t, own) == own # NoContract

Decide(t) ==
  LET own == OwnContract(active, t.routeAgent)
      best == IF t.forceAdHoc THEN NoContract ELSE Best(active, t.prompt)
      decided(d, c) == [t EXCEPT !.phase = "decided", !.decision = d, !.contract = c,
                                 !.known = active]
  IN IF best # NoContract THEN decided("routed", best)
     ELSE IF HeldToItsOwn(t, own) THEN decided("principal_bound", own)
     ELSE decided(IF t.forceAdHoc THEN "user_override" ELSE "unmatched", NoContract)

\* lastResponder: the last answer in the principal's conversation that another Agent gave.
LastResponder(a, u) ==
  LET others == {i \in DOMAIN messages : /\ messages[i].conversation = a
                                          /\ messages[i].user = u /\ messages[i].by # a}
  IN IF others = {} THEN NoAgent ELSE messages[Max(others)].by

\* looksCompound: partly recognised, or recognised with much more text around it.
LooksCompound(t) ==
  \/ /\ t.decision = "unmatched"
     /\ \E c \in t.known : Confidence(c, t.prompt) \in NearScore .. (Line - 1)
  \/ t.decision = "routed"

-----------------------------------------------------------------------------
Room == Len(messages) + Cardinality(runs) < MaxAnswers

SendMessage(u, a, p, forceAdHoc, followUp) ==
  /\ turn = NoTurn /\ Room
  /\ status[a] # "stopped"
  /\ turn' = [phase |-> "sent", user |-> u, addressed |-> a, prompt |-> p,
              forceAdHoc |-> forceAdHoc, followUp |-> followUp, routeAgent |-> a,
              decision |-> "none", contract |-> NoContract, known |-> {}, executor |-> a]
  /\ UNCHANGED <<status, active, messages, runs, changes>>

\* After classifyFollowUp has answered: a follow-up goes on where the last answer came from.
FollowUp ==
  /\ turn # NoTurn /\ turn.phase = "sent"
  /\ LET previous == LastResponder(turn.addressed, turn.user)
         goesOn == /\ turn.followUp /\ previous # NoAgent
                   /\ status[previous] = "ready"
     IN turn' = [turn EXCEPT !.phase = "recorded",
                             !.routeAgent = IF goesOn THEN previous ELSE @]
  /\ UNCHANGED <<status, active, messages, runs, changes>>

\* After recordPromptObservation.
Route ==
  /\ turn # NoTurn /\ turn.phase = "recorded"
  /\ turn' = Decide(turn)
  /\ UNCHANGED <<status, active, messages, runs, changes>>

\* The budget refuses it, or the planner splits it into a session.
TurnAway ==
  /\ turn # NoTurn /\ turn.phase = "decided"
  /\ turn.contract # NoContract \/ LooksCompound(turn)
  /\ turn' = NoTurn
  /\ UNCHANGED <<status, active, messages, runs, changes>>

\* After persistRouteDecision and enforceBudget: the specialist, if it is ready now.
Place ==
  /\ turn # NoTurn /\ turn.phase = "decided"
  /\ LET specialist == IF turn.decision = "routed" THEN OwnerOf[turn.contract] ELSE NoAgent
         delegated == specialist # NoAgent /\ status[specialist] = "ready"
     IN turn' = [turn EXCEPT !.phase = "placed",
                             !.executor = IF delegated THEN specialist ELSE turn.routeAgent]
  /\ UNCHANGED <<status, active, messages, runs, changes>>

AlreadyRunning(t) == \E r \in runs : r.user = t.user /\ r.by = t.executor

Admit ==
  /\ turn # NoTurn /\ turn.phase = "placed"
  /\ status[turn.executor] # "stopped" /\ ~AlreadyRunning(turn)
  /\ runs' = runs \cup {[user |-> turn.user, conversation |-> turn.addressed,
                         by |-> turn.executor]}
  /\ status' = [status EXCEPT ![turn.executor] = "busy"]
  /\ turn' = NoTurn
  /\ UNCHANGED <<active, messages, changes>>

\* 409: stopped meanwhile, or this principal has a run on it.
Refuse ==
  /\ turn # NoTurn /\ turn.phase = "placed"
  /\ status[turn.executor] = "stopped" \/ AlreadyRunning(turn)
  /\ turn' = NoTurn
  /\ UNCHANGED <<status, active, messages, runs, changes>>

-----------------------------------------------------------------------------
\* A run ends: with a message, or without one when it failed or was cancelled.
EndRun(r) ==
  /\ r \in runs
  /\ runs' = runs \ {r}
  /\ \/ /\ messages' = Append(messages, r)
        /\ status' = [status EXCEPT ![r.by] =
                        IF \E x \in runs \ {r} : x.by = r.by THEN "busy" ELSE "ready"]
     \/ /\ \E s \in {"error", "ready"} :
             status' = [status EXCEPT ![r.by] = IF @ = "stopped" THEN @ ELSE s]
        /\ UNCHANGED messages
  /\ UNCHANGED <<active, turn, changes>>

\* What operators and the governance pass do to Agents and contracts.
MayChange == changes < MaxChanges /\ changes' = changes + 1

StopAgent(a) ==
  /\ MayChange /\ status[a] # "stopped"
  /\ status' = [status EXCEPT ![a] = "stopped"]
  /\ UNCHANGED <<active, messages, runs, turn>>
StartAgent(a) ==
  /\ MayChange /\ status[a] = "stopped"
  /\ status' = [status EXCEPT ![a] = "ready"]
  /\ UNCHANGED <<active, messages, runs, turn>>
ChangeContract(c) ==
  /\ MayChange
  /\ active' = IF c \in active THEN active \ {c} ELSE active \cup {c}
  /\ UNCHANGED <<status, messages, runs, turn>>

\* The bounds are reached, or nobody is there to be written to.
Finished ==
  /\ turn = NoTurn
  /\ ~Room \/ \A a \in Conversations : status[a] = "stopped"
  /\ UNCHANGED vars

Next ==
  \/ \E u \in Users, a \in Conversations, p \in Prompts, adHoc, f \in BOOLEAN :
       SendMessage(u, a, p, adHoc, f)
  \/ FollowUp \/ Route \/ TurnAway \/ Place \/ Admit \/ Refuse
  \/ \E r \in runs : EndRun(r)
  \/ \E a \in Agents : StopAgent(a) \/ StartAgent(a)
  \/ \E c \in Contracts : ChangeContract(c)
  \/ Finished

Spec == Init /\ [][Next]_vars

-----------------------------------------------------------------------------
Decided == turn # NoTurn /\ turn.phase \in {"decided", "placed"}

\* Whatever the order of the store: a message is routed to a contract just when that
\* contract alone is recognised by a clear margin over every other recognised one.
ClearlyAhead(c) ==
  /\ c \in turn.known /\ Matched(c, turn.prompt)
  /\ \A d \in turn.known \ {c} :
       \/ ~Matched(d, turn.prompt)
       \/ Confidence(c, turn.prompt) - Confidence(d, turn.prompt) >= TieMargin
RoutedWhenClear ==
  Decided /\ TieMargin > 0 =>
    \A c \in Contracts :
      (turn.decision = "routed" /\ turn.contract = c) = (~turn.forceAdHoc /\ ClearlyAhead(c))

\* No message runs unrestricted on an Agent that was some active contract's specialist when
\* it was routed: whatever the prompt, the caller's flag, the follow-up or the delegation,
\* it is under that Agent's contract or under the one it was recognised as.
SpecialistIsBound ==
  turn # NoTurn /\ turn.phase = "placed" =>
    LET owned == {c \in turn.known : OwnerOf[c] = turn.executor}
    IN /\ owned # {} => turn.contract # NoContract
       /\ turn.contract # NoContract =>
            \/ turn.contract \in owned
            \/ turn.decision = "routed" /\ turn.contract \in turn.known
=============================================================================
