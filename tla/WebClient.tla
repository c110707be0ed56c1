------------------------------ MODULE WebClient ------------------------------
(***************************************************************************)
(* The page: what App.tsx shows of one conversation, and the requests that *)
(* fill it. One page, on which somebody changes the Agent and the principal*)
(* while requests of before are still on their way. The server answers a   *)
(* request at one moment and the page hears of it at another, in any order *)
(* (the requests are independent fetches, also the two of one load).       *)
(*                                                                         *)
(* A message is what was asked for by a request or by a step of a split    *)
(* one, or its answer. It is filed some time after its timestamp was taken,*)
(* and lists are in the order of the timestamps.                           *)
(***************************************************************************)
EXTENDS Naturals, Sequences, SequencesExt, FiniteSets

CONSTANTS Users, Agents, Runs, Steps, NoRun, Nobody,
          Compound,      \* the requests that the server may split, into Steps
          MaxEvents,     \* bound: requests of the user, changes of Agent or principal, and
                         \* failures, together
          MaxLoads       \* bound: loads under way at the same time

ASSUME NamesAssumption == NoRun \notin Runs \cup Steps /\ Nobody \notin Users
ASSUME StepsAssumption == Compound \subseteq Runs /\ Steps \cap Runs = {}
ASSUME BoundsAssumption == {MaxEvents, MaxLoads} \subseteq Nat

VARIABLES asked,       \* by whom and where a run was asked for, where it runs, for which request
          stamped,     \* the messages that have a timestamp, in that order
          filed,       \* those of them that the store has
          split,       \* requests that became a session
          settled,     \* runs and sessions that are over
          principal, selectedId, messages, activeRun, runsById, splitSession,   \* the page
          sends, loads, loops, followers,   \* its requests and loops under way
          pollingRunIds,
          unfollowed,  \* history: runs whose answer this visit will not hear of
          misled,      \* history: an answer came late or for another, or none came
          moves, failures

server == <<asked, stamped, filed, split, settled>>
shown == <<principal, selectedId, messages, activeRun, runsById, splitSession>>
async == <<sends, loads, loops, followers, pollingRunIds>>
history == <<unfollowed, misled>>
bounds == <<moves, failures>>
vars == <<server, shown, async, history, bounds>>

Pending == [is |-> "pending"]
Answer(value) == [is |-> "answer", value |-> value]
IsAnswer(x) == x.is = "answer"
All == Runs \cup Steps
Entry(r, text) == [of |-> r, text |-> text]
Entries == {Entry(r, text) : r \in All, text \in {"asked", "answer"}}
View(r, is) == [id |-> r, is |-> is]
NoView == View(NoRun, "none")
Views == {View(r, is) : r \in All, is \in {"running", "settled"}}
Unasked == [by |-> Nobody]
Requests == [by : Users, at : Agents, on : Agents, for : Runs \cup {NoRun}]
Events == moves + failures + Cardinality({r \in Runs : asked[r] # Unasked})

-----------------------------------------------------------------------------
(* The server: getMessages and getRuns are of one principal, getRun is of   *)
(* anybody. A run is on the list of the Agent it was asked of and on that of*)
(* the Agent that carries it out.                                           *)

Recorded == {e.of : e \in filed}
Transcript(a, u) ==
  SelectSeq(stamped, LAMBDA e : e \in filed /\ asked[e.of].by = u /\ asked[e.of].at = a)
RunsOf(a, u) ==
  SelectSeq(stamped, LAMBDA e : /\ e \in filed /\ e.text = "asked" /\ e.of \notin split
                                /\ asked[e.of].by = u
                                /\ a \in {asked[e.of].at, asked[e.of].on})
State(r) == View(r, IF r \in settled THEN "settled" ELSE "running")
Latest(a, u) == IF RunsOf(a, u) = <<>> THEN NoView ELSE State(Last(RunsOf(a, u)).of)
RunList(a, u) ==
  [runs |-> {e.of : e \in Range(RunsOf(a, u))}, latest |-> Latest(a, u)]

-----------------------------------------------------------------------------
TypeOK ==
  /\ \A r \in All : asked[r] \in {Unasked} \cup Requests
  /\ Range(stamped) \subseteq Entries /\ IsInjective(stamped) /\ filed \subseteq Range(stamped)
  /\ split \subseteq Recorded \cap Runs /\ settled \subseteq Recorded
  /\ principal \in Users /\ selectedId \in Agents
  /\ Range(messages) \subseteq Entries /\ activeRun \in Views \cup {NoView}
  /\ runsById \subseteq Recorded /\ splitSession \in Views \cup {NoView}
  \* One loop per run, and pollingRunIds is the runs that have one.
  /\ \A l \in loops : l.run \in Recorded \ split /\ l.phase \in {"asleep", "asking", "refreshing"}
  /\ Cardinality(loops) = Cardinality(pollingRunIds) /\ pollingRunIds = {l.run : l \in loops}
  /\ \A s \in sends : s.is \in {"sent", "received", "splitting", "run", "session"}
  /\ followers \subseteq split
  /\ unfollowed \subseteq Recorded /\ misled \in BOOLEAN
  /\ moves \in Nat /\ failures \in Nat /\ Events <= MaxEvents

Load(a, u, visit) ==
  [agent |-> a, as |-> u, visit |-> visit, messages |-> Pending, runs |-> Pending]

\* The page opens: the effect of the first render.
Init ==
  /\ asked = [r \in All |-> Unasked]
  /\ stamped = <<>> /\ filed = {} /\ split = {} /\ settled = {}
  /\ principal \in Users /\ selectedId \in Agents
  /\ messages = <<>> /\ activeRun = NoView /\ runsById = {} /\ splitSession = NoView
  /\ sends = {} /\ loads = {Load(selectedId, principal, 0)} /\ loops = {} /\ followers = {}
  /\ pollingRunIds = {}
  /\ unfollowed = {} /\ misled = FALSE /\ moves = 0 /\ failures = 0

\* What reaches the page in another's name, or older than what it has heard, misleads it.
LateMessages(list, a, u) ==
  \E e \in Range(messages) : e \in Range(Transcript(a, u)) /\ e \notin Range(list)
LateRuns(runs, a, u) ==
  \E e \in Range(RunsOf(a, u)) : e.of \in (runsById \cup {activeRun.id}) \ runs
LateRun(view) ==
  /\ view.is = "running"
  /\ \/ activeRun = View(view.id, "settled")
     \/ \E l \in loops : l.run = view.id /\ l.phase = "refreshing"

-----------------------------------------------------------------------------
(* Moving about. The effect of selectedId and principal runs with the       *)
(* change: it forgets the run on display and asks for messages and runs.    *)

Quiet == sends = {} /\ loads = {} /\ loops = {}

Visit(a, u) ==
  /\ Events < MaxEvents /\ moves' = moves + 1 /\ Cardinality(loads) < MaxLoads
  /\ selectedId' = a /\ principal' = u
  /\ activeRun' = NoView
  /\ loads' = loads \cup {Load(a, u, moves + 1)}
  /\ unfollowed' = {} /\ misled' = (misled /\ ~Quiet)
  /\ UNCHANGED <<server, messages, sends, loops, followers, pollingRunIds, failures>>

Select(a) ==
  /\ a # selectedId
  /\ Visit(a, principal)
  /\ UNCHANGED <<runsById, splitSession>>

\* What switchPrincipal forgets; the messages stay until the new ones come.
Forget == runsById' = {} /\ splitSession' = NoView

SwitchPrincipal(u) ==
  /\ u # principal
  /\ Visit(selectedId, u)
  /\ Forget

-----------------------------------------------------------------------------
(* The load: Promise.all of refreshMessages and api.runs, two requests. The *)
(* messages are displayed when they come, the runs when both have come.     *)

Renew(set, x, y) == (set \ {x}) \cup {y}

AnswerLoad(l) ==
  /\ \/ /\ l.messages = Pending
        /\ loads' = Renew(loads, l, [l EXCEPT !.messages = Answer(Transcript(l.agent, l.as))])
     \/ /\ l.runs = Pending
        /\ loads' = Renew(loads, l, [l EXCEPT !.runs = Answer(RunList(l.agent, l.as))])
  /\ UNCHANGED <<server, shown, sends, loops, followers, pollingRunIds, history, bounds>>

\* refreshMessages: an answer for the Agent on display is displayed.
ShowMessages(agent, as, list) ==
  IF selectedId = agent
  THEN messages' = list /\ misled' = (misled \/ as # principal \/ LateMessages(list, agent, as))
  ELSE UNCHANGED <<messages, misled>>

MessagesArrive(l) ==
  /\ IsAnswer(l.messages)
  /\ ShowMessages(l.agent, l.as, l.messages.value)
  /\ loads' = Renew(loads, l, [l EXCEPT !.messages = [is |-> "shown"]])
  /\ UNCHANGED <<server, principal, selectedId, activeRun, runsById, splitSession, sends, loops,
                 followers, pollingRunIds, unfollowed, bounds>>

\* pollRun: one loop for a run, in the name of whoever is on the page when it starts.
NewLoop(r, agent, by) ==
  [run |-> r, agent |-> agent, as |-> principal, by |-> by,
   phase |-> "asleep", to |-> principal, answer |-> Pending]
FollowAgain(r, agent, by) ==
  pollingRunIds' = pollingRunIds \cup {r} /\ loops' = loops \cup {NewLoop(r, agent, by)}
Follow(r, agent, by) ==
  IF r \in pollingRunIds THEN UNCHANGED <<loops, pollingRunIds>>
  ELSE pollingRunIds' = pollingRunIds \cup {r} /\ loops' = loops \cup {NewLoop(r, agent, by)}

\* Of the runs that were not over when the messages were asked for, the page follows the
\* latest, unless it is followed already; and that may be for the display of another Agent.
Followed(got, agent) ==
  {l.run : l \in {m \in loops : m.agent = agent /\ m.as = principal}} \cup
  {r \in got.runs : got.latest = View(r, "running") /\ \A l \in loops : l.run # r}
Unheard(got, agent) ==
  {r \in got.runs : Entry(r, "answer") \notin Range(messages) \/ got.latest = View(r, "running")}
    \ Followed(got, agent)

LoadArrives(l) ==
  /\ l.messages.is = "shown" /\ IsAnswer(l.runs)
  /\ loads' = loads \ {l}
  /\ IF selectedId # l.agent
     THEN UNCHANGED <<activeRun, runsById, history, loops, pollingRunIds>>
     ELSE LET got == l.runs.value IN
          /\ runsById' = got.runs
          /\ activeRun' = got.latest
          /\ misled' = (misled \/ l.as # principal \/ LateRun(got.latest)
                         \/ LateRuns(got.runs, l.agent, l.as))
          /\ unfollowed' = Unheard(got, l.agent)
          /\ IF got.latest.is = "running" THEN Follow(got.latest.id, l.agent, "load")
             ELSE UNCHANGED <<loops, pollingRunIds>>
  /\ UNCHANGED <<server, principal, selectedId, messages, splitSession, sends, followers, bounds>>

-----------------------------------------------------------------------------
(* The loop of pollRun: wait, ask, show; when the run is over, one last     *)
(* look at the messages.                                                    *)

LeaveRemembering(l) == loops' = loops \ {l} /\ pollingRunIds' = pollingRunIds
\* The loop ends, in whatever way: `finally` forgets the run.
Leave(l) == loops' = loops \ {l} /\ pollingRunIds' = pollingRunIds \ {l.run}

\* Whether a loop's run is still the business of whoever is on the page.
StillTheirsUnchecked(l) == TRUE
StillTheirs(l) == principal = l.as

Wake(l) ==
  /\ l.phase = "asleep"
  /\ IF StillTheirs(l)
     THEN loops' = Renew(loops, l, [l EXCEPT !.phase = "asking"]) /\ UNCHANGED pollingRunIds
     ELSE Leave(l)
  /\ UNCHANGED <<server, shown, sends, loads, followers, history, bounds>>

AnswerLoop(l) ==
  /\ l.phase \in {"asking", "refreshing"} /\ l.answer = Pending
  /\ loops' = Renew(loops, l, [l EXCEPT !.answer =
                 Answer(IF l.phase = "asking" THEN State(l.run) ELSE Transcript(l.agent, l.to))])
  /\ UNCHANGED <<server, shown, sends, loads, followers, pollingRunIds, history, bounds>>

RunArrives(l) ==
  /\ l.phase = "asking" /\ IsAnswer(l.answer)
  /\ activeRun' = IF selectedId = l.agent /\ StillTheirs(l) THEN l.answer.value ELSE activeRun
  \* refreshMessages asks as whoever is on the page by then.
  /\ loops' = Renew(loops, l,
       IF l.answer.value.is = "settled"
       THEN [l EXCEPT !.phase = "refreshing", !.to = principal, !.answer = Pending]
       ELSE [l EXCEPT !.phase = "asleep", !.answer = Pending])
  /\ UNCHANGED <<server, principal, selectedId, messages, runsById, splitSession, sends, loads,
                 followers, pollingRunIds, history, bounds>>

LastLook(l) ==
  /\ l.phase = "refreshing" /\ IsAnswer(l.answer)
  /\ ShowMessages(l.agent, l.to, l.answer.value)
  /\ Leave(l)
  /\ UNCHANGED <<server, principal, selectedId, activeRun, runsById, splitSession, sends, loads,
                 followers, unfollowed, bounds>>

-----------------------------------------------------------------------------
(* sendMessage, here and on the server, and pollSession for a request that  *)
(* was split.                                                               *)

\* The composer is shut while a run is on display that is not over.
Submit(r) ==
  /\ asked[r] = Unasked /\ activeRun.is # "running" /\ Events < MaxEvents
  /\ asked' = [asked EXCEPT ![r] = [by |-> principal, at |-> selectedId, on |-> selectedId,
                                    for |-> NoRun]]
  /\ sends' = sends \cup {[run |-> r, is |-> "sent"]}
  /\ UNCHANGED <<stamped, filed, split, settled, shown, loads, loops, followers, pollingRunIds,
                 history, bounds>>

\* The timestamp, before routing and planning.
Receive(s) ==
  /\ s.is = "sent"
  /\ stamped' = Append(stamped, Entry(s.run, "asked"))
  /\ sends' = Renew(sends, s, [s EXCEPT !.is = "received"])
  /\ UNCHANGED <<asked, filed, split, settled, shown, loads, loops, followers, pollingRunIds,
                 history, bounds>>

\* One run of a principal at a time on an Agent.
Free(a, u) ==
  \A x \in Recorded \ (split \cup settled) : ~(asked[x].by = u /\ asked[x].on = a)

\* runSessionTurn: a step is sent to an Agent as a request of its own. The first one comes
\* before the request that was split is filed, the others any time until the session is over.
Dispatch(x, r) ==
  /\ asked[x] = Unasked
  /\ \/ /\ r \in Compound
        /\ \E s \in sends : /\ s.run = r /\ s.is \in {"received", "splitting"}
                            /\ sends' = Renew(sends, s, [s EXCEPT !.is = "splitting"])
     \/ r \in split \ settled /\ sends' = sends
  /\ \E a, on \in Agents :
       /\ Free(on, asked[r].by)
       /\ asked' = [asked EXCEPT ![x] = [by |-> asked[r].by, at |-> a, on |-> on, for |-> r]]
  /\ stamped' = Append(stamped, Entry(x, "asked"))
  /\ filed' = filed \cup {Entry(x, "asked")}
  /\ UNCHANGED <<split, settled, shown, loads, loops, followers, pollingRunIds, history, bounds>>

\* POST /messages: filed as a run, here or with the Agent it is delegated to; or, when it was
\* split and a step is under way, as the request alone.
File(s) ==
  /\ \/ /\ s.is = "received"
        /\ \E a \in Agents :
             /\ Free(a, asked[s.run].by)
             /\ asked' = [asked EXCEPT ![s.run].on = a]
        /\ sends' = Renew(sends, s, [s EXCEPT !.is = "run"])
        /\ split' = split
     \/ /\ s.is = "splitting"
        /\ split' = split \cup {s.run}
        /\ sends' = Renew(sends, s, [s EXCEPT !.is = "session"])
        /\ asked' = asked
  /\ filed' = filed \cup {Entry(s.run, "asked")}
  /\ UNCHANGED <<stamped, settled, shown, loads, loops, followers, pollingRunIds, history, bounds>>

Appended(r) == messages' = Append(messages, Entry(r, "asked"))

\* A run is followed from here on, a session by pollSession.
SendArrives(s) ==
  LET agent == asked[s.run].at
      here == selectedId = agent
      running == View(s.run, "running")
      session == s.is = "session"
      elsewhere == \E l \in loops : l.run = s.run /\ l.agent # agent
  IN
  /\ s.is \in {"run", "session"}
  /\ sends' = sends \ {s}
  /\ splitSession' = IF session THEN running ELSE NoView
  /\ IF here THEN Appended(s.run) ELSE messages' = messages
  /\ misled' = (misled \/ asked[s.run].by # principal
                 \/ (here /\ (session \/ elsewhere) /\ Entry(s.run, "asked") \in Range(messages))
                 \/ (here /\ ~session /\ LateRun(running)))
  /\ IF session
     THEN /\ followers' = followers \cup {s.run}
          /\ UNCHANGED <<activeRun, loops, pollingRunIds>>
     ELSE /\ activeRun' = IF here THEN running ELSE activeRun
          /\ Follow(s.run, agent, "send")
          /\ UNCHANGED followers
  /\ unfollowed' = IF here /\ elsewhere THEN unfollowed \cup {s.run} ELSE unfollowed
  /\ UNCHANGED <<server, principal, selectedId, runsById, loads, bounds>>

\* One turn of pollSession: a second, a request, and the banner if it is still this one's.
\* It may be the last of the 600 turns, and a request that fails ends it without a word. It
\* never asks for the messages of the steps.
FollowSession(f) ==
  /\ \/ /\ splitSession' = IF splitSession.id = f THEN State(f) ELSE splitSession
        /\ followers' = followers \ {f} \/ (f \notin settled /\ followers' = followers)
     \/ followers' = followers \ {f} /\ splitSession' = splitSession
  /\ UNCHANGED <<server, principal, selectedId, messages, activeRun, runsById, sends, loads, loops,
                 pollingRunIds, history, bounds>>

-----------------------------------------------------------------------------
\* The server settles what it works on; a run that completed has an answer. A session is
\* over after its steps.
Settle(r) ==
  /\ r \in Recorded \ settled
  /\ r \in split => \A x \in Steps \cap Recorded : asked[x].for = r => x \in settled
  /\ settled' = settled \cup {r}
  /\ \/ UNCHANGED <<stamped, filed>>
     \/ /\ r \notin split
        /\ stamped' = Append(stamped, Entry(r, "answer"))
        /\ filed' = filed \cup {Entry(r, "answer")}
  /\ UNCHANGED <<asked, split, shown, async, history, bounds>>

(* Requests fail. A send or a loop that a send started ends by clearing the *)
(* run on display, whichever it is; a load or its loop only says so.        *)

Fail == Events < MaxEvents /\ failures' = failures + 1 /\ misled' = TRUE

SendFails(s) ==
  /\ Fail
  /\ sends' = sends \ {s}
  /\ activeRun' = NoView
  /\ UNCHANGED <<server, principal, selectedId, messages, runsById, splitSession, loads, loops,
                 followers, pollingRunIds, unfollowed, moves>>

\* Either request; messages that have come or are still to come are displayed all the same.
LoadFails(l) ==
  /\ Fail
  /\ \/ loads' = loads \ {l} /\ messages' = messages
     \/ /\ IsAnswer(l.messages)
        /\ loads' = loads \ {l}
        /\ messages' = IF selectedId = l.agent THEN l.messages.value ELSE messages
  /\ UNCHANGED <<server, principal, selectedId, activeRun, runsById, splitSession, sends, loops,
                 followers, pollingRunIds, unfollowed, moves>>

LoopFails(l) ==
  /\ Fail
  /\ l.phase # "asleep"
  /\ Leave(l)
  /\ activeRun' = IF l.by = "send" THEN NoView ELSE activeRun
  /\ UNCHANGED <<server, principal, selectedId, messages, runsById, splitSession, sends, loads,
                 followers, unfollowed, moves>>

-----------------------------------------------------------------------------
Next ==
  \/ \E a \in Agents : Select(a)
  \/ \E u \in Users : SwitchPrincipal(u)
  \/ \E l \in loads : AnswerLoad(l) \/ MessagesArrive(l) \/ LoadArrives(l) \/ LoadFails(l)
  \/ \E l \in loops : Wake(l) \/ AnswerLoop(l) \/ RunArrives(l) \/ LastLook(l) \/ LoopFails(l)
  \/ \E r \in Runs : Submit(r) \/ \E x \in Steps : Dispatch(x, r)
  \/ \E r \in All : Settle(r)
  \/ \E s \in sends : Receive(s) \/ File(s) \/ SendArrives(s) \/ SendFails(s)
  \/ \E f \in followers : FollowSession(f)

Spec == Init /\ [][Next]_vars

-----------------------------------------------------------------------------
(* What the page promises to whoever looks at it.                           *)

\* When nothing is under way any more, and no answer came late and none failed, the page
\* shows messages of its principal's transcript, each once and in the order of the server
\* (a split request, which is put at the end, apart); it lacks none of them but what the
\* steps of a split request filed, and the answers of runs that a visit does not follow: a
\* run that was over when the runs were looked up though not when the messages were, one that
\* was not the latest, one that is followed for another Agent's display. And a run that is
\* not over is on display for that last reason only. App.tsx refreshMessages, the effect of
\* selectedId and principal, pollRun's guard and its last look, sendMessage's append.
QuietPageIsTrue ==
  Quiet /\ ~misled =>
    LET theirs == Transcript(selectedId, principal)
        here == Range(messages)
    IN /\ here \subseteq Range(theirs) /\ IsInjective(messages)
       /\ SelectSeq(messages, LAMBDA e : e.of \notin split) =
            SelectSeq(theirs, LAMBDA e : e.of \notin split /\ e \in here)
       /\ \A e \in Range(theirs) \ here :
            e.of \in Steps \/ (e.text = "answer" /\ e.of \in unfollowed)
       /\ activeRun.is = "running" => activeRun.id \in unfollowed

\* What is on display and not the principal's, apart from the messages, which stay until
\* the new ones come.
Anothers ==
  {r \in runsById \cup {activeRun.id, splitSession.id} :
     r # NoRun /\ asked[r].by # principal}

\* Nothing of another principal's comes on display except with the answer to a request made
\* in that principal's name, or by a loop that such an answer started. App.tsx switchPrincipal
\* forgets what it must ("A run belongs to whoever started it"), pollRun asks who is signed in.
OnlyLateAnswersMislead ==
  [][Anothers' \ Anothers # {} =>
       /\ principal' = principal
       /\ \/ \E l \in loads \ loads' : l.as # principal
          \/ \E s \in sends \ sends' : asked[s.run].by # principal
          \/ \E l \in loops : l.run \in Anothers' /\ asked[l.run].by # l.as]_vars
=============================================================================
