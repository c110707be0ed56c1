------------------------------- MODULE Runner -------------------------------
(***************************************************************************)
(* How a run is carried out: container-codex-runner.ts with its broker     *)
(* (codify/broker-session.ts, broker/codify-broker.mjs), the same runner   *)
(* without Codify, or a host process (codex-runner.ts); cancellation, the  *)
(* time limit, the evidence, and what a crash leaves behind.               *)
(*                                                                         *)
(* The container engine is external: its calls are steps of their own, may *)
(* fail, and a container appears some time after the client that runs it   *)
(* was spawned. A run changes files of its workspace, which is the         *)
(* principal's on that Agent; AgentService admits one run of a principal   *)
(* on an Agent at a time. A file is there or not; one that was rewritten   *)
(* is another.                                                             *)
(***************************************************************************)
EXTENDS Naturals, FiniteSets, FiniteSetsExt

CONSTANTS Agents, Runs, NoAgent, Principals,
          Askers,           \* who may have asked for the runs
          Hosts, Allowed,   \* Allowed: the hosts in the contracts' scopes
          Observed,         \* the runs no contract governs, whose broker only observes
          ReadOnly,         \* the runs whose contract's scope has no path to write
          Providers,        \* what config.runtimeProvider and Codify make of the runner
          Files, Listed,    \* Listed: those that snapshotWorkspace does not pass over
          Found,            \* what may be in a workspace at first
          MaxEntries,       \* MAX_ENTRIES: where snapshotWorkspace stops
          MaxWrites,        \* bound: files that a run changes
          MaxFailures       \* bound: engine calls that fail, and crashes

ASSUME NoAgentAssumption == NoAgent \notin Agents
ASSUME ScopeAssumption ==
  Allowed \subseteq Hosts /\ Observed \subseteq Runs /\ ReadOnly \subseteq Runs
ASSUME ProvidersAssumption == Providers \subseteq {"brokered", "plain", "host"}
ASSUME AskersAssumption == Askers \subseteq [Runs -> Principals]
ASSUME FilesAssumption == Listed \subseteq Files /\ Found \subseteq SUBSET Files
ASSUME BoundsAssumption == MaxFailures \in Nat /\ MaxWrites \in Nat /\ MaxEntries \in Nat

VARIABLES provider,
          asker,        \* the principal of each run
          phase,        \* how far each call of run() is
          agent,        \* its Agent
          active,       \* runs with an entry in `active`
          halted,       \* why its entry says it was ended: cancelled or limited
          removal,      \* active.termination
          outcome,      \* what run() came to: a result or an error alike, or cancelled
          evidence,     \* what it published: hosts reached and files written
          before,       \* its first look at the workspace
          cancel,       \* a call of cancel()
          networks, brokers, containers,   \* engine: what exists, by run
          log,          \* its event log: the hosts its broker let it reach
          workspace,    \* by Agent and principal: the files in it
          missed,       \* history: removals that came before the container
          shared,       \* history: runs that overlapped another of their Agent
          changed,      \* history: the files of its workspace a run has itself changed
          cut,          \* history: runs whose workspace was once too large to list
          up, faults, crashes

setting == <<provider, asker>>
local == <<phase, agent, active, halted, removal, outcome, evidence, before>>
engine == <<networks, brokers, containers>>
world == <<log, workspace>>
history == <<missed, shared, changed, cut>>
bounds == <<up, faults, crashes>>
vars == <<setting, local, cancel, engine, world, history, bounds>>

Nothing == [hosts |-> {}, files |-> {}]
NoCancel == [phase |-> "idle", agent |-> NoAgent, targets |-> {}, earlier |-> {}]
Before == {"idle", "preparing", "starting", "network", "ready"}
Working == {"starting", "network", "ready", "live", "closed", "evidence"}
Brokered == provider = "brokered"

TypeOK ==
  /\ provider \in Providers /\ asker \in [Runs -> Principals]
  /\ phase \in [Runs -> Before \cup {"live", "closed", "evidence", "closing", "over"}]
  /\ agent \in [Runs -> Agents \cup {NoAgent}]
  /\ active \subseteq Runs
  /\ halted \in [Runs -> SUBSET {"cancelled", "limited"}]
  /\ removal \in [Runs -> {"none", "asked", "done"}]
  /\ outcome \in [Runs -> {"none", "ended", "cancelled"}]
  /\ evidence \in [Runs -> [hosts : SUBSET Hosts, files : SUBSET Files]]
  /\ before \in [Runs -> SUBSET Files] /\ changed \in [Runs -> SUBSET Files]
  /\ cancel \in [phase : {"idle", "waiting", "returned"}, agent : Agents \cup {NoAgent},
                 targets : SUBSET Runs, earlier : SUBSET Runs]
  /\ networks \subseteq Runs /\ brokers \subseteq Runs /\ containers \subseteq Runs
  /\ log \in [Runs -> SUBSET Hosts]
  /\ workspace \in [Agents \X Principals -> SUBSET Files]
  /\ missed \subseteq Runs /\ shared \subseteq Runs /\ cut \subseteq Runs
  /\ provider = "host" => \A r, x \in active : agent[r] = agent[x] => r = x
  /\ up \in BOOLEAN /\ faults \in 0 .. MaxFailures /\ crashes \in 0 .. MaxFailures

Init ==
  /\ provider \in Providers /\ asker \in Askers
  /\ phase = [r \in Runs |-> "idle"]
  /\ agent = [r \in Runs |-> NoAgent]
  /\ active = {}
  /\ halted = [r \in Runs |-> {}] /\ removal = [r \in Runs |-> "none"]
  /\ outcome = [r \in Runs |-> "none"] /\ evidence = [r \in Runs |-> Nothing]
  /\ before = [r \in Runs |-> {}]
  /\ cancel = NoCancel
  /\ networks = {} /\ brokers = {} /\ containers = {}
  /\ log = [r \in Runs |-> {}]
  /\ workspace \in [Agents \X Principals -> Found]
  /\ missed = {} /\ shared = {} /\ changed = [r \in Runs |-> {}] /\ cut = {}
  /\ up = TRUE /\ faults = 0 /\ crashes = 0

-----------------------------------------------------------------------------
(* The rules of the two runners and of the broker, after the slips.         *)

Place(r) == <<agent[r], asker[r]>>
Mates(r) == {x \in Runs \ {r} : agent[x] = agent[r]}

EnteredByRun(r) == active \cup {r}

\* `active` by run for a container, by Agent for a host process; both runners
\* delete the entry of the Agent, which for containers is none.
Entered(r) == (IF provider = "host" THEN active \ Mates(r) ELSE active) \cup {r}
Deleted(r) == IF provider = "host" THEN active \ (Mates(r) \cup {r}) ELSE active

\* cancel: every entry of the Agent, whoever started its run.
FirstEntryOf(a) ==
  LET of == {r \in active : agent[r] = a} IN IF of = {} THEN {} ELSE {CHOOSE r \in of : TRUE}
EntriesOf(a) == {r \in active : agent[r] = a}

\* hostAllowed: only what the scope names, unless the broker only observes.
Passes(r, h) == r \in Observed \/ h \in Allowed

\* Why a run was ended goes before how its client did, and a cancellation before a limit.
OutcomeOf(r) == IF "cancelled" \in halted[r] THEN "cancelled" ELSE "ended"

\* publishEvidence runs when the client has closed, on the log and on a second look
\* at the workspace.
PublishableEarly(r) == phase[r] \in {"live", "closed", "evidence"}
Publishable(r) == phase[r] = "evidence"

\* start's catch stops the session before run() throws; before start there is none.
LeftByFailedStart(r) == "over"
AfterFailedStart(r) == IF phase[r] = "preparing" THEN "over" ELSE "closing"

\* snapshotWorkspace: the files it does not pass over (ignored directories and names, links,
\* what cannot be read), but no more than MAX_ENTRIES of them; which ones is up to the order
\* in which the file system lists them.
Fits(fs) == Cardinality(fs \cap Listed) <= MaxEntries
Listings(fs) ==
  IF Fits(fs) THEN {fs \cap Listed}
  ELSE {listing \in SUBSET (fs \cap Listed) : Cardinality(listing) = MaxEntries}
CutShort(r) == IF Fits(workspace[Place(r)]) THEN cut ELSE cut \cup {r}

\* diffWorkspace: new or different files, and those that are not there any more.
PathsWritten(r, after) == SymDiff(before[r], after)

\* A host process has no broker to say what it reached.
HostEvidence(r, after) == [hosts |-> {}, files |-> PathsWritten(r, after)]
EvidenceOf(r, after) ==
  IF provider = "host" THEN HostEvidence(r, after)
  ELSE [hosts |-> log[r], files |-> PathsWritten(r, after)]

\* The marks on the entries of `active` that say why their runs were ended.
Halted(rs, why) == [r \in Runs |-> halted[r] \cup IF r \in rs THEN {why} ELSE {}]

\* workspaceMounts: a governed run writes only where its scope says so.
Mounted(r) == ~Brokered \/ r \in Observed \/ r \notin ReadOnly

\* removeContainer keeps its first attempt in `termination`, whatever became of it.
AskIfThere(rs) ==
  [r \in Runs |-> IF r \in rs \cap containers /\ removal[r] = "none" THEN "asked" ELSE removal[r]]
Ask(rs) == [r \in Runs |-> IF r \in rs /\ removal[r] = "none" THEN "asked" ELSE removal[r]]

-----------------------------------------------------------------------------
\* run(): refuses what `active` holds already, then awaits its preparation.
Begin(r, a) ==
  /\ up /\ phase[r] = "idle"
  /\ \A x \in Runs : agent[x] = a /\ asker[x] = asker[r] => phase[x] = "over"
  /\ agent' = [agent EXCEPT ![r] = a]
  /\ IF provider = "host" /\ EntriesOf(a) # {}
     THEN /\ phase' = [phase EXCEPT ![r] = "over"]
          /\ outcome' = [outcome EXCEPT ![r] = "ended"]
     ELSE /\ phase' = [phase EXCEPT ![r] = IF provider = "plain" THEN "ready" ELSE "preparing"]
          /\ UNCHANGED outcome
  /\ UNCHANGED <<setting, active, halted, removal, evidence, before, cancel, engine, world,
                 history, bounds>>

\* The Codex home, the mount points and the first look at the workspace.
Prepare(r) ==
  /\ up /\ phase[r] = "preparing"
  /\ \E listing \in Listings(workspace[Place(r)]) : before' = [before EXCEPT ![r] = listing]
  /\ cut' = CutShort(r)
  /\ LET overlapping == {x \in Mates(r) : phase[x] \in Working \/ x \in containers}
     IN shared' = IF overlapping = {} THEN shared ELSE shared \cup overlapping \cup {r}
  /\ phase' = [phase EXCEPT ![r] = IF Brokered THEN "starting" ELSE "ready"]
  /\ UNCHANGED <<setting, agent, active, halted, removal, outcome, evidence, cancel,
                 engine, world, missed, changed, bounds>>

\* BrokerSession.start: the network, the broker on it, its way out and its first event.
StartBroker(r) ==
  /\ up
  /\ \/ /\ phase[r] = "starting"
        /\ networks' = networks \cup {r} /\ UNCHANGED brokers
        /\ phase' = [phase EXCEPT ![r] = "network"]
     \/ /\ phase[r] = "network"
        /\ brokers' = brokers \cup {r} /\ UNCHANGED networks
        /\ phase' = [phase EXCEPT ![r] = "ready"]
  /\ UNCHANGED <<setting, agent, active, halted, removal, outcome, evidence, before,
                 cancel, containers, world, history, bounds>>

\* One of them fails, or the broker does not report within the deadline: no run
\* without a broker. So does the preparation, for a container.
StartFails(r) ==
  /\ up /\ Brokered /\ phase[r] \in {"preparing", "starting", "network"}
  /\ phase' = [phase EXCEPT ![r] = AfterFailedStart(r)]
  /\ outcome' = [outcome EXCEPT ![r] = "ended"]
  /\ before' = [before EXCEPT ![r] = {}]
  /\ \/ UNCHANGED brokers
     \/ phase[r] = "network" /\ brokers' = brokers \cup {r}
  /\ UNCHANGED <<setting, agent, active, halted, removal, evidence, cancel,
                 networks, containers, world, history, bounds>>

\* execute: the client is spawned and entered in `active`.
Spawn(r) ==
  /\ up /\ phase[r] = "ready"
  /\ phase' = [phase EXCEPT ![r] = "live"]
  /\ active' = Entered(r)
  /\ containers' = IF provider = "host" THEN containers \cup {r} ELSE containers
  /\ UNCHANGED <<setting, agent, halted, removal, outcome, evidence, before, cancel,
                 networks, brokers, world, history, bounds>>

\* The engine creates the container, on the internal network of its run.
Create(r) ==
  /\ phase[r] = "live" /\ r \notin containers /\ provider # "host"
  /\ Brokered => r \in networks
  /\ containers' = containers \cup {r}
  /\ UNCHANGED <<setting, local, cancel, networks, brokers, world, history, bounds>>

-----------------------------------------------------------------------------
\* What runs in the container asks its broker for a host, which records it and lets it
\* through; a refusal changes nothing that is modelled.
Request(r, h) ==
  /\ Brokered /\ r \in containers \cap brokers
  /\ Passes(r, h)
  /\ log' = [log EXCEPT ![r] = @ \cup {h}]
  /\ UNCHANGED <<setting, local, cancel, engine, workspace, history, bounds>>

\* What runs in the container makes, rewrites or deletes a file, or undoes that.
Write(r) ==
  /\ r \in containers /\ Mounted(r)
  /\ \E f \in Files :
       /\ Cardinality(changed[r] \cup {f}) <= MaxWrites
       /\ workspace' = [workspace EXCEPT ![Place(r)] = SymDiff(@, {f})]
       /\ changed' = [changed EXCEPT ![r] = SymDiff(@, {f})]
  /\ UNCHANGED <<setting, local, cancel, engine, log, missed, shared, cut, bounds>>

\* The process ends by itself, and its client with it; or the client cannot start it.
Exit(r) ==
  /\ up /\ phase[r] = "live"
  /\ containers' = containers \ {r}
  /\ outcome' = [outcome EXCEPT ![r] = OutcomeOf(r)]
  /\ phase' = [phase EXCEPT ![r] = "closed"]
  /\ UNCHANGED <<setting, agent, active, halted, removal, evidence, before, cancel,
                 networks, brokers, world, history, bounds>>

\* A container that was left behind ends.
ExitOrphaned(r) ==
  /\ r \in containers /\ phase[r] # "live"
  /\ containers' = containers \ {r}
  /\ UNCHANGED <<setting, local, cancel, networks, brokers, world, history, bounds>>

\* The time limit, which passes for every run that lasts, or the output limit.
Limit(r) ==
  /\ up /\ phase[r] = "live" /\ "limited" \notin halted[r]
  /\ halted' = Halted({r}, "limited")
  /\ removal' = Ask({r})
  /\ UNCHANGED <<setting, phase, agent, active, outcome, evidence, before, cancel,
                 engine, world, history, bounds>>

\* removeContainer, asked once: `rm --force` ends the container and its client. Before
\* the container exists it finds nothing, and may report that as a success.
Remove(r) ==
  /\ up /\ removal[r] = "asked"
  /\ removal' = [removal EXCEPT ![r] = "done"]
  /\ containers' = containers \ {r}
  /\ missed' = IF phase[r] = "live" /\ r \notin containers THEN missed \cup {r} ELSE missed
  /\ IF phase[r] = "live" /\ r \in containers
     THEN /\ phase' = [phase EXCEPT ![r] = "closed"]
          /\ outcome' = [outcome EXCEPT ![r] = OutcomeOf(r)]
     ELSE UNCHANGED <<phase, outcome>>
  /\ UNCHANGED <<setting, agent, active, halted, evidence, before, cancel, networks,
                 brokers, world, shared, changed, cut, bounds>>

\* `rm` reports an error, also because there is no container yet: the client is killed,
\* and a container that exists may go on without it.
RemoveFails(r) ==
  /\ up /\ removal[r] = "asked" /\ phase[r] = "live" /\ provider # "host"
  /\ IF r \in containers
     THEN /\ faults + crashes < MaxFailures /\ faults' = faults + 1
          /\ containers' \in {containers, containers \ {r}}
     ELSE UNCHANGED <<faults, containers>>
  /\ removal' = [removal EXCEPT ![r] = "done"]
  /\ phase' = [phase EXCEPT ![r] = "closed"]
  /\ outcome' = [outcome EXCEPT ![r] = OutcomeOf(r)]
  /\ UNCHANGED <<setting, agent, active, halted, evidence, before, cancel, networks,
                 brokers, world, history, up, crashes>>

-----------------------------------------------------------------------------
\* The inner `finally`. What the run had set aside for itself is of no more use.
Settle(r) ==
  /\ up /\ phase[r] = "closed"
  /\ active' = Deleted(r)
  /\ halted' = [halted EXCEPT ![r] = {}]
  /\ phase' = [phase EXCEPT ![r] = IF provider = "plain" THEN "over" ELSE "evidence"]
  /\ UNCHANGED <<setting, agent, removal, outcome, evidence, before, cancel,
                 engine, world, history, bounds>>

Publish(r) ==
  /\ up /\ Publishable(r)
  /\ \E listing \in Listings(workspace[Place(r)]) :
       evidence' = [evidence EXCEPT ![r] = EvidenceOf(r, listing)]
  /\ cut' = CutShort(r)
  /\ phase' = [phase EXCEPT ![r] = IF Brokered THEN "closing" ELSE "over"]
  /\ before' = [before EXCEPT ![r] = {}]
  /\ UNCHANGED <<setting, agent, active, halted, removal, outcome, cancel,
                 engine, world, missed, shared, changed, bounds>>

\* session.stop and cleanupEvidence; an engine call that fails is ignored, and a
\* network that a container is attached to is not removed.
StopBroker(r) ==
  /\ up /\ phase[r] = "closing"
  /\ \/ /\ brokers' = brokers \ {r}
        /\ networks' = IF r \in containers THEN networks ELSE networks \ {r}
        /\ UNCHANGED faults
     \/ /\ faults + crashes < MaxFailures /\ faults' = faults + 1
        /\ \/ brokers' = brokers /\ UNCHANGED networks
           \/ brokers' = brokers \ {r} /\ UNCHANGED networks
  /\ phase' = [phase EXCEPT ![r] = "over"]
  /\ UNCHANGED <<setting, agent, active, halted, removal, outcome, evidence, before,
                 cancel, containers, world, history, up, crashes>>

-----------------------------------------------------------------------------
\* cancel(): false when there is no entry; else every entry is ended and awaited.
Cancel(a) ==
  /\ up /\ cancel.phase = "idle"
  /\ LET targets == EntriesOf(a)
     IN /\ halted' = Halted(targets, "cancelled")
        /\ removal' = Ask({r \in targets : provider # "host" \/ phase[r] = "live"})
        /\ cancel' = [phase |-> IF targets = {} THEN "returned" ELSE "waiting", agent |-> a,
                      targets |-> targets,
                      earlier |-> {r \in Runs : agent[r] = a /\ phase[r] = "live"}]
  /\ UNCHANGED <<setting, phase, agent, active, outcome, evidence, before, engine,
                 world, history, bounds>>

CancelReturns ==
  /\ up /\ cancel.phase = "waiting"
  /\ \A r \in cancel.targets : phase[r] # "live" /\ removal[r] # "asked"
  /\ cancel' = [cancel EXCEPT !.phase = "returned"]
  /\ UNCHANGED <<setting, local, engine, world, history, bounds>>

\* The process dies; containers and brokers do not.
Crash ==
  /\ up /\ faults + crashes < MaxFailures
  /\ up' = FALSE /\ crashes' = crashes + 1
  /\ phase' = [r \in Runs |-> IF phase[r] = "idle" THEN "idle" ELSE "over"]
  /\ active' = {} /\ cancel' = NoCancel
  /\ halted' = [r \in Runs |-> {}] /\ before' = [r \in Runs |-> {}]
  /\ removal' = [r \in Runs |-> IF phase[r] = "idle" THEN "none" ELSE "done"]
  /\ UNCHANGED <<setting, agent, outcome, evidence, engine, world, history, faults>>

\* reapOrphanedBrokers: brokers first, then the networks no container is attached to.
ReapNetworksOnly == [brokers |-> brokers, networks |-> networks \cap containers]
Reap == [brokers |-> {}, networks |-> networks \cap containers]

Restart ==
  /\ ~up /\ up' = TRUE
  /\ IF Brokered
     THEN brokers' = Reap.brokers /\ networks' = Reap.networks
     ELSE UNCHANGED <<brokers, networks>>
  /\ UNCHANGED <<setting, local, cancel, containers, world, history, faults, crashes>>

-----------------------------------------------------------------------------
Finished == up /\ (\A r \in Runs : phase[r] = "over") /\ UNCHANGED vars

RunStep(r) ==
  \/ Prepare(r) \/ StartBroker(r) \/ Spawn(r) \/ Create(r) \/ Limit(r)
  \/ Remove(r) \/ Settle(r) \/ Publish(r) \/ StopBroker(r)

Next ==
  \/ \E r \in Runs :
       \/ RunStep(r) \/ StartFails(r) \/ Write(r) \/ Exit(r) \/ ExitOrphaned(r)
       \/ RemoveFails(r)
       \/ \E h \in Hosts : Request(r, h)
       \/ \E a \in Agents : Begin(r, a)
  \/ (\E a \in Agents : Cancel(a)) \/ CancelReturns
  \/ Crash \/ Restart \/ Finished

Spec == Init /\ [][Next]_vars

\* Something that is under way goes on: the code, the engine's answers, the timers. Codex
\* need not end by itself.
FairSpec == Spec /\ WF_vars(CancelReturns \/ \E r \in Runs : RunStep(r))

-----------------------------------------------------------------------------
\* The evidence of a run that is over, from which contracts are derived: every host its
\* broker let it reach, and of the files that snapshotWorkspace lists exactly those the run
\* itself has left changed, none that another run or an earlier one left there. For the files
\* that holds when all that should be listed could be, before and after (MAX_ENTRIES); for
\* both unless the engine refused or the process died, and a container went on by itself.
EvidenceIsComplete ==
  crashes = 0 /\ faults = 0 /\ provider # "plain" =>
    \A r \in Runs :
      phase[r] \in {"closing", "over"} /\ agent[r] # NoAgent =>
        /\ evidence[r].hosts = log[r]
        /\ r \notin cut => evidence[r].files = changed[r] \cap Listed

\* A run that is over has left no broker, and without a crash no network and no container:
\* also when its start failed, and also after a restart, unless the engine refused.
NothingLeftBehind ==
  \A r \in Runs :
    up /\ faults = 0 /\ phase[r] = "over" =>
      /\ r \notin brokers
      /\ crashes = 0 => r \notin networks \cup containers

\* When cancel() returns, no run that was live when it was called still is, and none of
\* them reports anything but that it was cancelled. A host process is out of reach once
\* another run of its Agent has taken its entry.
CancelReaches ==
  cancel.phase = "returned" =>
    \A r \in cancel.earlier :
      \/ phase[r] # "live" /\ outcome[r] = "cancelled"
      \/ provider = "host" /\ r \in shared

\* Again and again every run has ended, by its time limit at the latest, and every cancel()
\* has returned; except that a removal which came before the container was there is
\* remembered as done and never repeated, so that neither the limit nor a cancellation
\* ends that run any more.
Quiet ==
  /\ \A r \in Runs \ missed : phase[r] \in {"idle", "over"}
  /\ cancel.phase = "waiting" => cancel.targets \cap missed # {}
RunsEnd == []<>Quiet
=============================================================================
